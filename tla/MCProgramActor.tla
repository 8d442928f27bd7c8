--------------------------- MODULE MCProgramActor ---------------------------
(***************************************************************************)
(* Instances of ProgramActor for TLC.                                      *)
(***************************************************************************)
EXTENDS ProgramActorContract, TLC

\* A program without a probe, under each restart policy, with hooks that may
\* fail the start.
PlainConfigs ==
    {c \in ConfigType : /\ ~c.health_check
                        /\ c.pre_start = c.pre_stop
                        /\ c.pre_start_ignore_failure => c.pre_start}

\* A program with a health probe.
ProbedConfigs ==
    {c \in ConfigType : /\ c.health_check /\ ~c.pre_stop
                        /\ ~c.pre_start_ignore_failure
                        /\ ~c.pre_start}

\* A probed program without hooks, for the liveness properties.
LivenessConfigs ==
    {c \in ConfigType : /\ c.autorestart = "Unexpected" /\ c.start_secs
                        /\ ~c.pre_start_ignore_failure /\ ~c.pre_start
                        /\ ~c.pre_stop /\ c.health_check}

=============================================================================
