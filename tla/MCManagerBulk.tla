--------------------------- MODULE MCManagerBulk ----------------------------
(***************************************************************************)
(* Two instances of Manager side by side: reloads of programs with probes  *)
(* and calls that time out, and the bulk and group commands with cron      *)
(* schedules.  The constants of Manager itself are those of the first.     *)
(***************************************************************************)
EXTENDS MCManager

VARIABLE suite      \* "reload" or "groups"

Groups == INSTANCE Manager WITH Gens <- GroupGens, Commands <- GroupCommands,
                                Probed <- {}, Timeouts <- FALSE

ASSUME GroupFilesKeepGroups == Groups!StableGroups

BulkInit ==
    \/ suite = "reload" /\ Init
    \/ suite = "groups" /\ Groups!Init

BulkNext ==
    /\ UNCHANGED suite
    /\ \/ suite = "reload" /\ Next
       \/ suite = "groups" /\ Groups!Next

BulkSpec == BulkInit /\ [][BulkNext]_<<vars, suite>>

-----------------------------------------------------------------------------
\* stop_all, shutdown and a restart of the daemon stop a program only when no
\* program that depends on it is up; the programs of this suite have no probe.
StopOrder == [][suite = "groups" => StopsInOrder]_<<vars, suite>>
=============================================================================
