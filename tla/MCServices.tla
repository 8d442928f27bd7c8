----------------------------- MODULE MCServices -----------------------------
(***************************************************************************)
(* An instance of Services for TLC: two programs and their files, two      *)
(* lives of the daemon, two callers of send_stdin.  As in MCStreams `part' *)
(* names the component that moves.                                         *)
(***************************************************************************)
EXTENDS Services

VARIABLE part

-----------------------------------------------------------------------------
\* An executable, and a file deep in the other program's monitored directory.
WatchedFiles == {[dir |-> "bin", nested |-> FALSE, bin |-> "a"],
              [dir |-> "conf", nested |-> TRUE, bin |-> "none"]}
OnBinary  == [binary |-> "bin", monitor |-> "none", on_binary |-> "restart", on_file |-> "none"]
OnConf    == [binary |-> "none", monitor |-> "conf", on_binary |-> "none", on_file |-> "signal"]
OnBoth    == [binary |-> "bin", monitor |-> "conf",
              on_binary |-> "signal", on_file |-> "cmd"]
Unwatched == [binary |-> "none", monitor |-> "none", on_binary |-> "none", on_file |-> "none"]
WatchConfigs == {[a |-> OnBinary, b |-> OnConf], [a |-> OnBoth, b |-> Unwatched],
                 [a |-> Unwatched, b |-> Unwatched]}

-----------------------------------------------------------------------------
MCInit ==
    /\ part \in {"watch", "daemon", "stdin"}
    /\ part # "watch" => configs = [p \in Programs |-> Unwatched]
    /\ Init

MCNext ==
    /\ UNCHANGED part
    /\ \/ part = "watch" /\ WatchStep
       \/ part = "daemon" /\ DaemonStep
       \/ part = "stdin" /\ StdinStep

\* The fairness of the parts, see there.
Fairness ==
    /\ WF_watchVars(part = "watch" /\ Watcher!Service)
    /\ WF_watchVars(part = "watch" /\ Watcher!Tick)
    /\ WF_watchVars(part = "watch" /\ Watcher!CommandEnds)
    /\ WF_watchVars(part = "watch" /\ Watcher!ManagerAnswers)
    /\ WF_watchVars(part = "watch" /\ Watcher!Dispatch)
    /\ WF_daemonVars(part = "daemon" /\ Process!MainTask)
    /\ WF_daemonVars(part = "daemon" /\ Process!ManagerTask)
    /\ WF_daemonVars(part = "daemon" /\ Process!ServerTask)
    /\ WF_daemonVars(part = "daemon" /\ Process!ApiShutdownAnswered)

FairSpec == MCInit /\ [][MCNext]_<<part, vars>> /\ Fairness
=============================================================================
