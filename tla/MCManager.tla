----------------------------- MODULE MCManager ------------------------------
(***************************************************************************)
(* Instances of Manager for TLC.                                           *)
(***************************************************************************)
EXTENDS Manager, TLC

Prog(group, deps, prio, v) ==
    [group |-> group, autostart |-> TRUE, depends_on |-> deps, priority |-> prio,
     cron |-> FALSE, cron_stop |-> FALSE, valid |-> TRUE, v |-> v]

Manual(c)  == [c EXCEPT !.autostart = FALSE]
Invalid(c) == [c EXCEPT !.valid = FALSE]
Cron(c)    == [c EXCEPT !.cron = TRUE, !.cron_stop = TRUE]

All(op) == [op |-> op, arg |-> 0]

\* Reloads: 2 depends on 1.  The second file changes 1, drops 2 and adds 3;
\* the third changes 2 into a program that is started by hand.
ReloadGens ==
    << 1 :> Prog(1, <<>>, 5, 1) @@ 2 :> Prog(2, <<1>>, 5, 1),
       1 :> Prog(1, <<>>, 5, 2) @@ 3 :> Prog(3, <<1>>, 5, 1),
       1 :> Prog(1, <<>>, 5, 1) @@ 2 :> Manual(Prog(2, <<1>>, 5, 2)) >>
ReloadCommands ==
    {All("StartAll")} \cup [op : {"Reload"}, arg : 1 .. 3]
        \cup [op : {"RestartDaemon"}, arg : {2}]

\* Groups and bulk commands: 1 alone, 2 and 3 in group 9, in a chain of
\* dependencies; 3 has cron schedules.  The second file is cyclic, the third
\* has an invalid member.
GroupGens ==
    << 1 :> Prog(1, <<>>, 5, 1) @@ 2 :> Prog(9, <<1>>, 5, 1)
           @@ 3 :> Cron(Manual(Prog(9, <<2>>, 5, 1))),
       1 :> Prog(1, <<2>>, 5, 1) @@ 2 :> Prog(9, <<1>>, 5, 1),
       1 :> Prog(1, <<>>, 5, 1) @@ 2 :> Invalid(Prog(9, <<1>>, 5, 2)) >>
GroupCommands ==
    {All("StartAll"), All("StopAll"), All("Shutdown")}
        \cup [op : {"Reload"}, arg : {2, 3}]
        \cup [op : {"RestartDaemon"}, arg : {1, 3}]
        \cup [op : {"AddGroup", "RemoveGroup"}, arg : {1, 9}]
        \cup [op : {"StartGroup", "StopGroup"}, arg : {9}]

\* Every verb on one program, on the members of a group and on nothing, cron
\* jobs, a group that goes and comes, and a reload or a daemon restart that
\* replaces and removes.
LiveGens ==
    << 1 :> Prog(9, <<>>, 5, 1) @@ 2 :> Prog(9, <<1>>, 5, 1),
       1 :> Cron(Prog(9, <<>>, 5, 2)) >>
LiveCommands ==
    {All("StartAll"), All("StopAll"), All("Shutdown")}
        \cup [op : {"Reload", "RestartDaemon"}, arg : {2}]
        \cup [op : {"AddGroup", "RemoveGroup"}, arg : {9}]
        \cup [op : {"StartProgram", "StopProgram", "SignalProgram"}, arg : {1}]
        \cup [op : {"StopProgram"}, arg : {7, 9}]
        \cup [op : {"RestartProgram", "StartGroup", "StopGroup", "RestartGroup"}, arg : {9}]

\* A graph that cannot be rebuilt: 3 is removed and, when 1 is gone as well,
\* 2 depends on nothing that exists.
StaleGens ==
    << 1 :> Prog(1, <<>>, 5, 1) @@ 2 :> Prog(2, <<1>>, 5, 1)
           @@ 3 :> Prog(3, <<>>, 5, 1) >>
StaleCommands ==
    {All("StopAll")} \cup [op : {"RemoveGroup"}, arg : {1, 3}]
        \cup [op : {"AddGroup"}, arg : {3}]

\* The hypothesis of the theorems of ManagerProofs holds of every instance.
ASSUME FilesKeepGroups == StableGroups
=============================================================================
