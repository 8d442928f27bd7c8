-------------------------------- MODULE Watch --------------------------------
(***************************************************************************)
(* The watch service: file changes become debounced triggers that restart  *)
(* or signal a program through the manager, while the manager sends new    *)
(* configurations through a bounded channel.  The service's loop polls in  *)
(* a fixed order (biased): expired triggers, file events, configurations.  *)
(***************************************************************************)
EXTENDS Integers, FiniteSets, Sequences, SequencesExt

CONSTANTS
    Programs,
    Files,          \* [dir, nested, bin]: bin is the program whose executable has that name
    ConfigSets,     \* what a reload may load: functions from programs to watch settings
    Debounce,       \* restart_debounce_secs, in ticks
    RetryDelay,     \* SHORT_RETRY_DELAY, in ticks
    MaxChecks,      \* looks at an unreadable executable (5)
    ChannelSize,    \* WATCH_RELOAD_CHANNEL_CAPACITY
    MaxChanges, MaxReloads  \* bounds

VARIABLES
    configs,        \* the manager's configurations; NotWatched, or no such program
    manager,        \* "free", or "updating": in update_configs
    channel,        \* the reload channel
    rules,          \* the service's configurations
    watched,        \* watched[d]: "no", "flat" or "deep"
    events,         \* file events not handled yet
    content,        \* content[f]: "absent", "partial" or "whole"
    pending,        \* pending[p]: the PendingTrigger of p, or NoTrigger
    batch,          \* due triggers still to be handled in this round
    exec,           \* the trigger being executed, or NoTrigger
    asked,          \* what the trigger waits for: "no", "signal" or "restart"
    quiet,          \* history: ticks since an event of p was handled
    stale,          \* history: the last update was dropped
    changes, reloads

mgrVars  == <<configs, manager, channel, stale, reloads>>
fileVars == <<events, content, changes>>
vars == <<mgrVars, fileVars, rules, watched, pending, batch, exec, asked, quiet>>

NoTrigger  == [left |-> -1]
NoDir      == "none"
Absent     == [binary |-> NoDir, monitor |-> NoDir, on_binary |-> "none", on_file |-> "none"]
Dirs       == {f.dir : f \in Files}
Idle       == exec = NoTrigger /\ batch = {}
Due        == {p \in Programs : pending[p] # NoTrigger /\ pending[p].left = 0}

\* matches_rule: the file name of the executable, wherever it is; any file below
\* the monitored directory.
BinaryMatches(p, f)    == rules[p].binary # NoDir /\ f.bin = p
DirectoryMatches(p, f) == rules[p].monitor # NoDir /\ f.dir = rules[p].monitor

\* sync_watcher: the directories the rules ask for, with the mode.
Targets(r) ==
    {<<r[p].binary, "flat">> : p \in {q \in Programs : r[q].binary # NoDir}}
        \cup {<<r[p].monitor, "deep">> : p \in {q \in Programs : r[q].monitor # NoDir}}

\* A directory that is watched already keeps its mode; of two modes for a new
\* one the set's order decides.
SyncWatcher(old, r, new) ==
    /\ new \in [Dirs -> {"no", "flat", "deep"}]
    /\ \A d \in Dirs :
          LET modes == {m \in {"flat", "deep"} : <<d, m>> \in Targets(r)} IN
          IF modes = {} THEN new[d] = "no"
          ELSE IF old[d] # "no" THEN new[d] = old[d] ELSE new[d] \in modes

Init ==
    /\ configs \in ConfigSets /\ rules = configs
    /\ manager = "free" /\ channel = <<>> /\ stale = FALSE /\ reloads = 0
    /\ SyncWatcher([d \in Dirs |-> "no"], configs, watched)
    /\ events = <<>> /\ content = [f \in Files |-> "whole"] /\ changes = 0
    /\ pending = [p \in Programs |-> NoTrigger] /\ batch = {}
    /\ exec = NoTrigger /\ asked = "no" /\ quiet = [p \in Programs |-> 0]

-----------------------------------------------------------------------------
(* The files, and time.                                                    *)

FileChanges(f, c) ==
    /\ changes < MaxChanges /\ changes' = changes + 1
    /\ content' = [content EXCEPT ![f] = c]
    /\ events' = IF watched[f.dir] = "deep" \/ (watched[f.dir] = "flat" /\ ~f.nested)
                 THEN Append(events, f) ELSE events
    /\ UNCHANGED <<mgrVars, rules, watched, pending, batch, exec, asked, quiet>>

Tick ==
    /\ \E p \in Programs : pending[p] # NoTrigger /\ pending[p].left > 0
    /\ pending' = [p \in Programs |->
                      IF pending[p] # NoTrigger /\ pending[p].left > 0
                      THEN [pending[p] EXCEPT !.left = @ - 1] ELSE pending[p]]
    /\ quiet' = [p \in Programs |-> IF quiet[p] < Debounce THEN quiet[p] + 1 ELSE quiet[p]]
    /\ UNCHANGED <<mgrVars, fileVars, rules, watched, batch, exec, asked>>

-----------------------------------------------------------------------------
(* The service's loop.                                                     *)

\* A trigger made by a change of f (the executable's rule comes first), and a
\* trigger that is pending already, extended: it keeps its action.
NewTrigger(p, f) ==
    [left |-> Debounce, prog |-> p, target |-> f, is_binary |-> BinaryMatches(p, f),
     action |-> IF BinaryMatches(p, f) THEN rules[p].on_binary ELSE rules[p].on_file,
     checks |-> 0]

Extended(t, f) == [t EXCEPT !.left = Debounce, !.target = f]

\* Fault: a further change does not extend the deadline.
HandleEventKeepsDeadline ==
    LET f == Head(events) IN
    /\ Idle /\ Due = {} /\ events # <<>> /\ events' = Tail(events)
    /\ \E hit \in {{p \in Programs : BinaryMatches(p, f) \/ DirectoryMatches(p, f)}} :
          /\ pending' = [p \in Programs |->
                IF p \notin hit THEN pending[p]
                ELSE IF pending[p] = NoTrigger THEN NewTrigger(p, f)
                ELSE [pending[p] EXCEPT !.target = f]]
          /\ quiet' = [p \in Programs |-> IF p \in hit THEN 0 ELSE quiet[p]]
    /\ UNCHANGED <<mgrVars, content, changes, rules, watched, batch, exec, asked>>

HandleEvent ==
    LET f == Head(events) IN
    /\ Idle /\ Due = {} /\ events # <<>> /\ events' = Tail(events)
    /\ \E hit \in {{p \in Programs : BinaryMatches(p, f) \/ DirectoryMatches(p, f)}} :
          /\ pending' = [p \in Programs |->
                IF p \notin hit THEN pending[p]
                ELSE IF pending[p] = NoTrigger THEN NewTrigger(p, f)
                ELSE Extended(pending[p], f)]
          /\ quiet' = [p \in Programs |-> IF p \in hit THEN 0 ELSE quiet[p]]
    /\ UNCHANGED <<mgrVars, content, changes, rules, watched, batch, exec, asked>>

DeadlineExpires ==
    /\ Idle /\ Due # {} /\ batch' = Due
    /\ UNCHANGED <<mgrVars, fileVars, rules, watched, pending, exec, asked, quiet>>

Unreadable(t) == t.is_binary /\ content[t.target] = "partial"

\* A due trigger: an executable that is being written is looked at again later;
\* otherwise execute_trigger.
HandleDue(p) ==
    LET t == pending[p] IN
    /\ exec = NoTrigger /\ p \in batch /\ batch' = batch \ {p}
    /\ IF Unreadable(t) /\ t.checks < MaxChecks
       THEN /\ pending' = [pending EXCEPT ![p].checks = @ + 1, ![p].left = RetryDelay]
            /\ UNCHANGED <<exec, asked>>
       ELSE /\ pending' = [pending EXCEPT ![p] = NoTrigger]
            /\ exec' = t /\ asked' = IF t.action = "cmd" THEN "no" ELSE t.action
    /\ UNCHANGED <<mgrVars, fileVars, rules, watched, quiet>>

\* The custom command ends or is given up after WATCH_CUSTOM_CMD_TIMEOUT.
CommandEnds ==
    /\ exec # NoTrigger /\ exec.action = "cmd" /\ exec' = NoTrigger
    /\ UNCHANGED <<mgrVars, fileVars, rules, watched, pending, batch, asked, quiet>>

\* The manager answers; after a signal that failed the program is restarted.
ManagerAnswers ==
    /\ manager = "free" /\ asked # "no"
    /\ \/ /\ asked' = "no" /\ exec' = NoTrigger
          /\ asked = "signal" => configs[exec.prog] # Absent
       \/ asked = "signal" /\ asked' = "restart" /\ UNCHANGED exec
    /\ UNCHANGED <<mgrVars, fileVars, rules, watched, pending, batch, quiet>>

HandleReload ==
    /\ Idle /\ Due = {} /\ events = <<>> /\ channel # <<>>
    /\ rules' = Head(channel) /\ channel' = Tail(channel)
    /\ SyncWatcher(watched, rules', watched')
    /\ UNCHANGED <<configs, manager, stale, reloads, fileVars, pending, batch, exec, asked, quiet>>

-----------------------------------------------------------------------------
(* update_configs, in the manager's loop.                                  *)

ManagerReloads(c) ==
    /\ manager = "free" /\ manager' = "updating"
    /\ reloads < MaxReloads /\ reloads' = reloads + 1 /\ configs' = c
    /\ UNCHANGED <<channel, stale, fileVars, rules, watched, pending, batch, exec, asked, quiet>>

\* Fault: the manager waits until the service takes the update.
DispatchWaits ==
    /\ manager = "updating" /\ Len(channel) < ChannelSize
    /\ manager' = "free" /\ channel' = Append(channel, configs) /\ stale' = FALSE
    /\ UNCHANGED <<configs, reloads, fileVars, rules, watched, pending, batch, exec, asked, quiet>>

\* The update is dispatched, or dropped when the channel stays full for
\* WATCH_RELOAD_DISPATCH_TIMEOUT.
Dispatch ==
    /\ manager = "updating" /\ manager' = "free"
    /\ IF Len(channel) < ChannelSize
       THEN channel' = Append(channel, configs) /\ stale' = FALSE
       ELSE UNCHANGED channel /\ stale' = TRUE
    /\ UNCHANGED <<configs, reloads, fileVars, rules, watched, pending, batch, exec, asked, quiet>>

Service == HandleEvent \/ DeadlineExpires \/ (\E p \in Programs : HandleDue(p)) \/ HandleReload

Next ==
    \/ \E f \in Files, c \in {"absent", "partial", "whole"} : FileChanges(f, c)
    \/ Tick \/ Service \/ CommandEnds \/ ManagerAnswers
    \/ (\E c \in ConfigSets : ManagerReloads(c)) \/ Dispatch

Spec == Init /\ [][Next]_vars

\* The runtime polls the service and the manager; time passes; a custom command
\* is bounded by a timeout.
Fairness ==
    /\ WF_vars(Service) /\ WF_vars(Tick) /\ WF_vars(CommandEnds)
    /\ WF_vars(ManagerAnswers) /\ WF_vars(Dispatch)

FairSpec == Spec /\ Fairness

-----------------------------------------------------------------------------
(* Properties.                                                             *)

\* Settled before a restart (DESIGN.md 18, "Settling Window Coalescing"): a
\* trigger is executed only when the whole debounce time has passed since the
\* last change of its files that the service has seen, and never while the
\* executable is being written, unless it stayed so for all the looks allowed.
Settled ==
    [][\A p \in Programs :
          exec = NoTrigger /\ exec' # NoTrigger /\ exec'.prog = p =>
              /\ quiet[p] >= Debounce
              /\ Unreadable(exec') => exec'.checks >= MaxChecks]_vars

\* Nothing gets stuck (execute_trigger against update_configs): a trigger that
\* is pending, or being executed through the manager, is over some day, and so
\* is the manager's update, although each may be waiting for the other; and
\* unless the last update was dropped, the service ends with the rules of the
\* manager's configurations.
WatchProgress ==
    /\ \A p \in Programs : pending[p] # NoTrigger ~> pending[p] = NoTrigger
    /\ exec # NoTrigger ~> exec = NoTrigger
    /\ manager = "updating" ~> manager = "free"
    /\ <>[](stale \/ rules = configs)
=============================================================================
