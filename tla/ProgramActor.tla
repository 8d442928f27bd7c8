---------------------------- MODULE ProgramActor ----------------------------
(***************************************************************************)
(* One supervised OS process: the actor task `ProgramActor::run`, the      *)
(* `ProcessProgram` handle its caller holds, the health probe task of the  *)
(* current child and the OS processes themselves.                          *)
(*                                                                         *)
(* A handler of the actor is split at its await points: `pc` says where    *)
(* the actor is suspended and `cur` which branch of the select loop        *)
(* (command or internal event) it is serving.  Timers fire at any moment   *)
(* after they are armed, processes end at any moment, and every fallible   *)
(* call may fail.  A process, its pid, its stdin channel and its probe are *)
(* all identified by the number of the spawn that created them.            *)
(***************************************************************************)
EXTENDS Naturals, Sequences, FiniteSets

CONSTANTS
    Configs,            \* the program configurations to consider
    StartRetries,       \* config.start_retries
    FailureThreshold,   \* config.health_check.failure_threshold
    MailboxCap,         \* capacity of the command channel (32 in the code)
    HealthCap,          \* capacity of the health channel (16 in the code)
    MaxSpawns           \* bound: processes created in one behaviour

\* The part of a ProgramConfig the control flow depends on.
ConfigType ==
    [health_check : BOOLEAN,            \* a health probe is configured
     autorestart  : {"Always", "Unexpected", "Never"},
     start_secs   : BOOLEAN,            \* start_secs is not zero
     pre_start    : BOOLEAN,
     pre_start_ignore_failure : BOOLEAN,
     pre_stop     : BOOLEAN]

ASSUME ConfigsAssumption == Configs \subseteq ConfigType
ASSUME BoundsAssumption ==
    /\ StartRetries \in Nat
    /\ FailureThreshold \in Nat
    /\ MailboxCap \in Nat \ {0}
    /\ HealthCap \in Nat \ {0}
    /\ MaxSpawns \in Nat

Spawns == 1..MaxSpawns
None   == 0

VARIABLES
    config,
    \* fields of ProgramActor, and the locals of run() that survive an await
    pc, cur, current_child, child_info, marked_running, retry_count,
    manual_stop, is_shutting_down, backoff_deadline, start_deadline, spawn_seq,
    \* shared with the handle
    status, stdin_tx,
    \* the handle and its serial caller
    command_rx, call, cancel_token,
    \* the health probe task and its channel
    probe, health_rx,
    \* the operating system
    proc

controlVars == <<pc, cur>>
childVars   == <<current_child, child_info, marked_running, spawn_seq>>
flagVars    == <<retry_count, manual_stop, is_shutting_down>>
timerVars   == <<backoff_deadline, start_deadline>>
sharedVars  == <<status, stdin_tx>>
handleVars  == <<command_rx, call, cancel_token>>
probeVars   == <<probe, health_rx>>
vars == <<config, controlVars, childVars, flagVars, timerVars, sharedVars,
          handleVars, probeVars, proc>>

-----------------------------------------------------------------------------
(* Types.                                                                  *)

ProgramCommand == {"Start", "Stop", "Restart", "Signal", "Shutdown"}

\* What the actor is serving: a command, or an internal branch of the select.
Trigger == ProgramCommand \cup {"None", "Cancel", "Health", "Backoff", "Autorestart"}

ProgramState ==
    {"Stopped", "Starting", "Running", "Backoff", "Stopping", "Exited", "Fatal"}

HealthStatus == {"None", "Starting", "Healthy", "Unhealthy"}

\* Where the actor is suspended.
Await ==
    {"select",                                  \* tokio::select! in run()
     "spawn", "spawn_drain", "pre_start", "launch",     \* spawn_child
     "pre_stop", "grace", "kill", "drain", "stopped",   \* stop_current_child
     "exit_drain",                                      \* handle_child_exit
     "done"}

\* The caller's last call and what became of it.
CallResult == {"idle", "waiting", "ok", "err", "timeout", "closed",
               "joining", "joined", "dropped"}

TypeOK ==
    /\ config \in Configs
    /\ pc \in Await
    /\ cur \in [op : Trigger, live : BOOLEAN]
    /\ current_child \in 0..MaxSpawns
    /\ child_info \in 0..MaxSpawns
    /\ marked_running \in BOOLEAN
    /\ retry_count \in 0..(StartRetries + 1)
    /\ manual_stop \in BOOLEAN
    /\ is_shutting_down \in BOOLEAN
    /\ backoff_deadline \in BOOLEAN
    /\ start_deadline \in 0..MaxSpawns
    /\ spawn_seq \in 0..MaxSpawns
    /\ status \in [state : ProgramState, pid : 0..MaxSpawns,
                   health : HealthStatus, is_healthy : BOOLEAN]
    /\ stdin_tx \in 0..MaxSpawns
    /\ command_rx \in Seq([op : ProgramCommand, live : BOOLEAN])
    /\ Len(command_rx) <= MailboxCap
    /\ call \in [op : ProgramCommand \cup {"None"}, res : CallResult]
    /\ cancel_token \in BOOLEAN
    /\ probe \in [child : 0..MaxSpawns, phase : {"off", "wait", "check"},
                  failures : 0..FailureThreshold,
                  last_reported : {"Starting", "Healthy", "Unhealthy"}]
    /\ health_rx \in Seq([ev : {"Healthy", "Unhealthy"}, child : 0..MaxSpawns])
    /\ Len(health_rx) <= HealthCap
    /\ proc \in [Spawns -> {"unborn", "alive", "expected", "unexpected"}]

-----------------------------------------------------------------------------
(* Helpers.                                                                *)

Alive == {g \in Spawns : proc[g] = "alive"}

Idle    == [op |-> "None", live |-> FALSE]
NoProbe == [child |-> None, phase |-> "off", failures |-> 0,
            last_reported |-> "Starting"]

\* Fault: update_status keeps the health fields whatever the state.
UpdateStatusKeepsHealth(st, pid) ==
    [state |-> st, pid |-> pid, health |-> status.health,
     is_healthy |-> status.is_healthy]

\* update_status: outside STARTING and RUNNING the health fields are cleared.
UpdateStatus(st, pid) ==
    LET keep == st \in {"Running", "Starting"}
    IN  [state      |-> st,
         pid        |-> pid,
         health     |-> IF keep THEN status.health ELSE "None",
         is_healthy |-> keep /\ status.is_healthy]

\* AutoRestartPolicy::should_restart, on whether the exit code was expected.
ShouldRestart(how) ==
    \/ config.autorestart = "Always"
    \/ config.autorestart = "Unexpected" /\ how = "unexpected"

\* The reply oneshot: a caller that gave up no longer receives it.
Reply(cmd, res) == call' = IF cmd.live THEN [op |-> call.op, res |-> res] ELSE call

\* Branches of the select loop, in the order it polls them.
CancelReady  == pc = "select" /\ cancel_token
CommandReady == pc = "select" /\ ~cancel_token /\ command_rx # <<>>
HealthReady  == /\ pc = "select" /\ ~cancel_token /\ command_rx = <<>>
                /\ current_child # None /\ config.health_check
                /\ health_rx # <<>>
TimersPolled == /\ pc = "select" /\ ~cancel_token /\ command_rx = <<>>
                /\ ~HealthReady
-----------------------------------------------------------------------------
(* Init: ProcessProgram::with_options has just spawned the actor task.     *)

Init ==
    /\ config \in Configs
    /\ pc = "select" /\ cur = Idle
    /\ current_child = None /\ child_info = None /\ marked_running = FALSE
    /\ retry_count = 0 /\ manual_stop = FALSE /\ is_shutting_down = FALSE
    /\ backoff_deadline = FALSE /\ start_deadline = None /\ spawn_seq = 0
    /\ status = [state |-> "Stopped", pid |-> None, health |-> "None",
                 is_healthy |-> FALSE]
    /\ stdin_tx = None
    /\ command_rx = <<>> /\ call = [op |-> "None", res |-> "idle"]
    /\ cancel_token = FALSE
    /\ probe = NoProbe /\ health_rx = <<>>
    /\ proc = [g \in Spawns |-> "unborn"]

-----------------------------------------------------------------------------
(* The handle: start, stop, restart, signal and shutdown send a command    *)
(* and wait for its reply, with a timeout.  The manager makes one call at  *)
(* a time; a call that timed out leaves its command in the channel.        *)

MayCall == /\ call.res \notin {"waiting", "joining", "joined", "dropped"}
           /\ call.op # "Shutdown"

Call(op) ==
    /\ MayCall
    /\ Len(command_rx) < MailboxCap
    /\ command_rx' = Append(command_rx, [op |-> op, live |-> TRUE])
    /\ call' = [op |-> op, res |-> "waiting"]
    /\ UNCHANGED <<config, controlVars, childVars, flagVars, timerVars,
                   sharedVars, cancel_token, probeVars, proc>>

\* The reply receiver is dropped.  The command is still queued, as the last
\* one in the channel, or is the one being served.
ForgetReply ==
    IF command_rx # <<>>
    THEN /\ command_rx' = [command_rx EXCEPT ![Len(command_rx)] =
                                 [op |-> @.op, live |-> FALSE]]
         /\ UNCHANGED cur
    ELSE /\ cur' = [op |-> cur.op, live |-> FALSE]
         /\ UNCHANGED command_rx

CallTimeout ==
    /\ call.res = "waiting"
    /\ call' = [op |-> call.op, res |-> "timeout"]
    /\ ForgetReply
    /\ UNCHANGED <<config, pc, childVars, flagVars, timerVars, sharedVars,
                   cancel_token, probeVars, proc>>

\* shutdown() goes on to cancel the actor, however its command was answered,
\* and joins the task.
ShutdownCancel ==
    /\ call.op = "Shutdown"
    /\ call.res \in {"ok", "timeout", "closed"}
    /\ call' = [op |-> call.op, res |-> "joining"]
    /\ cancel_token' = TRUE
    /\ UNCHANGED <<config, controlVars, childVars, flagVars, timerVars,
                   sharedVars, command_rx, probeVars, proc>>

ShutdownJoin ==
    /\ call.res = "joining"
    /\ pc = "done"
    /\ call' = [op |-> call.op, res |-> "joined"]
    /\ UNCHANGED <<config, controlVars, childVars, flagVars, timerVars,
                   sharedVars, command_rx, cancel_token, probeVars, proc>>

\* The handle is dropped without shutdown() (the manager task was aborted):
\* its cancel guard cancels the actor.
DropHandle ==
    /\ call.res \notin {"joined", "dropped"}
    /\ call' = [op |-> call.op, res |-> "dropped"]
    /\ cancel_token' = TRUE
    /\ IF call.res = "waiting" THEN ForgetReply ELSE UNCHANGED <<command_rx, cur>>
    /\ UNCHANGED <<config, pc, childVars, flagVars, timerVars, sharedVars,
                   probeVars, proc>>

-----------------------------------------------------------------------------
(* spawn_child.  It ends in SpawnFailed or Launch, which also run what the *)
(* branch that called it does with the result.                             *)

\* Fault: a failed Start command disarms start_deadline, like the other branches.
SpawnFailedDisarms(c, st) ==
    /\ status' = IF cur.op \in {"Start", "Restart"}
                 THEN st ELSE UpdateStatus("Fatal", None)
    /\ start_deadline' = None
    /\ Reply(cur, "err")
    /\ pc' = "select" /\ cur' = Idle

\* Its result is Err.  `c` is current_child and `st` the status it left.
SpawnFailed(c, st) ==
    /\ status' = IF cur.op \in {"Start", "Restart"}
                 THEN st ELSE UpdateStatus("Fatal", None)
    /\ start_deadline' = IF \/ cur.op = "Health"
                            \/ cur.op \in {"Start", "Restart"} /\ c = None
                         THEN None ELSE start_deadline
    /\ Reply(cur, "err")
    /\ pc' = "select" /\ cur' = Idle

\* Past the check for a previous child: on to the pre_start hook or the launch.
SpawnProceeds ==
    /\ manual_stop' = FALSE
    /\ pc' = IF config.pre_start THEN "pre_start" ELSE "launch"

\* Fault: spawn_child does not check for a live child.
SpawnChildUnchecked ==
    /\ pc = "spawn"
    /\ SpawnProceeds
    /\ UNCHANGED <<cur, status, start_deadline, call>>
    /\ UNCHANGED <<config, childVars, retry_count, is_shutting_down,
                   backoff_deadline, stdin_tx, command_rx, cancel_token,
                   probeVars, proc>>

SpawnChild ==
    /\ pc = "spawn"
    /\ \/ /\ is_shutting_down \/ current_child \in Alive
          /\ SpawnFailed(current_child, status)
          /\ UNCHANGED manual_stop
       \/ /\ ~is_shutting_down
          /\ current_child # None /\ current_child \notin Alive
          /\ pc' = "spawn_drain"
          /\ UNCHANGED <<cur, status, start_deadline, manual_stop, call>>
       \/ /\ ~is_shutting_down
          /\ current_child = None
          /\ SpawnProceeds
          /\ UNCHANGED <<cur, status, start_deadline, call>>
    /\ UNCHANGED <<config, childVars, retry_count, is_shutting_down,
                   backoff_deadline, stdin_tx, command_rx, cancel_token,
                   probeVars, proc>>

\* drain_pumps on a previous child found dead: its probe is joined or aborted.
SpawnDrained ==
    /\ pc = "spawn_drain"
    /\ probe' = NoProbe
    /\ current_child' = None
    /\ SpawnProceeds
    /\ UNCHANGED <<config, cur, child_info, marked_running, spawn_seq,
                   retry_count, is_shutting_down, timerVars, sharedVars,
                   handleVars, health_rx, proc>>

\* run_hook(pre_start): success, failure and timeout.
PreStartDone ==
    /\ pc = "pre_start"
    /\ \/ /\ pc' = "launch"
          /\ UNCHANGED <<cur, status, start_deadline, call>>
       \/ /\ ~config.pre_start_ignore_failure
          /\ SpawnFailed(current_child, UpdateStatus("Fatal", None))
    /\ UNCHANGED <<config, childVars, flagVars, backoff_deadline, stdin_tx,
                   command_rx, cancel_token, probeVars, proc>>

\* The transport, cmd.spawn() or attach_child fails.  A process that was
\* already created is killed by the scope guard and never seen.
LaunchFails ==
    /\ pc = "launch"
    /\ SpawnFailed(current_child, status)
    /\ UNCHANGED <<config, childVars, flagVars, backoff_deadline, stdin_tx,
                   command_rx, cancel_token, probeVars, proc>>

\* The process exists; its stdin writer and probe tasks are running.
Launch ==
    LET g == spawn_seq + 1 IN
    /\ pc = "launch"
    /\ spawn_seq < MaxSpawns
    /\ spawn_seq' = g
    /\ proc' = [proc EXCEPT ![g] = "alive"]
    /\ current_child' = g
    /\ stdin_tx' = g
    /\ probe' = IF config.health_check
                THEN [child |-> g, phase |-> "wait", failures |-> 0,
                      last_reported |-> "Starting"]
                ELSE NoProbe
    /\ marked_running' = ~config.start_secs
    /\ status' = [state      |-> IF config.start_secs THEN "Starting" ELSE "Running",
                  pid        |-> g,
                  health     |-> IF config.health_check THEN "Starting" ELSE "None",
                  is_healthy |-> ~config.health_check /\ ~config.start_secs]
    /\ start_deadline' = IF config.start_secs THEN g
                         ELSE IF cur.op \in {"Start", "Restart", "Health"}
                         THEN None ELSE start_deadline
    /\ Reply(cur, "ok")
    /\ pc' = "select" /\ cur' = Idle
    /\ UNCHANGED <<config, child_info, flagVars, backoff_deadline, command_rx,
                   cancel_token, health_rx>>

-----------------------------------------------------------------------------
(* stop_current_child.                                                     *)

\* Fault: STOPPED is published as soon as the stop begins.
StopCurrentChildEagerly(cmd) ==
    /\ cur' = cmd
    /\ stdin_tx' = None
    /\ current_child' = None
    /\ child_info' = current_child
    /\ status' = UpdateStatus("Stopped", None)
    /\ pc' = CASE current_child = None -> "stopped"
               [] current_child # None /\ config.pre_stop -> "pre_stop"
               [] OTHER -> "grace"
    /\ UNCHANGED <<config, marked_running, spawn_seq, start_deadline,
                   cancel_token, call, probe, proc>>

\* Up to its first await, on behalf of `cmd`.
StopCurrentChild(cmd) ==
    /\ cur' = cmd
    /\ stdin_tx' = None
    /\ current_child' = None
    /\ child_info' = current_child
    /\ IF current_child # None
       THEN /\ status' = UpdateStatus("Stopping", current_child)
            /\ pc' = IF config.pre_stop THEN "pre_stop" ELSE "grace"
       ELSE /\ status' = UpdateStatus("Stopped", None)
            /\ pc' = "stopped"
    /\ UNCHANGED <<config, marked_running, spawn_seq, start_deadline,
                   cancel_token, call, probe, proc>>

\* run_hook(pre_stop): its failure only degrades.  The stop signal is sent.
PreStopDone ==
    /\ pc = "pre_stop"
    /\ pc' = "grace"
    /\ UNCHANGED <<config, cur, childVars, flagVars, timerVars, sharedVars,
                   handleVars, probeVars, proc>>

\* wait_exit returns within the grace period.
GraceExit ==
    /\ pc = "grace"
    /\ child_info \notin Alive
    /\ pc' = "drain"
    /\ UNCHANGED <<config, cur, childVars, flagVars, timerVars, sharedVars,
                   handleVars, probeVars, proc>>

\* Fault: the process is signalled but not waited for after the grace period.
GraceTimeoutNoReap ==
    /\ pc = "grace"
    /\ pc' = "drain"
    /\ UNCHANGED <<config, cur, childVars, flagVars, timerVars, sharedVars,
                   handleVars, probeVars, proc>>

\* Fault: no escalation, the grace period is not enforced.
GraceTimeoutNever ==
    /\ pc = "grace"
    /\ child_info \notin Alive
    /\ pc' = "kill"
    /\ UNCHANGED <<config, cur, childVars, flagVars, timerVars, sharedVars,
                   handleVars, probeVars, proc>>

\* The grace period expires: force_kill and kill().
GraceTimeout ==
    /\ pc = "grace"
    /\ pc' = "kill"
    /\ UNCHANGED <<config, cur, childVars, flagVars, timerVars, sharedVars,
                   handleVars, probeVars, proc>>

\* kill() also waits for the process to be reaped.
KillReaped ==
    /\ pc = "kill"
    /\ child_info \notin Alive
    /\ pc' = "drain"
    /\ UNCHANGED <<config, cur, childVars, flagVars, timerVars, sharedVars,
                   handleVars, probeVars, proc>>

\* drain_pumps has joined or aborted the probe; STOPPED is published.
StopDrained ==
    /\ pc = "drain"
    /\ probe' = NoProbe
    /\ child_info' = None
    /\ status' = UpdateStatus("Stopped", None)
    /\ pc' = "stopped"
    /\ UNCHANGED <<config, cur, current_child, marked_running, spawn_seq,
                   flagVars, timerVars, stdin_tx, handleVars, health_rx, proc>>

\* What the branch that stopped the child does next.
StopReturned ==
    /\ pc = "stopped"
    /\ cur.op \in {"Stop", "Shutdown"}
    /\ start_deadline' = None
    /\ Reply(cur, "ok")
    /\ cancel_token' = (cancel_token \/ cur.op = "Shutdown")
    /\ pc' = "select" /\ cur' = Idle
    /\ UNCHANGED <<config, childVars, flagVars, backoff_deadline, sharedVars,
                   command_rx, probeVars, proc>>

StopThenSpawn ==
    /\ pc = "stopped"
    /\ cur.op \in {"Restart", "Health"}
    /\ manual_stop' = (manual_stop /\ cur.op # "Restart")
    /\ pc' = "spawn"
    /\ UNCHANGED <<config, cur, childVars, retry_count, is_shutting_down,
                   timerVars, sharedVars, handleVars, probeVars, proc>>

\* The loop breaks and the actor is dropped: queued callers see the channel
\* closed.
RunEnds ==
    /\ pc = "stopped"
    /\ cur.op = "Cancel"
    /\ pc' = "done" /\ cur' = Idle
    /\ status' = UpdateStatus("Stopped", None)
    /\ start_deadline' = None
    /\ command_rx' = <<>>
    /\ call' = IF call.res = "waiting" THEN [op |-> call.op, res |-> "closed"] ELSE call
    /\ UNCHANGED <<config, childVars, flagVars, backoff_deadline, stdin_tx,
                   cancel_token, probeVars, proc>>

-----------------------------------------------------------------------------
(* handle_command.                                                         *)

Take(op) ==
    /\ CommandReady
    /\ Head(command_rx).op = op
    /\ command_rx' = Tail(command_rx)

\* Start and Restart are refused once the actor is shutting down.
Refuse(cmd) ==
    /\ Reply(cmd, "err")
    /\ start_deadline' = IF current_child = None THEN None ELSE start_deadline
    /\ UNCHANGED <<config, controlVars, childVars, retry_count, manual_stop,
                   backoff_deadline, sharedVars, cancel_token, probe, proc>>

HandleStart ==
    /\ Take("Start")
    /\ IF is_shutting_down THEN Refuse(Head(command_rx)) ELSE
         /\ cur' = Head(command_rx)
         /\ manual_stop' = FALSE
         /\ retry_count' = 0
         /\ backoff_deadline' = FALSE
         /\ pc' = "spawn"
         /\ UNCHANGED <<config, childVars, start_deadline, sharedVars, call,
                        cancel_token, probe, proc>>
    /\ UNCHANGED <<is_shutting_down, health_rx>>

\* Fault: Stop leaves the backoff timer armed.
HandleStopKeepsBackoff ==
    /\ Take("Stop")
    /\ manual_stop' = TRUE
    /\ StopCurrentChild(Head(command_rx))
    /\ UNCHANGED <<retry_count, is_shutting_down, backoff_deadline, health_rx>>

HandleStop ==
    /\ Take("Stop")
    /\ manual_stop' = TRUE
    /\ backoff_deadline' = FALSE
    /\ StopCurrentChild(Head(command_rx))
    /\ UNCHANGED <<retry_count, is_shutting_down, health_rx>>

HandleRestart ==
    /\ Take("Restart")
    /\ IF is_shutting_down THEN Refuse(Head(command_rx)) ELSE
         /\ manual_stop' = TRUE
         /\ retry_count' = 0
         /\ backoff_deadline' = FALSE
         /\ StopCurrentChild(Head(command_rx))
    /\ UNCHANGED <<is_shutting_down, health_rx>>

HandleShutdown ==
    /\ Take("Shutdown")
    /\ is_shutting_down' = TRUE
    /\ manual_stop' = TRUE
    /\ backoff_deadline' = FALSE
    /\ StopCurrentChild(Head(command_rx))
    /\ UNCHANGED <<retry_count, health_rx>>

\* Fault: no reply when there is no child to signal.
HandleSignalSilent ==
    /\ Take("Signal")
    /\ IF current_child # None THEN Reply(Head(command_rx), "ok") ELSE UNCHANGED call
    /\ start_deadline' = IF current_child = None THEN None ELSE start_deadline
    /\ UNCHANGED <<config, controlVars, childVars, flagVars, backoff_deadline,
                   sharedVars, cancel_token, probeVars, proc>>

\* The signal's effect on the process is one of the ways ProcessExits happens.
HandleSignal ==
    /\ Take("Signal")
    /\ Reply(Head(command_rx), IF current_child # None THEN "ok" ELSE "err")
    /\ start_deadline' = IF current_child = None THEN None ELSE start_deadline
    /\ UNCHANGED <<config, controlVars, childVars, flagVars, backoff_deadline,
                   sharedVars, cancel_token, probeVars, proc>>

-----------------------------------------------------------------------------
(* The other branches of the select loop.                                  *)

Cancelled ==
    /\ CancelReady
    /\ is_shutting_down' = TRUE
    /\ manual_stop' = TRUE
    /\ backoff_deadline' = FALSE
    /\ StopCurrentChild([op |-> "Cancel", live |-> FALSE])
    /\ UNCHANGED <<retry_count, command_rx, health_rx>>

HealthyEvent ==
    /\ HealthReady
    /\ Head(health_rx).ev = "Healthy"
    /\ health_rx' = Tail(health_rx)
    /\ status' = [status EXCEPT !.health = "Healthy", !.is_healthy = TRUE]
    /\ UNCHANGED <<config, controlVars, childVars, flagVars, timerVars,
                   stdin_tx, handleVars, probe, proc>>

\* Under the Never policy the verdict is only shown.
UnhealthyEvent ==
    /\ HealthReady
    /\ Head(health_rx).ev = "Unhealthy"
    /\ config.autorestart = "Never"
    /\ health_rx' = Tail(health_rx)
    /\ status' = [status EXCEPT !.health = "Unhealthy", !.is_healthy = FALSE]
    /\ UNCHANGED <<config, controlVars, childVars, flagVars, timerVars,
                   stdin_tx, handleVars, probe, proc>>

\* Otherwise the child is restarted: the STOPPING status is published at once
\* over the health fields.
UnhealthyRestart ==
    /\ HealthReady
    /\ Head(health_rx).ev = "Unhealthy"
    /\ config.autorestart # "Never"
    /\ health_rx' = Tail(health_rx)
    /\ StopCurrentChild([op |-> "Health", live |-> FALSE])
    /\ UNCHANGED <<flagVars, backoff_deadline, command_rx>>

HealthEvent == HealthyEvent \/ UnhealthyEvent \/ UnhealthyRestart

BackoffExpires ==
    /\ TimersPolled
    /\ backoff_deadline /\ ~is_shutting_down /\ ~manual_stop
    /\ backoff_deadline' = FALSE
    /\ cur' = [op |-> "Backoff", live |-> FALSE]
    /\ pc' = "spawn"
    /\ UNCHANGED <<config, childVars, flagVars, start_deadline, sharedVars,
                   handleVars, probeVars, proc>>

\* Fault: the exit is only watched for during start_secs.
ChildExitWhileStarting ==
    /\ TimersPolled
    /\ ~marked_running
    /\ current_child # None /\ current_child \notin Alive
    /\ start_deadline' = None
    /\ stdin_tx' = None
    /\ child_info' = current_child
    /\ current_child' = None
    /\ pc' = "exit_drain"
    /\ UNCHANGED <<config, cur, marked_running, spawn_seq, flagVars,
                   backoff_deadline, status, handleVars, probeVars, proc>>

\* wait_exit resolves: handle_child_exit up to drain_pumps.
ChildExit ==
    /\ TimersPolled
    /\ current_child # None /\ current_child \notin Alive
    /\ start_deadline' = None
    /\ stdin_tx' = None
    /\ child_info' = current_child
    /\ current_child' = None
    /\ pc' = "exit_drain"
    /\ UNCHANGED <<config, cur, marked_running, spawn_seq, flagVars,
                   backoff_deadline, status, handleVars, probeVars, proc>>

\* Fault: one retry too many.
ExitDrainedOffByOne ==
    LET stopping == is_shutting_down \/ manual_stop
        retry    == retry_count <= StartRetries
        respawn  == ~stopping /\ marked_running /\ ShouldRestart(proc[child_info])
    IN
    /\ pc = "exit_drain"
    /\ probe' = NoProbe
    /\ child_info' = None
    /\ retry_count' = IF ~stopping /\ ~marked_running
                      THEN retry_count + 1 ELSE retry_count
    /\ backoff_deadline' = IF stopping THEN FALSE
                           ELSE backoff_deadline \/ (~marked_running /\ retry)
    /\ status' = UpdateStatus(IF stopping THEN "Stopped"
                              ELSE IF ~marked_running
                              THEN IF retry THEN "Backoff" ELSE "Fatal"
                              ELSE IF respawn THEN "Starting" ELSE "Exited", None)
    /\ pc'  = IF respawn THEN "spawn" ELSE "select"
    /\ cur' = IF respawn THEN [op |-> "Autorestart", live |-> FALSE] ELSE cur
    /\ UNCHANGED <<config, current_child, marked_running, spawn_seq, manual_stop,
                   is_shutting_down, start_deadline, stdin_tx, handleVars,
                   health_rx, proc>>

\* handle_child_exit after drain_pumps: which state the exit leads to.
ExitDrained ==
    LET stopping == is_shutting_down \/ manual_stop
        retry    == retry_count + 1 <= StartRetries
        respawn  == ~stopping /\ marked_running /\ ShouldRestart(proc[child_info])
    IN
    /\ pc = "exit_drain"
    /\ probe' = NoProbe
    /\ child_info' = None
    /\ retry_count' = IF ~stopping /\ ~marked_running
                      THEN retry_count + 1 ELSE retry_count
    /\ backoff_deadline' = IF stopping THEN FALSE
                           ELSE backoff_deadline \/ (~marked_running /\ retry)
    /\ status' = UpdateStatus(IF stopping THEN "Stopped"
                              ELSE IF ~marked_running
                              THEN IF retry THEN "Backoff" ELSE "Fatal"
                              ELSE IF respawn THEN "Starting" ELSE "Exited", None)
    /\ pc'  = IF respawn THEN "spawn" ELSE "select"
    /\ cur' = IF respawn THEN [op |-> "Autorestart", live |-> FALSE] ELSE cur
    /\ UNCHANGED <<config, current_child, marked_running, spawn_seq, manual_stop,
                   is_shutting_down, start_deadline, stdin_tx, handleVars,
                   health_rx, proc>>

\* The start_secs window ends; a child found dead is left to ChildExit.
StartDeadline ==
    /\ TimersPolled
    /\ start_deadline # None
    /\ start_deadline' = None
    /\ IF current_child \in Alive
       THEN /\ marked_running' = TRUE
            /\ retry_count' = 0
            /\ status' = UpdateStatus("Running", current_child)
       ELSE UNCHANGED <<marked_running, retry_count, status>>
    /\ UNCHANGED <<config, controlVars, current_child, child_info, spawn_seq,
                   manual_stop, is_shutting_down, backoff_deadline, stdin_tx,
                   handleVars, probeVars, proc>>

-----------------------------------------------------------------------------
(* HealthProbeRunner::run, one task per child, until its token is          *)
(* cancelled by drain_pumps.  A check under way is finished first.         *)

ProbeCancelled == pc \in {"drain", "exit_drain", "spawn_drain"}

ProbeBegin ==
    /\ probe.phase = "wait"
    /\ ~ProbeCancelled
    /\ probe' = [probe EXCEPT !.phase = "check"]
    /\ UNCHANGED <<config, controlVars, childVars, flagVars, timerVars,
                   sharedVars, handleVars, health_rx, proc>>

\* Sends `ev` unless it was the last one reported; waits for room.
ProbeReports(ev, failures) ==
    IF probe.last_reported # ev
    THEN /\ Len(health_rx) < HealthCap
         /\ health_rx' = Append(health_rx, [ev |-> ev, child |-> probe.child])
         /\ probe' = [probe EXCEPT !.phase = "wait", !.failures = failures,
                                   !.last_reported = ev]
    ELSE /\ probe' = [probe EXCEPT !.phase = "wait", !.failures = failures]
         /\ UNCHANGED health_rx

ProbeSucceeds ==
    /\ probe.phase = "check"
    /\ ProbeReports("Healthy", 0)
    /\ UNCHANGED <<config, controlVars, childVars, flagVars, timerVars,
                   sharedVars, handleVars, proc>>

\* The failure counter is only compared with the threshold: it stops there.
ProbeFails ==
    LET n == IF probe.failures < FailureThreshold
             THEN probe.failures + 1 ELSE FailureThreshold IN
    /\ probe.phase = "check"
    /\ IF n >= FailureThreshold
       THEN ProbeReports("Unhealthy", n)
       ELSE /\ probe' = [probe EXCEPT !.phase = "wait", !.failures = n]
            /\ UNCHANGED health_rx
    /\ UNCHANGED <<config, controlVars, childVars, flagVars, timerVars,
                   sharedVars, handleVars, proc>>

-----------------------------------------------------------------------------
(* The operating system: a process ends when it likes, with an exit code   *)
(* that is in config.exit_codes or is not; SIGKILL ends it.                *)

ProcessExits(g) ==
    /\ proc[g] = "alive"
    /\ \E how \in {"expected", "unexpected"} : proc' = [proc EXCEPT ![g] = how]
    /\ UNCHANGED <<config, controlVars, childVars, flagVars, timerVars,
                   sharedVars, handleVars, probeVars>>

ProcessKilled ==
    /\ pc = "kill"
    /\ child_info \in Alive
    /\ proc' = [proc EXCEPT ![child_info] = "unexpected"]
    /\ UNCHANGED <<config, controlVars, childVars, flagVars, timerVars,
                   sharedVars, handleVars, probeVars>>

-----------------------------------------------------------------------------
Handle == \/ \E op \in ProgramCommand : Call(op)
          \/ CallTimeout \/ ShutdownCancel \/ ShutdownJoin \/ DropHandle

SpawnStep == SpawnChild \/ SpawnDrained \/ PreStartDone \/ LaunchFails \/ Launch

StopStep == \/ PreStopDone \/ GraceExit \/ GraceTimeout \/ KillReaped
            \/ StopDrained \/ StopReturned \/ StopThenSpawn \/ RunEnds

SelectStep == \/ HandleStart \/ HandleStop \/ HandleRestart \/ HandleShutdown
              \/ HandleSignal \/ Cancelled \/ HealthEvent
              \/ BackoffExpires \/ ChildExit \/ StartDeadline

Actor == SpawnStep \/ StopStep \/ SelectStep \/ ExitDrained

Probe == ProbeBegin \/ ProbeSucceeds \/ ProbeFails

OS == (\E g \in Spawns : ProcessExits(g)) \/ ProcessKilled

\* The actor has ended and its handle is gone.
Terminated ==
    /\ pc = "done"
    /\ call.res \in {"joined", "dropped"}
    /\ UNCHANGED vars

Next == Handle \/ Actor \/ Probe \/ OS \/ Terminated

Spec == Init /\ [][Next]_vars

\* The runtime polls a runnable actor, hooks and grace periods are bounded by
\* timeouts and SIGKILL is delivered.  A health event, a timer or an exit is
\* taken once the select loop finds it ready with nothing of a higher priority,
\* however often commands come first (strong fairness).  shutdown() is an
\* async fn that is polled to its end.  Nothing is assumed of the other calls,
\* of their timeouts, of the probe or of the supervised process.
Fairness ==
    /\ WF_vars(Actor)
    /\ SF_vars(HealthEvent)
    /\ SF_vars(BackoffExpires)
    /\ SF_vars(ChildExit)
    /\ SF_vars(StartDeadline)
    /\ WF_vars(ProcessKilled)
    /\ WF_vars(ShutdownCancel)
    /\ WF_vars(ShutdownJoin)

FairSpec == Spec /\ Fairness

-----------------------------------------------------------------------------
(* Safety properties.                                                      *)

\* At most one OS process of the program exists, whatever the commands,
\* restarts, exits and health events in flight.
SingleInstance == \A g, h \in Alive : g = h

\* STOPPED, BACKOFF, EXITED and FATAL are published only while no process of
\* the program exists.
QuietStateNoProcess ==
    status.state \in {"Stopped", "Backoff", "Exited", "Fatal"} => Alive = {}

\* Once stop() has returned Ok, and until the next call, the program stays
\* STOPPED with no process: no backoff timer, health event, late exit or
\* earlier command that had timed out brings it back.
StopIsFinal ==
    call = [op |-> "Stop", res |-> "ok"] /\ ~cancel_token =>
        /\ status.state = "Stopped"
        /\ Alive = {}
        /\ pc = "select" /\ ~backoff_deadline

\* While the actor waits for events, what status() shows is the child it
\* owns: its pid, and RUNNING exactly when it survived start_secs.
SnapshotMatchesChild ==
    pc = "select" /\ current_child # None =>
        /\ status.pid = current_child
        /\ status.state = IF marked_running THEN "Running" ELSE "Starting"

\* The start_secs window on which RUNNING is granted is the one of the current
\* child: neither a redundant command nor a respawn leaves an older deadline
\* armed or disarms the current one before it has fired.
DeadlineOfThisChild ==
    pc = "select" =>
        /\ start_deadline # None => start_deadline = current_child
        /\ current_child # None /\ ~marked_running /\ start_deadline = None
              => current_child \notin Alive

\* A backoff timer is armed only for a program that crashed while starting,
\* has no process, has retries left and has not been stopped since.
BackoffJustified ==
    backoff_deadline =>
        /\ Alive = {}
        /\ status.state = "Backoff"
        /\ retry_count \in 1..StartRetries
        /\ ~manual_stop

\* send_stdin reaches the newest process or none: the channel of an earlier
\* generation is never left in place.
StdinGeneration == stdin_tx \in {None, spawn_seq}

\* The health fields are meaningful only while a process is up; a program that
\* is stopping or stopped is never shown healthy.
HealthOnlyWhenUp ==
    status.health # "None" \/ status.is_healthy
        => status.state \in {"Starting", "Running"}

\* The actor never ends while a process is left behind.
DoneMeansGone == pc = "done" => Alive = {} /\ status.state = "Stopped"

-----------------------------------------------------------------------------
(* The inductive invariant behind these properties.                        *)

StopAwaits == {"pre_stop", "grace", "kill", "drain", "exit_drain"}

\* Where the one live process can be: in current_child, or in the local
\* child_info of the handler that took it out.
Ownership ==
    /\ Alive \subseteq {current_child, child_info}
    /\ child_info # None <=> pc \in StopAwaits
    /\ child_info # None => current_child = None
    /\ pc \in {"drain", "exit_drain"} => child_info \notin Alive
    /\ pc = "spawn_drain" => current_child # None /\ current_child \notin Alive
    /\ pc \in {"pre_start", "launch", "stopped", "done"} => current_child = None

\* Which branch can be suspended where.
Serving ==
    /\ pc \in {"spawn", "pre_start", "launch"}
          => cur.op \in {"Start", "Restart", "Health", "Backoff", "Autorestart"}
    /\ pc = "spawn" /\ cur.op # "Start" => current_child = None
    /\ pc = "spawn_drain" => cur.op = "Start"
    /\ pc \in {"pre_stop", "grace", "kill", "drain", "stopped"}
          => cur.op \in {"Stop", "Restart", "Shutdown", "Health", "Cancel"}

\* What status() shows, between events and during a Start that may be refused.
Published ==
    /\ status.state \in {"Stopped", "Backoff", "Exited", "Fatal"}
          => current_child = None /\ child_info = None
    /\ pc \in {"select", "spawn"} /\ current_child # None =>
          /\ status.pid = current_child
          /\ status.state = IF marked_running THEN "Running" ELSE "Starting"
    /\ pc = "exit_drain" =>
          status.state = IF marked_running THEN "Running" ELSE "Starting"
    /\ pc \in {"pre_stop", "grace", "kill", "drain"} => status.state = "Stopping"
    /\ pc = "done" => status.state = "Stopped"
    /\ status.state = "Stopping" => pc \in {"pre_stop", "grace", "kill", "drain"}

\* The start_secs timer, also while a redundant Start is being refused.
StartTimer ==
    /\ pc = "select" \/ (pc \in {"spawn", "spawn_drain"} /\ cur.op = "Start")
          => start_deadline \in {None, current_child}
    /\ pc = "exit_drain" => start_deadline = None
    /\ pc \in {"spawn", "pre_start", "launch"} /\ cur.op \in {"Backoff", "Autorestart"}
          => start_deadline = None
    /\ pc \in {"select", "spawn"} /\ current_child # None
       /\ ~marked_running /\ start_deadline = None
          => current_child \notin Alive

BackoffTimer ==
    backoff_deadline =>
        /\ pc = "select" /\ current_child = None /\ ~manual_stop
        /\ status.state = "Backoff"
        /\ retry_count \in 1..StartRetries

\* A program that has used up its retries has no process and gets none until
\* the counter is reset, so the counter never passes start_retries + 1.
RetryBudget ==
    retry_count = StartRetries + 1 =>
        /\ current_child = None /\ child_info = None
        /\ \/ pc \in {"select", "done"}
           \/ pc = "stopped" /\ cur.op \in {"Stop", "Shutdown", "Cancel"}

IInv ==
    /\ TypeOK
    /\ Ownership
    /\ Serving
    /\ Published
    /\ StartTimer
    /\ BackoffTimer
    /\ RetryBudget
    /\ StdinGeneration
    /\ HealthOnlyWhenUp

(* What it takes besides IInv to know who receives a reply: the commands in *)
(* the channel and the one being served, the caller, and the end.           *)

\* Only the newest command can still be answered: it is the last one in the
\* channel or, when that is empty, the one being served; and a caller that
\* waits, waits for it.
Delivery ==
    /\ cur.live => /\ cur.op \in ProgramCommand
                   /\ command_rx = <<>>
                   /\ call = [op |-> cur.op, res |-> "waiting"]
    /\ \A i \in DOMAIN command_rx : command_rx[i].live =>
           /\ i = Len(command_rx)
           /\ call = [op |-> command_rx[i].op, res |-> "waiting"]
    /\ call.res = "waiting" =>
           \/ cur.live
           \/ command_rx # <<>> /\ command_rx[Len(command_rx)].live

\* Which branch is served where, and the state its program is shown in.
Engaged ==
    /\ cur.op = "None" <=> pc \in {"select", "exit_drain", "done"}
    /\ pc \in {"spawn", "pre_start", "launch"} =>
           /\ cur.op = "Backoff" => status.state = "Backoff"
           /\ cur.op = "Autorestart" => status.state = "Starting"
    /\ pc = "stopped" => status.state = "Stopped"

\* A program that has a child, or is about to have one, was not stopped by
\* hand; an actor that shuts down serves its Shutdown or is cancelled; and
\* from the Shutdown command on there are no further calls.
Leaving ==
    /\ current_child # None \/ pc \in {"exit_drain", "pre_start", "launch"}
          => ~manual_stop
    /\ is_shutting_down => cancel_token \/ cur.op = "Shutdown"
    /\ pc = "exit_drain" => ~is_shutting_down
    /\ pc = "done" \/ cur.op = "Cancel" => cancel_token
    /\ (\/ cancel_token \/ cur.op = "Shutdown"
        \/ \E i \in DOMAIN command_rx : command_rx[i].op = "Shutdown")
          => call.op = "Shutdown" \/ call.res = "dropped"

\* After a stop that returned Ok the actor has nothing left to do.
AtRest ==
    call = [op |-> "Stop", res |-> "ok"] /\ ~cancel_token =>
        /\ pc = "select" /\ command_rx = <<>> /\ current_child = None
        /\ status.state = "Stopped" /\ ~backoff_deadline

CallInv == Delivery /\ Engaged /\ Leaving /\ AtRest

-----------------------------------------------------------------------------
(* Liveness properties, under FairSpec.                                    *)

\* A command that was accepted is answered even if its caller never times out.
CallAnswered == (call.res = "waiting") ~> (call.res # "waiting")

\* Cancelling the actor, by shutdown() or by dropping the handle, ends it with
\* no process left.
CancelEnds == cancel_token ~> (pc = "done" /\ Alive = {})

\* A child that died is eventually noticed: the actor lets go of it, unless
\* further calls (served first by the biased select) keep arriving.
DeadChildNoticed ==
    \A g \in Spawns :
        (current_child = g /\ g \notin Alive)
            ~> (current_child # g \/ call.res = "waiting")

\* A program inside its start_secs window leaves it (RUNNING, crashed or
\* stopped), unless further calls keep arriving.
StartingResolves ==
    (pc = "select" /\ start_deadline # None)
        ~> (start_deadline = None \/ call.res = "waiting")

\* An armed backoff timer is fired or disarmed, unless further calls keep
\* arriving.
BackoffResolves ==
    backoff_deadline ~> (~backoff_deadline \/ call.res = "waiting")

\* No exit and no timer is overlooked for good.
EventsNoticed == DeadChildNoticed /\ StartingResolves /\ BackoffResolves

-----------------------------------------------------------------------------
(* The actor implements the lifecycle every observer may rely on.          *)

Lifecycle == INSTANCE ProgramLifecycle
             WITH Instances <- Spawns, state <- status.state, live <- Alive

ImplementsLifecycle == Lifecycle!Spec
=============================================================================
