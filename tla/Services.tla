------------------------------ MODULE Services -------------------------------
(***************************************************************************)
(* Tasks of the daemon side by side: the file watcher, which the manager   *)
(* calls and which calls the manager; the life of the process with its     *)
(* server and its manager; and the writer of a child's standard input.     *)
(* They share no variable; every step is a step of one of them.            *)
(***************************************************************************)
EXTENDS Integers, Sequences

CONSTANTS
    Programs, Files, ConfigSets, Debounce, RetryDelay, MaxChecks, ChannelSize,
    MaxChanges, MaxUpdates,                         \* Watch
    MaxLives, MaxSignals, MaxReloads, Listeners,    \* Daemon
    Callers, StdinSlots, BufferLimit, MessageSize, MaxMessages  \* StdinWriter

\* The settings of the watch service are unsigned, and so are its timers.
ASSUME WatchAssumption ==
    Debounce \in Nat /\ RetryDelay \in Nat /\ MaxChecks \in Nat

\* Messages of every size, the empty one included.
ASSUME StdinAssumption == MessageSize \in Nat

VARIABLES
    configs, manager, channel, stale, reloads, events, content, changes, rules,
    watched, pending, batch, exec, asked, quiet,
    life, pc, handlers, stream, term, hup, token, stopTask, engine, listener,
    supervisor, queued, programs, pidfile, socket, sent, caught,
    calling, calls, stdin_rx, open, accepted, writer, buffer, cancelled, pipe, clean

Watcher == INSTANCE Watch WITH MaxReloads <- MaxUpdates
Process == INSTANCE Daemon WITH manager <- supervisor
Stdin   == INSTANCE StdinWriter WITH channel <- stdin_rx, ChannelSize <- StdinSlots

watchVars  == <<configs, manager, channel, stale, reloads, events, content, changes, rules,
                watched, pending, batch, exec, asked, quiet>>
daemonVars == <<life, pc, handlers, stream, term, hup, token, stopTask, engine, listener,
                supervisor, queued, programs, pidfile, socket, sent, caught>>
stdinVars  == <<calling, calls, stdin_rx, open, accepted, writer, buffer, cancelled, pipe,
                clean>>
vars == <<watchVars, daemonVars, stdinVars>>

WatchStep  == Watcher!Next /\ UNCHANGED <<daemonVars, stdinVars>>
DaemonStep == Process!Next /\ UNCHANGED <<watchVars, stdinVars>>
StdinStep  == Stdin!Next /\ UNCHANGED <<watchVars, daemonVars>>

Init == Watcher!Init /\ Process!Init /\ Stdin!Init
Next == WatchStep \/ DaemonStep \/ StdinStep
Spec == Init /\ [][Next]_vars

-----------------------------------------------------------------------------
(* Properties of the parts, stated there in full.                          *)

\* WatchService::run executes a trigger only when its files have settled.
Settled == Watcher!Settled

\* The watch service and the manager, which call each other, both get on.
WatchProgress == Watcher!WatchProgress

\* SupervisorDaemon::run leaves no pid file and no program behind.
CleanExit == Process!CleanExit

\* A daemon that has caught a request to end does end.
ShutdownEnds == Process!ShutdownEnds

\* spawn_stdin_writer delivers the accepted bytes once and in order.
StdinInOrder == Stdin!StdinInOrder
=============================================================================
