------------------------------- MODULE Daemon -------------------------------
(***************************************************************************)
(* The life of the daemon process on Unix: start-up, the main loop with    *)
(* its signals, and the teardown (daemon.rs), together with the listeners  *)
(* of the server engine (server/mod.rs, server/uds.rs) and the cancel and  *)
(* shutdown arms of the manager's loop (manager/supervisor.rs).            *)
(*                                                                         *)
(* A daemon that a signal kills leaves its pid file and its socket behind; *)
(* another life may then start on the same files.  Time is abstracted: a   *)
(* wait that has a timeout may end by it at any moment.                    *)
(***************************************************************************)
EXTENDS Naturals

CONSTANTS
    MaxLives,       \* bound: how often the daemon is started
    MaxSignals,     \* bound: how many signals are sent
    MaxReloads,     \* bound: how many reload signals are among them
    Listeners       \* the listeners configured, a subset of {"ipc", "tcp"}

VARIABLES
    life,       \* the number of the current life of the daemon
    pc,         \* where its main task is
    handlers,   \* the signals whose process-wide handler is installed
    stream,     \* the shutdown streams of this pass of the select exist
    term,       \* a shutdown signal is in those streams
    hup,        \* a reload signal is in the reload stream
    token,      \* the root cancellation token is cancelled
    stopTask,   \* the task of the XML-RPC method shutdown: none, sent, ended
    engine,     \* the server engine: none, running, done
    listener,   \* its listener tasks: none, binding, serving, ended
    manager,    \* the manager's actor: none, idle, busy, stopping, ended, aborted
    queued,     \* the commands in its mailbox, a subset of {"reload", "shutdown"}
    programs,   \* supervised programs are running
    pidfile,    \* the life whose pid the pid file holds, 0 without a file
    socket,     \* the life that created the socket file, 0 without a file
    sent,       \* the signals sent so far
    caught      \* a request to end the daemon has reached it

vars == <<life, pc, handlers, stream, term, hup, token, stopTask, engine,
          listener, manager, queued, programs, pidfile, socket, sent, caught>>

signalVars == <<handlers, stream, term, hup>>
serverVars == <<engine, listener, socket>>
managerVars == <<manager, queued, programs>>
envVars == <<life, sent>>

Fresh ==
    /\ handlers = {} /\ stream = FALSE /\ term = FALSE /\ hup = FALSE
    /\ token = FALSE /\ stopTask = "none" /\ caught = FALSE
    /\ engine = "none" /\ listener = [l \in Listeners |-> "none"]
    /\ manager = "none" /\ queued = {} /\ programs = FALSE

Init ==
    /\ life = 1 /\ pc = "load" /\ Fresh
    /\ pidfile = 0 /\ socket = 0
    /\ sent = [term |-> 0, hup |-> 0]

Alive == pc \notin {"exited", "killed"}

-----------------------------------------------------------------------------
(* Leaving: the values on the stack and the tasks of the runtime are        *)
(* dropped, and with them the guards of the pid file and of the socket.     *)

DropTasks ==
    /\ engine' = "done"
    /\ listener' = [l \in Listeners |-> "ended"]
    /\ socket' = IF "ipc" \in Listeners /\ listener["ipc"] = "serving" THEN 0 ELSE socket

\* run returns: `guarded' says that the pid file's guard exists.
Leave(guarded) ==
    /\ pc' = "exited"
    /\ pidfile' = IF guarded THEN 0 ELSE pidfile
    /\ DropTasks
    /\ UNCHANGED <<envVars, signalVars, managerVars, token, stopTask, caught>>

-----------------------------------------------------------------------------
(* Start-up.                                                                *)

LoadConfig ==
    /\ pc = "load"
    /\ \/ Leave(FALSE)          \* no file, or it does not load
       \/ /\ pc' = "pidfile"
          /\ UNCHANGED <<envVars, signalVars, serverVars, managerVars, token,
                         stopTask, pidfile, caught>>

\* A pid file that cannot be written is only logged; the guard exists anyway.
WritePidfile ==
    /\ pc = "pidfile"
    /\ pidfile' \in {life, pidfile}
    /\ pc' = "build"
    /\ UNCHANGED <<envVars, signalVars, serverVars, managerVars, token, stopTask, caught>>

BuildManager ==
    /\ pc = "build"
    /\ \/ Leave(TRUE)           \* build()? returns an error
       \/ /\ manager' = "idle" /\ pc' = "autostart"
          /\ UNCHANGED <<envVars, signalVars, serverVars, queued, programs, token,
                         stopTask, pidfile, caught>>

\* start_all: whatever it returns, start-up goes on and the engine is spawned.
Autostart ==
    /\ pc = "autostart"
    /\ programs' \in BOOLEAN
    /\ engine' = "running"
    /\ listener' = [l \in Listeners |-> "binding"]
    /\ handlers' = handlers \cup {"hup"}
    /\ pc' = "loop"
    /\ UNCHANGED <<envVars, stream, term, hup, manager, queued, token, stopTask,
                   pidfile, socket, caught>>

-----------------------------------------------------------------------------
(* The main loop.                                                           *)

\* A pass of the select: wait_for_shutdown_signal is called anew and opens its
\* own streams; the handlers themselves stay installed for good.
Poll ==
    /\ pc = "loop" /\ ~stream
    /\ stream' = TRUE /\ term' = FALSE
    /\ handlers' = handlers \cup {"term"}
    /\ UNCHANGED <<envVars, hup, serverVars, managerVars, pc, token, stopTask,
                   pidfile, caught>>

\* The select is biased: cancellation, shutdown signal, reload signal.
BreakLoop ==
    /\ pc = "loop" /\ stream
    /\ token \/ term
    /\ token' = TRUE
    /\ stream' = FALSE /\ term' = FALSE
    /\ pc' = "awaitEngine"
    /\ caught' = TRUE
    /\ UNCHANGED <<envVars, handlers, hup, serverVars, managerVars, stopTask, pidfile>>

\* The arm of the reload signal; the streams of this pass are dropped.
StartReload ==
    /\ pc = "loop" /\ stream
    /\ ~token /\ ~term /\ hup
    /\ hup' = FALSE /\ stream' = FALSE
    /\ \/ pc' = "loop" /\ UNCHANGED queued              \* the file does not load
       \/ pc' = "reload" /\ queued' = queued \cup {"reload"}
    /\ UNCHANGED <<envVars, handlers, term, serverVars, manager, programs, token,
                   stopTask, pidfile, caught>>

\* The reply, an error because the manager is gone, or the timeout.
EndReload ==
    /\ pc = "reload"
    /\ pc' = "loop"
    /\ UNCHANGED <<envVars, signalVars, serverVars, managerVars, token, stopTask,
                   pidfile, caught>>

-----------------------------------------------------------------------------
(* Teardown.                                                                *)

\* The engine's task ends, or DAEMON_SERVER_SHUTDOWN_TIMEOUT passes.
AwaitEngine ==
    /\ pc = "awaitEngine"
    /\ queued' = queued \cup {"shutdown"}
    /\ pc' = "awaitManager"
    /\ UNCHANGED <<envVars, signalVars, serverVars, manager, programs, token,
                   stopTask, pidfile, caught>>

LeaveAtOnce ==   \* fault: the manager's actor is not awaited
    pc = "awaitManager" /\ Leave(TRUE)

\* The manager's actor ends, or it is aborted after its timeouts.
AwaitManager ==
    /\ pc = "awaitManager"
    /\ \/ manager \in {"ended", "aborted"} /\ Leave(TRUE)
       \/ /\ manager \notin {"ended", "aborted"}
          /\ manager' = "aborted"
          /\ UNCHANGED <<envVars, signalVars, serverVars, queued, programs, pc, token,
                         stopTask, pidfile, caught>>

-----------------------------------------------------------------------------
(* The server engine and its listeners.                                     *)

\* The IPC listener replaces the file of a dead daemon; binding may fail.
Bind(l) ==
    /\ engine = "running" /\ listener[l] = "binding"
    /\ \/ /\ listener' = [listener EXCEPT ![l] = "serving"]
          /\ socket' = IF l = "ipc" THEN life ELSE socket
       \/ /\ listener' = [listener EXCEPT ![l] = "ended"]
          /\ socket' \in IF l = "ipc" THEN {0, life} ELSE {socket}
    /\ UNCHANGED <<envVars, signalVars, managerVars, pc, token, stopTask, pidfile,
                   engine, caught>>

\* A listener sees the token and ends; the guard unlinks the socket.
ListenerEnds(l) ==
    /\ Alive /\ token /\ listener[l] = "serving"
    /\ listener' = [listener EXCEPT ![l] = "ended"]
    /\ socket' = IF l = "ipc" THEN 0 ELSE socket
    /\ UNCHANGED <<envVars, signalVars, managerVars, pc, token, stopTask, pidfile,
                   engine, caught>>

\* The engine ends on the token, aborting its listeners, or when none is left.
EngineEnds ==
    /\ Alive /\ engine = "running"
    /\ token \/ \A l \in Listeners : listener[l] = "ended"
    /\ DropTasks
    /\ UNCHANGED <<envVars, signalVars, managerVars, pc, token, stopTask, pidfile, caught>>

-----------------------------------------------------------------------------
(* The manager's actor.                                                     *)

ManagerReloads ==
    /\ Alive /\ manager = "idle" /\ ~token /\ "reload" \in queued
    /\ manager' = "busy" /\ queued' = queued \ {"reload"}
    /\ UNCHANGED <<envVars, signalVars, serverVars, programs, pc, token, stopTask,
                   pidfile, caught>>

ManagerReloaded ==
    /\ Alive /\ manager = "busy"
    /\ manager' = "idle" /\ programs' \in BOOLEAN
    /\ UNCHANGED <<envVars, signalVars, serverVars, queued, pc, token, stopTask,
                   pidfile, caught>>

\* The cancel arm, tried first, and the Shutdown command.
ManagerStops ==
    /\ Alive /\ manager = "idle"
    /\ token \/ "shutdown" \in queued
    /\ manager' = "stopping"
    /\ UNCHANGED <<envVars, signalVars, serverVars, queued, programs, pc, token,
                   stopTask, pidfile, caught>>

ManagerEnds ==
    /\ Alive /\ manager = "stopping"
    /\ manager' = "ended" /\ programs' = FALSE
    /\ UNCHANGED <<envVars, signalVars, serverVars, queued, pc, token, stopTask,
                   pidfile, caught>>

-----------------------------------------------------------------------------
(* The environment: signals, clients, and a new start after the end.        *)

\* Without a handler the signal kills the process; with a handler and no open
\* stream it goes nowhere.
Deliver(sig) ==
    IF sig \notin handlers
    THEN /\ pc' = "killed"
         /\ UNCHANGED <<signalVars, caught>>
    ELSE /\ term' = (term \/ (sig = "term" /\ stream))
         /\ hup' = (hup \/ sig = "hup")
         /\ caught' = (caught \/ (sig = "term" /\ stream))
         /\ UNCHANGED <<handlers, stream, pc>>

Signal(sig) ==
    /\ Alive
    /\ sent.term + sent.hup < MaxSignals
    /\ sig = "hup" => sent.hup < MaxReloads
    /\ sent' = [sent EXCEPT ![sig] = @ + 1]
    /\ Deliver(sig)
    /\ UNCHANGED <<life, serverVars, managerVars, token, stopTask, pidfile>>

\* supervisor.shutdown: a detached task sends the command ...
ApiShutdown ==
    /\ Alive /\ \E l \in Listeners : listener[l] = "serving"
    /\ stopTask = "none"
    /\ stopTask' = "sent"
    /\ queued' = queued \cup {"shutdown"}
    /\ caught' = TRUE
    /\ UNCHANGED <<envVars, signalVars, serverVars, manager, programs, pc, token, pidfile>>

ApiShutdownForgets ==   \* fault: only the manager learns of the shutdown
    /\ Alive /\ stopTask = "sent"
    /\ stopTask' = "ended"
    /\ UNCHANGED <<envVars, signalVars, serverVars, managerVars, pc, token, pidfile, caught>>

\* ... and cancels the root token once it is answered or times out.
ApiShutdownAnswered ==
    /\ Alive /\ stopTask = "sent"
    /\ stopTask' = "ended"
    /\ token' = TRUE
    /\ UNCHANGED <<envVars, signalVars, serverVars, managerVars, pc, pidfile, caught>>

Restart ==
    /\ ~Alive /\ life < MaxLives
    /\ life' = life + 1 /\ pc' = "load"
    /\ handlers' = {} /\ stream' = FALSE /\ term' = FALSE /\ hup' = FALSE
    /\ token' = FALSE /\ stopTask' = "none" /\ caught' = FALSE
    /\ engine' = "none" /\ listener' = [l \in Listeners |-> "none"]
    /\ manager' = "none" /\ queued' = {} /\ programs' = FALSE
    /\ UNCHANGED <<pidfile, socket, sent>>

-----------------------------------------------------------------------------
MainTask ==
    \/ LoadConfig \/ WritePidfile \/ BuildManager \/ Autostart
    \/ Poll \/ BreakLoop \/ StartReload \/ EndReload
    \/ AwaitEngine \/ AwaitManager

ManagerTask == ManagerReloads \/ ManagerReloaded \/ ManagerStops \/ ManagerEnds

ServerTask == EngineEnds \/ \E l \in Listeners : Bind(l) \/ ListenerEnds(l)

Next ==
    \/ MainTask \/ ManagerTask \/ ServerTask
    \/ ApiShutdown \/ ApiShutdownAnswered
    \/ \E sig \in {"term", "hup"} : Signal(sig)
    \/ Restart

Spec == Init /\ [][Next]_vars

\* The runtime polls every task that is ready, and a wait with a timeout ends.
Fairness ==
    /\ WF_vars(MainTask)
    /\ WF_vars(ManagerTask)
    /\ WF_vars(ServerTask)
    /\ WF_vars(ApiShutdownAnswered)

FairSpec == Spec /\ Fairness

-----------------------------------------------------------------------------
(* Properties.                                                              *)

\* When the daemon leaves by itself, on whatever path, its pid file is gone
\* and no program it supervised is left running, unless the manager had to be
\* aborted after the shutdown timeouts.
CleanExit ==
    pc = "exited" =>
        /\ pidfile # life
        /\ programs => manager = "aborted"

\* Once the daemon has caught a request to end, from a client, from the token
\* or from a signal, it exits, whatever it was doing (a reload included).  A
\* signal may still kill it before it has installed all its handlers.
ShutdownEnds == caught ~> ~Alive

\* DESIGN.md, 14: SIGTERM and SIGINT initiate the graceful drain.  Once the
\* handler is installed, a signal sent to the daemon ends it.
TermHeeded == [](sent.term > 0 /\ "term" \in handlers => <>(~Alive))
=============================================================================
