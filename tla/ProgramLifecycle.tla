-------------------------- MODULE ProgramLifecycle --------------------------
(***************************************************************************)
(* What a supervised program promises to the rest of the daemon: the       *)
(* seven-state machine an observer sees through `status()`, related to the *)
(* OS processes that exist.  It says nothing about commands, hooks,        *)
(* timers or health probes; ProgramActor implements it.                    *)
(***************************************************************************)
EXTENDS Naturals, FiniteSets

CONSTANT Instances      \* identities of the OS processes that may be spawned

VARIABLES
    state,              \* the ProgramState in the status snapshot
    live                \* the instances whose OS process exists

vars == <<state, live>>

ProgramState ==
    {"Stopped", "Starting", "Running", "Backoff", "Stopping", "Exited", "Fatal"}

\* States in which no process may exist.
QuietStates == {"Stopped", "Backoff", "Exited", "Fatal"}

TypeOK ==
    /\ state \in ProgramState
    /\ live \in SUBSET Instances

Init ==
    /\ state = "Stopped"
    /\ live = {}

-----------------------------------------------------------------------------
\* A process is only ever created when none exists, and never while stopping.
Spawn(i) ==
    /\ live = {}
    /\ state # "Stopping"
    /\ live' = {i}
    /\ state' \in {"Starting", "Running"}

\* The start_secs window ended with the process alive.
Confirm ==
    /\ state = "Starting"
    /\ live # {}
    /\ state' = "Running"
    /\ UNCHANGED live

\* The process ends, on its own or killed.  Nobody has noticed yet.
Die ==
    /\ live # {}
    /\ live' = {}
    /\ UNCHANGED state

BeginStop ==
    /\ state \in {"Starting", "Running"}
    /\ state' = "Stopping"
    /\ UNCHANGED live

\* STOPPED is reported only once the process is gone.
EndStop ==
    /\ live = {}
    /\ state' = "Stopped"
    /\ UNCHANGED live

\* The process died inside the start_secs window.
StartCrash ==
    /\ state = "Starting"
    /\ live = {}
    /\ state' \in {"Backoff", "Fatal"}
    /\ UNCHANGED live

\* The process died after it was confirmed RUNNING.
RunEnded ==
    /\ state = "Running"
    /\ live = {}
    /\ state' \in {"Exited", "Starting"}
    /\ UNCHANGED live

\* No process could be created.
SpawnFailed ==
    /\ live = {}
    /\ state # "Stopping"
    /\ state' = "Fatal"
    /\ UNCHANGED live

Next ==
    \/ \E i \in Instances : Spawn(i)
    \/ Confirm \/ Die \/ BeginStop \/ EndStop
    \/ StartCrash \/ RunEnded \/ SpawnFailed

Spec == Init /\ [][Next]_vars
=============================================================================
