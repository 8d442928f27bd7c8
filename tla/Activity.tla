------------------------------ MODULE Activity -------------------------------
(***************************************************************************)
(* The activity tracker, shared by the request handlers and by the metrics *)
(* sampling of every program actor: sampling pauses when no client was     *)
(* seen for some time and no event stream is open, and is woken through a  *)
(* Notify that keeps no permit.  The tracker is a handful of atomics and a *)
(* lock: what a client does to it is several steps.                        *)
(***************************************************************************)
EXTENDS Integers, FiniteSets

CONSTANTS
    Clients,        \* requests that may be under way at once
    Samplers,       \* program actors with a child
    IdleTimeout     \* idle_timeout_secs, in ticks; not 0

VARIABLES
    idle,           \* ticks since last_activity, at most IdleTimeout
    observers,      \* active_observers
    step,           \* step[c]: what client c does to the tracker
    wasInactive,    \* wasInactive[c]: what c saw before it wrote
    streaming,      \* streaming[c]: c holds a SseStreamGuard
    sampler,        \* sampler[s]: "look", "ticking", "arming", "waiting" or "woken"
    surplus         \* surplus[s]: history: samples since nobody was active, at most 2
vars == <<idle, observers, step, wasInactive, streaming, sampler, surplus>>

\* is_metrics_active.
IsMetricsActive == observers > 0 \/ idle < IdleTimeout

\* notify_waiters: only those that wait already.
NotifyWaiters ==
    sampler' = [s \in Samplers |-> IF sampler[s] = "waiting" THEN "woken" ELSE sampler[s]]

Go(c, to) == step' = [step EXCEPT ![c] = to]

\* record_activity: look, write, notify.  Every request does it.
RecordLook(c) ==
    /\ step[c] \in {"idle", "counted"}
    /\ wasInactive' = [wasInactive EXCEPT ![c] = ~IsMetricsActive \/ (step[c] = "counted" /\ @)]
    /\ Go(c, "record")
    /\ UNCHANGED <<idle, observers, streaming, sampler, surplus>>

RecordWrite(c) ==
    /\ step[c] = "record"
    /\ idle' = 0
    /\ Go(c, "notify")
    /\ surplus' = [s \in Samplers |-> 0]
    /\ UNCHANGED <<observers, wasInactive, streaming, sampler>>

RecordNotify(c) ==
    /\ step[c] = "notify"
    /\ IF wasInactive[c] THEN NotifyWaiters ELSE UNCHANGED sampler
    /\ Go(c, "idle")
    /\ wasInactive' = [wasInactive EXCEPT ![c] = FALSE]
    /\ UNCHANGED <<idle, observers, streaming, surplus>>

\* enter_stream: look, count the stream, then record the activity.
EnterStream(c) ==
    /\ step[c] = "idle" /\ ~streaming[c]
    /\ wasInactive' = [wasInactive EXCEPT ![c] = ~IsMetricsActive]
    /\ Go(c, "enter")
    /\ UNCHANGED <<idle, observers, streaming, sampler, surplus>>

CountStream(c) ==
    /\ step[c] = "enter"
    /\ observers' = observers + 1
    /\ streaming' = [streaming EXCEPT ![c] = TRUE]
    /\ Go(c, "counted")
    /\ surplus' = [s \in Samplers |-> 0]
    /\ UNCHANGED <<idle, wasInactive, sampler>>

\* Fault: a stream that ends stays counted.
LeaveStreamLeaks(c) ==
    /\ step[c] = "idle" /\ streaming[c]
    /\ streaming' = [streaming EXCEPT ![c] = FALSE]
    /\ UNCHANGED <<idle, observers, step, wasInactive, sampler, surplus>>

\* The guard is dropped with the stream.
LeaveStream(c) ==
    /\ step[c] = "idle" /\ streaming[c]
    /\ observers' = observers - 1
    /\ streaming' = [streaming EXCEPT ![c] = FALSE]
    /\ UNCHANGED <<idle, step, wasInactive, sampler, surplus>>

\* Time passes; a whole idle period does not fit between a call's write and the
\* notify that follows it.
Tick ==
    /\ idle + 1 < IdleTimeout \/ \A c \in Clients : step[c] # "notify"
    /\ idle' = IF idle < IdleTimeout THEN idle + 1 ELSE IdleTimeout
    /\ UNCHANGED <<observers, step, wasInactive, streaming, sampler, surplus>>

-----------------------------------------------------------------------------
(* The metrics branches of the actor's loop.                               *)

Sample(s) ==
    surplus' = IF IsMetricsActive THEN surplus
               ELSE [surplus EXCEPT ![s] = IF @ < 2 THEN @ + 1 ELSE 2]

\* The head of the loop.
Look(s) ==
    /\ sampler[s] = "look"
    /\ sampler' = [sampler EXCEPT ![s] = IF IsMetricsActive THEN "ticking" ELSE "arming"]
    /\ UNCHANGED <<idle, observers, step, wasInactive, streaming, surplus>>

MetricsTick(s) ==
    /\ sampler[s] = "ticking"
    /\ sampler' = [sampler EXCEPT ![s] = "look"]
    /\ Sample(s)
    /\ UNCHANGED <<idle, observers, step, wasInactive, streaming>>

\* The select registers with the Notify.
Arm(s) ==
    /\ sampler[s] = "arming"
    /\ sampler' = [sampler EXCEPT ![s] = "waiting"]
    /\ UNCHANGED <<idle, observers, step, wasInactive, streaming, surplus>>

Woken(s) ==
    /\ sampler[s] = "woken"
    /\ sampler' = [sampler EXCEPT ![s] = "look"]
    /\ Sample(s)
    /\ UNCHANGED <<idle, observers, step, wasInactive, streaming>>

Init ==
    /\ idle = 0 /\ observers = 0
    /\ step = [c \in Clients |-> "idle"]
    /\ wasInactive = [c \in Clients |-> FALSE]
    /\ streaming = [c \in Clients |-> FALSE]
    /\ sampler = [s \in Samplers |-> "look"]
    /\ surplus = [s \in Samplers |-> 0]

Request(c) == RecordLook(c) \/ RecordWrite(c) \/ RecordNotify(c) \/ CountStream(c)
Sampling(s) == Look(s) \/ MetricsTick(s) \/ Arm(s) \/ Woken(s)

Next ==
    \/ \E c \in Clients : Request(c) \/ EnterStream(c) \/ LeaveStream(c)
    \/ \E s \in Samplers : Sampling(s)
    \/ Tick

Spec == Init /\ [][Next]_vars

-----------------------------------------------------------------------------
(* Properties.                                                             *)

\* The count of observers (enter_stream, the guard's drop) is that of the open
\* streams, so that sampling can pause; and once nobody is active an actor
\* takes at most the sample it was about to take.
DormantWhenIdle ==
    /\ observers = Cardinality({c \in Clients : streaming[c]})
    /\ \A s \in Samplers : surplus[s] < 2
=============================================================================
