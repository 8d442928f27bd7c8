---------------------------- MODULE EventListener ----------------------------
(***************************************************************************)
(* One event listener pool: the task that turns hub events into envelopes, *)
(* the bounded buffer, the actors of the listener programs that share the  *)
(* pool and, for every listener process, the task that speaks the          *)
(* READY / RESULT protocol with it ("wire task").                          *)
(*                                                                         *)
(* A wire task is named <<l, g>>: the g-th process of listener program l.  *)
(* An envelope is its pool serial.  What a listener process writes, when   *)
(* it closes its pipes and when it dies is up to the environment.          *)
(***************************************************************************)
EXTENDS Integers, FiniteSets, Sequences, SequencesExt

CONSTANTS
    Listeners,      \* the listener programs of the pool
    Events,         \* the hub events: records [ch, type, ...]
    Subscribed,     \* the subscriptions, as sequences of words
    BufferSize,     \* buffer_size
    HubCapacity,    \* capacity of a broadcast channel of the hub
    MaxEvents,      \* bound: hub events published
    MaxSpawns,      \* bound: processes per listener
    MaxCalls        \* bound: calls per listener

\* EventListenerPool::new takes buffer_size.max(1).
ASSUME PoolAssumption == BufferSize \in Nat \ {0} /\ MaxSpawns \in Nat

VARIABLES
    bus,            \* what the hub task has still to receive, per channel
    hub,            \* "running" or "ended": spawn_event_hub_listener's task
    pending,        \* names of the event it is handling, not yet accepted
    published,      \* number of hub events so far (bounded)
    buffer, pool_serial,
    overflowed, handled, lost,  \* history: what became of an envelope
    delivered,      \* history: envelopes taken from the buffer at least once
    wire,           \* the wire tasks
    alive,          \* the listener processes that run
    actor, call, calls,
    cancelled,      \* the programs' cancel tokens
    pool_cancelled  \* the manager's token, parent of all the others

hubVars   == <<bus, hub, pending, published>>
poolVars  == <<buffer, pool_serial, overflowed, handled, lost, delivered>>
actorVars == <<actor, call, calls, cancelled>>
vars == <<hubVars, poolVars, wire, alive, actorVars, pool_cancelled>>

Channels == {"system", "logs"}
Wires    == Listeners \X (1 .. MaxSpawns)
None     == -1
Ops      == {"Start", "Stop", "Restart", "Signal", "Shutdown"}

NoWire == [st |-> "none", env |-> None, cancel |-> FALSE, missed |-> FALSE]

\* The suspension points of a wire task: here its select sees a cancellation.
\* "look" is Ready before the buffer is tried, "gap" after the buffer was
\* found empty and before the Notified future exists.
Suspended == {"Acknowledged", "look", "waiting", "write", "Busy", "Unknown"}

Init ==
    /\ bus = [c \in Channels |-> <<>>] /\ hub = "running"
    /\ pending = <<>> /\ published = 0
    /\ buffer = <<>> /\ pool_serial = 0
    /\ overflowed = {} /\ handled = {} /\ lost = {} /\ delivered = {}
    /\ wire = [w \in Wires |-> NoWire]
    /\ alive = {}
    /\ actor = [l \in Listeners |->
                   [pc |-> "select", op |-> "none", child |-> 0,
                    state |-> "STOPPED", spawns |-> 0]]
    /\ call = [l \in Listeners |-> "none"]
    /\ calls = [l \in Listeners |-> 0]
    /\ cancelled = [l \in Listeners |-> FALSE]
    /\ pool_cancelled = FALSE

-----------------------------------------------------------------------------
(* Event names: the words of "PROCESS_STATE_EXITED" and the like.          *)

Copies(n, name) == [i \in 1 .. n |-> name]

StateEvent(e) == <<"PROCESS", "STATE", e.new_state>>

LogEvent(e) ==
    <<"PROCESS", "LOG", IF e.stream = "stderr" THEN "STDERR" ELSE "STDOUT">>

\* Of a reload only how many programs it added and removed matters.
SystemEventNames(e) ==
    CASE e.type = "StateChanged" -> <<StateEvent(e)>>
      [] e.type = "Tick" -> << <<"TICK", e.interval>> >>
      [] e.type = "RemoteCommunication" -> << <<"REMOTE", "COMMUNICATION">> >>
      [] e.type = "DaemonLifecycle" ->
            (CASE e.action = "running" ->
                     << <<"SUPERVISOR", "STATE", "CHANGE", "RUNNING">> >>
               [] e.action = "shutting_down" ->
                     << <<"SUPERVISOR", "STATE", "CHANGE", "STOPPING">> >>
               [] OTHER -> <<>>)
      [] e.type = "ConfigReloaded" ->
            Copies(e.added, <<"PROCESS", "GROUP", "ADDED">>)
                \o Copies(e.removed, <<"PROCESS", "GROUP", "REMOVED">>)
      [] e.type = "ProcessGroupAdded" -> << <<"PROCESS", "GROUP", "ADDED">> >>
      [] e.type = "ProcessGroupRemoved" -> << <<"PROCESS", "GROUP", "REMOVED">> >>
      [] OTHER -> <<>>

LogEntryNames(e) == IF e.events_enabled THEN <<LogEvent(e)>> ELSE <<>>

EventMatchesSubscription(name, subs) ==
    \E s \in subs : s = <<"EVENT">> \/ IsPrefix(s, name)

-----------------------------------------------------------------------------
(* The hub and the task that listens to it.                                *)

Publish(e) ==
    /\ published < MaxEvents
    /\ published' = published + 1
    /\ hub = "running"
    /\ bus' = [bus EXCEPT ![e.ch] = Append(IF Len(@) = HubCapacity THEN Tail(@) ELSE @, e)]
    /\ UNCHANGED <<hub, pending, poolVars, wire, alive, actorVars, pool_cancelled>>

\* An overwritten event makes one recv return Lagged, which is logged; the next
\* one continues with the oldest left.
HubReceive(c) ==
    /\ hub = "running" /\ pending = <<>>
    /\ bus[c] # <<>>
    /\ pending' = IF c = "system" THEN SystemEventNames(Head(bus[c]))
                                  ELSE LogEntryNames(Head(bus[c]))
    /\ bus' = [bus EXCEPT ![c] = Tail(@)]
    /\ UNCHANGED <<hub, published, poolVars, wire, alive, actorVars,
                   pool_cancelled>>

HubCancelled ==
    /\ hub = "running" /\ pending = <<>> /\ pool_cancelled
    /\ hub' = "ended"
    /\ UNCHANGED <<bus, pending, published, poolVars, wire, alive,
                   actorVars, pool_cancelled>>

\* notify_waiters: wakes the tasks that wait, and nobody else.  `missed`
\* records that a task was in the window in which it cannot be woken.
NotifyWaiters(w) ==
    [x \in Wires |->
        CASE w[x].st = "waiting" -> [w[x] EXCEPT !.st = "look"]
          [] w[x].st = "gap"     -> [w[x] EXCEPT !.missed = TRUE]
          [] OTHER               -> w[x]]

\* Fault: no notification after an event has been accepted.
AcceptSilently ==
    /\ pending # <<>> /\ pending' = Tail(pending)
    /\ IF EventMatchesSubscription(Head(pending), Subscribed)
       THEN /\ pool_serial' = pool_serial + 1
            /\ IF Len(buffer) >= BufferSize
               THEN /\ buffer' = Append(Tail(buffer), pool_serial)
                    /\ overflowed' = overflowed \cup {Head(buffer)}
               ELSE /\ buffer' = Append(buffer, pool_serial)
                    /\ UNCHANGED overflowed
       ELSE UNCHANGED <<pool_serial, buffer, overflowed>>
    /\ UNCHANGED <<bus, hub, published, handled, lost, delivered, wire,
                   alive, actorVars, pool_cancelled>>

\* accept_event on the next name of the hub event: a full buffer loses its
\* oldest envelope.
AcceptEvent ==
    /\ pending # <<>> /\ pending' = Tail(pending)
    /\ IF EventMatchesSubscription(Head(pending), Subscribed)
       THEN /\ pool_serial' = pool_serial + 1
            /\ IF Len(buffer) >= BufferSize
               THEN /\ buffer' = Append(Tail(buffer), pool_serial)
                    /\ overflowed' = overflowed \cup {Head(buffer)}
               ELSE /\ buffer' = Append(buffer, pool_serial)
                    /\ UNCHANGED overflowed
            /\ wire' = NotifyWaiters(wire)
       ELSE UNCHANGED <<pool_serial, buffer, overflowed, wire>>
    /\ UNCHANGED <<bus, hub, published, handled, lost, delivered, alive,
                   actorVars, pool_cancelled>>

\* requeue_rejected: a full buffer loses its newest envelope.
RequeueRejected(e) ==
    IF Len(buffer) >= BufferSize
    THEN /\ buffer' = <<e>> \o Front(buffer)
         /\ overflowed' = overflowed \cup {Last(buffer)}
    ELSE /\ buffer' = <<e>> \o buffer
         /\ UNCHANGED overflowed

-----------------------------------------------------------------------------
(* The wire task of one listener process.                                  *)

wireFrame == <<hubVars, pool_serial, alive, actorVars, pool_cancelled>>

\* A task that takes a step `to` leaves the pool as it is.
WireMoves(x, to) ==
    /\ wire' = [wire EXCEPT ![x].st = to]
    /\ UNCHANGED <<wireFrame, buffer, overflowed, handled, lost, delivered>>

\* The envelope goes back to the head of the buffer and the waiters are woken.
GivesBack(x, to) ==
    /\ RequeueRejected(wire[x].env)
    /\ wire' = NotifyWaiters([wire EXCEPT ![x].st = to, ![x].env = None])
    /\ UNCHANGED <<wireFrame, handled, lost, delivered>>

\* Acknowledged: READY announces that the listener may be sent an event.
ReadLineReady(x) ==
    /\ wire[x].st = "Acknowledged"
    /\ wire' = NotifyWaiters([wire EXCEPT ![x].st = "look"])
    /\ UNCHANGED <<wireFrame, buffer, overflowed, handled, lost, delivered>>

\* Any other line in Acknowledged, any line in Ready: no further events.
ReadLineUnexpected(x) ==
    wire[x].st \in {"Acknowledged", "look", "waiting"} /\ WireMoves(x, "Unknown")

\* Ready: the line reader had nothing, the buffer is tried.
PopNextEvent(x) ==
    /\ wire[x].st = "look" /\ buffer # <<>>
    /\ buffer' = Tail(buffer)
    /\ delivered' = delivered \cup {Head(buffer)}
    /\ wire' = [wire EXCEPT ![x].st = "write", ![x].env = Head(buffer)]
    /\ UNCHANGED <<wireFrame, overflowed, handled, lost>>

FindEmpty(x) ==
    /\ wire[x].st = "look" /\ buffer = <<>>
    /\ wire' = [wire EXCEPT ![x].st = "gap", ![x].missed = FALSE]
    /\ UNCHANGED <<wireFrame, buffer, overflowed, handled, lost, delivered>>

\* The Notified future exists from here on.
AwaitNotified(x) == wire[x].st = "gap" /\ WireMoves(x, "waiting")

WriteEnvelope(x) == wire[x].st = "write" /\ x \in alive /\ WireMoves(x, "Busy")

WriteFails(x) == wire[x].st = "write" /\ GivesBack(x, "ended")

ResultOk(x) ==
    /\ wire[x].st = "Busy"
    /\ handled' = handled \cup {wire[x].env}
    /\ wire' = [wire EXCEPT ![x].st = "Acknowledged", ![x].env = None]
    /\ UNCHANGED <<wireFrame, buffer, overflowed, lost, delivered>>

ResultRejected(x) == wire[x].st = "Busy" /\ GivesBack(x, "Acknowledged")

\* No RESULT, no length, a length past the limit, or a body cut short.
ResultMalformed(x) == wire[x].st = "Busy" /\ GivesBack(x, "Unknown")

\* Fault: the envelope in flight is forgotten at end of file.
EndOfFileForgets(x) ==
    /\ wire[x].st \in {"Acknowledged", "look", "waiting", "Busy"}
    /\ wire' = [wire EXCEPT ![x].st = "ended", ![x].env = None]
    /\ UNCHANGED <<wireFrame, buffer, overflowed, handled, lost, delivered>>

EndOfFile(x) ==
    /\ wire[x].st \in {"Acknowledged", "look", "waiting", "Busy"}
    /\ IF wire[x].env = None THEN WireMoves(x, "ended") ELSE GivesBack(x, "ended")

\* The select drops the pending future, and with it the envelope.
WireCancelled(x) ==
    /\ wire[x].st \in Suspended /\ (wire[x].cancel \/ pool_cancelled)
    /\ wire' = [wire EXCEPT ![x].st = "ended", ![x].env = None]
    /\ lost' = IF wire[x].env = None THEN lost ELSE lost \cup {wire[x].env}
    /\ UNCHANGED <<wireFrame, buffer, overflowed, handled, delivered>>

WireStep(x) ==
    \/ ReadLineReady(x) \/ ReadLineUnexpected(x)
    \/ PopNextEvent(x) \/ FindEmpty(x) \/ AwaitNotified(x)
    \/ WriteEnvelope(x) \/ WriteFails(x)
    \/ ResultOk(x) \/ ResultRejected(x) \/ ResultMalformed(x)
    \/ EndOfFile(x) \/ WireCancelled(x)

-----------------------------------------------------------------------------
(* The actor of a listener program and its callers.                        *)

poolFrame == <<hubVars, poolVars, pool_cancelled>>

Current(l) == <<l, actor[l].child>>

\* start, stop, restart, signal; a program has one caller at a time.
Call(l, op) ==
    /\ call[l] = "none" /\ calls[l] < MaxCalls /\ op \in Ops
    /\ call' = [call EXCEPT ![l] = IF actor[l].pc = "ended" THEN "none" ELSE op]
    /\ calls' = [calls EXCEPT ![l] = IF op = "Shutdown" THEN MaxCalls ELSE @ + 1]
    /\ cancelled' = [cancelled EXCEPT ![l] = @ \/ op = "Shutdown"]
    /\ UNCHANGED <<poolFrame, wire, alive, actor>>

\* The daemon ends: the parent token of the pool and of its programs.
CancelAll ==
    /\ ~pool_cancelled /\ pool_cancelled' = TRUE
    /\ UNCHANGED <<hubVars, poolVars, wire, alive, actorVars>>

Answer(l) == call' = [call EXCEPT ![l] = "none"]

\* spawn_child has no suspension point: it succeeds or fails as a whole.
SpawnOk(l) ==
    LET g == actor[l].spawns + 1 IN
    /\ g <= MaxSpawns
    /\ actor' = [actor EXCEPT ![l] =
                    [pc |-> "select", op |-> "none", child |-> g,
                     state |-> "RUNNING", spawns |-> g]]
    /\ alive' = alive \cup {<<l, g>>}
    /\ wire' = [wire EXCEPT ![<<l, g>>] = [NoWire EXCEPT !.st = "Acknowledged"]]

SpawnErr(l) ==
    /\ actor' = [actor EXCEPT ![l].pc = "select", ![l].op = "none"]
    /\ UNCHANGED <<alive, wire>>

SpawnChild(l) == SpawnOk(l) \/ SpawnErr(l)

TakeStart(l) ==
    /\ actor[l].pc = "select" /\ call[l] = "Start"
    /\ IF actor[l].child = 0 THEN SpawnChild(l) ELSE UNCHANGED <<actor, alive, wire>>
    /\ Answer(l)
    /\ UNCHANGED <<poolFrame, calls, cancelled>>

TakeSignal(l) ==
    /\ actor[l].pc = "select" /\ call[l] = "Signal"
    /\ Answer(l)
    /\ UNCHANGED <<poolFrame, wire, alive, actor, calls, cancelled>>

\* stop_child begins: the wire task is cancelled and the signal sent.
BeginStop(l, op) ==
    /\ wire' = [wire EXCEPT ![Current(l)].cancel = TRUE]
    /\ actor' = [actor EXCEPT ![l].pc = "stopping", ![l].op = op]

TakeStop(l) ==
    /\ actor[l].pc = "select" /\ call[l] \in {"Stop", "Shutdown"}
    /\ IF actor[l].child = 0
       THEN Answer(l) /\ UNCHANGED <<wire, actor>>
       ELSE BeginStop(l, "Stop") /\ UNCHANGED call
    /\ UNCHANGED <<poolFrame, alive, calls, cancelled>>

TakeRestart(l) ==
    /\ actor[l].pc = "select" /\ call[l] = "Restart"
    /\ IF actor[l].child = 0
       THEN SpawnChild(l) /\ Answer(l)
       ELSE BeginStop(l, "Restart") /\ UNCHANGED <<alive, call>>
    /\ UNCHANGED <<poolFrame, calls, cancelled>>

\* The task returns; a command still in the channel is answered with an error.
RunEnds(l) ==
    /\ actor' = [actor EXCEPT ![l].pc = "ended", ![l].child = 0, ![l].op = "none"]
    /\ Answer(l)

Cancelled(l) ==
    /\ actor[l].pc = "select" /\ (cancelled[l] \/ pool_cancelled)
    /\ IF actor[l].child = 0
       THEN RunEnds(l) /\ UNCHANGED wire
       ELSE BeginStop(l, "End") /\ UNCHANGED call
    /\ UNCHANGED <<poolFrame, alive, calls, cancelled>>

\* Fault: the process is not killed when the grace period is over.
GraceTimeoutWaits(l) ==
    /\ actor[l].pc = "stopping" /\ Current(l) \in alive
    /\ UNCHANGED vars

\* The grace period is over: force_kill.
GraceTimeout(l) ==
    /\ actor[l].pc = "stopping" /\ Current(l) \in alive
    /\ alive' = alive \ {Current(l)}
    /\ UNCHANGED <<poolFrame, wire, actorVars>>

\* stop_child returns.  Only the Stop command publishes the new state.
StopReturns(l) ==
    /\ actor[l].pc = "stopping" /\ Current(l) \notin alive
    /\ CASE actor[l].op = "Stop" ->
               /\ actor' = [actor EXCEPT ![l].pc = "select", ![l].op = "none",
                                         ![l].child = 0, ![l].state = "STOPPED"]
               /\ Answer(l) /\ UNCHANGED <<wire, alive>>
         [] actor[l].op = "Restart" ->
               /\ \/ SpawnOk(l)
                  \/ /\ actor' = [actor EXCEPT ![l].pc = "select", ![l].op = "none",
                                               ![l].child = 0]
                     /\ UNCHANGED <<wire, alive>>
               /\ Answer(l)
         [] actor[l].op = "End" -> RunEnds(l) /\ UNCHANGED <<wire, alive>>
    /\ UNCHANGED <<poolFrame, calls, cancelled>>

\* The exit of the child is noticed; autorestart may ask for another one.
ChildExit(l) ==
    /\ actor[l].pc = "select" /\ actor[l].child # 0 /\ Current(l) \notin alive
    /\ wire' = [wire EXCEPT ![Current(l)].cancel = TRUE]
    /\ \E again \in BOOLEAN :
           actor' = [actor EXCEPT ![l].pc = IF again THEN "retry" ELSE "select",
                                  ![l].child = 0, ![l].state = "EXITED"]
    /\ UNCHANGED <<poolFrame, alive, call, calls, cancelled>>

\* SHORT_RETRY_DELAY has passed; nothing interrupts the sleep.
Retry(l) ==
    /\ actor[l].pc = "retry" /\ SpawnChild(l)
    /\ UNCHANGED <<poolFrame, call, calls, cancelled>>

ActorStep(l) ==
    \/ TakeStart(l) \/ TakeSignal(l) \/ TakeStop(l) \/ TakeRestart(l)
    \/ Cancelled(l) \/ GraceTimeout(l) \/ StopReturns(l) \/ ChildExit(l) \/ Retry(l)

\* The listener process ends by itself.
Dies(x) ==
    /\ x \in alive /\ alive' = alive \ {x}
    /\ UNCHANGED <<poolFrame, wire, actorVars>>

Next ==
    \/ \E e \in Events : Publish(e)
    \/ \E c \in Channels : HubReceive(c)
    \/ HubCancelled \/ AcceptEvent \/ CancelAll
    \/ \E x \in Wires : WireStep(x) \/ Dies(x)
    \/ \E l \in Listeners : ActorStep(l) \/ \E op \in Ops : Call(l, op)

Spec == Init /\ [][Next]_vars

\* Tasks are scheduled and timers run out.  A select polls its branches in a
\* random order, so that it does not ignore a cancelled token forever.
FairSpec ==
    /\ Spec
    /\ \A l \in Listeners : WF_vars(ActorStep(l)) /\ SF_vars(Cancelled(l))
    /\ \A x \in Wires : WF_vars(AwaitNotified(x)) /\ SF_vars(WireCancelled(x))

-----------------------------------------------------------------------------
(* Properties.                                                             *)

InFlight == {wire[x].env : x \in Wires} \ {None}

\* Accounting of the events of the pool (pool.rs, program.rs:441-579): every
\* envelope ever numbered is in exactly one place: in the buffer (once), with
\* one wire task, acknowledged, discarded by an overflow, or lost with a wire
\* task that was cancelled while it held it.  A rejected event, a broken pipe
\* or a protocol violation never loses or duplicates one.
Accounted ==
    LET places == <<ToSet(buffer), InFlight, handled, overflowed, lost>> IN
    /\ UNION ToSet(places) = 0 .. pool_serial - 1
    /\ \A i, j \in DOMAIN places : i # j => places[i] \cap places[j] = {}
    /\ IsInjective(buffer) /\ Len(buffer) <= BufferSize
    /\ \A x, y \in Wires : x # y /\ wire[x].env # None => wire[x].env # wire[y].env
    /\ \A x \in Wires : wire[x].env # None <=> wire[x].st \in {"write", "Busy"}

\* Order (push_front of a rejected envelope, push_back of a new one): listeners
\* are offered the events in the order of their serials, but for events given
\* back, which stand before all those nobody has been offered yet.
OldestFirst ==
    \A i, j \in DOMAIN buffer :
        i < j /\ buffer[i] \notin delivered =>
            buffer[j] \notin delivered /\ buffer[i] < buffer[j]

\* No envelope is lost, duplicated or overtaken on its way through the pool.
EnvelopesKept == Accounted /\ OldestFirst

\* Wakeups (dispatch_notify, program.rs:487-494): while events wait in the
\* buffer no listener that is ready sleeps, unless the event came in the window
\* between its look at the buffer and the creation of its Notified future.
SleepsOnlyIfMissed ==
    \A x \in Wires : wire[x].st = "waiting" /\ buffer # <<>> => wire[x].missed

\* Processes (stop_child, the Drop guard, the exit branch): a program has at
\* most one process; STOPPED and EXITED are published, and the task has ended,
\* only when it has none; and a wire task outlives its process only cancelled
\* or on its way to see the end of file.
ListenerProcesses ==
    \A l \in Listeners :
        LET mine == {x \in alive : x[1] = l} IN
        /\ Cardinality(mine) <= 1
        /\ (actor[l].state # "RUNNING" \/ actor[l].pc = "ended") => mine = {}
        /\ \A x \in mine : actor[l].child = x[2]
        /\ \A g \in 1 .. MaxSpawns : g < actor[l].child =>
               wire[<<l, g>>].cancel \/ wire[<<l, g>>].st = "none"

-----------------------------------------------------------------------------
(* The inductive invariant behind the three.                               *)

WireType ==
    [st : Suspended \cup {"none", "gap", "ended"}, env : Nat \cup {None},
     cancel : BOOLEAN, missed : BOOLEAN]

ActorType ==
    [pc : {"select", "stopping", "retry", "ended"},
     op : {"none", "Stop", "Restart", "End"},
     child : 0 .. MaxSpawns, state : {"STOPPED", "RUNNING", "EXITED"},
     spawns : 0 .. MaxSpawns]

TypeOK ==
    /\ pool_serial \in Nat /\ buffer \in Seq(Nat)
    /\ wire \in [Wires -> WireType] /\ alive \subseteq Wires
    /\ actor \in [Listeners -> ActorType]

\* What was offered has a serial, and a task holds only what it was offered.
Offered == delivered \subseteq 0 .. pool_serial - 1 /\ InFlight \subseteq delivered

\* The missed wakeup dates from the window before the wait.
Wakeable ==
    \A x \in Wires : wire[x].st \in {"gap", "waiting"} /\ buffer # <<>> => wire[x].missed

\* A wire task belongs to a process that was spawned; all but the current one's
\* are cancelled, and that one's too once the stop has begun.
Wired ==
    \A l \in Listeners, g \in 1 .. MaxSpawns :
        /\ g > actor[l].spawns => wire[<<l, g>>] = NoWire
        /\ g <= actor[l].spawns /\ (g # actor[l].child \/ actor[l].pc = "stopping")
              => wire[<<l, g>>].cancel

\* The process of a program is its current child, and then it is RUNNING.
Owned ==
    /\ \A x \in alive : actor[x[1]].child = x[2]
    /\ \A l \in Listeners :
           /\ actor[l].child # 0 => /\ actor[l].child <= actor[l].spawns
                                    /\ actor[l].state = "RUNNING"
                                    /\ actor[l].pc \in {"select", "stopping"}
           /\ actor[l].pc = "stopping" => actor[l].child # 0 /\ actor[l].op # "none"

IInv == TypeOK /\ EnvelopesKept /\ Offered /\ Wakeable /\ Wired /\ Owned

-----------------------------------------------------------------------------
(* Liveness.                                                               *)

\* Every call of start, stop, restart, signal and shutdown returns, although
\* none of them has a timeout (program.rs:139-213).
ListenerCallsReturn ==
    \A l \in Listeners : call[l] # "none" ~> call[l] = "none"

\* Once the token of a program or of the daemon is cancelled its task ends, its
\* process is gone and no wire task stays behind (program.rs:264-269, 450-451).
ListenerCancelEnds ==
    \A l \in Listeners :
        (cancelled[l] \/ pool_cancelled) ~>
            /\ actor[l].pc = "ended" /\ {x \in alive : x[1] = l} = {}
            /\ \A g \in 1 .. MaxSpawns : wire[<<l, g>>].st \in {"none", "ended"}

\* A listener program can be commanded and ended at any time, and its processes
\* are under its control until then.
ListenerControlled == []ListenerProcesses /\ ListenerCallsReturn /\ ListenerCancelEnds
=============================================================================
