------------------------- MODULE ProgramActorProofs -------------------------
(***************************************************************************)
(* Proofs about ProgramActor, for every set of configurations and every    *)
(* value of the retry limit, the failure threshold, the channel capacities *)
(* and the number of processes.                                            *)
(*                                                                         *)
(* IInv is shown inductive one conjunct at a time.  Every such lemma has   *)
(* the same shape: the caller, the probe and stuttering leave the actor    *)
(* alone (ActorUntouched), then one case per step of the actor and of the  *)
(* operating system.  The second half proves what a returned call promises *)
(* and, from both invariants, the refinement of the two abstractions.      *)
(***************************************************************************)
EXTENDS ProgramActorContract, SequenceTheorems, TLAPS

\* The parts of TypeOK, proved separately.
ActorTypes ==
    /\ config \in Configs
    /\ pc \in Await
    /\ current_child \in 0..MaxSpawns
    /\ child_info \in 0..MaxSpawns
    /\ retry_count \in 0..(StartRetries + 1)
    /\ start_deadline \in 0..MaxSpawns
    /\ spawn_seq \in 0..MaxSpawns
    /\ stdin_tx \in 0..MaxSpawns
    /\ proc \in [Spawns -> {"unborn", "alive", "expected", "unexpected"}]

FlagTypes ==
    /\ marked_running \in BOOLEAN
    /\ manual_stop \in BOOLEAN
    /\ is_shutting_down \in BOOLEAN
    /\ backoff_deadline \in BOOLEAN

StatusType == [state : ProgramState, pid : 0..MaxSpawns,
               health : HealthStatus, is_healthy : BOOLEAN]

CommandType == [op : ProgramCommand, live : BOOLEAN]
ServedType  == [op : Trigger, live : BOOLEAN]
CallType    == [op : ProgramCommand \cup {"None"}, res : CallResult]

ChannelTypes ==
    /\ cur \in ServedType
    /\ command_rx \in Seq(CommandType)
    /\ Len(command_rx) <= MailboxCap
    /\ call \in CallType
    /\ cancel_token \in BOOLEAN

ProbeType == [child : 0..MaxSpawns, phase : {"off", "wait", "check"},
              failures : 0..FailureThreshold,
              last_reported : {"Starting", "Healthy", "Unhealthy"}]
EventType == [ev : {"Healthy", "Unhealthy"}, child : 0..MaxSpawns]

ProbeTypes ==
    /\ probe \in ProbeType
    /\ health_rx \in Seq(EventType)
    /\ Len(health_rx) <= HealthCap

actorFrame == <<config, pc, childVars, flagVars, timerVars, sharedVars, proc>>

-----------------------------------------------------------------------------
(* Lemmas about the operators of the model.                                *)

\* The parts make up TypeOK.
LEMMA TypeParts ==
    TypeOK <=> /\ ActorTypes /\ FlagTypes /\ status \in StatusType
               /\ ChannelTypes /\ ProbeTypes
  BY DEF TypeOK, ActorTypes, FlagTypes, StatusType, ChannelTypes, ProbeTypes,
         CommandType, ServedType, CallType, ProbeType, EventType

\* update_status publishes the state and pid it is given and clears the health
\* fields outside STARTING and RUNNING.
LEMMA UpdateStatusFields ==
    ASSUME TypeOK, NEW st \in ProgramState, NEW p \in 0..MaxSpawns
    PROVE  /\ UpdateStatus(st, p) \in StatusType
           /\ UpdateStatus(st, p).state = st
           /\ UpdateStatus(st, p).pid = p
           /\ st \notin {"Starting", "Running"}
                 => /\ UpdateStatus(st, p).health = "None"
                    /\ ~UpdateStatus(st, p).is_healthy
<1> DEFINE u == UpdateStatus(st, p)
<1>1. u.state = st /\ u.pid = p
  BY DEF UpdateStatus
<1>2. u.health \in HealthStatus
  BY DEF UpdateStatus, TypeOK, HealthStatus
<1>3. u.is_healthy \in BOOLEAN
  BY DEF UpdateStatus
<1>4. st \notin {"Starting", "Running"} => u.health = "None" /\ ~u.is_healthy
  BY DEF UpdateStatus
<1>5. u = [state |-> u.state, pid |-> u.pid, health |-> u.health,
           is_healthy |-> u.is_healthy]
  BY DEF UpdateStatus
<1>6. QED
  BY <1>1, <1>2, <1>3, <1>4, <1>5 DEF StatusType

\* A reply keeps the record of the call well formed.
LEMMA ReplyType ==
    ASSUME TypeOK, NEW cmd, NEW r \in CallResult, Reply(cmd, r)
    PROVE  call' \in CallType
  BY DEF TypeOK, Reply, CallType

\* A caller that gives up leaves its command in place: only the command's
\* reply channel is gone.
LEMMA ForgetReplyType ==
    ASSUME TypeOK, ForgetReply
    PROVE  /\ command_rx' \in Seq(CommandType)
           /\ Len(command_rx') <= MailboxCap
           /\ cur' \in ServedType
           /\ cur'.op = cur.op
<1> DEFINE n == Len(command_rx)
<1>1. CASE command_rx # <<>>
  <2>1. n \in 1..Len(command_rx)
    BY <1>1 DEF TypeOK
  <2>2. command_rx[n] \in CommandType
    BY <2>1, ElementOfSeq DEF TypeOK, CommandType
  <2>3. [op |-> command_rx[n].op, live |-> FALSE] \in CommandType
    BY <2>2 DEF CommandType
  <2>4. command_rx' = [command_rx EXCEPT ![n] =
                          [op |-> command_rx[n].op, live |-> FALSE]]
    BY <1>1 DEF ForgetReply
  <2>5. command_rx' \in Seq(CommandType) /\ Len(command_rx') = n
    BY <2>1, <2>3, <2>4, ExceptSeq DEF TypeOK, CommandType
  <2>6. QED
    BY <1>1, <2>5 DEF TypeOK, ForgetReply, ServedType
<1>2. CASE command_rx = <<>>
  <2>1. cur' = [op |-> cur.op, live |-> FALSE] /\ command_rx' = command_rx
    BY <1>2 DEF ForgetReply
  <2>2. cur.op \in Trigger
    BY DEF TypeOK
  <2>3. cur' \in ServedType /\ cur'.op = cur.op
    BY <2>1, <2>2 DEF ServedType
  <2>4. QED
    BY <2>1, <2>3 DEF TypeOK, CommandType
<1>3. QED
  BY <1>1, <1>2

\* Receiving a command takes a well-formed one off the channel.
LEMMA TakeType ==
    ASSUME TypeOK, NEW o, Take(o)
    PROVE  /\ command_rx' \in Seq(CommandType)
           /\ Len(command_rx') <= MailboxCap
           /\ Head(command_rx) \in CommandType
           /\ Head(command_rx) \in ServedType
<1>1. command_rx \in Seq(CommandType) /\ command_rx # <<>>
  BY DEF TypeOK, Take, CommandReady, CommandType
<1>2. /\ Head(command_rx) \in CommandType
      /\ Tail(command_rx) \in Seq(CommandType)
      /\ Len(Tail(command_rx)) = Len(command_rx) - 1
  BY <1>1, HeadTailProperties
<1>3. Len(Tail(command_rx)) <= MailboxCap
  BY <1>1, <1>2, BoundsAssumption DEF TypeOK
<1>4. Head(command_rx) \in ServedType
  BY <1>2 DEF CommandType, ServedType, Trigger
<1>5. QED
  BY <1>2, <1>3, <1>4 DEF Take

\* Calls, their timeouts and the probe never touch the actor's own state, nor
\* what it is serving.
LEMMA ActorUntouched ==
    ASSUME TypeOK, Handle \/ Probe \/ Terminated \/ UNCHANGED vars
    PROVE  UNCHANGED actorFrame /\ cur'.op = cur.op
<1> USE DEF actorFrame, vars, controlVars, handleVars, probeVars
<1>1. CASE Handle
  <2>1. CASE CallTimeout
    BY <2>1, ForgetReplyType DEF CallTimeout
  <2>2. CASE DropHandle
    BY <2>2, ForgetReplyType DEF DropHandle
  <2>3. ASSUME NEW op \in ProgramCommand, Call(op)
        PROVE  UNCHANGED actorFrame /\ cur'.op = cur.op
    BY <2>3 DEF Call
  <2>4. CASE ShutdownCancel \/ ShutdownJoin
    BY <2>4 DEF ShutdownCancel, ShutdownJoin
  <2>5. QED
    BY <1>1, <2>1, <2>2, <2>3, <2>4 DEF Handle
<1>2. CASE Probe
  BY <1>2 DEF Probe, ProbeBegin, ProbeSucceeds, ProbeFails
<1>3. CASE Terminated \/ UNCHANGED vars
  BY <1>3 DEF Terminated
<1>4. QED
  BY <1>1, <1>2, <1>3

-----------------------------------------------------------------------------
(* Type correctness is preserved.                                          *)

\* The actor's own variables keep their types; in particular the retry counter
\* stays within start_retries + 1 (RetryBudget).
LEMMA ActorTypesStep ==
    ASSUME IInv, [Next]_vars
    PROVE  ActorTypes'
<1> USE BoundsAssumption DEF ActorTypes, IInv, TypeOK, RetryBudget,
    Ownership, StopAwaits, Spawns, None, Await, vars, controlVars,
    childVars, flagVars, timerVars, sharedVars, handleVars, probeVars
<1>1. CASE Handle \/ Probe \/ Terminated \/ UNCHANGED vars
  <2>1. UNCHANGED actorFrame
    BY <1>1, ActorUntouched
  <2>2. QED
    BY <2>1 DEF actorFrame
<1>2. CASE SpawnChild
  BY <1>2 DEF SpawnChild, SpawnFailed, SpawnProceeds, Reply
<1>3. CASE SpawnDrained
  BY <1>3 DEF SpawnDrained, SpawnProceeds
<1>4. CASE PreStartDone
  BY <1>4 DEF PreStartDone, SpawnFailed, Reply
<1>5. CASE LaunchFails
  BY <1>5 DEF LaunchFails, SpawnFailed, Reply
<1>6. CASE Launch
  BY <1>6 DEF Launch, Reply
<1>7. CASE PreStopDone
  BY <1>7 DEF PreStopDone
<1>8. CASE GraceExit
  BY <1>8 DEF GraceExit
<1>9. CASE GraceTimeout
  BY <1>9 DEF GraceTimeout
<1>10. CASE KillReaped
  BY <1>10 DEF KillReaped
<1>11. CASE StopDrained
  BY <1>11 DEF StopDrained
<1>12. CASE StopReturned
  BY <1>12 DEF StopReturned, Reply
<1>13. CASE StopThenSpawn
  BY <1>13 DEF StopThenSpawn
<1>14. CASE RunEnds
  BY <1>14 DEF RunEnds
<1>15. CASE HandleStart
  <2>1. CASE is_shutting_down
    BY <1>15, <2>1, SMTT(30) DEF HandleStart, Take, CommandReady, Refuse, Reply
  <2>2. CASE ~is_shutting_down
    BY <1>15, <2>2 DEF HandleStart, Take, CommandReady
  <2>3. QED
    BY <2>1, <2>2
<1>16. CASE HandleStop
  BY <1>16 DEF HandleStop, Take, CommandReady, StopCurrentChild
<1>17. CASE HandleRestart
  <2>1. CASE is_shutting_down
    BY <1>17, <2>1, SMTT(30) DEF HandleRestart, Take, CommandReady, Refuse, Reply
  <2>2. CASE ~is_shutting_down
    BY <1>17, <2>2 DEF HandleRestart, Take, CommandReady,
                     StopCurrentChild
  <2>3. QED
    BY <2>1, <2>2
<1>18. CASE HandleShutdown
  BY <1>18 DEF HandleShutdown, Take, CommandReady, StopCurrentChild
<1>19. CASE HandleSignal
  BY <1>19 DEF HandleSignal, Take, CommandReady, Reply
<1>20. CASE Cancelled
  BY <1>20 DEF Cancelled, CancelReady, StopCurrentChild
<1>21. CASE HealthyEvent
  BY <1>21 DEF HealthyEvent, HealthReady
<1>22. CASE UnhealthyEvent
  BY <1>22 DEF UnhealthyEvent, HealthReady
<1>23. CASE UnhealthyRestart
  BY <1>23 DEF UnhealthyRestart, HealthReady, StopCurrentChild
<1>24. CASE BackoffExpires
  BY <1>24 DEF BackoffExpires, TimersPolled
<1>25. CASE ChildExit
  BY <1>25 DEF ChildExit, TimersPolled
<1>26. CASE StartDeadline
  BY <1>26 DEF StartDeadline, TimersPolled
<1>27. CASE ExitDrained
  BY <1>27 DEF ExitDrained
<1>28. ASSUME NEW g \in Spawns, ProcessExits(g)
      PROVE  ActorTypes'
  BY <1>28 DEF ProcessExits
<1>29. CASE ProcessKilled
  BY <1>29 DEF ProcessKilled
<1>30. QED
  BY <1>1, <1>2, <1>3, <1>4, <1>5, <1>6, <1>7, <1>8, <1>9, <1>10, <1>11,
      <1>12, <1>13, <1>14, <1>15, <1>16, <1>17, <1>18, <1>19, <1>20, <1>21,
      <1>22, <1>23, <1>24, <1>25, <1>26, <1>27, <1>28, <1>29
     DEF Next, Actor, OS, SpawnStep, StopStep, SelectStep, HealthEvent

\* The actor's flags stay Boolean.
LEMMA FlagTypesStep ==
    ASSUME IInv, [Next]_vars
    PROVE  FlagTypes'
<1> USE BoundsAssumption DEF FlagTypes, IInv, TypeOK, vars, controlVars,
    childVars, flagVars, timerVars, sharedVars, handleVars, probeVars
<1>1. CASE Handle \/ Probe \/ Terminated \/ UNCHANGED vars
  BY <1>1, ActorUntouched DEF actorFrame
<1>2. CASE SpawnChild
  BY <1>2 DEF SpawnChild, SpawnFailed, SpawnProceeds, Reply
<1>3. CASE SpawnDrained
  BY <1>3 DEF SpawnDrained, SpawnProceeds
<1>4. CASE PreStartDone
  BY <1>4 DEF PreStartDone, SpawnFailed, Reply
<1>5. CASE LaunchFails
  BY <1>5 DEF LaunchFails, SpawnFailed, Reply
<1>6. CASE Launch
  BY <1>6 DEF Launch, Reply
<1>7. CASE PreStopDone
  BY <1>7 DEF PreStopDone
<1>8. CASE GraceExit
  BY <1>8 DEF GraceExit
<1>9. CASE GraceTimeout
  BY <1>9 DEF GraceTimeout
<1>10. CASE KillReaped
  BY <1>10 DEF KillReaped
<1>11. CASE StopDrained
  BY <1>11 DEF StopDrained
<1>12. CASE StopReturned
  BY <1>12 DEF StopReturned, Reply
<1>13. CASE StopThenSpawn
  BY <1>13 DEF StopThenSpawn
<1>14. CASE RunEnds
  BY <1>14 DEF RunEnds
<1>15. CASE HandleStart
  BY <1>15 DEF HandleStart, Take, CommandReady, Refuse, Reply
<1>16. CASE HandleStop
  BY <1>16 DEF HandleStop, Take, CommandReady, StopCurrentChild
<1>17. CASE HandleRestart
  <2>1. CASE is_shutting_down
    BY <1>17, <2>1 DEF HandleRestart, Take, CommandReady, Refuse, Reply
  <2>2. CASE ~is_shutting_down
    BY <1>17, <2>2 DEF HandleRestart, Take, CommandReady, StopCurrentChild
  <2>3. QED
    BY <2>1, <2>2
<1>18. CASE HandleShutdown
  BY <1>18 DEF HandleShutdown, Take, CommandReady, StopCurrentChild
<1>19. CASE HandleSignal
  BY <1>19 DEF HandleSignal, Take, CommandReady, Reply
<1>20. CASE Cancelled
  BY <1>20 DEF Cancelled, CancelReady, StopCurrentChild
<1>21. CASE HealthyEvent
  BY <1>21 DEF HealthyEvent, HealthReady
<1>22. CASE UnhealthyEvent
  BY <1>22 DEF UnhealthyEvent, HealthReady
<1>23. CASE UnhealthyRestart
  BY <1>23 DEF UnhealthyRestart, HealthReady, StopCurrentChild
<1>24. CASE BackoffExpires
  BY <1>24 DEF BackoffExpires, TimersPolled
<1>25. CASE ChildExit
  BY <1>25 DEF ChildExit, TimersPolled
<1>26. CASE StartDeadline
  BY <1>26 DEF StartDeadline, TimersPolled
<1>27. CASE ExitDrained
  BY <1>27 DEF ExitDrained
<1>28. ASSUME NEW g \in Spawns, ProcessExits(g)
      PROVE  FlagTypes'
  BY <1>28 DEF ProcessExits
<1>29. CASE ProcessKilled
  BY <1>29 DEF ProcessKilled
<1>30. QED
  BY <1>1, <1>2, <1>3, <1>4, <1>5, <1>6, <1>7, <1>8, <1>9, <1>10, <1>11,
      <1>12, <1>13, <1>14, <1>15, <1>16, <1>17, <1>18, <1>19, <1>20, <1>21,
      <1>22, <1>23, <1>24, <1>25, <1>26, <1>27, <1>28, <1>29
     DEF Next, Actor, OS, SpawnStep, StopStep, SelectStep, HealthEvent

\* The published status stays well formed.
LEMMA StatusTypeStep ==
    ASSUME IInv, [Next]_vars
    PROVE  (status \in StatusType)'
<1> USE BoundsAssumption DEF StatusType, IInv, TypeOK, ProgramState,
    HealthStatus, None, vars, controlVars, childVars, flagVars, timerVars,
    sharedVars, handleVars, probeVars
<1>1. CASE Handle \/ Probe \/ Terminated \/ UNCHANGED vars
  BY <1>1, ActorUntouched DEF actorFrame
<1>2. CASE SpawnChild
  BY <1>2, UpdateStatusFields DEF SpawnChild, SpawnFailed, SpawnProceeds
<1>3. CASE SpawnDrained
  BY <1>3 DEF SpawnDrained, SpawnProceeds, UpdateStatus
<1>4. CASE PreStartDone
  BY <1>4, UpdateStatusFields DEF PreStartDone, SpawnFailed
<1>5. CASE LaunchFails
  BY <1>5 DEF LaunchFails, SpawnFailed, Reply, UpdateStatus
<1>6. CASE Launch
  BY <1>6 DEF Launch, Reply, UpdateStatus
<1>7. CASE PreStopDone
  BY <1>7 DEF PreStopDone, UpdateStatus
<1>8. CASE GraceExit
  BY <1>8 DEF GraceExit, UpdateStatus
<1>9. CASE GraceTimeout
  BY <1>9 DEF GraceTimeout, UpdateStatus
<1>10. CASE KillReaped
  BY <1>10 DEF KillReaped, UpdateStatus
<1>11. CASE StopDrained
  BY <1>11 DEF StopDrained, UpdateStatus
<1>12. CASE StopReturned
  BY <1>12 DEF StopReturned, Reply, UpdateStatus
<1>13. CASE StopThenSpawn
  BY <1>13 DEF StopThenSpawn, UpdateStatus
<1>14. CASE RunEnds
  BY <1>14 DEF RunEnds, UpdateStatus
<1>15. CASE HandleStart
  BY <1>15 DEF HandleStart, Take, CommandReady, Refuse, Reply, UpdateStatus
<1>16. CASE HandleStop
  BY <1>16 DEF HandleStop, Take, CommandReady, StopCurrentChild,
      UpdateStatus
<1>17. CASE HandleRestart
  <2>1. CASE is_shutting_down
    BY <1>17, <2>1 DEF HandleRestart, Take, CommandReady, Refuse, Reply
  <2>2. CASE ~is_shutting_down
    BY <1>17, <2>2 DEF HandleRestart, Take, CommandReady, StopCurrentChild,
        UpdateStatus
  <2>3. QED
    BY <2>1, <2>2
<1>18. CASE HandleShutdown
  BY <1>18 DEF HandleShutdown, Take, CommandReady, StopCurrentChild,
      UpdateStatus
<1>19. CASE HandleSignal
  BY <1>19 DEF HandleSignal, Take, CommandReady, Reply, UpdateStatus
<1>20. CASE Cancelled
  BY <1>20, UpdateStatusFields DEF Cancelled, StopCurrentChild
<1>21. CASE HealthyEvent
  BY <1>21 DEF HealthyEvent, HealthReady, UpdateStatus
<1>22. CASE UnhealthyEvent
  BY <1>22 DEF UnhealthyEvent, HealthReady, UpdateStatus
<1>23. CASE UnhealthyRestart
  BY <1>23 DEF UnhealthyRestart, HealthReady, StopCurrentChild, UpdateStatus
<1>24. CASE BackoffExpires
  BY <1>24 DEF BackoffExpires, TimersPolled, UpdateStatus
<1>25. CASE ChildExit
  BY <1>25 DEF ChildExit, TimersPolled, UpdateStatus
<1>26. CASE StartDeadline
  BY <1>26 DEF StartDeadline, TimersPolled, UpdateStatus
<1>27. CASE ExitDrained
  BY <1>27 DEF ExitDrained, UpdateStatus
<1>28. ASSUME NEW g \in Spawns, ProcessExits(g)
      PROVE  (status \in StatusType)'
  BY <1>28 DEF ProcessExits, UpdateStatus
<1>29. CASE ProcessKilled
  BY <1>29 DEF ProcessKilled, UpdateStatus
<1>30. QED
  BY <1>1, <1>2, <1>3, <1>4, <1>5, <1>6, <1>7, <1>8, <1>9, <1>10, <1>11,
      <1>12, <1>13, <1>14, <1>15, <1>16, <1>17, <1>18, <1>19, <1>20, <1>21,
      <1>22, <1>23, <1>24, <1>25, <1>26, <1>27, <1>28, <1>29
     DEF Next, Actor, OS, SpawnStep, StopStep, SelectStep, HealthEvent

-----------------------------------------------------------------------------
(* The structural conjuncts of IInv are preserved.                         *)

\* The live process stays where the actor can find it.
LEMMA OwnershipStep ==
    ASSUME IInv, [Next]_vars
    PROVE  Ownership'
<1> USE BoundsAssumption DEF IInv, TypeOK, Ownership, StopAwaits, Alive,
    Spawns, None, vars, controlVars, childVars, flagVars, timerVars,
    sharedVars, handleVars, probeVars
<1>1. CASE Handle \/ Probe \/ Terminated \/ UNCHANGED vars
  BY <1>1, ActorUntouched DEF actorFrame
<1>2. CASE SpawnChild
  BY <1>2 DEF SpawnChild, SpawnFailed, SpawnProceeds, Reply
<1>3. CASE SpawnDrained
  BY <1>3 DEF SpawnDrained, SpawnProceeds
<1>4. CASE PreStartDone
  BY <1>4 DEF PreStartDone, SpawnFailed, Reply
<1>5. CASE LaunchFails
  BY <1>5 DEF LaunchFails, SpawnFailed, Reply
<1>6. CASE Launch
  BY <1>6 DEF Launch, Reply
<1>7. CASE PreStopDone
  BY <1>7 DEF PreStopDone
<1>8. CASE GraceExit
  BY <1>8 DEF GraceExit
<1>9. CASE GraceTimeout
  BY <1>9 DEF GraceTimeout
<1>10. CASE KillReaped
  BY <1>10 DEF KillReaped
<1>11. CASE StopDrained
  BY <1>11 DEF StopDrained
<1>12. CASE StopReturned
  BY <1>12 DEF StopReturned, Reply
<1>13. CASE StopThenSpawn
  BY <1>13 DEF StopThenSpawn
<1>14. CASE RunEnds
  BY <1>14 DEF RunEnds
<1>15. CASE HandleStart
  BY <1>15 DEF HandleStart, Take, CommandReady, Refuse, Reply
<1>16. CASE HandleStop
  BY <1>16 DEF HandleStop, Take, CommandReady, StopCurrentChild
<1>17. CASE HandleRestart
  <2>1. CASE is_shutting_down
    BY <1>17, <2>1 DEF HandleRestart, Take, CommandReady, Refuse, Reply
  <2>2. CASE ~is_shutting_down
    BY <1>17, <2>2 DEF HandleRestart, Take, CommandReady, StopCurrentChild
  <2>3. QED
    BY <2>1, <2>2
<1>18. CASE HandleShutdown
  BY <1>18 DEF HandleShutdown, Take, CommandReady, StopCurrentChild
<1>19. CASE HandleSignal
  BY <1>19 DEF HandleSignal, Take, CommandReady, Reply
<1>20. CASE Cancelled
  BY <1>20 DEF Cancelled, CancelReady, StopCurrentChild
<1>21. CASE HealthyEvent
  BY <1>21 DEF HealthyEvent, HealthReady
<1>22. CASE UnhealthyEvent
  BY <1>22 DEF UnhealthyEvent, HealthReady
<1>23. CASE UnhealthyRestart
  BY <1>23 DEF UnhealthyRestart, HealthReady, StopCurrentChild
<1>24. CASE BackoffExpires
  BY <1>24 DEF BackoffExpires, TimersPolled
<1>25. CASE ChildExit
  BY <1>25 DEF ChildExit, TimersPolled
<1>26. CASE StartDeadline
  BY <1>26 DEF StartDeadline, TimersPolled
<1>27. CASE ExitDrained
  BY <1>27 DEF ExitDrained
<1>28. ASSUME NEW g \in Spawns, ProcessExits(g)
      PROVE  Ownership'
  BY <1>28 DEF ProcessExits
<1>29. CASE ProcessKilled
  BY <1>29 DEF ProcessKilled
<1>30. QED
  BY <1>1, <1>2, <1>3, <1>4, <1>5, <1>6, <1>7, <1>8, <1>9, <1>10, <1>11,
      <1>12, <1>13, <1>14, <1>15, <1>16, <1>17, <1>18, <1>19, <1>20, <1>21,
      <1>22, <1>23, <1>24, <1>25, <1>26, <1>27, <1>28, <1>29
     DEF Next, Actor, OS, SpawnStep, StopStep, SelectStep, HealthEvent

\* Each handler is suspended only at its own await points.
LEMMA ServingStep ==
    ASSUME IInv, [Next]_vars
    PROVE  Serving'
<1> USE BoundsAssumption DEF IInv, TypeOK, Ownership, StopAwaits, Alive,
    Spawns, None, Serving, BackoffTimer, Idle, vars, controlVars, childVars,
    flagVars, timerVars, sharedVars, handleVars, probeVars
<1>1. CASE Handle \/ Probe \/ Terminated \/ UNCHANGED vars
  BY <1>1, ActorUntouched DEF actorFrame
<1>2. CASE SpawnChild
  BY <1>2 DEF SpawnChild, SpawnFailed, SpawnProceeds, Reply
<1>3. CASE SpawnDrained
  BY <1>3 DEF SpawnDrained, SpawnProceeds
<1>4. CASE PreStartDone
  BY <1>4 DEF PreStartDone, SpawnFailed, Reply
<1>5. CASE LaunchFails
  BY <1>5 DEF LaunchFails, SpawnFailed, Reply
<1>6. CASE Launch
  BY <1>6 DEF Launch, Reply
<1>7. CASE PreStopDone
  BY <1>7 DEF PreStopDone
<1>8. CASE GraceExit
  BY <1>8 DEF GraceExit
<1>9. CASE GraceTimeout
  BY <1>9 DEF GraceTimeout
<1>10. CASE KillReaped
  BY <1>10 DEF KillReaped
<1>11. CASE StopDrained
  BY <1>11 DEF StopDrained
<1>12. CASE StopReturned
  BY <1>12 DEF StopReturned, Reply
<1>13. CASE StopThenSpawn
  BY <1>13 DEF StopThenSpawn
<1>14. CASE RunEnds
  BY <1>14 DEF RunEnds
<1>15. CASE HandleStart
  BY <1>15 DEF HandleStart, Take, CommandReady, Refuse, Reply
<1>16. CASE HandleStop
  BY <1>16 DEF HandleStop, Take, CommandReady, StopCurrentChild
<1>17. CASE HandleRestart
  <2>1. CASE is_shutting_down
    BY <1>17, <2>1 DEF HandleRestart, Take, CommandReady, Refuse, Reply
  <2>2. CASE ~is_shutting_down
    BY <1>17, <2>2 DEF HandleRestart, Take, CommandReady, StopCurrentChild
  <2>3. QED
    BY <2>1, <2>2
<1>18. CASE HandleShutdown
  BY <1>18 DEF HandleShutdown, Take, CommandReady, StopCurrentChild
<1>19. CASE HandleSignal
  BY <1>19 DEF HandleSignal, Take, CommandReady, Reply
<1>20. CASE Cancelled
  BY <1>20 DEF Cancelled, CancelReady, StopCurrentChild
<1>21. CASE HealthyEvent
  BY <1>21 DEF HealthyEvent, HealthReady
<1>22. CASE UnhealthyEvent
  BY <1>22 DEF UnhealthyEvent, HealthReady
<1>23. CASE UnhealthyRestart
  BY <1>23 DEF UnhealthyRestart, HealthReady, StopCurrentChild
<1>24. CASE BackoffExpires
  BY <1>24 DEF BackoffExpires, TimersPolled
<1>25. CASE ChildExit
  BY <1>25 DEF ChildExit, TimersPolled
<1>26. CASE StartDeadline
  BY <1>26 DEF StartDeadline, TimersPolled
<1>27. CASE ExitDrained
  BY <1>27 DEF ExitDrained
<1>28. ASSUME NEW g \in Spawns, ProcessExits(g)
      PROVE  Serving'
  BY <1>28 DEF ProcessExits
<1>29. CASE ProcessKilled
  BY <1>29 DEF ProcessKilled
<1>30. QED
  BY <1>1, <1>2, <1>3, <1>4, <1>5, <1>6, <1>7, <1>8, <1>9, <1>10, <1>11,
      <1>12, <1>13, <1>14, <1>15, <1>16, <1>17, <1>18, <1>19, <1>20, <1>21,
      <1>22, <1>23, <1>24, <1>25, <1>26, <1>27, <1>28, <1>29
     DEF Next, Actor, OS, SpawnStep, StopStep, SelectStep, HealthEvent

\* The published state keeps agreeing with the child.
LEMMA PublishedStep ==
    ASSUME IInv, [Next]_vars
    PROVE  Published'
<1> USE BoundsAssumption DEF IInv, TypeOK, Ownership, StopAwaits, Alive,
    Spawns, None, Serving, Published, vars, controlVars, childVars,
    flagVars, timerVars, sharedVars, handleVars, probeVars
<1>1. CASE Handle \/ Probe \/ Terminated \/ UNCHANGED vars
  <2>1. UNCHANGED <<pc, status, current_child, child_info, marked_running>>
    BY <1>1, ActorUntouched DEF actorFrame
  <2>2. QED
    BY <2>1
<1>2. CASE SpawnChild
  BY <1>2 DEF SpawnChild, SpawnFailed, SpawnProceeds, Reply, UpdateStatus
<1>3. CASE SpawnDrained
  BY <1>3 DEF SpawnDrained, SpawnProceeds, UpdateStatus
<1>4. CASE PreStartDone
  BY <1>4 DEF PreStartDone, SpawnFailed, Reply, UpdateStatus
<1>5. CASE LaunchFails
  BY <1>5 DEF LaunchFails, SpawnFailed, Reply, UpdateStatus
<1>6. CASE Launch
  BY <1>6 DEF Launch, Reply, UpdateStatus
<1>7. CASE PreStopDone
  BY <1>7 DEF PreStopDone, UpdateStatus
<1>8. CASE GraceExit
  BY <1>8 DEF GraceExit, UpdateStatus
<1>9. CASE GraceTimeout
  BY <1>9 DEF GraceTimeout, UpdateStatus
<1>10. CASE KillReaped
  BY <1>10 DEF KillReaped, UpdateStatus
<1>11. CASE StopDrained
  BY <1>11 DEF StopDrained, UpdateStatus
<1>12. CASE StopReturned
  BY <1>12 DEF StopReturned, Reply, UpdateStatus
<1>13. CASE StopThenSpawn
  BY <1>13 DEF StopThenSpawn, UpdateStatus
<1>14. CASE RunEnds
  BY <1>14 DEF RunEnds, UpdateStatus
<1>15. CASE HandleStart
  BY <1>15 DEF HandleStart, Take, CommandReady, Refuse, Reply, UpdateStatus
<1>16. CASE HandleStop
  BY <1>16 DEF HandleStop, Take, CommandReady, StopCurrentChild,
      UpdateStatus
<1>17. CASE HandleRestart
  BY <1>17, SMTT(30) DEF HandleRestart, Take, CommandReady, StopCurrentChild, Refuse,
      Reply, UpdateStatus
<1>18. CASE HandleShutdown
  BY <1>18 DEF HandleShutdown, Take, CommandReady, StopCurrentChild,
      UpdateStatus
<1>19. CASE HandleSignal
  BY <1>19 DEF HandleSignal, Take, CommandReady, Reply, UpdateStatus
<1>20. CASE Cancelled
  BY <1>20 DEF Cancelled, CancelReady, StopCurrentChild, UpdateStatus
<1>21. CASE HealthyEvent
  BY <1>21 DEF HealthyEvent, HealthReady, UpdateStatus
<1>22. CASE UnhealthyEvent
  BY <1>22 DEF UnhealthyEvent, HealthReady, UpdateStatus
<1>23. CASE UnhealthyRestart
  BY <1>23 DEF UnhealthyRestart, HealthReady, StopCurrentChild, UpdateStatus
<1>24. CASE BackoffExpires
  BY <1>24 DEF BackoffExpires, TimersPolled, UpdateStatus
<1>25. CASE ChildExit
  BY <1>25 DEF ChildExit, TimersPolled, UpdateStatus
<1>26. CASE StartDeadline
  BY <1>26 DEF StartDeadline, TimersPolled, UpdateStatus
<1>27. CASE ExitDrained
  BY <1>27 DEF ExitDrained, UpdateStatus
<1>28. ASSUME NEW g \in Spawns, ProcessExits(g)
      PROVE  Published'
  BY <1>28 DEF ProcessExits, UpdateStatus
<1>29. CASE ProcessKilled
  BY <1>29 DEF ProcessKilled, UpdateStatus
<1>30. QED
  BY <1>1, <1>2, <1>3, <1>4, <1>5, <1>6, <1>7, <1>8, <1>9, <1>10, <1>11,
      <1>12, <1>13, <1>14, <1>15, <1>16, <1>17, <1>18, <1>19, <1>20, <1>21,
      <1>22, <1>23, <1>24, <1>25, <1>26, <1>27, <1>28, <1>29
     DEF Next, Actor, OS, SpawnStep, StopStep, SelectStep, HealthEvent

\* The start_secs timer keeps belonging to the current child.
LEMMA StartTimerStep ==
    ASSUME IInv, [Next]_vars
    PROVE  StartTimer'
<1> USE BoundsAssumption DEF IInv, TypeOK, Ownership, StopAwaits, Alive,
    Spawns, None, Serving, StartTimer, BackoffTimer, vars, controlVars,
    childVars, flagVars, timerVars, sharedVars, handleVars, probeVars
<1>1. CASE Handle \/ Probe \/ Terminated \/ UNCHANGED vars
  BY <1>1, ActorUntouched, SMTT(30) DEF actorFrame
<1>2. CASE SpawnChild
  BY <1>2 DEF SpawnChild, SpawnFailed, SpawnProceeds, Reply
<1>3. CASE SpawnDrained
  BY <1>3 DEF SpawnDrained, SpawnProceeds
<1>4. CASE PreStartDone
  BY <1>4 DEF PreStartDone, SpawnFailed, Reply
<1>5. CASE LaunchFails
  BY <1>5 DEF LaunchFails, SpawnFailed, Reply
<1>6. CASE Launch
  BY <1>6 DEF Launch, Reply
<1>7. CASE PreStopDone
  BY <1>7 DEF PreStopDone
<1>8. CASE GraceExit
  BY <1>8 DEF GraceExit
<1>9. CASE GraceTimeout
  BY <1>9 DEF GraceTimeout
<1>10. CASE KillReaped
  BY <1>10 DEF KillReaped
<1>11. CASE StopDrained
  BY <1>11 DEF StopDrained
<1>12. CASE StopReturned
  BY <1>12 DEF StopReturned, Reply
<1>13. CASE StopThenSpawn
  BY <1>13 DEF StopThenSpawn
<1>14. CASE RunEnds
  BY <1>14 DEF RunEnds
<1>15. CASE HandleStart
  BY <1>15 DEF HandleStart, Take, CommandReady, Refuse, Reply
<1>16. CASE HandleStop
  BY <1>16 DEF HandleStop, Take, CommandReady, StopCurrentChild
<1>17. CASE HandleRestart
  <2>1. CASE is_shutting_down
    BY <1>17, <2>1 DEF HandleRestart, Take, CommandReady, Refuse, Reply
  <2>2. CASE ~is_shutting_down
    BY <1>17, <2>2 DEF HandleRestart, Take, CommandReady, StopCurrentChild
  <2>3. QED
    BY <2>1, <2>2
<1>18. CASE HandleShutdown
  BY <1>18 DEF HandleShutdown, Take, CommandReady, StopCurrentChild
<1>19. CASE HandleSignal
  BY <1>19 DEF HandleSignal, Take, CommandReady, Reply
<1>20. CASE Cancelled
  BY <1>20 DEF Cancelled, CancelReady, StopCurrentChild
<1>21. CASE HealthyEvent
  BY <1>21 DEF HealthyEvent, HealthReady
<1>22. CASE UnhealthyEvent
  BY <1>22 DEF UnhealthyEvent, HealthReady
<1>23. CASE UnhealthyRestart
  BY <1>23 DEF UnhealthyRestart, HealthReady, StopCurrentChild
<1>24. CASE BackoffExpires
  BY <1>24 DEF BackoffExpires, TimersPolled
<1>25. CASE ChildExit
  BY <1>25 DEF ChildExit, TimersPolled
<1>26. CASE StartDeadline
  BY <1>26 DEF StartDeadline, TimersPolled
<1>27. CASE ExitDrained
  BY <1>27 DEF ExitDrained
<1>28. ASSUME NEW g \in Spawns, ProcessExits(g)
      PROVE  StartTimer'
  BY <1>28 DEF ProcessExits
<1>29. CASE ProcessKilled
  BY <1>29 DEF ProcessKilled
<1>30. QED
  BY <1>1, <1>2, <1>3, <1>4, <1>5, <1>6, <1>7, <1>8, <1>9, <1>10, <1>11,
      <1>12, <1>13, <1>14, <1>15, <1>16, <1>17, <1>18, <1>19, <1>20, <1>21,
      <1>22, <1>23, <1>24, <1>25, <1>26, <1>27, <1>28, <1>29
     DEF Next, Actor, OS, SpawnStep, StopStep, SelectStep, HealthEvent

\* A backoff timer is only armed for a program that may be retried.
LEMMA BackoffTimerStep ==
    ASSUME IInv, [Next]_vars
    PROVE  BackoffTimer'
<1> USE BoundsAssumption DEF IInv, TypeOK, Ownership, StopAwaits, Alive,
    Spawns, None, Serving, Published, BackoffTimer, vars, controlVars,
    childVars, flagVars, timerVars, sharedVars, handleVars, probeVars
<1>1. CASE Handle \/ Probe \/ Terminated \/ UNCHANGED vars
  BY <1>1, ActorUntouched DEF actorFrame
<1>2. CASE SpawnChild
  BY <1>2 DEF SpawnChild, SpawnFailed, SpawnProceeds, Reply, UpdateStatus
<1>3. CASE SpawnDrained
  BY <1>3 DEF SpawnDrained, SpawnProceeds, UpdateStatus
<1>4. CASE PreStartDone
  BY <1>4 DEF PreStartDone, SpawnFailed, Reply, UpdateStatus
<1>5. CASE LaunchFails
  BY <1>5 DEF LaunchFails, SpawnFailed, Reply, UpdateStatus
<1>6. CASE Launch
  BY <1>6 DEF Launch, Reply, UpdateStatus
<1>7. CASE PreStopDone
  BY <1>7 DEF PreStopDone, UpdateStatus
<1>8. CASE GraceExit
  BY <1>8 DEF GraceExit, UpdateStatus
<1>9. CASE GraceTimeout
  BY <1>9 DEF GraceTimeout, UpdateStatus
<1>10. CASE KillReaped
  BY <1>10 DEF KillReaped, UpdateStatus
<1>11. CASE StopDrained
  BY <1>11 DEF StopDrained, UpdateStatus
<1>12. CASE StopReturned
  BY <1>12 DEF StopReturned, Reply, UpdateStatus
<1>13. CASE StopThenSpawn
  BY <1>13 DEF StopThenSpawn, UpdateStatus
<1>14. CASE RunEnds
  BY <1>14 DEF RunEnds, UpdateStatus
<1>15. CASE HandleStart
  BY <1>15 DEF HandleStart, Take, CommandReady, Refuse, Reply, UpdateStatus
<1>16. CASE HandleStop
  BY <1>16 DEF HandleStop, Take, CommandReady, StopCurrentChild,
      UpdateStatus
<1>17. CASE HandleRestart
  <2>1. CASE is_shutting_down
    BY <1>17, <2>1 DEF HandleRestart, Take, CommandReady, Refuse, Reply
  <2>2. CASE ~is_shutting_down
    BY <1>17, <2>2 DEF HandleRestart, Take, CommandReady, StopCurrentChild,
        UpdateStatus
  <2>3. QED
    BY <2>1, <2>2
<1>18. CASE HandleShutdown
  BY <1>18 DEF HandleShutdown, Take, CommandReady, StopCurrentChild,
      UpdateStatus
<1>19. CASE HandleSignal
  BY <1>19 DEF HandleSignal, Take, CommandReady, Reply, UpdateStatus
<1>20. CASE Cancelled
  BY <1>20 DEF Cancelled, CancelReady, StopCurrentChild, UpdateStatus
<1>21. CASE HealthyEvent
  BY <1>21 DEF HealthyEvent, HealthReady, UpdateStatus
<1>22. CASE UnhealthyEvent
  BY <1>22 DEF UnhealthyEvent, HealthReady, UpdateStatus
<1>23. CASE UnhealthyRestart
  BY <1>23 DEF UnhealthyRestart, HealthReady, StopCurrentChild, UpdateStatus
<1>24. CASE BackoffExpires
  BY <1>24 DEF BackoffExpires, TimersPolled, UpdateStatus
<1>25. CASE ChildExit
  BY <1>25 DEF ChildExit, TimersPolled, UpdateStatus
<1>26. CASE StartDeadline
  BY <1>26 DEF StartDeadline, TimersPolled, UpdateStatus
<1>27. CASE ExitDrained
  <2>1. ~backoff_deadline
    BY <1>27 DEF ExitDrained
  <2>2. SUFFICES ASSUME backoff_deadline'
                 PROVE  BackoffTimer'
    OBVIOUS
  <2>3. /\ ~is_shutting_down /\ ~manual_stop /\ ~marked_running
        /\ retry_count + 1 <= StartRetries
    BY <1>27, <2>1, <2>2 DEF ExitDrained
  <2>4. retry_count' = retry_count + 1 /\ retry_count' \in 1..StartRetries
    BY <1>27, <2>3 DEF ExitDrained
  <2>5. status' = UpdateStatus("Backoff", None)
    BY <1>27, <2>3 DEF ExitDrained
  <2>6. pc' = "select" /\ current_child' = None /\ ~manual_stop'
    BY <1>27, <2>3 DEF ExitDrained
  <2>7. QED
    BY <2>4, <2>5, <2>6 DEF UpdateStatus
<1>28. ASSUME NEW g \in Spawns, ProcessExits(g)
      PROVE  BackoffTimer'
  BY <1>28 DEF ProcessExits, UpdateStatus
<1>29. CASE ProcessKilled
  BY <1>29 DEF ProcessKilled, UpdateStatus
<1>30. QED
  BY <1>1, <1>2, <1>3, <1>4, <1>5, <1>6, <1>7, <1>8, <1>9, <1>10, <1>11,
      <1>12, <1>13, <1>14, <1>15, <1>16, <1>17, <1>18, <1>19, <1>20, <1>21,
      <1>22, <1>23, <1>24, <1>25, <1>26, <1>27, <1>28, <1>29
     DEF Next, Actor, OS, SpawnStep, StopStep, SelectStep, HealthEvent

\* A program out of retries gets no process until its counter is reset.
LEMMA RetryBudgetStep ==
    ASSUME IInv, [Next]_vars
    PROVE  RetryBudget'
<1> USE BoundsAssumption DEF IInv, TypeOK, Ownership, StopAwaits, Alive,
    Spawns, None, Serving, BackoffTimer, RetryBudget, vars, controlVars,
    childVars, flagVars, timerVars, sharedVars, handleVars, probeVars
<1>1. CASE Handle \/ Probe \/ Terminated \/ UNCHANGED vars
  BY <1>1, ActorUntouched DEF actorFrame
<1>2. CASE SpawnChild
  BY <1>2 DEF SpawnChild, SpawnFailed, SpawnProceeds, Reply
<1>3. CASE SpawnDrained
  BY <1>3 DEF SpawnDrained, SpawnProceeds
<1>4. CASE PreStartDone
  BY <1>4 DEF PreStartDone, SpawnFailed, Reply
<1>5. CASE LaunchFails
  BY <1>5 DEF LaunchFails, SpawnFailed, Reply
<1>6. CASE Launch
  BY <1>6 DEF Launch, Reply
<1>7. CASE PreStopDone
  BY <1>7 DEF PreStopDone
<1>8. CASE GraceExit
  BY <1>8 DEF GraceExit
<1>9. CASE GraceTimeout
  BY <1>9 DEF GraceTimeout
<1>10. CASE KillReaped
  BY <1>10 DEF KillReaped
<1>11. CASE StopDrained
  BY <1>11 DEF StopDrained
<1>12. CASE StopReturned
  BY <1>12 DEF StopReturned, Reply
<1>13. CASE StopThenSpawn
  BY <1>13 DEF StopThenSpawn
<1>14. CASE RunEnds
  BY <1>14 DEF RunEnds
<1>15. CASE HandleStart
  BY <1>15 DEF HandleStart, Take, CommandReady, Refuse, Reply
<1>16. CASE HandleStop
  BY <1>16 DEF HandleStop, Take, CommandReady, StopCurrentChild
<1>17. CASE HandleRestart
  <2>1. CASE is_shutting_down
    BY <1>17, <2>1 DEF HandleRestart, Take, CommandReady, Refuse, Reply
  <2>2. CASE ~is_shutting_down
    BY <1>17, <2>2 DEF HandleRestart, Take, CommandReady, StopCurrentChild
  <2>3. QED
    BY <2>1, <2>2
<1>18. CASE HandleShutdown
  BY <1>18 DEF HandleShutdown, Take, CommandReady, StopCurrentChild
<1>19. CASE HandleSignal
  BY <1>19 DEF HandleSignal, Take, CommandReady, Reply
<1>20. CASE Cancelled
  BY <1>20 DEF Cancelled, CancelReady, StopCurrentChild
<1>21. CASE HealthyEvent
  BY <1>21 DEF HealthyEvent, HealthReady
<1>22. CASE UnhealthyEvent
  BY <1>22 DEF UnhealthyEvent, HealthReady
<1>23. CASE UnhealthyRestart
  BY <1>23 DEF UnhealthyRestart, HealthReady, StopCurrentChild
<1>24. CASE BackoffExpires
  BY <1>24 DEF BackoffExpires, TimersPolled
<1>25. CASE ChildExit
  BY <1>25 DEF ChildExit, TimersPolled
<1>26. CASE StartDeadline
  BY <1>26 DEF StartDeadline, TimersPolled
<1>27. CASE ExitDrained
  BY <1>27 DEF ExitDrained
<1>28. ASSUME NEW g \in Spawns, ProcessExits(g)
      PROVE  RetryBudget'
  BY <1>28 DEF ProcessExits
<1>29. CASE ProcessKilled
  BY <1>29 DEF ProcessKilled
<1>30. QED
  BY <1>1, <1>2, <1>3, <1>4, <1>5, <1>6, <1>7, <1>8, <1>9, <1>10, <1>11,
      <1>12, <1>13, <1>14, <1>15, <1>16, <1>17, <1>18, <1>19, <1>20, <1>21,
      <1>22, <1>23, <1>24, <1>25, <1>26, <1>27, <1>28, <1>29
     DEF Next, Actor, OS, SpawnStep, StopStep, SelectStep, HealthEvent

\* The stdin channel keeps belonging to the newest process.
LEMMA StdinStep ==
    ASSUME IInv, [Next]_vars
    PROVE  StdinGeneration'
<1> USE BoundsAssumption DEF IInv, TypeOK, StdinGeneration, None, vars,
    controlVars, childVars, flagVars, timerVars, sharedVars, handleVars,
    probeVars
<1>1. CASE Handle \/ Probe \/ Terminated \/ UNCHANGED vars
  BY <1>1, ActorUntouched DEF actorFrame
<1>2. CASE SpawnChild
  BY <1>2 DEF SpawnChild, SpawnFailed, SpawnProceeds, Reply
<1>3. CASE SpawnDrained
  BY <1>3 DEF SpawnDrained, SpawnProceeds
<1>4. CASE PreStartDone
  BY <1>4 DEF PreStartDone, SpawnFailed, Reply
<1>5. CASE LaunchFails
  BY <1>5 DEF LaunchFails, SpawnFailed, Reply
<1>6. CASE Launch
  BY <1>6 DEF Launch, Reply
<1>7. CASE PreStopDone
  BY <1>7 DEF PreStopDone
<1>8. CASE GraceExit
  BY <1>8 DEF GraceExit
<1>9. CASE GraceTimeout
  BY <1>9 DEF GraceTimeout
<1>10. CASE KillReaped
  BY <1>10 DEF KillReaped
<1>11. CASE StopDrained
  BY <1>11 DEF StopDrained
<1>12. CASE StopReturned
  BY <1>12 DEF StopReturned, Reply
<1>13. CASE StopThenSpawn
  BY <1>13 DEF StopThenSpawn
<1>14. CASE RunEnds
  BY <1>14 DEF RunEnds
<1>15. CASE HandleStart
  BY <1>15 DEF HandleStart, Take, CommandReady, Refuse, Reply
<1>16. CASE HandleStop
  BY <1>16 DEF HandleStop, Take, CommandReady, StopCurrentChild
<1>17. CASE HandleRestart
  <2>1. CASE is_shutting_down
    BY <1>17, <2>1 DEF HandleRestart, Take, CommandReady, Refuse, Reply
  <2>2. CASE ~is_shutting_down
    BY <1>17, <2>2 DEF HandleRestart, Take, CommandReady, StopCurrentChild
  <2>3. QED
    BY <2>1, <2>2
<1>18. CASE HandleShutdown
  BY <1>18 DEF HandleShutdown, Take, CommandReady, StopCurrentChild
<1>19. CASE HandleSignal
  BY <1>19 DEF HandleSignal, Take, CommandReady, Reply
<1>20. CASE Cancelled
  BY <1>20 DEF Cancelled, CancelReady, StopCurrentChild
<1>21. CASE HealthyEvent
  BY <1>21 DEF HealthyEvent, HealthReady
<1>22. CASE UnhealthyEvent
  BY <1>22 DEF UnhealthyEvent, HealthReady
<1>23. CASE UnhealthyRestart
  BY <1>23 DEF UnhealthyRestart, HealthReady, StopCurrentChild
<1>24. CASE BackoffExpires
  BY <1>24 DEF BackoffExpires, TimersPolled
<1>25. CASE ChildExit
  BY <1>25 DEF ChildExit, TimersPolled
<1>26. CASE StartDeadline
  BY <1>26 DEF StartDeadline, TimersPolled
<1>27. CASE ExitDrained
  BY <1>27 DEF ExitDrained
<1>28. ASSUME NEW g \in Spawns, ProcessExits(g)
      PROVE  StdinGeneration'
  BY <1>28 DEF ProcessExits
<1>29. CASE ProcessKilled
  BY <1>29 DEF ProcessKilled
<1>30. QED
  BY <1>1, <1>2, <1>3, <1>4, <1>5, <1>6, <1>7, <1>8, <1>9, <1>10, <1>11,
      <1>12, <1>13, <1>14, <1>15, <1>16, <1>17, <1>18, <1>19, <1>20, <1>21,
      <1>22, <1>23, <1>24, <1>25, <1>26, <1>27, <1>28, <1>29
     DEF Next, Actor, OS, SpawnStep, StopStep, SelectStep, HealthEvent

\* The health fields stay cleared while no process is up.
LEMMA HealthStep ==
    ASSUME IInv, [Next]_vars
    PROVE  HealthOnlyWhenUp'
<1> USE BoundsAssumption DEF IInv, TypeOK, Ownership, StopAwaits, Alive,
    Spawns, None, Published, HealthOnlyWhenUp, vars, controlVars, childVars,
    flagVars, timerVars, sharedVars, handleVars, probeVars
<1>1. CASE Handle \/ Probe \/ Terminated \/ UNCHANGED vars
  BY <1>1, ActorUntouched DEF actorFrame
<1>2. CASE SpawnChild
  BY <1>2, UpdateStatusFields DEF SpawnChild, SpawnFailed, SpawnProceeds, ProgramState
<1>3. CASE SpawnDrained
  BY <1>3 DEF SpawnDrained, SpawnProceeds, UpdateStatus
<1>4. CASE PreStartDone
  BY <1>4, UpdateStatusFields DEF PreStartDone, SpawnFailed, ProgramState
<1>5. CASE LaunchFails
  BY <1>5 DEF LaunchFails, SpawnFailed, Reply, UpdateStatus
<1>6. CASE Launch
  BY <1>6 DEF Launch, Reply, UpdateStatus
<1>7. CASE PreStopDone
  BY <1>7 DEF PreStopDone, UpdateStatus
<1>8. CASE GraceExit
  BY <1>8 DEF GraceExit, UpdateStatus
<1>9. CASE GraceTimeout
  BY <1>9 DEF GraceTimeout, UpdateStatus
<1>10. CASE KillReaped
  BY <1>10 DEF KillReaped, UpdateStatus
<1>11. CASE StopDrained
  BY <1>11 DEF StopDrained, UpdateStatus
<1>12. CASE StopReturned
  BY <1>12 DEF StopReturned, Reply, UpdateStatus
<1>13. CASE StopThenSpawn
  BY <1>13 DEF StopThenSpawn, UpdateStatus
<1>14. CASE RunEnds
  BY <1>14 DEF RunEnds, UpdateStatus
<1>15. CASE HandleStart
  BY <1>15 DEF HandleStart, Take, CommandReady, Refuse, Reply, UpdateStatus
<1>16. CASE HandleStop
  BY <1>16 DEF HandleStop, Take, CommandReady, StopCurrentChild,
      UpdateStatus
<1>17. CASE HandleRestart
  <2>1. CASE is_shutting_down
    BY <1>17, <2>1 DEF HandleRestart, Take, CommandReady, Refuse, Reply
  <2>2. CASE ~is_shutting_down
    BY <1>17, <2>2 DEF HandleRestart, Take, CommandReady, StopCurrentChild,
        UpdateStatus
  <2>3. QED
    BY <2>1, <2>2
<1>18. CASE HandleShutdown
  BY <1>18 DEF HandleShutdown, Take, CommandReady, StopCurrentChild,
      UpdateStatus
<1>19. CASE HandleSignal
  BY <1>19 DEF HandleSignal, Take, CommandReady, Reply, UpdateStatus
<1>20. CASE Cancelled
  BY <1>20, UpdateStatusFields DEF Cancelled, StopCurrentChild, ProgramState
<1>21. CASE HealthyEvent
  BY <1>21 DEF HealthyEvent, HealthReady, UpdateStatus
<1>22. CASE UnhealthyEvent
  BY <1>22 DEF UnhealthyEvent, HealthReady, UpdateStatus
<1>23. CASE UnhealthyRestart
  BY <1>23 DEF UnhealthyRestart, HealthReady, StopCurrentChild, UpdateStatus
<1>24. CASE BackoffExpires
  BY <1>24 DEF BackoffExpires, TimersPolled, UpdateStatus
<1>25. CASE ChildExit
  BY <1>25 DEF ChildExit, TimersPolled, UpdateStatus
<1>26. CASE StartDeadline
  BY <1>26 DEF StartDeadline, TimersPolled, UpdateStatus
<1>27. CASE ExitDrained
  BY <1>27 DEF ExitDrained, UpdateStatus
<1>28. ASSUME NEW g \in Spawns, ProcessExits(g)
      PROVE  HealthOnlyWhenUp'
  BY <1>28 DEF ProcessExits, UpdateStatus
<1>29. CASE ProcessKilled
  BY <1>29 DEF ProcessKilled, UpdateStatus
<1>30. QED
  BY <1>1, <1>2, <1>3, <1>4, <1>5, <1>6, <1>7, <1>8, <1>9, <1>10, <1>11,
      <1>12, <1>13, <1>14, <1>15, <1>16, <1>17, <1>18, <1>19, <1>20, <1>21,
      <1>22, <1>23, <1>24, <1>25, <1>26, <1>27, <1>28, <1>29
     DEF Next, Actor, OS, SpawnStep, StopStep, SelectStep, HealthEvent

-----------------------------------------------------------------------------
(* The channels.                                                           *)

\* Commands, replies and the cancel token keep their types, and the command
\* channel never holds more than its capacity.
LEMMA ChannelTypesStep ==
    ASSUME IInv, [Next]_vars
    PROVE  ChannelTypes'
<1> USE DEF ChannelTypes, vars, controlVars, handleVars
<1>0. TypeOK /\ ChannelTypes
  BY TypeParts DEF IInv
<1>1. CASE Handle
  <2>1. ASSUME NEW op \in ProgramCommand, Call(op)
        PROVE  ChannelTypes'
    <3>1. [op |-> op, live |-> TRUE] \in CommandType
      BY DEF CommandType
    <3>2. /\ command_rx' \in Seq(CommandType)
          /\ Len(command_rx') = Len(command_rx) + 1
      BY <1>0, <2>1, <3>1, AppendProperties DEF Call
    <3>3. Len(command_rx') <= MailboxCap
      BY <1>0, <2>1, <3>2, LenProperties, BoundsAssumption DEF Call
    <3>4. call' \in CallType
      BY <2>1 DEF Call, CallType, CallResult
    <3>5. QED
      BY <1>0, <2>1, <3>2, <3>3, <3>4 DEF Call
  <2>2. CASE CallTimeout
    <3>1. call' \in CallType
      BY <1>0, <2>2 DEF CallTimeout, CallType, CallResult
    <3>2. QED
      BY <1>0, <2>2, <3>1, ForgetReplyType DEF CallTimeout
  <2>3. CASE ShutdownCancel
    BY <1>0, <2>3 DEF ShutdownCancel, CallType, CallResult
  <2>4. CASE ShutdownJoin
    BY <1>0, <2>4 DEF ShutdownJoin, CallType, CallResult
  <2>5. CASE DropHandle
    <3>1. call' \in CallType
      BY <1>0, <2>5 DEF DropHandle, CallType, CallResult
    <3>2. CASE call.res = "waiting"
      BY <1>0, <2>5, <3>1, <3>2, ForgetReplyType DEF DropHandle
    <3>3. CASE call.res # "waiting"
      BY <1>0, <2>5, <3>1, <3>3 DEF DropHandle
    <3>4. QED
      BY <3>2, <3>3
  <2>6. QED
    BY <1>1, <2>1, <2>2, <2>3, <2>4, <2>5 DEF Handle
<1>2. CASE SpawnStep
  <2>1. Idle \in ServedType
    BY DEF Idle, ServedType, Trigger
  <2>2. ASSUME NEW c, NEW st, SpawnFailed(c, st)
        PROVE  call' \in CallType /\ cur' \in ServedType
    <3>1. Reply(cur, "err") /\ cur' = Idle
      BY <2>2 DEF SpawnFailed
    <3>2. call' \in CallType
      BY <1>0, <3>1, ReplyType DEF CallResult
    <3>3. QED
      BY <2>1, <3>1, <3>2
  <2>3. CASE SpawnChild
    BY <1>0, <2>2, <2>3 DEF SpawnChild
  <2>4. CASE SpawnDrained
    BY <1>0, <2>4 DEF SpawnDrained
  <2>5. CASE PreStartDone
    BY <1>0, <2>2, <2>5 DEF PreStartDone
  <2>6. CASE LaunchFails
    BY <1>0, <2>2, <2>6 DEF LaunchFails
  <2>7. CASE Launch
    <3>1. Reply(cur, "ok") /\ cur' = Idle /\ UNCHANGED <<command_rx, cancel_token>>
      BY <2>7 DEF Launch
    <3>2. call' \in CallType
      BY <1>0, <3>1, ReplyType DEF CallResult
    <3>3. QED
      BY <1>0, <2>1, <3>1, <3>2
  <2>8. QED
    BY <1>2, <2>3, <2>4, <2>5, <2>6, <2>7 DEF SpawnStep
<1>3. CASE StopStep
  <2>1. Idle \in ServedType
    BY DEF Idle, ServedType, Trigger
  <2>2. CASE StopReturned
    <3>1. call' \in CallType
      BY <1>0, <2>2, ReplyType DEF StopReturned, CallResult
    <3>2. QED
      BY <1>0, <2>1, <2>2, <3>1 DEF StopReturned
  <2>3. CASE RunEnds
    <3>1. call' \in CallType
      BY <1>0, <2>3 DEF RunEnds, CallType, CallResult
    <3>2. command_rx' \in Seq(CommandType) /\ Len(command_rx') <= MailboxCap
      BY <2>3, BoundsAssumption, EmptySeq DEF RunEnds
    <3>3. QED
      BY <1>0, <2>1, <2>3, <3>1, <3>2 DEF RunEnds
  <2>4. CASE PreStopDone \/ GraceExit \/ GraceTimeout \/ KillReaped \/ StopDrained
             \/ StopThenSpawn
    BY <1>0, <2>4 DEF PreStopDone, GraceExit, GraceTimeout, KillReaped,
                      StopDrained, StopThenSpawn
  <2>5. QED
    BY <1>3, <2>2, <2>3, <2>4 DEF StopStep
<1>4. CASE HandleStart \/ HandleStop \/ HandleRestart \/ HandleShutdown \/ HandleSignal
  <2>1. PICK op : Take(op)
    BY <1>4 DEF HandleStart, HandleStop, HandleRestart, HandleShutdown, HandleSignal
  <2>2. /\ command_rx' \in Seq(CommandType) /\ Len(command_rx') <= MailboxCap
        /\ Head(command_rx) \in ServedType
    BY <1>0, <2>1, TakeType
  <2>3. cancel_token' = cancel_token
    BY <1>4 DEF HandleStart, HandleStop, HandleRestart, HandleShutdown,
                HandleSignal, StopCurrentChild, Refuse
  <2>4. cur' \in {cur, Head(command_rx)}
    BY <1>4 DEF HandleStart, HandleStop, HandleRestart, HandleShutdown,
                HandleSignal, StopCurrentChild, Refuse
  <2>5. call' = call \/ \E r \in CallResult : Reply(Head(command_rx), r)
    BY <1>4 DEF HandleStart, HandleStop, HandleRestart, HandleShutdown,
                HandleSignal, StopCurrentChild, Refuse, CallResult
  <2>6. call' \in CallType
    BY <1>0, <2>5, ReplyType
  <2>7. QED
    BY <1>0, <2>2, <2>3, <2>4, <2>6
<1>5. CASE \/ Cancelled \/ HealthEvent \/ BackoffExpires \/ ChildExit
           \/ StartDeadline \/ ExitDrained
  <2>1. UNCHANGED handleVars
    BY <1>5 DEF Cancelled, HealthEvent, HealthyEvent, UnhealthyEvent,
                UnhealthyRestart, BackoffExpires, ChildExit, StartDeadline,
                ExitDrained, StopCurrentChild
  <2>2. \/ cur' = cur
        \/ \E o \in {"Cancel", "Health", "Backoff", "Autorestart"} :
              cur' = [op |-> o, live |-> FALSE]
    BY <1>5 DEF Cancelled, HealthEvent, HealthyEvent, UnhealthyEvent,
                UnhealthyRestart, BackoffExpires, ChildExit, StartDeadline,
                ExitDrained, StopCurrentChild
  <2>3. ASSUME NEW o \in {"Cancel", "Health", "Backoff", "Autorestart"}
        PROVE  [op |-> o, live |-> FALSE] \in ServedType
    BY DEF ServedType, Trigger
  <2>4. cur' \in ServedType
    BY <1>0, <2>2, <2>3
  <2>5. QED
    BY <1>0, <2>1, <2>4
<1>6. CASE Probe \/ OS \/ Terminated \/ UNCHANGED vars
  BY <1>0, <1>6 DEF Probe, ProbeBegin, ProbeSucceeds, ProbeFails, OS,
                    ProcessExits, ProcessKilled, Terminated
<1>7. QED
  BY <1>1, <1>2, <1>3, <1>4, <1>5, <1>6 DEF Next, Actor, SelectStep

\* The probe reports one well-formed event, or none, and only where there is
\* room for it in the health channel.
LEMMA ProbeReportsType ==
    ASSUME ProbeTypes, NEW ev \in {"Healthy", "Unhealthy"},
           NEW n \in 0..FailureThreshold, ProbeReports(ev, n)
    PROVE  ProbeTypes'
<1>1. probe' \in ProbeType
  BY DEF ProbeTypes, ProbeType, ProbeReports
<1>2. CASE probe.last_reported # ev
  <2>1. [ev |-> ev, child |-> probe.child] \in EventType
    BY DEF ProbeTypes, ProbeType, EventType
  <2>2. health_rx' \in Seq(EventType) /\ Len(health_rx') = Len(health_rx) + 1
    BY <1>2, <2>1, AppendProperties DEF ProbeTypes, ProbeReports
  <2>3. Len(health_rx') <= HealthCap
    BY <1>2, <2>2, LenProperties, BoundsAssumption DEF ProbeTypes, ProbeReports
  <2>4. QED
    BY <1>1, <2>2, <2>3 DEF ProbeTypes
<1>3. CASE probe.last_reported = ev
  BY <1>1, <1>3 DEF ProbeTypes, ProbeReports
<1>4. QED
  BY <1>2, <1>3

\* The probe and its channel keep their types, and the health channel never
\* holds more than its capacity.
LEMMA ProbeTypesStep ==
    ASSUME IInv, [Next]_vars
    PROVE  ProbeTypes'
<1> USE DEF vars, probeVars
<1>0. TypeOK /\ ProbeTypes
  BY TypeParts DEF IInv
<1>1. CASE Probe
  <2>1. CASE ProbeBegin
    BY <1>0, <2>1 DEF ProbeBegin, ProbeTypes, ProbeType
  <2>2. CASE ProbeSucceeds
    BY <1>0, <2>2, ProbeReportsType, BoundsAssumption DEF ProbeSucceeds
  <2>3. CASE ProbeFails
    <3> DEFINE n == IF probe.failures < FailureThreshold
                    THEN probe.failures + 1 ELSE FailureThreshold
    <3>1. n \in 0..FailureThreshold
      BY <1>0, BoundsAssumption DEF ProbeTypes, ProbeType
    <3>2. CASE n >= FailureThreshold
      <4>1. ProbeReports("Unhealthy", n)
        BY <2>3, <3>2 DEF ProbeFails
      <4>2. QED
        BY <1>0, <3>1, <4>1, ProbeReportsType
    <3>3. CASE ~(n >= FailureThreshold)
      <4>1. /\ probe' = [probe EXCEPT !.phase = "wait", !.failures = n]
            /\ UNCHANGED health_rx
        BY <2>3, <3>3 DEF ProbeFails
      <4> HIDE DEF n
      <4>2. QED
        BY <1>0, <3>1, <4>1 DEF ProbeTypes, ProbeType
    <3>4. QED
      BY <3>2, <3>3
  <2>4. QED
    BY <1>1, <2>1, <2>2, <2>3 DEF Probe
<1>2. CASE SpawnDrained \/ StopDrained \/ ExitDrained
  <2>1. probe' = NoProbe /\ UNCHANGED health_rx
    BY <1>2 DEF SpawnDrained, StopDrained, ExitDrained
  <2>2. NoProbe \in ProbeType
    BY BoundsAssumption DEF NoProbe, ProbeType, None
  <2>3. QED
    BY <1>0, <2>1, <2>2 DEF ProbeTypes
<1>3. CASE Launch
  <2>1. spawn_seq + 1 \in 0..MaxSpawns
    BY <1>0, <1>3, BoundsAssumption DEF TypeOK, Launch
  <2>2. probe' \in ProbeType
    BY <1>3, <2>1, BoundsAssumption DEF Launch, ProbeType, NoProbe, None
  <2>3. QED
    BY <1>0, <1>3, <2>2 DEF Launch, ProbeTypes
<1>4. CASE HealthEvent
  <2>1. /\ probe' = probe
        /\ health_rx # <<>>
        /\ health_rx' = Tail(health_rx)
    BY <1>4 DEF HealthEvent, HealthyEvent, UnhealthyEvent, UnhealthyRestart,
                HealthReady, StopCurrentChild
  <2>2. /\ health_rx' \in Seq(EventType)
        /\ Len(health_rx') = Len(health_rx) - 1
    BY <1>0, <2>1, HeadTailProperties DEF ProbeTypes
  <2>3. Len(health_rx') <= HealthCap
    BY <1>0, <2>2, LenProperties, BoundsAssumption DEF ProbeTypes
  <2>4. QED
    BY <1>0, <2>1, <2>2, <2>3 DEF ProbeTypes
<1>5. CASE Handle \/ OS \/ Terminated \/ UNCHANGED vars
  <2>1. UNCHANGED probeVars
    BY <1>5 DEF Handle, Call, CallTimeout, ShutdownCancel, ShutdownJoin,
                DropHandle, OS, ProcessExits, ProcessKilled, Terminated
  <2>2. QED
    BY <1>0, <2>1 DEF ProbeTypes
<1>6. CASE \/ SpawnChild \/ PreStartDone \/ LaunchFails \/ PreStopDone
           \/ GraceExit \/ GraceTimeout \/ KillReaped \/ StopReturned
           \/ StopThenSpawn \/ RunEnds \/ HandleStart \/ HandleStop
           \/ HandleRestart \/ HandleShutdown \/ HandleSignal \/ Cancelled
           \/ BackoffExpires \/ ChildExit \/ StartDeadline
  <2>1. UNCHANGED probeVars
    BY <1>6 DEF SpawnChild, PreStartDone, LaunchFails, PreStopDone,
                GraceExit, GraceTimeout, KillReaped, StopReturned,
                StopThenSpawn, RunEnds, HandleStart, HandleStop,
                HandleRestart, HandleShutdown, HandleSignal, Cancelled,
                BackoffExpires, ChildExit, StartDeadline, StopCurrentChild,
                Refuse
  <2>2. QED
    BY <1>0, <2>1 DEF ProbeTypes
<1>7. QED
  BY <1>1, <1>2, <1>3, <1>4, <1>5, <1>6
     DEF Next, Actor, SpawnStep, StopStep, SelectStep

-----------------------------------------------------------------------------
(* The inductive invariant and what follows from it.                       *)

\* with_options leaves the actor in a state that satisfies the invariant.
LEMMA InitIInv == Init => IInv
<1> SUFFICES ASSUME Init
             PROVE  IInv
  OBVIOUS
<1> USE BoundsAssumption DEF Init, None, Spawns
<1>1. ActorTypes
  BY DEF ActorTypes, Await
<1>2. status \in StatusType
  BY DEF StatusType, ProgramState, HealthStatus
<1>3. ChannelTypes
  <2>1. cur \in ServedType
    BY DEF ServedType, Idle, Trigger
  <2>2. call \in CallType
    BY DEF CallType, CallResult
  <2>3. command_rx \in Seq(CommandType) /\ Len(command_rx) <= MailboxCap
    BY EmptySeq
  <2>4. QED
    BY <2>1, <2>2, <2>3 DEF ChannelTypes
<1>4. ProbeTypes
  BY EmptySeq DEF ProbeTypes, ProbeType, NoProbe
<1>5. Ownership /\ Serving
  BY DEF Ownership, Serving, Alive, StopAwaits
<1>6. Published /\ StartTimer /\ BackoffTimer /\ RetryBudget
  BY DEF Published, StartTimer, BackoffTimer, RetryBudget
<1>7. StdinGeneration /\ HealthOnlyWhenUp
  BY DEF StdinGeneration, HealthOnlyWhenUp
<1>8. FlagTypes
  BY DEF FlagTypes
<1>9. QED
  BY <1>1, <1>2, <1>3, <1>4, <1>5, <1>6, <1>7, <1>8, TypeParts DEF IInv

\* Every step of the caller, the actor, the probe and the OS preserves it.
LEMMA StepIInv == IInv /\ [Next]_vars => IInv'
<1> SUFFICES ASSUME IInv, [Next]_vars
             PROVE  IInv'
  OBVIOUS
<1>1. ActorTypes' /\ FlagTypes' /\ (status \in StatusType)'
  BY ActorTypesStep, FlagTypesStep, StatusTypeStep
<1>2. ChannelTypes' /\ ProbeTypes'
  BY ChannelTypesStep, ProbeTypesStep
<1>3. TypeOK'
  BY <1>1, <1>2 DEF TypeOK, ActorTypes, FlagTypes, StatusType, ChannelTypes,
                    ProbeTypes, CommandType, ServedType, CallType, ProbeType,
                    EventType
<1>4. Ownership' /\ Serving' /\ Published'
  BY OwnershipStep, ServingStep, PublishedStep
<1>5. StartTimer' /\ BackoffTimer' /\ RetryBudget'
  BY StartTimerStep, BackoffTimerStep, RetryBudgetStep
<1>6. StdinGeneration' /\ HealthOnlyWhenUp'
  BY StdinStep, HealthStep
<1>7. QED
  BY <1>3, <1>4, <1>5, <1>6 DEF IInv

\* The invariant holds of every state the program reaches.
THEOREM Invariance == Spec => []IInv
<1>1. Init => IInv
  BY InitIInv
<1>2. IInv /\ [Next]_vars => IInv'
  BY StepIInv
<1>3. QED
  BY <1>1, <1>2, PTL DEF Spec

\* Every variable keeps its type; both channels stay within their capacity and
\* the retry counter never passes start_retries + 1.
THEOREM TypeCorrect == Spec => []TypeOK
<1>1. IInv => TypeOK
  BY DEF IInv
<1>2. QED
  BY <1>1, Invariance, PTL

\* At most one OS process of the program exists at any time.
THEOREM OneProcess == Spec => []SingleInstance
<1>1. IInv => SingleInstance
  BY DEF IInv, Ownership, SingleInstance, Alive, Spawns, None
<1>2. QED
  BY <1>1, Invariance, PTL

\* STOPPED, BACKOFF, EXITED and FATAL are shown only when no process exists, and
\* an actor that has ended has left none behind.
THEOREM QuietMeansGone == Spec => [](QuietStateNoProcess /\ DoneMeansGone)
<1>1. IInv => QuietStateNoProcess
  BY DEF IInv, Ownership, Published, QuietStateNoProcess, Alive, Spawns, None
<1>2. IInv => DoneMeansGone
  BY DEF IInv, Ownership, Published, DoneMeansGone, StopAwaits, Alive, Spawns, None
<1>3. QED
  BY <1>1, <1>2, Invariance, PTL

\* Between two events, status() shows the child the actor owns and the armed
\* start_secs window is that child's.
THEOREM StatusOfThisChild == Spec => [](SnapshotMatchesChild /\ DeadlineOfThisChild)
<1>1. IInv => SnapshotMatchesChild
  BY DEF IInv, Published, SnapshotMatchesChild
<1>2. IInv => DeadlineOfThisChild
  BY DEF IInv, StartTimer, DeadlineOfThisChild
<1>3. QED
  BY <1>1, <1>2, Invariance, PTL

\* A backoff timer is armed only for a crashed program with retries left that
\* has not been stopped since.
THEOREM BackoffSound == Spec => []BackoffJustified
<1>1. IInv => BackoffJustified
  BY DEF IInv, Ownership, StopAwaits, BackoffTimer, BackoffJustified, Alive,
         Spawns, None
<1>2. QED
  BY <1>1, Invariance, PTL

\* send_stdin reaches the newest process or none, and no program is shown
\* healthy while it has no process.
THEOREM NoStaleGeneration == Spec => [](StdinGeneration /\ HealthOnlyWhenUp)
<1>1. IInv => StdinGeneration /\ HealthOnlyWhenUp
  BY DEF IInv
<1>2. QED
  BY <1>1, Invariance, PTL

-----------------------------------------------------------------------------
(* Who is answered, and what a returned call promises.  IInv says nothing  *)
(* of the caller: CallInv adds which command can still be answered         *)
(* (Delivery), which branch is served where (Engaged), how an actor comes  *)
(* to its end (Leaving) and that a stopped one has nothing left to do      *)
(* (AtRest).  The four are inductive together, beside IInv.                *)

-----------------------------------------------------------------------------
(* Who receives a reply.                                                   *)

\* The command taken from the channel is live exactly when it was the only one
\* and its caller still waits.
LEMMA TakeDelivers ==
    ASSUME IInv, Delivery, Engaged, NEW o, Take(o)
    PROVE  /\ Head(command_rx) = command_rx[1]
           /\ Head(command_rx).op = o
           /\ Len(command_rx') = Len(command_rx) - 1
           /\ \A i \in DOMAIN command_rx' : /\ i + 1 \in DOMAIN command_rx
                                            /\ command_rx'[i] = command_rx[i + 1]
           /\ ~cur.live
           /\ Head(command_rx).live <=> command_rx' = <<>> /\ call.res = "waiting"
           /\ Head(command_rx).live => call = [op |-> o, res |-> "waiting"]
<1>1. command_rx \in Seq(CommandType) /\ command_rx # <<>>
  BY DEF IInv, TypeOK, Take, CommandReady, CommandType
<1>2. command_rx' = Tail(command_rx) /\ Head(command_rx).op = o /\ pc = "select"
  BY DEF Take, CommandReady
<1>3. /\ Head(command_rx) = command_rx[1]
      /\ Len(command_rx') = Len(command_rx) - 1
      /\ Len(command_rx) \in Nat \ {0}
      /\ DOMAIN command_rx = 1 .. Len(command_rx)
      /\ DOMAIN command_rx' = 1 .. Len(command_rx) - 1
      /\ \A i \in 1 .. Len(command_rx) - 1 : command_rx'[i] = command_rx[i + 1]
      /\ command_rx' = <<>> <=> Len(command_rx) = 1
  <2>1. /\ Head(command_rx) = command_rx[1]
        /\ Len(command_rx) \in Nat \ {0}
        /\ DOMAIN command_rx = 1 .. Len(command_rx)
    BY <1>1
  <2>2. /\ Len(Tail(command_rx)) = Len(command_rx) - 1
        /\ Tail(command_rx) \in Seq(CommandType)
        /\ \A i \in 1 .. Len(Tail(command_rx)) : Tail(command_rx)[i] = command_rx[i + 1]
    BY <1>1, HeadTailProperties
  <2>3. command_rx' = <<>> <=> Len(command_rx') = 0
    BY <1>2, <2>2, EmptySeq
  <2>4. DOMAIN command_rx' = 1 .. Len(command_rx')
    BY <1>2, <2>2
  <2>5. QED
    BY <1>2, <2>1, <2>2, <2>3, <2>4
<1>4. ~cur.live
  BY <1>2 DEF Engaged, Delivery, ProgramCommand
<1>5. command_rx[1].live => /\ Len(command_rx) = 1
                            /\ call = [op |-> o, res |-> "waiting"]
  <2>1. 1 \in DOMAIN command_rx /\ command_rx[1].op = o
    BY <1>2, <1>3
  <2>2. QED
    BY <1>3, <2>1 DEF Delivery
<1>6. Len(command_rx) = 1 /\ call.res = "waiting" => command_rx[1].live
  BY <1>3, <1>4 DEF Delivery
<1>7. QED
  BY <1>2, <1>3, <1>4, <1>5, <1>6

\* The commands left behind are the same ones, and of these too only the last
\* can be answered.
LEMMA TakeLeaves ==
    ASSUME IInv, Delivery, Engaged, NEW o, Take(o)
    PROVE  /\ \A i \in DOMAIN command_rx' : command_rx'[i].live =>
                  i = Len(command_rx') /\ call = [op |-> command_rx'[i].op, res |-> "waiting"]
           /\ call.res = "waiting" =>
                  \/ Head(command_rx).live
                  \/ command_rx' # <<>> /\ command_rx'[Len(command_rx')].live
<1>1. /\ command_rx \in Seq(CommandType) /\ DOMAIN command_rx = 1 .. Len(command_rx)
      /\ Len(command_rx) \in Nat
  BY DEF IInv, TypeOK, CommandType
<1>2. /\ Len(command_rx') = Len(command_rx) - 1
      /\ command_rx' \in Seq(CommandType)
      /\ \A i \in DOMAIN command_rx' : /\ i + 1 \in DOMAIN command_rx
                                       /\ command_rx'[i] = command_rx[i + 1]
      /\ ~cur.live
      /\ Head(command_rx).live <=> command_rx' = <<>> /\ call.res = "waiting"
  BY TakeDelivers, TakeType DEF IInv
<1>3. DOMAIN command_rx' = 1 .. Len(command_rx') /\ Len(command_rx') \in Nat
  BY <1>2
<1>4. \A i \in DOMAIN command_rx' : command_rx'[i].live =>
          i = Len(command_rx') /\ call = [op |-> command_rx'[i].op, res |-> "waiting"]
  BY <1>1, <1>2, <1>3 DEF Delivery
<1>5. command_rx' # <<>> => command_rx'[Len(command_rx')] = command_rx[Len(command_rx)]
  BY <1>1, <1>2, <1>3
<1>6. QED
  BY <1>2, <1>4, <1>5 DEF Delivery

\* What the handle's caller does keeps the newest command the one that is
\* answered; nobody waits for a reply after the call has timed out.
LEMMA ForgetDelivers ==
    ASSUME IInv, Delivery, call.res = "waiting", ForgetReply
    PROVE  /\ ~cur'.live /\ cur'.op = cur.op
           /\ Len(command_rx') = Len(command_rx)
           /\ DOMAIN command_rx' = DOMAIN command_rx
           /\ \A i \in DOMAIN command_rx : /\ ~command_rx'[i].live
                                           /\ command_rx'[i].op = command_rx[i].op
<1> DEFINE n == Len(command_rx)
<1>1. command_rx \in Seq(CommandType) /\ DOMAIN command_rx = 1 .. n /\ n \in Nat
  BY DEF IInv, TypeOK, CommandType
<1>2. CASE command_rx # <<>>
  <2>1. /\ command_rx' = [command_rx EXCEPT ![n] = [op |-> @.op, live |-> FALSE]]
        /\ cur' = cur
    BY <1>2 DEF ForgetReply
  <2>2. n \in 1 .. n
    BY <1>1, <1>2
  <2>3. /\ DOMAIN command_rx' = 1 .. n /\ Len(command_rx') = n
        /\ command_rx'[n] = [op |-> command_rx[n].op, live |-> FALSE]
        /\ \A i \in 1 .. n : i # n => command_rx'[i] = command_rx[i]
    BY <1>1, <2>1, <2>2
  <2>4. \A i \in 1 .. n : i # n => ~command_rx[i].live
    BY <1>1 DEF Delivery
  <2>5. ~cur.live
    BY <1>2 DEF Delivery
  <2>6. QED
    BY <1>1, <2>1, <2>3, <2>4, <2>5
<1>3. CASE command_rx = <<>>
  BY <1>1, <1>3 DEF ForgetReply
<1>4. QED
  BY <1>2, <1>3

\* A reply reaches the caller exactly when the command was live; afterwards
\* nobody waits for it.
LEMMA ReplyDelivers ==
    ASSUME IInv, NEW cmd, NEW r \in CallResult, Reply(cmd, r)
    PROVE  /\ call'.op = call.op
           /\ cmd.live => call' = [op |-> call.op, res |-> r]
           /\ ~cmd.live => call' = call
  BY DEF Reply

\* What a step of anybody but the caller can do to the channel, to the command
\* being served and to the call.
Finishes == cur' = Idle /\ UNCHANGED command_rx /\ \E r \in {"ok", "err"} : Reply(cur, r)
Turns    == /\ pc \in {"select", "exit_drain"} /\ UNCHANGED <<command_rx, call>>
            /\ \E t \in Trigger \ ProgramCommand : cur' = [op |-> t, live |-> FALSE]
Accepts  == \E o \in ProgramCommand : Take(o) /\ cur' = Head(command_rx) /\ UNCHANGED call
Answers  == \E o \in ProgramCommand :
                /\ Take(o) /\ UNCHANGED cur
                /\ \E r \in {"ok", "err"} : Reply(Head(command_rx), r)

\* Every step is the caller's or one of these.
LEMMA MailSteps ==
    ASSUME IInv, Engaged, [Next]_vars
    PROVE  \/ Handle \/ Finishes \/ Turns \/ Accepts \/ Answers \/ RunEnds
           \/ UNCHANGED <<cur, command_rx, call>>
<1> USE DEF vars, controlVars, childVars, flagVars, timerVars, sharedVars,
            handleVars, probeVars, Finishes, Turns, Accepts, Answers
<1>1. CASE Handle \/ RunEnds
  BY <1>1
<1>2. CASE Probe \/ OS \/ Terminated \/ UNCHANGED vars
  BY <1>2 DEF Probe, ProbeBegin, ProbeSucceeds, ProbeFails, OS, ProcessExits,
              ProcessKilled, Terminated
<1>3. CASE SpawnStep
  BY <1>3 DEF SpawnStep, SpawnChild, SpawnDrained, PreStartDone, LaunchFails, Launch,
              SpawnFailed
<1>4. CASE StopStep
  BY <1>4 DEF StopStep, PreStopDone, GraceExit, GraceTimeout, KillReaped, StopDrained,
              StopReturned, StopThenSpawn
<1>5. CASE HandleStart
  BY <1>5 DEF HandleStart, Refuse, ProgramCommand
<1>6. CASE HandleStop
  BY <1>6 DEF HandleStop, StopCurrentChild, ProgramCommand
<1>7. CASE HandleRestart
  BY <1>7 DEF HandleRestart, StopCurrentChild, Refuse, ProgramCommand
<1>8. CASE HandleShutdown
  BY <1>8 DEF HandleShutdown, StopCurrentChild, ProgramCommand
<1>9. CASE HandleSignal
  BY <1>9 DEF HandleSignal, ProgramCommand
<1>10. CASE Cancelled
  BY <1>10 DEF Cancelled, CancelReady, StopCurrentChild, Trigger, ProgramCommand
<1>11. CASE HealthEvent
  BY <1>11 DEF HealthEvent, HealthyEvent, UnhealthyEvent, UnhealthyRestart, HealthReady,
               StopCurrentChild, Trigger, ProgramCommand
<1>12. CASE BackoffExpires \/ ChildExit \/ StartDeadline
  BY <1>12 DEF BackoffExpires, ChildExit, StartDeadline, TimersPolled, Trigger,
               ProgramCommand
<1>13. CASE ExitDrained
  BY <1>13 DEF ExitDrained, Trigger, ProgramCommand
<1>14. QED
  BY <1>1, <1>2, <1>3, <1>4, <1>5, <1>6, <1>7, <1>8, <1>9, <1>10, <1>11, <1>12, <1>13
     DEF Next, Actor, SelectStep

\* Only the newest command can be answered, after every step.
LEMMA DeliveryStep ==
    ASSUME IInv, Delivery, Engaged, [Next]_vars
    PROVE  Delivery'
<1>1. /\ command_rx \in Seq(CommandType) /\ DOMAIN command_rx = 1 .. Len(command_rx)
      /\ Len(command_rx) \in Nat /\ call \in CallType /\ cur \in ServedType
  BY DEF IInv, TypeOK, CommandType, CallType, ServedType
<1>2. ASSUME NEW op \in ProgramCommand, Call(op)
      PROVE  Delivery'
  <2> DEFINE new == [op |-> op, live |-> TRUE]
  <2>1. /\ command_rx' = Append(command_rx, new)
        /\ call' = [op |-> op, res |-> "waiting"] /\ cur' = cur /\ call.res # "waiting"
    BY <1>2 DEF Call, MayCall, controlVars
  <2>2. ~cur.live /\ \A i \in DOMAIN command_rx : ~command_rx[i].live
    BY <2>1 DEF Delivery
  <2>3. /\ Len(command_rx') = Len(command_rx) + 1
        /\ DOMAIN command_rx' = 1 .. Len(command_rx) + 1
        /\ command_rx'[Len(command_rx) + 1] = new
        /\ \A i \in 1 .. Len(command_rx) : command_rx'[i] = command_rx[i]
        /\ command_rx' # <<>>
    <3>1. new \in CommandType
      BY DEF CommandType
    <3>2. QED
      BY <1>1, <2>1, <3>1, AppendProperties, LenProperties
  <2>4. QED
    BY <1>1, <2>1, <2>2, <2>3 DEF Delivery
<1>3. CASE CallTimeout \/ (DropHandle /\ call.res = "waiting")
  <2>1. ForgetReply /\ call.res = "waiting" /\ call'.res # "waiting"
    BY <1>3 DEF CallTimeout, DropHandle
  <2>2. QED
    BY <2>1, ForgetDelivers DEF Delivery
<1>4. CASE ShutdownCancel \/ ShutdownJoin \/ (DropHandle /\ call.res # "waiting")
  BY <1>4 DEF ShutdownCancel, ShutdownJoin, DropHandle, controlVars, Delivery
<1>5. CASE Finishes
  <2>1. PICK r \in {"ok", "err"} : Reply(cur, r)
    BY <1>5 DEF Finishes
  <2>2. cur.live => call'.res # "waiting"
    BY <2>1 DEF Reply
  <2>3. ~cur.live => call' = call
    BY <2>1 DEF Reply
  <2>4. QED
    BY <1>5, <2>2, <2>3 DEF Finishes, Delivery, Idle
<1>6. CASE Turns
  BY <1>6 DEF Turns, Delivery, Engaged, ProgramCommand
<1>7. CASE Accepts
  <2>1. PICK o \in ProgramCommand : Take(o) /\ cur' = Head(command_rx) /\ UNCHANGED call
    BY <1>7 DEF Accepts
  <2>2. QED
    BY <2>1, TakeDelivers, TakeLeaves DEF Delivery
<1>8. CASE Answers
  <2>1. PICK o \in ProgramCommand, r \in {"ok", "err"} :
            Take(o) /\ UNCHANGED cur /\ Reply(Head(command_rx), r)
    BY <1>8 DEF Answers
  <2>2. CASE Head(command_rx).live
    <3>1. command_rx' = <<>> /\ call'.res # "waiting" /\ ~cur'.live
      BY <2>1, <2>2, TakeDelivers DEF Reply
    <3>2. QED
      BY <3>1 DEF Delivery
  <2>3. CASE ~Head(command_rx).live
    <3>1. UNCHANGED <<call, cur>> /\ ~cur.live
      BY <2>1, <2>3, TakeDelivers DEF Reply
    <3>2. QED
      BY <2>1, <2>3, <3>1, TakeLeaves DEF Delivery
  <2>4. QED
    BY <2>2, <2>3
<1>9. CASE RunEnds
  BY <1>9 DEF RunEnds, Delivery, Idle
<1>10. CASE UNCHANGED <<cur, command_rx, call>>
  BY <1>10 DEF Delivery
<1>11. QED
  BY <1>2, <1>3, <1>4, <1>5, <1>6, <1>7, <1>8, <1>9, <1>10, MailSteps DEF Handle

-----------------------------------------------------------------------------
(* What is served, and the end of the calls.                               *)

\* Which branch is suspended where, and the state shown meanwhile.
LEMMA EngagedStep ==
    ASSUME IInv, Engaged, [Next]_vars
    PROVE  Engaged'
<1> USE DEF Engaged, IInv, Serving, Published, vars, controlVars, childVars,
            flagVars, timerVars, sharedVars, handleVars, probeVars
<1>1. CASE Handle \/ Probe \/ Terminated \/ UNCHANGED vars
  BY <1>1, ActorUntouched DEF actorFrame
<1>2. CASE SpawnChild
  BY <1>2 DEF SpawnChild, SpawnFailed, SpawnProceeds, Idle
<1>3. CASE SpawnDrained
  BY <1>3 DEF SpawnDrained, SpawnProceeds
<1>4. CASE PreStartDone
  BY <1>4 DEF PreStartDone, SpawnFailed, Idle
<1>5. CASE LaunchFails \/ Launch
  BY <1>5 DEF LaunchFails, SpawnFailed, Launch, Idle
<1>6. CASE PreStopDone \/ GraceExit \/ GraceTimeout \/ KillReaped
  BY <1>6 DEF PreStopDone, GraceExit, GraceTimeout, KillReaped
<1>7. CASE StopDrained
  BY <1>7 DEF StopDrained, UpdateStatus
<1>8. CASE StopReturned \/ RunEnds
  BY <1>8 DEF StopReturned, RunEnds, Idle
<1>9. CASE StopThenSpawn
  BY <1>9 DEF StopThenSpawn
<1>10. CASE HandleStart
  BY <1>10, TakeType DEF HandleStart, Take, CommandReady, Refuse, CommandType,
                         ProgramCommand
<1>11. ASSUME NEW cmd, StopCurrentChild(cmd), pc = "select", cmd.op # "None"
       PROVE  Engaged'
  BY <1>11 DEF StopCurrentChild, UpdateStatus
<1>12. CASE HandleStop \/ HandleRestart \/ HandleShutdown
  BY <1>11, <1>12 DEF HandleStop, HandleRestart, HandleShutdown, Take, CommandReady, Refuse
<1>13. CASE HandleSignal
  BY <1>13 DEF HandleSignal
<1>14. CASE Cancelled \/ UnhealthyRestart
  BY <1>11, <1>14 DEF Cancelled, CancelReady, UnhealthyRestart, HealthReady
<1>15. CASE HealthyEvent \/ UnhealthyEvent
  BY <1>15 DEF HealthyEvent, UnhealthyEvent, HealthReady
<1>16. CASE BackoffExpires
  BY <1>16 DEF BackoffExpires, TimersPolled, BackoffTimer
<1>17. CASE ChildExit \/ StartDeadline
  BY <1>17 DEF ChildExit, StartDeadline, TimersPolled
<1>18. CASE ExitDrained
  BY <1>18 DEF ExitDrained, UpdateStatus
<1>19. CASE OS
  BY <1>19 DEF OS, ProcessExits, ProcessKilled
<1>20. QED
  BY <1>1, <1>2, <1>3, <1>4, <1>5, <1>6, <1>7, <1>8, <1>9, <1>10, <1>12, <1>13,
     <1>14, <1>15, <1>16, <1>17, <1>18, <1>19
     DEF Next, Actor, SpawnStep, StopStep, SelectStep, HealthEvent

\* A program with a child was not stopped by hand.
ByHand ==
    current_child # None \/ pc \in {"exit_drain", "pre_start", "launch"} => ~manual_stop

\* ByHand is kept: a Stop takes the child, and only spawn_child, which clears the
\* flag, brings one.
LEMMA ByHandStep ==
    ASSUME IInv, Leaving, [Next]_vars
    PROVE  ByHand'
<1> USE DEF ByHand, IInv, Ownership, Leaving, None, StopAwaits, vars, controlVars,
            childVars, flagVars, timerVars, sharedVars, handleVars, probeVars
<1>1. CASE Handle \/ Probe \/ Terminated \/ UNCHANGED vars
  BY <1>1, ActorUntouched DEF actorFrame
<1>2. CASE SpawnStep
  BY <1>2 DEF SpawnStep, SpawnChild, SpawnDrained, PreStartDone, LaunchFails, Launch,
              SpawnFailed, SpawnProceeds
<1>3. CASE StopStep
  BY <1>3 DEF StopStep, PreStopDone, GraceExit, GraceTimeout, KillReaped, StopDrained,
              StopReturned, StopThenSpawn, RunEnds
<1>4. CASE HandleStart \/ HandleSignal
  BY <1>4 DEF HandleStart, HandleSignal, Take, CommandReady, Refuse
<1>5. CASE HandleStop \/ HandleRestart \/ HandleShutdown \/ Cancelled \/ UnhealthyRestart
  BY <1>5 DEF HandleStop, HandleRestart, HandleShutdown, Cancelled, UnhealthyRestart,
              Take, CommandReady, CancelReady, HealthReady, StopCurrentChild, Refuse
<1>6. CASE HealthyEvent \/ UnhealthyEvent \/ BackoffExpires \/ ChildExit \/ StartDeadline
  BY <1>6 DEF HealthyEvent, UnhealthyEvent, BackoffExpires, ChildExit, StartDeadline,
              TimersPolled, HealthReady
<1>7. CASE ExitDrained
  BY <1>7 DEF ExitDrained
<1>8. CASE OS
  BY <1>8 DEF OS, ProcessExits, ProcessKilled
<1>9. QED
  BY <1>1, <1>2, <1>3, <1>4, <1>5, <1>6, <1>7, <1>8
     DEF Next, Actor, SelectStep, HealthEvent

\* An actor that shuts down serves its Shutdown command or is cancelled.
Ending ==
    /\ is_shutting_down => cancel_token \/ cur.op = "Shutdown"
    /\ pc = "exit_drain" => ~is_shutting_down
    /\ pc = "done" \/ cur.op = "Cancel" => cancel_token

\* Ending is kept.
LEMMA EndingStep ==
    ASSUME IInv, Engaged, Leaving, [Next]_vars
    PROVE  Ending'
<1> USE DEF Ending, Leaving, Engaged, vars, controlVars,
            childVars, flagVars, timerVars, sharedVars, handleVars, probeVars
<1>1. CASE Handle \/ Probe \/ Terminated \/ UNCHANGED vars
  <2>1. UNCHANGED actorFrame /\ cur'.op = cur.op
    BY <1>1, ActorUntouched DEF IInv
  <2>2. cancel_token => cancel_token'
    BY <1>1 DEF Handle, Call, CallTimeout, ShutdownCancel, ShutdownJoin, DropHandle,
                Probe, ProbeBegin, ProbeSucceeds, ProbeFails, Terminated
  <2>3. QED
    BY <2>1, <2>2 DEF actorFrame
<1>2. CASE SpawnStep
  <2>1. UNCHANGED <<is_shutting_down, cancel_token>> /\ pc' \notin {"exit_drain", "done"}
    BY <1>2 DEF SpawnStep, SpawnChild, SpawnDrained, PreStartDone, LaunchFails, Launch,
                SpawnFailed, SpawnProceeds
  <2>2. cur' = cur \/ cur' = Idle
    BY <1>2 DEF SpawnStep, SpawnChild, SpawnDrained, PreStartDone, LaunchFails, Launch,
                SpawnFailed, SpawnProceeds
  <2>3. cur.op # "Shutdown"
    BY <1>2 DEF SpawnStep, SpawnChild, SpawnDrained, PreStartDone, LaunchFails, Launch,
                IInv, Serving
  <2>4. QED
    BY <2>1, <2>2, <2>3 DEF Idle
<1>3. CASE StopStep
  <2>1. CASE PreStopDone \/ GraceExit \/ GraceTimeout \/ KillReaped \/ StopDrained
             \/ StopThenSpawn
    <3>1. UNCHANGED <<is_shutting_down, cancel_token, cur>>
      BY <2>1 DEF PreStopDone, GraceExit, GraceTimeout, KillReaped, StopDrained,
                  StopThenSpawn
    <3>2. pc' \notin {"exit_drain", "done"}
      BY <2>1 DEF PreStopDone, GraceExit, GraceTimeout, KillReaped, StopDrained,
                  StopThenSpawn
    <3>3. QED
      BY <3>1, <3>2
  <2>2. CASE StopReturned
    <3>1. /\ cancel_token' <=> cancel_token \/ cur.op = "Shutdown"
          /\ UNCHANGED is_shutting_down
          /\ pc' = "select" /\ cur' = Idle
      BY <2>2, TypeParts, IInv DEF IInv, StopReturned
    <3>2. QED
      BY <3>1 DEF Idle
  <2>3. CASE RunEnds
    <3>1. cancel_token
      BY <2>3 DEF RunEnds
    <3>2. UNCHANGED <<is_shutting_down, cancel_token>> /\ pc' = "done"
      BY <2>3 DEF RunEnds
    <3>3. QED
      BY <3>1, <3>2
  <2>4. QED
    BY <1>3, <2>1, <2>2, <2>3 DEF StopStep
<1>4. CASE HandleStart \/ HandleSignal
  <2>1. UNCHANGED <<is_shutting_down, cancel_token>> /\ pc' \in {"select", "spawn"}
    BY <1>4 DEF HandleStart, HandleSignal, Take, CommandReady, Refuse
  <2>2. cur' = cur \/ (cur'.op = "Start" /\ cur.op = "None")
    BY <1>4 DEF HandleStart, HandleSignal, Take, CommandReady, Refuse
  <2>3. QED
    BY <2>1, <2>2
<1>5. CASE HandleStop \/ HandleRestart \/ HandleShutdown
  <2>1. /\ pc = "select" /\ cancel_token' = cancel_token /\ ~cancel_token
        /\ pc' \in {"select", "stopped", "pre_stop", "grace"}
    BY <1>5 DEF HandleStop, HandleRestart, HandleShutdown, Take, CommandReady,
                StopCurrentChild, Refuse
  <2>2. \/ cur' = cur
        \/ cur'.op \in {"Stop", "Restart"}
        \/ cur'.op = "Shutdown"
    BY <1>5 DEF HandleStop, HandleRestart, HandleShutdown, Take, StopCurrentChild, Refuse
  <2>3. is_shutting_down' => is_shutting_down \/ cur'.op = "Shutdown"
    BY <1>5 DEF HandleStop, HandleRestart, HandleShutdown, Take, StopCurrentChild
  <2>4. ~is_shutting_down
    BY <2>1
  <2>5. QED
    BY <2>1, <2>2, <2>3, <2>4
<1>6. CASE Cancelled
  BY <1>6 DEF Cancelled, CancelReady, StopCurrentChild
<1>7. CASE HealthEvent
  BY <1>7 DEF HealthEvent, HealthyEvent, UnhealthyEvent, UnhealthyRestart, HealthReady,
              StopCurrentChild
<1>8. CASE BackoffExpires \/ ChildExit \/ StartDeadline
  BY <1>8 DEF BackoffExpires, ChildExit, StartDeadline, TimersPolled
<1>9. CASE ExitDrained
  BY <1>9 DEF ExitDrained
<1>10. CASE OS
  BY <1>10 DEF OS, ProcessExits, ProcessKilled
<1>11. QED
  BY <1>1, <1>2, <1>3, <1>4, <1>5, <1>6, <1>7, <1>8, <1>9, <1>10
     DEF Next, Actor, SelectStep

\* The token is set by the handle or at the end of a Shutdown.
LEMMA TokenStep ==
    ASSUME TypeOK, [Next]_vars, ~Handle
    PROVE  cancel_token' = cancel_token \/ (StopReturned /\ cur.op = "Shutdown")
<1> USE DEF vars, handleVars
<1>1. CASE Probe \/ OS \/ Terminated \/ UNCHANGED vars
  BY <1>1 DEF Probe, ProbeBegin, ProbeSucceeds, ProbeFails, OS, ProcessExits,
              ProcessKilled, Terminated
<1>2. CASE SpawnStep
  BY <1>2 DEF SpawnStep, SpawnChild, SpawnDrained, PreStartDone, LaunchFails, Launch
<1>3. CASE StopStep /\ ~StopReturned
  BY <1>3 DEF StopStep, PreStopDone, GraceExit, GraceTimeout, KillReaped, StopDrained,
              StopThenSpawn, RunEnds
<1>4. CASE StopReturned
  <2>1. cur.op # "Shutdown" => cancel_token' = (cancel_token \/ FALSE)
    BY <1>4 DEF StopReturned
  <2>2. cancel_token \in BOOLEAN
    BY DEF TypeOK
  <2>3. QED
    BY <1>4, <2>1, <2>2
<1>5. CASE HandleStart \/ HandleStop \/ HandleRestart \/ HandleShutdown \/ HandleSignal
  BY <1>5 DEF HandleStart, HandleStop, HandleRestart, HandleShutdown, HandleSignal,
              Refuse, StopCurrentChild
<1>6. CASE Cancelled \/ HealthEvent
  BY <1>6 DEF Cancelled, HealthEvent, HealthyEvent, UnhealthyEvent, UnhealthyRestart,
              StopCurrentChild
<1>7. CASE BackoffExpires \/ ChildExit \/ StartDeadline \/ ExitDrained
  BY <1>7 DEF BackoffExpires, ChildExit, StartDeadline, ExitDrained
<1>8. QED
  BY <1>1, <1>2, <1>3, <1>4, <1>5, <1>6, <1>7 DEF Next, Actor, SelectStep

\* Once the actor is cancelled or was told to shut down nobody calls it.
LastCall ==
    (\/ cancel_token \/ cur.op = "Shutdown"
     \/ \E i \in DOMAIN command_rx : command_rx[i].op = "Shutdown")
        => call.op = "Shutdown" \/ call.res = "dropped"

\* LastCall is kept: shutdown() is the last call of a handle, and a dropped handle
\* makes none.
LEMMA LastCallStep ==
    ASSUME IInv, Delivery, Engaged, LastCall, [Next]_vars
    PROVE  LastCall'
<1>1. /\ command_rx \in Seq(CommandType) /\ DOMAIN command_rx = 1 .. Len(command_rx)
      /\ Len(command_rx) \in Nat /\ call \in CallType /\ cur \in ServedType
  BY DEF IInv, TypeOK, CommandType, CallType, ServedType
<1>2. ASSUME NEW op \in ProgramCommand, Call(op)
      PROVE  LastCall'
  <2>1. /\ command_rx' = Append(command_rx, [op |-> op, live |-> TRUE])
        /\ call' = [op |-> op, res |-> "waiting"] /\ UNCHANGED <<cur, cancel_token>>
        /\ call.op # "Shutdown" /\ call.res # "dropped"
    BY <1>2 DEF Call, MayCall, controlVars
  <2>2. /\ DOMAIN command_rx' = 1 .. Len(command_rx) + 1
        /\ command_rx'[Len(command_rx) + 1].op = op
        /\ \A i \in 1 .. Len(command_rx) : command_rx'[i] = command_rx[i]
    BY <1>1, <2>1
  <2>3. QED
    BY <1>1, <2>1, <2>2 DEF LastCall
<1>3. CASE CallTimeout \/ (DropHandle /\ call.res = "waiting")
  <2>1. ForgetReply /\ call.res = "waiting"
    BY <1>3 DEF CallTimeout, DropHandle
  <2>2. /\ call'.op = call.op
        /\ cancel_token' = cancel_token \/ call'.res = "dropped"
    BY <1>1, <1>3 DEF CallTimeout, DropHandle
  <2>3. QED
    BY <2>1, <2>2, ForgetDelivers DEF LastCall
<1>4. CASE ShutdownCancel \/ ShutdownJoin \/ (DropHandle /\ call.res # "waiting")
  BY <1>4 DEF ShutdownCancel, ShutdownJoin, DropHandle, controlVars, LastCall
<1>5. ASSUME ~Handle
      PROVE  /\ call'.op = call.op
             /\ call.res = "dropped" => call'.res = "dropped"
  <2>1. CASE Finishes
    BY <2>1 DEF Finishes, Reply, Delivery
  <2>2. CASE Answers
    <3>1. PICK o \in ProgramCommand, r \in {"ok", "err"} :
              Take(o) /\ Reply(Head(command_rx), r)
      BY <2>2 DEF Answers
    <3>2. QED
      BY <3>1, TakeDelivers DEF Reply
  <2>3. CASE Turns \/ Accepts \/ RunEnds \/ UNCHANGED <<cur, command_rx, call>>
    BY <2>3 DEF Turns, Accepts, RunEnds
  <2>4. QED
    BY <1>5, <2>1, <2>2, <2>3, MailSteps
<1>6. ASSUME ~Handle
      PROVE  cancel_token' = cancel_token \/ cur.op = "Shutdown"
  BY <1>6, TokenStep DEF IInv
<1>7. ASSUME ~Handle
      PROVE  cur'.op = "Shutdown" =>
                 \/ cur.op = "Shutdown"
                 \/ \E i \in DOMAIN command_rx : command_rx[i].op = "Shutdown"
  <2>1. CASE Accepts
    <3>1. PICK o \in ProgramCommand : Take(o) /\ cur' = Head(command_rx)
      BY <2>1 DEF Accepts
    <3>2. Head(command_rx) = command_rx[1] /\ command_rx # <<>>
      BY <3>1, TakeDelivers DEF Take, CommandReady
    <3>3. 1 \in DOMAIN command_rx
      BY <1>1, <3>2
    <3>4. QED
      BY <3>1, <3>2, <3>3
  <2>2. CASE Finishes \/ Turns \/ Answers \/ RunEnds \/ UNCHANGED <<cur, command_rx, call>>
    BY <2>2 DEF Finishes, Turns, Answers, RunEnds, Idle, ProgramCommand
  <2>3. QED
    BY <1>7, <2>1, <2>2, MailSteps
<1>8. ASSUME ~Handle
      PROVE  \A i \in DOMAIN command_rx' : \E j \in DOMAIN command_rx :
                 command_rx'[i].op = command_rx[j].op
  <2>1. CASE Accepts \/ Answers
    BY <2>1, TakeDelivers DEF Accepts, Answers
  <2>2. CASE Finishes \/ Turns \/ UNCHANGED <<cur, command_rx, call>>
    BY <2>2 DEF Finishes, Turns
  <2>3. CASE RunEnds
    BY <2>3 DEF RunEnds
  <2>4. QED
    BY <1>8, <2>1, <2>2, <2>3, MailSteps
<1>9. CASE ~Handle
  BY <1>5, <1>6, <1>7, <1>8, <1>9 DEF LastCall
<1>10. QED
  BY <1>2, <1>3, <1>4, <1>9 DEF Handle

-----------------------------------------------------------------------------
(* The actor after a stop.                                                 *)

\* A stop is answered Ok once STOPPED is published and only to its own caller;
\* the channel is then empty, no timer is armed and no child is left, so no
\* branch of the select loop but the token's is ready until the next call.
LEMMA AtRestStep ==
    ASSUME IInv, CallInv, [Next]_vars
    PROVE  AtRest'
<1> DEFINE Ok(c) == c = [op |-> "Stop", res |-> "ok"]
<1> USE DEF CallInv, AtRest, vars, controlVars, childVars, flagVars, timerVars,
            sharedVars, handleVars, probeVars
<1>1. CASE Handle
  <2>1. call'.res # "ok"
    <3>1. \A op \in ProgramCommand : Call(op) => call'.res = "waiting"
      BY DEF Call
    <3>2. CASE CallTimeout \/ ShutdownCancel
      BY <3>2 DEF CallTimeout, ShutdownCancel
    <3>3. CASE ShutdownJoin
      BY <3>3 DEF ShutdownJoin
    <3>4. CASE DropHandle
      <4>1. call' = [op |-> call.op, res |-> "dropped"]
        BY <3>4 DEF DropHandle
      <4>2. QED
        BY <4>1
    <3>5. QED
      BY <1>1, <3>1, <3>2, <3>3, <3>4 DEF Handle
  <2>2. QED
    BY <2>1
<1>2. CASE Probe \/ OS \/ Terminated \/ UNCHANGED vars
  BY <1>2 DEF Probe, ProbeBegin, ProbeSucceeds, ProbeFails, OS, ProcessExits,
              ProcessKilled, Terminated
<1>3. CASE Ok(call) /\ ~cancel_token /\ Actor
  BY <1>3 DEF Actor, SpawnStep, StopStep, SelectStep, ExitDrained, SpawnChild,
     SpawnDrained, PreStartDone, LaunchFails, Launch, PreStopDone, GraceExit,
     GraceTimeout, KillReaped, StopDrained, StopReturned, StopThenSpawn, RunEnds,
     HandleStart, HandleStop, HandleRestart, HandleShutdown, HandleSignal, Take,
     CommandReady, Cancelled, CancelReady, HealthEvent, HealthyEvent, UnhealthyEvent,
     UnhealthyRestart, HealthReady, BackoffExpires, ChildExit, TimersPolled,
     StartDeadline, IInv, StartTimer
<1>4. CASE Actor /\ ~(Ok(call) /\ ~cancel_token)
  <2> SUFFICES ASSUME Ok(call'), ~cancel_token'
               PROVE  /\ pc' = "select" /\ command_rx' = <<>> /\ current_child' = None
                      /\ status'.state = "Stopped" /\ ~backoff_deadline'
    BY DEF AtRest
  <2>1. ~Handle => ~cancel_token
    <3>1. CASE StopReturned /\ cur.op = "Shutdown"
      BY <3>1 DEF StopReturned
    <3>2. QED
      BY <1>4, <3>1, TokenStep DEF IInv, Next
  <2>2. CASE Handle
    BY <1>1, <2>2
  <2>3. CASE call' # call /\ ~Handle
    <3>1. CASE SpawnStep
      <4>1. cur.live /\ cur.op # "Stop" /\ call'.op = call.op
        BY <2>3, <3>1 DEF SpawnStep, SpawnChild, SpawnDrained, PreStartDone, LaunchFails,
                          Launch, SpawnFailed, Reply, IInv, Serving
      <4>2. QED
        BY <4>1 DEF Delivery
    <3>2. CASE StopReturned
      <4>1. cur.live
        BY <2>3, <3>2 DEF StopReturned, Reply
      <4>2. command_rx = <<>> /\ pc = "stopped"
        BY <3>2, <4>1 DEF Delivery, StopReturned
      <4>3. status.state = "Stopped" /\ current_child = None /\ ~backoff_deadline
        BY <4>2 DEF Engaged, IInv, Ownership, BackoffTimer
      <4>4. QED
        BY <3>2, <4>2, <4>3 DEF StopReturned
    <3>3. CASE HandleStart \/ HandleRestart \/ HandleSignal
      <4>1. \/ HandleSignal /\ Take("Signal") /\ Head(command_rx).live
            \/ call'.res = "err"
        BY <2>3, <3>3 DEF HandleStart, HandleRestart, HandleSignal, Refuse, Reply,
                          StopCurrentChild
      <4>2. call.op = "Signal"
        BY <4>1, TakeDelivers
      <4>3. call'.op = call.op
        BY <2>3, <3>3 DEF HandleStart, HandleRestart, HandleSignal, Refuse, Reply,
                          StopCurrentChild
      <4>4. QED
        BY <4>2, <4>3
    <3>4. CASE StopStep /\ ~StopReturned
      BY <2>3, <3>4 DEF StopStep, PreStopDone, GraceExit, GraceTimeout, KillReaped,
                        StopDrained, StopThenSpawn, RunEnds
    <3>5. CASE HandleStop \/ HandleShutdown \/ Cancelled \/ HealthEvent
      BY <2>3, <3>5 DEF HandleStop, HandleShutdown, Cancelled, HealthEvent,
             HealthyEvent, UnhealthyEvent, UnhealthyRestart, StopCurrentChild
    <3>6. CASE BackoffExpires \/ ChildExit \/ StartDeadline \/ ExitDrained
      BY <2>3, <3>6 DEF BackoffExpires, ChildExit, StartDeadline, ExitDrained
    <3>7. QED
      BY <1>4, <3>1, <3>2, <3>3, <3>4, <3>5, <3>6 DEF Actor, SelectStep
  <2>4. QED
    BY <1>4, <2>1, <2>2, <2>3
<1>5. QED
  BY <1>1, <1>2, <1>3, <1>4 DEF Next

\* Who is answered, what is served, how it ends: invariants beside IInv.
LEMMA InitCallInv == Init => CallInv
  BY DEF Init, CallInv, Delivery, Engaged, Leaving, AtRest, Idle, None, ProgramCommand

\* The delivery of replies, the branch being served, the end of an actor and its
\* rest after a stop are as CallInv says in every reachable state.
THEOREM CallInvariance == Spec => []CallInv
<1>1. IInv /\ CallInv /\ [Next]_vars => CallInv'
  <2> SUFFICES ASSUME IInv, CallInv, [Next]_vars
               PROVE  CallInv'
    OBVIOUS
  <2>1. Delivery /\ Engaged /\ Leaving /\ LastCall
    BY DEF CallInv, Leaving, LastCall
  <2>2. Delivery' /\ Engaged' /\ AtRest'
    BY <2>1, DeliveryStep, EngagedStep, AtRestStep
  <2>3. ByHand' /\ Ending' /\ LastCall'
    BY <2>1, ByHandStep, EndingStep, LastCallStep
  <2>4. Leaving'
    BY <2>3 DEF ByHand, Ending, LastCall, Leaving
  <2>5. QED
    BY <2>2, <2>4 DEF CallInv
<1>2. QED
  BY <1>1, InitCallInv, Invariance, PTL DEF Spec

\* Once stop() has returned Ok, and until the next call or the cancellation,
\* the program stays STOPPED with no process and no timer armed (process.rs,
\* handle_command, stop_current_child and the select loop).
THEOREM StopFinal == Spec => []StopIsFinal
<1>1. IInv /\ CallInv => StopIsFinal
  <2>1. ASSUME IInv, current_child = None, pc = "select"
        PROVE  Alive = {}
    BY <2>1 DEF IInv, Ownership, StopAwaits, Alive, Spawns, None
  <2>2. QED
    BY <2>1 DEF CallInv, AtRest, StopIsFinal
<1>2. QED
  BY <1>1, Invariance, CallInvariance, PTL

-----------------------------------------------------------------------------
(* ProgramActor implements its two abstractions.                           *)
(*                                                                         *)
(* ProgramLifecycle, under the mapping state <- status.state,              *)
(* live <- Alive: every step of the caller, of the probe and most steps of *)
(* the actor are stutters of the lifecycle; the steps that publish a       *)
(* status or change the set of live processes map to one lifecycle step    *)
(* each, by the inductive invariant.                                       *)
(*                                                                         *)
(* ProgramContract, by which Manager runs its programs, under Presented:   *)
(* a step that answers a call needs CallInv besides, for the contract      *)
(* knows only whether the newest call is still waited for.                 *)

\* The variables the lifecycle sees.
Mapped == <<status.state, Alive>>

\* A step that changes neither the published status nor a process is a stutter.
LEMMA Stutter ==
    ASSUME UNCHANGED <<status, proc>>
    PROVE  UNCHANGED Mapped
  BY DEF Mapped, Alive

\* Outside the stop sequence, with no current child, no process exists.
LEMMA NoChildNoProcess ==
    ASSUME IInv, current_child = None, pc \notin StopAwaits
    PROVE  Alive = {}
  BY DEF IInv, Ownership, Alive, Spawns, None

\* A failed spawn_child either leaves the status it found or publishes FATAL,
\* and it does the latter only when no process exists.
LEMMA SpawnFailedMaps ==
    ASSUME IInv, NEW c, SpawnFailed(c, status), UNCHANGED proc,
           pc \in {"spawn", "launch"}
    PROVE  Lifecycle!SpawnFailed \/ UNCHANGED Mapped
<1>1. CASE cur.op \in {"Start", "Restart"}
  BY <1>1, Stutter DEF SpawnFailed
<1>2. CASE cur.op \notin {"Start", "Restart"}
  <2>1. current_child = None
    BY <1>2 DEF IInv, Serving, Ownership
  <2>2. Alive = {} /\ Alive' = Alive
    BY <2>1, NoChildNoProcess DEF StopAwaits, Alive
  <2>3. status' = UpdateStatus("Fatal", None)
    BY <1>2 DEF SpawnFailed
  <2>4. status'.state = "Fatal"
    BY <2>3 DEF UpdateStatus
  <2>5. status.state # "Stopping"
    BY DEF IInv, Published
  <2>6. QED
    BY <2>2, <2>4, <2>5 DEF Lifecycle!SpawnFailed
<1>3. QED
  BY <1>1, <1>2

\* stop_current_child publishes STOPPING when the actor owns a child, which was
\* then STARTING or RUNNING, and STOPPED when it owns none.
LEMMA StopMaps ==
    ASSUME IInv, NEW cmd, StopCurrentChild(cmd), pc = "select"
    PROVE  Lifecycle!BeginStop \/ Lifecycle!EndStop
<1>1. Alive' = Alive
  BY DEF StopCurrentChild, Alive
<1>2. CASE current_child # None
  <2>1. status.state \in {"Starting", "Running"}
    BY <1>2 DEF IInv, Published
  <2>2. status'.state = "Stopping"
    BY <1>2 DEF StopCurrentChild, UpdateStatus
  <2>3. QED
    BY <1>1, <2>1, <2>2 DEF Lifecycle!BeginStop
<1>3. CASE current_child = None
  <2>1. Alive = {}
    BY <1>3, NoChildNoProcess DEF StopAwaits
  <2>2. status'.state = "Stopped"
    BY <1>3 DEF StopCurrentChild, UpdateStatus
  <2>3. QED
    BY <1>1, <2>1, <2>2 DEF Lifecycle!EndStop
<1>4. QED
  BY <1>2, <1>3

\* Every step is a step of the lifecycle or a stutter of it.
LEMMA StepMaps ==
    ASSUME IInv, [Next]_vars
    PROVE  Lifecycle!Next \/ UNCHANGED Mapped
<1> USE DEF vars, controlVars, childVars, flagVars, timerVars, sharedVars,
            handleVars, probeVars
<1>1. CASE Handle \/ Probe \/ Terminated \/ UNCHANGED vars
  BY <1>1, ActorUntouched, Stutter DEF actorFrame, IInv
<1>2. CASE SpawnChild
  BY <1>2, SpawnFailedMaps, Stutter DEF SpawnChild, Lifecycle!Next
<1>3. CASE PreStartDone
  <2>1. CASE UNCHANGED status
    BY <1>3, <2>1, Stutter DEF PreStartDone
  <2>2. CASE status' # status
    <3>1. status' = UpdateStatus("Fatal", None)
      BY <1>3, <2>2 DEF PreStartDone, SpawnFailed
    <3>2. status'.state = "Fatal"
      BY <3>1 DEF UpdateStatus
    <3>3. Alive = {} /\ Alive' = Alive
      BY <1>3, NoChildNoProcess DEF PreStartDone, IInv, Ownership, StopAwaits, Alive
    <3>4. status.state # "Stopping"
      BY <1>3 DEF PreStartDone, IInv, Published
    <3>5. QED
      BY <3>2, <3>3, <3>4 DEF Lifecycle!SpawnFailed, Lifecycle!Next
  <2>3. QED
    BY <2>1, <2>2
<1>4. CASE LaunchFails
  BY <1>4, SpawnFailedMaps DEF LaunchFails, Lifecycle!Next
<1>5. CASE Launch
  <2> DEFINE g == spawn_seq + 1
  <2>1. g \in Spawns
    BY <1>5, BoundsAssumption DEF Launch, IInv, TypeOK, Spawns
  <2>2. Alive = {}
    BY <1>5, NoChildNoProcess DEF Launch, IInv, Ownership, StopAwaits
  <2>3. proc' = [proc EXCEPT ![g] = "alive"]
    BY <1>5 DEF Launch
  <2>4. Alive' = {g}
    BY <2>1, <2>2, <2>3 DEF Alive, IInv, TypeOK
  <2>5. status.state # "Stopping"
    BY <1>5 DEF Launch, IInv, Published
  <2>6. status'.state \in {"Starting", "Running"}
    BY <1>5 DEF Launch
  <2>7. Lifecycle!Spawn(g)
    BY <2>2, <2>4, <2>5, <2>6 DEF Lifecycle!Spawn
  <2>8. QED
    BY <2>1, <2>7 DEF Lifecycle!Next
<1>6. CASE StopDrained \/ RunEnds
  <2>1. status' = UpdateStatus("Stopped", None) /\ UNCHANGED proc
    BY <1>6 DEF StopDrained, RunEnds
  <2>2. status'.state = "Stopped"
    BY <2>1 DEF UpdateStatus
  <2>3. Alive = {}
    BY <1>6 DEF StopDrained, RunEnds, IInv, Ownership, StopAwaits, Alive, Spawns, None
  <2>4. Alive' = Alive
    BY <2>1 DEF Alive
  <2>5. QED
    BY <2>2, <2>3, <2>4 DEF Lifecycle!EndStop, Lifecycle!Next
<1>7. CASE HandleStart \/ HandleSignal
  BY <1>7, Stutter DEF HandleStart, HandleSignal, Refuse
<1>8. CASE HandleStop \/ HandleRestart \/ HandleShutdown
  <2>1. \/ StopCurrentChild(Head(command_rx)) /\ pc = "select"
        \/ UNCHANGED <<status, proc>>
    BY <1>8 DEF HandleStop, HandleRestart, HandleShutdown, Take, CommandReady, Refuse
  <2>2. QED
    BY <2>1, StopMaps, Stutter DEF Lifecycle!Next
<1>9. CASE Cancelled
  BY <1>9, StopMaps DEF Cancelled, CancelReady, Lifecycle!Next
<1>10. CASE UnhealthyRestart
  BY <1>10, StopMaps DEF UnhealthyRestart, HealthReady, Lifecycle!Next
<1>11. CASE HealthyEvent \/ UnhealthyEvent
  <2>1. status'.state = status.state
    BY <1>11 DEF HealthyEvent, UnhealthyEvent, IInv, TypeOK
  <2>2. Alive' = Alive
    BY <1>11 DEF HealthyEvent, UnhealthyEvent, Alive
  <2>3. QED
    BY <2>1, <2>2 DEF Mapped
<1>12. CASE StartDeadline
  <2>1. Alive' = Alive
    BY <1>12 DEF StartDeadline, Alive
  <2>2. CASE current_child \in Alive
    <3>1. status.state \in {"Starting", "Running"}
      BY <1>12, <2>2 DEF StartDeadline, TimersPolled, IInv, Published, Alive, Spawns, None
    <3>2. status'.state = "Running"
      BY <1>12, <2>2 DEF StartDeadline, UpdateStatus
    <3>3. QED
      BY <2>1, <2>2, <3>1, <3>2 DEF Lifecycle!Confirm, Lifecycle!Next, Mapped
  <2>3. CASE current_child \notin Alive
    BY <1>12, <2>3, Stutter DEF StartDeadline
  <2>4. QED
    BY <2>2, <2>3
<1>13. CASE ExitDrained
  <2>1. Alive = {} /\ Alive' = Alive
    BY <1>13 DEF ExitDrained, IInv, Ownership, StopAwaits, Alive, Spawns, None
  <2>2. CASE is_shutting_down \/ manual_stop
    <3>1. status'.state = "Stopped"
      BY <1>13, <2>2 DEF ExitDrained, UpdateStatus
    <3>2. QED
      BY <2>1, <3>1 DEF Lifecycle!EndStop, Lifecycle!Next
  <2>3. CASE ~(is_shutting_down \/ manual_stop) /\ ~marked_running
    <3>1. status.state = "Starting"
      BY <1>13, <2>3 DEF ExitDrained, IInv, Published
    <3>2. status'.state \in {"Backoff", "Fatal"}
      BY <1>13, <2>3 DEF ExitDrained, UpdateStatus
    <3>3. QED
      BY <2>1, <3>1, <3>2 DEF Lifecycle!StartCrash, Lifecycle!Next
  <2>4. CASE ~(is_shutting_down \/ manual_stop) /\ marked_running
    <3>1. status.state = "Running"
      BY <1>13, <2>4 DEF ExitDrained, IInv, Published
    <3>2. status'.state \in {"Exited", "Starting"}
      BY <1>13, <2>4 DEF ExitDrained, UpdateStatus
    <3>3. QED
      BY <2>1, <3>1, <3>2 DEF Lifecycle!RunEnded, Lifecycle!Next
  <2>5. QED
    BY <2>2, <2>3, <2>4
<1>14. CASE OS
  <2>1. PICK g \in Alive, how \in {"expected", "unexpected"} :
            proc' = [proc EXCEPT ![g] = how]
    BY <1>14 DEF OS, ProcessExits, ProcessKilled, Alive
  <2>2. Alive = {g}
    BY <2>1 DEF IInv, Ownership, Alive, Spawns, None
  <2>3. Alive' = {}
    BY <2>1, <2>2 DEF Alive, IInv, TypeOK
  <2>4. status' = status
    BY <1>14 DEF OS, ProcessExits, ProcessKilled
  <2>5. QED
    BY <2>2, <2>3, <2>4 DEF Lifecycle!Die, Lifecycle!Next
<1>15. CASE \/ SpawnDrained \/ PreStopDone \/ GraceExit \/ GraceTimeout
            \/ KillReaped \/ StopReturned \/ StopThenSpawn
            \/ BackoffExpires \/ ChildExit
  BY <1>15, Stutter DEF SpawnDrained, PreStopDone, GraceExit, GraceTimeout,
         KillReaped, StopReturned, StopThenSpawn, BackoffExpires, ChildExit
<1>16. QED
  BY <1>1, <1>2, <1>3, <1>4, <1>5, <1>6, <1>7, <1>8, <1>9, <1>10, <1>11,
     <1>12, <1>13, <1>14, <1>15
     DEF Next, Actor, SpawnStep, StopStep, SelectStep, HealthEvent

\* The actor implements the lifecycle: what any observer of status() sees,
\* together with the processes that exist, is a behaviour of ProgramLifecycle.
THEOREM Refinement == Spec => ImplementsLifecycle
<1>1. Init => Lifecycle!Init
  BY DEF Init, Lifecycle!Init, Alive
<1>2. IInv /\ [Next]_vars => [Lifecycle!Next]_(Lifecycle!vars)
  BY StepMaps DEF Mapped, Lifecycle!vars
<1>3. QED
  BY <1>1, <1>2, Invariance, PTL DEF Spec, Lifecycle!Spec, ImplementsLifecycle

-----------------------------------------------------------------------------
(* The contract.  A record of the contract by its fields, and what an      *)
(* update of it is.                                                        *)

Rec(s, i, d, h, c, e, o) ==
    [state |-> s, inbox |-> i, doing |-> d, half |-> h, cancel |-> c, ended |-> e,
     outcome |-> o]

\* Its fields, and the updates of one field and of several.  (Named, because
\* the provers find their instances by name.)
Fields(s, i, d, h, c, e, o) ==
    LET r == Rec(s, i, d, h, c, e, o) IN
    /\ r.state = s /\ r.inbox = i /\ r.doing = d /\ r.half = h
    /\ r.cancel = c /\ r.ended = e /\ r.outcome = o

Update(s, i, d, h, c, e, o, v) ==
    LET r == Rec(s, i, d, h, c, e, o) IN
    /\ [r EXCEPT !.state = v] = Rec(v, i, d, h, c, e, o)
    /\ [r EXCEPT !.inbox = v] = Rec(s, v, d, h, c, e, o)
    /\ [r EXCEPT !.doing = v] = Rec(s, i, v, h, c, e, o)
    /\ [r EXCEPT !.half = v] = Rec(s, i, d, v, c, e, o)
    /\ [r EXCEPT !.cancel = v] = Rec(s, i, d, h, v, e, o)
    /\ [r EXCEPT !.ended = v] = Rec(s, i, d, h, c, v, o)
    /\ [r EXCEPT !.outcome = v] = Rec(s, i, d, h, c, e, v)

Updates(s, i, d, h, c, e, o, v, w, x) ==
    LET r == Rec(s, i, d, h, c, e, o) IN
    /\ [r EXCEPT !.state = v, !.half = w] = Rec(v, i, d, w, c, e, o)
    /\ [r EXCEPT !.doing = v, !.half = w] = Rec(s, i, v, w, c, e, o)
    /\ [r EXCEPT !.doing = v, !.state = w] = Rec(w, i, v, h, c, e, o)
    /\ [r EXCEPT !.inbox = v, !.outcome = w] = Rec(s, v, d, h, c, e, w)
    /\ [r EXCEPT !.doing = v, !.state = w, !.half = x] = Rec(w, i, v, x, c, e, o)

\* The fields of a record.
LEMMA RecFields ==
    ASSUME NEW s, NEW i, NEW d, NEW h, NEW c, NEW e, NEW o
    PROVE  Fields(s, i, d, h, c, e, o)
  BY DEF Rec, Fields

\* The updates of one field.
LEMMA RecUpdate ==
    ASSUME NEW s, NEW i, NEW d, NEW h, NEW c, NEW e, NEW o, NEW v
    PROVE  Update(s, i, d, h, c, e, o, v)
  BY DEF Rec, Update

\* The updates of several fields, one after the other.
LEMMA RecUpdates ==
    ASSUME NEW s, NEW i, NEW d, NEW h, NEW c, NEW e, NEW o, NEW v, NEW w, NEW x
    PROVE  Updates(s, i, d, h, c, e, o, v, w, x)
<1> DEFINE r == Rec(s, i, d, h, c, e, o)
<1>1. [r EXCEPT !.state = v, !.half = w] = Rec(v, i, d, w, c, e, o)
  <2>1. [r EXCEPT !.state = v, !.half = w]
            = [[r EXCEPT !.state = v] EXCEPT !.half = w]
    OBVIOUS
  <2>2. /\ Update(s, i, d, h, c, e, o, v)
        /\ Update(v, i, d, h, c, e, o, w)
    BY RecUpdate
  <2>3. QED
    BY <2>1, <2>2, Zenon DEF Update
<1>2. [r EXCEPT !.doing = v, !.half = w] = Rec(s, i, v, w, c, e, o)
  <2>1. [r EXCEPT !.doing = v, !.half = w]
            = [[r EXCEPT !.doing = v] EXCEPT !.half = w]
    OBVIOUS
  <2>2. /\ Update(s, i, d, h, c, e, o, v)
        /\ Update(s, i, v, h, c, e, o, w)
    BY RecUpdate
  <2>3. QED
    BY <2>1, <2>2, Zenon DEF Update
<1>3. [r EXCEPT !.doing = v, !.state = w] = Rec(w, i, v, h, c, e, o)
  <2>1. [r EXCEPT !.doing = v, !.state = w]
            = [[r EXCEPT !.doing = v] EXCEPT !.state = w]
    OBVIOUS
  <2>2. /\ Update(s, i, d, h, c, e, o, v)
        /\ Update(s, i, v, h, c, e, o, w)
    BY RecUpdate
  <2>3. QED
    BY <2>1, <2>2, Zenon DEF Update
<1>4. [r EXCEPT !.inbox = v, !.outcome = w] = Rec(s, v, d, h, c, e, w)
  <2>1. [r EXCEPT !.inbox = v, !.outcome = w]
            = [[r EXCEPT !.inbox = v] EXCEPT !.outcome = w]
    OBVIOUS
  <2>2. /\ Update(s, i, d, h, c, e, o, v)
        /\ Update(s, v, d, h, c, e, o, w)
    BY RecUpdate
  <2>3. QED
    BY <2>1, <2>2, Zenon DEF Update
<1>5. [r EXCEPT !.doing = v, !.state = w, !.half = x] = Rec(w, i, v, x, c, e, o)
  <2>1. [r EXCEPT !.doing = v, !.state = w, !.half = x]
            = [[[r EXCEPT !.doing = v] EXCEPT !.state = w] EXCEPT !.half = x]
    OBVIOUS
  <2>2. /\ Update(s, i, d, h, c, e, o, v)
        /\ Update(s, i, v, h, c, e, o, w)
        /\ Update(w, i, v, h, c, e, o, x)
    BY RecUpdate
  <2>3. QED
    BY <2>1, <2>2, Zenon DEF Update
<1>6. QED
  BY <1>1, <1>2, <1>3, <1>4, <1>5 DEF Updates

-----------------------------------------------------------------------------
(* The steps the contract allows, by the fields of the record.             *)

\* The outcome of the newest call after a reply.
Answer(i, o, res) == IF i = <<>> /\ o = "wait" THEN res ELSE o

\* A command is taken: Start goes on to the spawn, Signal is answered at once,
\* the others begin a stop.
LEMMA TakeAllowed ==
    ASSUME NEW s, NEW i, NEW h, NEW o, i # <<>>
    PROVE  LET r == Rec(s, i, "idle", h, FALSE, FALSE, o)
               t == Tail(i)
           IN  /\ Head(i) = "Start" =>
                      Rec(s, t, "Start", h, FALSE, FALSE, o) \in C!Steps(r)
               /\ Head(i) = "Signal" => \A res \in {"ok", "err"} :
                      Rec(s, t, "idle", h, FALSE, FALSE,
                          Answer(t, o, res)) \in C!Steps(r)
               /\ Head(i) \in {"Stop", "Restart", "Shutdown"} =>
                      /\ Rec("Stopped", t, Head(i), TRUE, FALSE, FALSE, o) \in C!Steps(r)
                      /\ s \in {"Starting", "Running"} =>
                             Rec("Stopping", t, Head(i), h, FALSE, FALSE, o) \in C!Steps(r)
<1> DEFINE r == Rec(s, i, "idle", h, FALSE, FALSE, o)
           t == Tail(i)
           q == Rec(s, t, "idle", h, FALSE, FALSE, o)
<1>1. /\ r.doing = "idle" /\ r.cancel = FALSE /\ r.ended = FALSE /\ r.inbox = i
      /\ q.inbox = t /\ q.outcome = o /\ q.state = s
  <2>1. /\ Fields(s, i, "idle", h, FALSE, FALSE, o)
        /\ Fields(s, t, "idle", h, FALSE, FALSE, o)
    BY RecFields
  <2>2. QED
    BY <2>1 DEF Fields
<1>2. [r EXCEPT !.inbox = Tail(@)] = q
  <2>1. Update(s, i, "idle", h, FALSE, FALSE, o, t)
    BY RecUpdate
  <2>2. QED
    BY <1>1, <2>1 DEF Update
<1>3. C!TakeSteps(r) \subseteq C!Steps(r)
  BY <1>1 DEF C!Steps, C!ServeSteps
<1>4. ASSUME Head(i) = "Start"
      PROVE  Rec(s, t, "Start", h, FALSE, FALSE, o) \in C!Steps(r)
  <2>1. C!TakeSteps(r) = {[q EXCEPT !.doing = "Start"]}
    BY <1>1, <1>2, <1>4 DEF C!TakeSteps
  <2>2. Update(s, t, "idle", h, FALSE, FALSE, o, "Start")
    BY RecUpdate
  <2>3. QED
    BY <1>3, <2>1, <2>2 DEF Update
<1>5. ASSUME Head(i) = "Signal", NEW res \in {"ok", "err"}
      PROVE  Rec(s, t, "idle", h, FALSE, FALSE, Answer(t, o, res)) \in C!Steps(r)
  <2>1. C!TakeSteps(r) = {C!Reply(q, "ok"), C!Reply(q, "err")}
    BY <1>1, <1>2, <1>5 DEF C!TakeSteps
  <2>2. Update(s, t, "idle", h, FALSE, FALSE, o, res)
    BY RecUpdate
  <2>3. C!Reply(q, res) = Rec(s, t, "idle", h, FALSE, FALSE, Answer(t, o, res))
    BY <1>1, <2>2 DEF C!Reply, Answer, Update
  <2>4. QED
    BY <1>3, <2>1, <2>3
<1>6. ASSUME Head(i) \in {"Stop", "Restart", "Shutdown"}
      PROVE  /\ Rec("Stopped", t, Head(i), TRUE, FALSE, FALSE, o) \in C!Steps(r)
             /\ s \in {"Starting", "Running"} =>
                    Rec("Stopping", t, Head(i), h, FALSE, FALSE, o) \in C!Steps(r)
  <2>1. C!TakeSteps(r) = C!BeginStop(q, Head(i))
    BY <1>1, <1>2, <1>6 DEF C!TakeSteps
  <2>2. /\ Updates(s, t, "idle", h, FALSE, FALSE, o, Head(i), "Stopped", TRUE)
        /\ Updates(s, t, "idle", h, FALSE, FALSE, o, Head(i), "Stopping", TRUE)
    BY RecUpdates
  <2>3. QED
    BY <1>1, <1>3, <2>1, <2>2 DEF C!BeginStop, Updates
<1>7. QED
  BY <1>4, <1>5, <1>6

\* The token is polled first.
LEMMA CancelAllowed ==
    ASSUME NEW s, NEW i, NEW h, NEW o
    PROVE  LET r == Rec(s, i, "idle", h, TRUE, FALSE, o) IN
           /\ Rec("Stopped", i, "Cancel", TRUE, TRUE, FALSE, o) \in C!Steps(r)
           /\ s \in {"Starting", "Running"} =>
                  Rec("Stopping", i, "Cancel", h, TRUE, FALSE, o) \in C!Steps(r)
<1> DEFINE r == Rec(s, i, "idle", h, TRUE, FALSE, o)
<1>1. r.doing = "idle" /\ r.cancel = TRUE /\ r.ended = FALSE /\ r.state = s
  <2>1. Fields(s, i, "idle", h, TRUE, FALSE, o)
    BY RecFields
  <2>2. QED
    BY <2>1 DEF Fields
<1>2. C!BeginStop(r, "Cancel") \subseteq C!Steps(r)
  BY <1>1 DEF C!Steps, C!ServeSteps, C!CancelSteps
<1>3. /\ Updates(s, i, "idle", h, TRUE, FALSE, o, "Cancel", "Stopped", TRUE)
      /\ Updates(s, i, "idle", h, TRUE, FALSE, o, "Cancel", "Stopping", TRUE)
  BY RecUpdates
<1>4. QED
  BY <1>1, <1>2, <1>3 DEF C!BeginStop, Updates

\* The child is gone.
LEMMA StopAllowed ==
    ASSUME NEW i, NEW d, NEW h, NEW c, NEW o
    PROVE  Rec("Stopped", i, d, TRUE, c, FALSE, o)
               \in C!Steps(Rec("Stopping", i, d, h, c, FALSE, o))
<1> DEFINE r == Rec("Stopping", i, d, h, c, FALSE, o)
<1>1. r.state = "Stopping" /\ r.ended = FALSE
  <2>1. Fields("Stopping", i, d, h, c, FALSE, o)
    BY RecFields
  <2>2. QED
    BY <2>1 DEF Fields
<1>2. [r EXCEPT !.state = "Stopped", !.half = TRUE] \in C!Steps(r)
  BY <1>1 DEF C!Steps, C!ServeSteps, C!StopSteps
<1>3. Updates("Stopping", i, d, h, c, FALSE, o, "Stopped", TRUE, TRUE)
  BY RecUpdates
<1>4. QED
  BY <1>2, <1>3 DEF Updates

\* A command is finished with a reply to whoever still waits for it.
Finished(s, i, d, h, c, e, o, res) ==
    C!Finish(Rec(s, i, d, h, c, e, o), res)
        = Rec(s, i, "idle", FALSE, c, e, Answer(i, o, res))

\* See Finished.
LEMMA FinishIs ==
    ASSUME NEW s, NEW i, NEW d, NEW h, NEW c, NEW e, NEW o, NEW res
    PROVE  Finished(s, i, d, h, c, e, o, res)
<1> DEFINE q == Rec(s, i, "idle", FALSE, c, e, o)
<1>1. Updates(s, i, d, h, c, e, o, "idle", FALSE, FALSE)
  BY RecUpdates
<1>2. C!Finish(Rec(s, i, d, h, c, e, o), res) = C!Reply(q, res)
  BY <1>1 DEF C!Finish, Updates
<1>3. Fields(s, i, "idle", FALSE, c, e, o) /\ Update(s, i, "idle", FALSE, c, e, o, res)
  BY RecFields, RecUpdate
<1>4. q.inbox = i /\ q.outcome = o
      /\ [q EXCEPT !.outcome = res] = Rec(s, i, "idle", FALSE, c, e, res)
  BY <1>3 DEF Fields, Update
<1>5. C!Reply(q, res) = Rec(s, i, "idle", FALSE, c, e, Answer(i, o, res))
  BY <1>4 DEF C!Reply, Answer
<1>6. QED
  BY <1>2, <1>5 DEF Finished

\* The spawn of a Start or of a Restart succeeds or fails.
LEMMA SpawnAllowed ==
    ASSUME NEW s, NEW i, NEW d, NEW h, NEW c, NEW o,
           d = "Start" \/ (d = "Restart" /\ h)
    PROVE  LET r == Rec(s, i, d, h, c, FALSE, o) IN
           /\ \A z \in {"Starting", "Running"} :
                  Rec(z, i, "idle", FALSE, c, FALSE, Answer(i, o, "ok")) \in C!Steps(r)
           /\ \A z \in {s, "Fatal"} :
                  Rec(z, i, "idle", FALSE, c, FALSE, Answer(i, o, "err")) \in C!Steps(r)
<1> DEFINE r == Rec(s, i, d, h, c, FALSE, o)
<1>1. r.doing = d /\ r.half = h /\ r.ended = FALSE
  <2>1. Fields(s, i, d, h, c, FALSE, o)
    BY RecFields
  <2>2. QED
    BY <2>1 DEF Fields
<1>2. /\ {C!Finish(z, "ok") : z \in C!Spawned(r)} \subseteq C!Steps(r)
      /\ {C!Finish(z, "err") : z \in {r, [r EXCEPT !.state = "Fatal"]}} \subseteq C!Steps(r)
  BY <1>1 DEF C!Steps, C!ServeSteps, C!SecondHalfSteps
<1>3. ASSUME NEW z
      PROVE  [r EXCEPT !.state = z] = Rec(z, i, d, h, c, FALSE, o)
  <2>1. Update(s, i, d, h, c, FALSE, o, z)
    BY RecUpdate
  <2>2. QED
    BY <2>1 DEF Update
<1>4. ASSUME NEW z \in {"Starting", "Running"}
      PROVE  Rec(z, i, "idle", FALSE, c, FALSE, Answer(i, o, "ok")) \in C!Steps(r)
  <2>1. [r EXCEPT !.state = z] \in C!Spawned(r)
    BY DEF C!Spawned
  <2>2. C!Finish(Rec(z, i, d, h, c, FALSE, o), "ok") \in C!Steps(r)
    BY <1>2, <1>3, <2>1
  <2>3. Finished(z, i, d, h, c, FALSE, o, "ok")
    BY FinishIs
  <2>4. QED
    BY <2>2, <2>3 DEF Finished
<1>5. ASSUME NEW z \in {s, "Fatal"}
      PROVE  Rec(z, i, "idle", FALSE, c, FALSE, Answer(i, o, "err")) \in C!Steps(r)
  <2>1. C!Finish(Rec(z, i, d, h, c, FALSE, o), "err") \in C!Steps(r)
    BY <1>2, <1>3
  <2>2. Finished(z, i, d, h, c, FALSE, o, "err")
    BY FinishIs
  <2>3. QED
    BY <2>1, <2>2 DEF Finished
<1>6. QED
  BY <1>4, <1>5

\* The restart of an unhealthy child succeeds or fails; nobody waits for it.
LEMMA RespawnAllowed ==
    ASSUME NEW s, NEW i, NEW c, NEW o, NEW z \in {"Starting", "Running", "Fatal"}
    PROVE  Rec(z, i, "idle", FALSE, c, FALSE, o)
               \in C!Steps(Rec(s, i, "Health", TRUE, c, FALSE, o))
<1> DEFINE r == Rec(s, i, "Health", TRUE, c, FALSE, o)
<1>1. r.doing = "Health" /\ r.half = TRUE /\ r.ended = FALSE
  <2>1. Fields(s, i, "Health", TRUE, c, FALSE, o)
    BY RecFields
  <2>2. QED
    BY <2>1 DEF Fields
<1>2. {[t EXCEPT !.doing = "idle", !.half = FALSE] :
          t \in C!Spawned(r) \cup {[r EXCEPT !.state = "Fatal"]}} \subseteq C!Steps(r)
  BY <1>1 DEF C!Steps, C!ServeSteps, C!SecondHalfSteps
<1>3. [r EXCEPT !.state = z] \in C!Spawned(r) \cup {[r EXCEPT !.state = "Fatal"]}
  BY DEF C!Spawned
<1>4. [r EXCEPT !.state = z] = Rec(z, i, "Health", TRUE, c, FALSE, o)
  <2>1. Update(s, i, "Health", TRUE, c, FALSE, o, z)
    BY RecUpdate
  <2>2. QED
    BY <2>1 DEF Update
<1>5. [Rec(z, i, "Health", TRUE, c, FALSE, o) EXCEPT !.doing = "idle", !.half = FALSE]
          = Rec(z, i, "idle", FALSE, c, FALSE, o)
  <2>1. Updates(z, i, "Health", TRUE, c, FALSE, o, "idle", FALSE, FALSE)
    BY RecUpdates
  <2>2. QED
    BY <2>1 DEF Updates
<1>6. [Rec(z, i, "Health", TRUE, c, FALSE, o) EXCEPT !.doing = "idle", !.half = FALSE]
          \in C!Steps(r)
  <2>1. Rec(z, i, "Health", TRUE, c, FALSE, o)
            \in C!Spawned(r) \cup {[r EXCEPT !.state = "Fatal"]}
    BY <1>3, <1>4
  <2>2. [Rec(z, i, "Health", TRUE, c, FALSE, o) EXCEPT !.doing = "idle", !.half = FALSE]
            \in {[t EXCEPT !.doing = "idle", !.half = FALSE] :
                    t \in C!Spawned(r) \cup {[r EXCEPT !.state = "Fatal"]}}
    BY <2>1
  <2>3. QED
    BY <1>2, <2>2
<1>7. QED
  BY <1>5, <1>6

\* Stop and Shutdown are answered after the stop; a cancelled program ends.
LEMMA EndAllowed ==
    ASSUME NEW s, NEW i, NEW c, NEW o
    PROVE  /\ Rec(s, i, "idle", FALSE, c, FALSE, Answer(i, o, "ok"))
                  \in C!Steps(Rec(s, i, "Stop", TRUE, c, FALSE, o))
           /\ Rec(s, i, "idle", FALSE, TRUE, FALSE, Answer(i, o, "ok"))
                  \in C!Steps(Rec(s, i, "Shutdown", TRUE, c, FALSE, o))
           /\ Rec(s, <<>>, "idle", FALSE, c, TRUE, Answer(<<>>, o, "err"))
                  \in C!Steps(Rec(s, i, "Cancel", TRUE, c, FALSE, o))
<1>1. ASSUME NEW d \in {"Stop", "Shutdown", "Cancel"}
      PROVE  LET r == Rec(s, i, d, TRUE, c, FALSE, o)
             IN  r.doing = d /\ r.half = TRUE /\ r.ended = FALSE
  <2>1. Fields(s, i, d, TRUE, c, FALSE, o)
    BY RecFields
  <2>2. QED
    BY <2>1 DEF Fields
<1>2. Rec(s, i, "idle", FALSE, c, FALSE, Answer(i, o, "ok"))
          \in C!Steps(Rec(s, i, "Stop", TRUE, c, FALSE, o))
  <2> DEFINE r == Rec(s, i, "Stop", TRUE, c, FALSE, o)
  <2>1. r.doing = "Stop" /\ r.half = TRUE /\ r.ended = FALSE
    BY <1>1
  <2>2. C!Finish(r, "ok") \in C!Steps(r)
    BY <2>1 DEF C!Steps, C!ServeSteps, C!SecondHalfSteps
  <2>3. Finished(s, i, "Stop", TRUE, c, FALSE, o, "ok")
    BY FinishIs
  <2>4. QED
    BY <2>2, <2>3 DEF Finished
<1>3. Rec(s, i, "idle", FALSE, TRUE, FALSE, Answer(i, o, "ok"))
          \in C!Steps(Rec(s, i, "Shutdown", TRUE, c, FALSE, o))
  <2> DEFINE r == Rec(s, i, "Shutdown", TRUE, c, FALSE, o)
             q == Rec(s, i, "idle", FALSE, c, FALSE, Answer(i, o, "ok"))
  <2>1. r.doing = "Shutdown" /\ r.half = TRUE /\ r.ended = FALSE
    BY <1>1
  <2>2. [C!Finish(r, "ok") EXCEPT !.cancel = TRUE] \in C!Steps(r)
    BY <2>1 DEF C!Steps, C!ServeSteps, C!SecondHalfSteps
  <2>3. Finished(s, i, "Shutdown", TRUE, c, FALSE, o, "ok")
    BY FinishIs
  <2>4. Update(s, i, "idle", FALSE, c, FALSE, Answer(i, o, "ok"), TRUE)
    BY RecUpdate
  <2>5. [q EXCEPT !.cancel = TRUE]
            = Rec(s, i, "idle", FALSE, TRUE, FALSE, Answer(i, o, "ok"))
    BY <2>4 DEF Update
  <2>6. QED
    BY <2>2, <2>3, <2>5 DEF Finished
<1>4. Rec(s, <<>>, "idle", FALSE, c, TRUE, Answer(<<>>, o, "err"))
          \in C!Steps(Rec(s, i, "Cancel", TRUE, c, FALSE, o))
  <2> DEFINE r == Rec(s, i, "Cancel", TRUE, c, FALSE, o)
             p == Rec(s, <<>>, "Cancel", TRUE, c, FALSE, o)
             q == Rec(s, <<>>, "idle", FALSE, c, FALSE, Answer(<<>>, o, "err"))
  <2>1. r.doing = "Cancel" /\ r.half = TRUE /\ r.ended = FALSE
    BY <1>1
  <2>2. [C!Finish([r EXCEPT !.inbox = <<>>], "err") EXCEPT !.ended = TRUE] \in C!Steps(r)
    BY <2>1 DEF C!Steps, C!ServeSteps, C!SecondHalfSteps
  <2>3. /\ Update(s, i, "Cancel", TRUE, c, FALSE, o, <<>>)
        /\ Update(s, <<>>, "idle", FALSE, c, FALSE, Answer(<<>>, o, "err"), TRUE)
    BY RecUpdate
  <2>4. /\ [r EXCEPT !.inbox = <<>>] = p
        /\ [q EXCEPT !.ended = TRUE]
               = Rec(s, <<>>, "idle", FALSE, c, TRUE, Answer(<<>>, o, "err"))
    BY <2>3 DEF Update
  <2>5. Finished(s, <<>>, "Cancel", TRUE, c, FALSE, o, "err")
    BY FinishIs
  <2>6. QED
    BY <2>2, <2>4, <2>5 DEF Finished
<1>5. QED
  BY <1>2, <1>3, <1>4

\* What the published state may become while no command is served.
LEMMA OwnAllowed ==
    ASSUME NEW s, NEW i, NEW h, NEW c, NEW o, NEW z,
           \/ s = "Starting" /\ z \in {"Running", "Backoff", "Fatal"}
           \/ s = "Running" /\ z \in {"Exited", "Starting"}
           \/ s = "Backoff" /\ z \in {"Starting", "Running", "Fatal"}
    PROVE  Rec(z, i, "idle", h, c, FALSE, o)
               \in C!Steps(Rec(s, i, "idle", h, c, FALSE, o))
<1> DEFINE r == Rec(s, i, "idle", h, c, FALSE, o)
<1>1. r.doing = "idle" /\ r.state = s /\ r.ended = FALSE
  <2>1. Fields(s, i, "idle", h, c, FALSE, o)
    BY RecFields
  <2>2. QED
    BY <2>1 DEF Fields
<1>2. [r EXCEPT !.state = z] \in C!Steps(r)
  BY <1>1 DEF C!Steps, C!OwnSteps
<1>3. Update(s, i, "idle", h, c, FALSE, o, z)
  BY RecUpdate
<1>4. QED
  BY <1>2, <1>3 DEF Update

\* The probe's verdict is acted on when no command and no cancellation is due.
LEMMA HealthAllowed ==
    ASSUME NEW s \in {"Starting", "Running"}, NEW h, NEW o
    PROVE  Rec("Stopping", <<>>, "Health", h, FALSE, FALSE, o)
               \in C!Steps(Rec(s, <<>>, "idle", h, FALSE, FALSE, o))
<1> DEFINE r == Rec(s, <<>>, "idle", h, FALSE, FALSE, o)
<1>1. /\ r.doing = "idle" /\ r.cancel = FALSE /\ r.inbox = <<>> /\ r.ended = FALSE
      /\ r.state = s
  <2>1. Fields(s, <<>>, "idle", h, FALSE, FALSE, o)
    BY RecFields
  <2>2. QED
    BY <2>1 DEF Fields
<1>2. [r EXCEPT !.doing = "Health", !.state = "Stopping"] \in C!Steps(r)
  BY <1>1 DEF C!Steps, C!HealthSteps
<1>3. Updates(s, <<>>, "idle", h, FALSE, FALSE, o, "Health", "Stopping", FALSE)
  BY RecUpdates
<1>4. QED
  BY <1>2, <1>3 DEF Updates

\* The caller's steps.
CallerSteps(s, i, d, h, c, e, o, op) ==
    LET r == Rec(s, i, d, h, c, e, o) IN
    /\ ~e => C!Send(r, op) = Rec(s, Append(i, op), d, h, c, e, "wait")
    /\ C!Hangup(r) = Rec(s, i, d, h, c, e, "none")
    /\ C!CancelIt(r) = Rec(s, i, d, h, TRUE, e, "none")

\* See CallerSteps.
LEMMA CallerAllowed ==
    ASSUME NEW s, NEW i, NEW d, NEW h, NEW c, NEW e, NEW o, NEW op
    PROVE  CallerSteps(s, i, d, h, c, e, o, op)
<1> DEFINE r == Rec(s, i, d, h, c, e, o)
<1>1. ~e => C!Send(r, op) = Rec(s, Append(i, op), d, h, c, e, "wait")
  <2>1. /\ Fields(s, i, d, h, c, e, o)
        /\ Updates(s, i, d, h, c, e, o, Append(i, op), "wait", FALSE)
    BY RecFields, RecUpdates
  <2>2. QED
    BY <2>1 DEF C!Send, Fields, Updates
<1>2. C!Hangup(r) = Rec(s, i, d, h, c, e, "none")
  <2>1. Update(s, i, d, h, c, e, o, "none")
    BY RecUpdate
  <2>2. QED
    BY <2>1 DEF C!Hangup, Update
<1>3. C!CancelIt(r) = Rec(s, i, d, h, TRUE, e, "none")
  <2>1. Update(s, i, d, h, c, e, "none", TRUE)
    BY RecUpdate
  <2>2. [Rec(s, i, d, h, c, e, "none") EXCEPT !.cancel = TRUE]
            = Rec(s, i, d, h, TRUE, e, "none")
    BY <2>1 DEF Update
  <2>3. QED
    BY <1>2, <2>2 DEF C!CancelIt
<1>4. QED
  BY <1>1, <1>2, <1>3 DEF CallerSteps

-----------------------------------------------------------------------------
(* What the actor presents, and the channel as the contract sees it.       *)

Shows(s, i, d, h, c, e, o) ==
    /\ status.state = s /\ Inbox = i /\ Doing = d /\ Half = h
    /\ cancel_token = c /\ (pc = "done") = e /\ Outcome = o

ShowsNext(s, i, d, h, c, e, o) ==
    /\ status'.state = s /\ Inbox' = i /\ Doing' = d /\ Half' = h
    /\ cancel_token' = c /\ (pc' = "done") = e /\ Outcome' = o

\* The record, given its fields.
LEMMA Presents ==
    ASSUME NEW s, NEW i, NEW d, NEW h, NEW c, NEW e, NEW o
    PROVE  /\ Shows(s, i, d, h, c, e, o) => Presented = Rec(s, i, d, h, c, e, o)
           /\ ShowsNext(s, i, d, h, c, e, o) => Presented' = Rec(s, i, d, h, c, e, o)
<1>1. Shows(s, i, d, h, c, e, o) => Presented = Rec(s, i, d, h, c, e, o)
  BY DEF Shows, Presented, Rec
<1>2. ShowsNext(s, i, d, h, c, e, o) => Presented' = Rec(s, i, d, h, c, e, o)
  BY DEF ShowsNext, Presented, Rec
<1>3. QED
  BY <1>1, <1>2

\* The operations of the channel, without who waits.
LEMMA InboxType ==
    ASSUME TypeOK
    PROVE  /\ Inbox \in Seq(C!Ops) /\ Len(Inbox) = Len(command_rx)
           /\ Inbox = <<>> <=> command_rx = <<>>
<1>1. /\ command_rx \in Seq(CommandType) /\ DOMAIN command_rx = 1 .. Len(command_rx)
      /\ Len(command_rx) \in Nat
  BY DEF TypeOK, CommandType
<1>2. \A i \in 1 .. Len(command_rx) : command_rx[i].op \in C!Ops
  <2>1. \A i \in 1 .. Len(command_rx) : command_rx[i] \in CommandType
    BY <1>1
  <2>2. \A m \in CommandType : m.op \in C!Ops
    BY DEF CommandType, ProgramCommand, C!Ops
  <2>3. QED
    BY <2>1, <2>2
<1>3. Inbox \in [1 .. Len(command_rx) -> C!Ops]
  BY <1>1, <1>2 DEF Inbox
<1>4. Inbox \in Seq(C!Ops) /\ Len(Inbox) = Len(command_rx)
  BY <1>1, <1>3
<1>5. QED
  BY <1>1, <1>4, EmptySeq

\* A command leaves at the head of the channel.
LEMMA InboxTake ==
    ASSUME TypeOK, NEW op, Take(op)
    PROVE  Inbox # <<>> /\ Head(Inbox) = op /\ Inbox' = Tail(Inbox)
<1> DEFINE n == Len(command_rx)
<1>1. /\ command_rx \in Seq(CommandType) /\ DOMAIN command_rx = 1 .. n /\ n \in Nat
      /\ command_rx # <<>> /\ command_rx' = Tail(command_rx) /\ Head(command_rx).op = op
  BY DEF TypeOK, CommandType, Take, CommandReady
<1>2. /\ Inbox \in Seq(C!Ops) /\ Len(Inbox) = n /\ Inbox # <<>>
  BY <1>1, InboxType
<1>3. n >= 1 /\ Head(command_rx) = command_rx[1] /\ Head(Inbox) = Inbox[1]
  BY <1>1, <1>2
<1>4. Head(Inbox) = op
  BY <1>1, <1>3 DEF Inbox
<1>5. /\ DOMAIN command_rx' = 1 .. n - 1
      /\ \A i \in 1 .. n - 1 : command_rx'[i] = command_rx[i + 1]
  BY <1>1
<1>6. Inbox' = [i \in 1 .. n - 1 |-> command_rx[i + 1].op]
  BY <1>5 DEF Inbox
<1>7. Tail(Inbox) = [i \in 1 .. n - 1 |-> Inbox[i + 1]]
  <2>1. /\ Len(Tail(Inbox)) = n - 1 /\ Tail(Inbox) \in Seq(C!Ops)
        /\ \A i \in 1 .. n - 1 : Tail(Inbox)[i] = Inbox[i + 1]
    BY <1>2, HeadTailProperties
  <2>2. Tail(Inbox) \in [1 .. n - 1 -> C!Ops]
    BY <2>1, LenProperties
  <2>3. QED
    BY <2>1, <2>2
<1>8. \A i \in 1 .. n - 1 : Inbox[i + 1] = command_rx[i + 1].op
  BY <1>1 DEF Inbox
<1>9. QED
  BY <1>2, <1>4, <1>6, <1>7, <1>8

\* A call adds its command at the end.
LEMMA InboxSend ==
    ASSUME TypeOK, NEW op \in ProgramCommand,
           command_rx' = Append(command_rx, [op |-> op, live |-> TRUE])
    PROVE  Inbox' = Append(Inbox, op)
<1> DEFINE n == Len(command_rx)
           m == [op |-> op, live |-> TRUE]
<1>1. /\ command_rx \in Seq(CommandType) /\ DOMAIN command_rx = 1 .. n /\ n \in Nat
      /\ m \in CommandType /\ m.op = op
  BY DEF TypeOK, CommandType
<1>2. /\ DOMAIN command_rx' = 1 .. n + 1
      /\ \A i \in 1 .. n : command_rx'[i] = command_rx[i]
      /\ command_rx'[n + 1] = m
  BY <1>1, AppendProperties
<1>3. Inbox \in Seq(C!Ops) /\ Len(Inbox) = n /\ op \in C!Ops
  BY InboxType DEF ProgramCommand, C!Ops
<1>4. /\ Append(Inbox, op) \in Seq(C!Ops) /\ DOMAIN Append(Inbox, op) = 1 .. n + 1
      /\ \A i \in 1 .. n : Append(Inbox, op)[i] = Inbox[i]
      /\ Append(Inbox, op)[n + 1] = op
  BY <1>1, <1>3, AppendProperties
<1>5. \A i \in 1 .. n + 1 : command_rx'[i].op = Append(Inbox, op)[i]
  <2>1. \A i \in 1 .. n : Inbox[i] = command_rx[i].op
    BY <1>1 DEF Inbox
  <2>2. \A i \in 1 .. n + 1 : i \in 1 .. n \/ i = n + 1
    BY <1>1
  <2>3. QED
    BY <1>1, <1>2, <1>4, <2>1, <2>2
<1>6. Inbox' = [i \in 1 .. n + 1 |-> Append(Inbox, op)[i]]
  BY <1>2, <1>5 DEF Inbox
<1>7. Append(Inbox, op) = [i \in 1 .. n + 1 |-> Append(Inbox, op)[i]]
  <2>1. Len(Append(Inbox, op)) = n + 1
    BY <1>3, AppendProperties
  <2>2. Append(Inbox, op) \in [1 .. n + 1 -> C!Ops]
    BY <1>4, <2>1, LenProperties
  <2>3. QED
    BY <2>2
<1>8. QED
  BY <1>6, <1>7

\* A caller that gives up leaves its command in the channel.
LEMMA InboxForget ==
    ASSUME IInv, Delivery, call.res = "waiting", ForgetReply
    PROVE  Inbox' = Inbox
<1>1. /\ DOMAIN command_rx' = DOMAIN command_rx
      /\ \A i \in DOMAIN command_rx : command_rx'[i].op = command_rx[i].op
  BY ForgetDelivers
<1>2. QED
  BY <1>1 DEF Inbox

\* Records that are what the actor shows make a step of the contract.
LEMMA Moves ==
    ASSUME NEW s, NEW i, NEW d, NEW h, NEW c, NEW e, NEW o, Shows(s, i, d, h, c, e, o),
           NEW s2, NEW i2, NEW d2, NEW h2, NEW c2, NEW e2, NEW o2,
           ShowsNext(s2, i2, d2, h2, c2, e2, o2),
           Rec(s2, i2, d2, h2, c2, e2, o2) \in C!Steps(Rec(s, i, d, h, c, e, o))
    PROVE  ContractStep
  BY Presents DEF ContractStep

\* An actor in its select loop serves nothing.
LEMMA AtSelect ==
    ASSUME CallInv, pc = "select"
    PROVE  /\ Doing = "idle" /\ Half = FALSE /\ (pc = "done") = FALSE
           /\ ~cur.live
           /\ ~cancel_token => ~is_shutting_down
  BY DEF CallInv, Engaged, Delivery, Leaving, Doing, Half, SpawnPoints, C!Ops, ProgramCommand

\* The outcome shown for the newest call, and what a reply makes of it.
LEMMA OutcomeIs ==
    ASSUME TypeOK
    PROVE  /\ Outcome = "wait" <=> call.res = "waiting"
           /\ call.res = "closed" => Outcome = "err"
           /\ call.res \in {"ok", "err"} => Outcome = call.res
           /\ call.res \notin {"waiting", "ok", "err", "closed"} => Outcome = "none"
  BY DEF Outcome

\* A reply to the command being served.
LEMMA ReplyShows ==
    ASSUME IInv, CallInv, NEW res \in {"ok", "err"}, Reply(cur, res)
    PROVE  Outcome' = Answer(Inbox, Outcome, res)
<1>1. cur.live <=> Inbox = <<>> /\ Outcome = "wait"
  BY InboxType, OutcomeIs DEF IInv, CallInv, Delivery
<1>2. CASE cur.live
  <2>1. call'.res = res
    BY <1>2 DEF Reply
  <2>2. Outcome' = res
    BY <2>1 DEF Outcome
  <2>3. QED
    BY <1>1, <1>2, <2>2 DEF Answer
<1>3. CASE ~cur.live
  <2>1. call' = call
    BY <1>3 DEF Reply
  <2>2. Outcome' = Outcome
    BY <2>1 DEF Outcome
  <2>3. QED
    BY <1>1, <1>3, <2>2 DEF Answer
<1>4. QED
  BY <1>2, <1>3

\* A reply to a command just taken.
LEMMA TakeShows ==
    ASSUME IInv, CallInv, NEW op, Take(op), NEW res \in {"ok", "err"},
           Reply(Head(command_rx), res)
    PROVE  Outcome' = Answer(Tail(Inbox), Outcome, res)
<1>1. /\ Inbox' = Tail(Inbox)
      /\ Inbox' = <<>> <=> command_rx' = <<>>
  <2>1. Inbox' = Tail(Inbox) /\ Inbox \in Seq(C!Ops) /\ Inbox # <<>>
        /\ Len(Inbox) = Len(command_rx)
    BY InboxTake, InboxType DEF IInv
  <2>2. Len(command_rx') = Len(command_rx) - 1 /\ command_rx' \in Seq(CommandType)
    BY TakeDelivers, TakeType DEF IInv, CallInv
  <2>3. Len(Tail(Inbox)) = Len(Inbox) - 1 /\ Tail(Inbox) \in Seq(C!Ops)
    BY <2>1, HeadTailProperties
  <2>4. QED
    BY <2>1, <2>2, <2>3, EmptySeq
<1>2. Head(command_rx).live <=> Tail(Inbox) = <<>> /\ Outcome = "wait"
  BY <1>1, TakeDelivers, OutcomeIs DEF IInv, CallInv
<1>3. CASE Head(command_rx).live
  <2>1. call'.res = res
    BY <1>3 DEF Reply
  <2>2. Outcome' = res
    BY <2>1 DEF Outcome
  <2>3. QED
    BY <1>2, <1>3, <2>2 DEF Answer
<1>4. CASE ~Head(command_rx).live
  <2>1. call' = call
    BY <1>4 DEF Reply
  <2>2. Outcome' = Outcome
    BY <2>1 DEF Outcome
  <2>3. QED
    BY <1>2, <1>4, <2>2 DEF Answer
<1>5. QED
  BY <1>3, <1>4

-----------------------------------------------------------------------------
(* The steps of the actor, one by one.                                     *)

\* A step that shows nothing new.
LEMMA SameShown ==
    ASSUME status'.state = status.state, UNCHANGED <<command_rx, call, cancel_token>>,
           Doing' = Doing, Half' = Half, pc = "done" <=> pc' = "done"
    PROVE  UNCHANGED Presented
<1>1. Inbox' = Inbox /\ Outcome' = Outcome
  BY DEF Inbox, Outcome
<1>2. QED
  BY <1>1 DEF Presented

\* The stop is complete.
LEMMA StopDrainedMaps ==
    ASSUME IInv, CallInv, StopDrained
    PROVE  ContractStep
<1>1. Shows("Stopping", Inbox, Doing, Half, cancel_token, FALSE, Outcome)
  BY DEF Shows, StopDrained, IInv, Published
<1>2. ShowsNext("Stopped", Inbox, Doing, TRUE, cancel_token, FALSE, Outcome)
  BY DEF ShowsNext, StopDrained, UpdateStatus, Inbox, Doing, Half, Outcome, handleVars
<1>3. Rec("Stopped", Inbox, Doing, TRUE, cancel_token, FALSE, Outcome)
          \in C!Steps(Rec("Stopping", Inbox, Doing, Half, cancel_token, FALSE, Outcome))
  BY StopAllowed
<1>4. QED
  BY <1>1, <1>2, <1>3, Moves

\* stop_current_child up to its first await.
LEMMA BeginShows ==
    ASSUME IInv, CallInv, pc = "select", NEW cmd, StopCurrentChild(cmd),
           cmd.op \in {"Stop", "Restart", "Shutdown", "Health", "Cancel"}
    PROVE  /\ current_child = None =>
                  ShowsNext("Stopped", Inbox', cmd.op, TRUE, cancel_token, FALSE, Outcome)
           /\ current_child # None =>
                  /\ status.state \in {"Starting", "Running"}
                  /\ ShowsNext("Stopping", Inbox', cmd.op, FALSE, cancel_token, FALSE,
                               Outcome)
<1>1. Doing' = cmd.op /\ cancel_token' = cancel_token /\ Outcome' = Outcome
  BY DEF StopCurrentChild, Doing, Outcome, C!Ops
<1>2. CASE current_child = None
  <2>1. status'.state = "Stopped" /\ pc' = "stopped"
    BY <1>2 DEF StopCurrentChild, UpdateStatus
  <2>2. Half' = TRUE /\ (pc' = "done") = FALSE
    BY <2>1 DEF Half
  <2>3. QED
    BY <1>1, <1>2, <2>1, <2>2 DEF ShowsNext
<1>3. CASE current_child # None
  <2>1. status'.state = "Stopping" /\ pc' \in {"pre_stop", "grace"}
    BY <1>3 DEF StopCurrentChild, UpdateStatus
  <2>2. Half' = FALSE /\ (pc' = "done") = FALSE
    BY <2>1 DEF Half, SpawnPoints
  <2>3. status.state \in {"Starting", "Running"}
    BY <1>3 DEF IInv, Published
  <2>4. QED
    BY <1>1, <1>3, <2>1, <2>2, <2>3 DEF ShowsNext
<1>4. QED
  BY <1>2, <1>3

\* The commands that stop the child, the cancellation, the unhealthy child.
LEMMA BeginMaps ==
    ASSUME IInv, CallInv, HandleStop \/ HandleRestart \/ HandleShutdown
    PROVE  ContractStep
<1>1. pc = "select" /\ ~cancel_token /\ ~is_shutting_down
  BY AtSelect DEF HandleStop, HandleRestart, HandleShutdown, Take, CommandReady
<1>2. PICK op \in {"Stop", "Restart", "Shutdown"} :
          Take(op) /\ StopCurrentChild(Head(command_rx))
  BY <1>1 DEF HandleStop, HandleRestart, HandleShutdown
<1>3. Inbox # <<>> /\ Head(Inbox) = op /\ Inbox' = Tail(Inbox) /\ Head(command_rx).op = op
  BY <1>2, InboxTake DEF IInv, Take
<1>4. Shows(status.state, Inbox, "idle", FALSE, FALSE, FALSE, Outcome)
  BY <1>1, AtSelect DEF Shows, IInv, TypeOK
<1>5. cancel_token = FALSE
  BY <1>1 DEF IInv, TypeOK
<1>6. CASE current_child = None
  <2>1. ShowsNext("Stopped", Tail(Inbox), op, TRUE, FALSE, FALSE, Outcome)
    BY <1>1, <1>2, <1>3, <1>5, <1>6, BeginShows
  <2>2. Rec("Stopped", Tail(Inbox), op, TRUE, FALSE, FALSE, Outcome)
            \in C!Steps(Rec(status.state, Inbox, "idle", FALSE, FALSE, FALSE, Outcome))
    BY <1>3, TakeAllowed
  <2>3. QED
    BY <1>4, <2>1, <2>2, Moves
<1>7. CASE current_child # None
  <2>1. /\ ShowsNext("Stopping", Tail(Inbox), op, FALSE, FALSE, FALSE, Outcome)
        /\ status.state \in {"Starting", "Running"}
    BY <1>1, <1>2, <1>3, <1>5, <1>7, BeginShows
  <2>2. Rec("Stopping", Tail(Inbox), op, FALSE, FALSE, FALSE, Outcome)
            \in C!Steps(Rec(status.state, Inbox, "idle", FALSE, FALSE, FALSE, Outcome))
    BY <1>3, <2>1, TakeAllowed
  <2>3. QED
    BY <1>4, <2>1, <2>2, Moves
<1>8. QED
  BY <1>6, <1>7

\* The token is seen.
LEMMA CancelledMaps ==
    ASSUME IInv, CallInv, Cancelled
    PROVE  ContractStep
<1> DEFINE cmd == [op |-> "Cancel", live |-> FALSE]
<1>1. /\ pc = "select" /\ cancel_token = TRUE /\ UNCHANGED command_rx
      /\ StopCurrentChild(cmd) /\ cmd.op = "Cancel"
  BY DEF Cancelled, CancelReady, IInv, TypeOK
<1>2. Inbox' = Inbox
  BY <1>1 DEF Inbox
<1>3. Shows(status.state, Inbox, "idle", FALSE, TRUE, FALSE, Outcome)
  BY <1>1, AtSelect DEF Shows
<1> HIDE DEF cmd
<1>4. CASE current_child = None
  <2>1. ShowsNext("Stopped", Inbox, "Cancel", TRUE, TRUE, FALSE, Outcome)
    BY <1>1, <1>2, <1>4, BeginShows
  <2>2. Rec("Stopped", Inbox, "Cancel", TRUE, TRUE, FALSE, Outcome)
            \in C!Steps(Rec(status.state, Inbox, "idle", FALSE, TRUE, FALSE, Outcome))
    BY CancelAllowed
  <2>3. QED
    BY <1>3, <2>1, <2>2, Moves
<1>5. CASE current_child # None
  <2>1. /\ ShowsNext("Stopping", Inbox, "Cancel", FALSE, TRUE, FALSE, Outcome)
        /\ status.state \in {"Starting", "Running"}
    BY <1>1, <1>2, <1>5, BeginShows
  <2>2. Rec("Stopping", Inbox, "Cancel", FALSE, TRUE, FALSE, Outcome)
            \in C!Steps(Rec(status.state, Inbox, "idle", FALSE, TRUE, FALSE, Outcome))
    BY <2>1, CancelAllowed
  <2>3. QED
    BY <1>3, <2>1, <2>2, Moves
<1>6. QED
  BY <1>4, <1>5

\* An unhealthy child is restarted.
LEMMA UnhealthyMaps ==
    ASSUME IInv, CallInv, UnhealthyRestart
    PROVE  ContractStep
<1> DEFINE cmd == [op |-> "Health", live |-> FALSE]
<1>1. /\ pc = "select" /\ cancel_token = FALSE /\ UNCHANGED command_rx
      /\ command_rx = <<>> /\ current_child # None
      /\ StopCurrentChild(cmd) /\ cmd.op = "Health"
  BY DEF UnhealthyRestart, HealthReady, IInv, TypeOK
<1>2. Inbox = <<>> /\ Inbox' = Inbox
  <2>1. Inbox = <<>>
    BY <1>1, InboxType DEF IInv
  <2>2. Inbox' = Inbox
    BY <1>1 DEF Inbox
  <2>3. QED
    BY <2>1, <2>2
<1> HIDE DEF cmd
<1>3. Shows(status.state, <<>>, "idle", FALSE, FALSE, FALSE, Outcome)
  BY <1>1, <1>2, AtSelect DEF Shows
<1>4. /\ ShowsNext("Stopping", <<>>, "Health", FALSE, FALSE, FALSE, Outcome)
      /\ status.state \in {"Starting", "Running"}
  BY <1>1, <1>2, BeginShows
<1>5. Rec("Stopping", <<>>, "Health", FALSE, FALSE, FALSE, Outcome)
          \in C!Steps(Rec(status.state, <<>>, "idle", FALSE, FALSE, FALSE, Outcome))
  BY <1>4, HealthAllowed
<1>6. QED
  BY <1>3, <1>4, <1>5, Moves

\* Start goes on to spawn_child; Signal is answered at once.
LEMMA TakeMaps ==
    ASSUME IInv, CallInv, HandleStart \/ HandleSignal
    PROVE  ContractStep
<1>1. pc = "select" /\ cancel_token = FALSE /\ ~is_shutting_down
  BY AtSelect DEF HandleStart, HandleSignal, Take, CommandReady, IInv, TypeOK
<1>2. Shows(status.state, Inbox, "idle", FALSE, FALSE, FALSE, Outcome)
  BY <1>1, AtSelect DEF Shows
<1>3. CASE HandleStart
  <2>1. /\ Take("Start") /\ cur' = Head(command_rx) /\ pc' = "spawn"
        /\ UNCHANGED <<status, call, cancel_token>>
    BY <1>1, <1>3 DEF HandleStart, sharedVars
  <2>2. /\ Inbox # <<>> /\ Head(Inbox) = "Start" /\ Inbox' = Tail(Inbox)
        /\ cur'.op = "Start"
    BY <2>1, InboxTake DEF IInv, Take
  <2>3. Doing' = "Start" /\ Half' = FALSE /\ Outcome' = Outcome
    BY <2>1, <2>2 DEF Doing, Half, Outcome, C!Ops
  <2>4. ShowsNext(status.state, Tail(Inbox), "Start", FALSE, FALSE, FALSE, Outcome)
    BY <1>1, <2>1, <2>2, <2>3 DEF ShowsNext
  <2>5. Rec(status.state, Tail(Inbox), "Start", FALSE, FALSE, FALSE, Outcome)
            \in C!Steps(Rec(status.state, Inbox, "idle", FALSE, FALSE, FALSE, Outcome))
    BY <2>2, TakeAllowed
  <2>6. QED
    BY <1>2, <2>4, <2>5, Moves
<1>4. CASE HandleSignal
  <2>1. PICK res \in {"ok", "err"} : Reply(Head(command_rx), res)
    BY <1>4 DEF HandleSignal
  <2>2. /\ Take("Signal") /\ UNCHANGED <<pc, cur, status, cancel_token>>
    BY <1>4 DEF HandleSignal, controlVars, sharedVars
  <2>3. /\ Inbox # <<>> /\ Head(Inbox) = "Signal" /\ Inbox' = Tail(Inbox)
        /\ Outcome' = Answer(Tail(Inbox), Outcome, res)
    BY <2>1, <2>2, InboxTake, TakeShows DEF IInv
  <2>4. Doing' = Doing /\ Half' = Half
    BY <2>2 DEF Doing, Half
  <2>5. ShowsNext(status.state, Tail(Inbox), "idle", FALSE, FALSE, FALSE,
                  Answer(Tail(Inbox), Outcome, res))
    BY <1>1, <1>2, <2>2, <2>3, <2>4 DEF ShowsNext, Shows
  <2>6. Rec(status.state, Tail(Inbox), "idle", FALSE, FALSE, FALSE,
            Answer(Tail(Inbox), Outcome, res))
            \in C!Steps(Rec(status.state, Inbox, "idle", FALSE, FALSE, FALSE, Outcome))
    BY <2>3, TakeAllowed
  <2>7. QED
    BY <1>2, <2>5, <2>6, Moves
<1>5. QED
  BY <1>3, <1>4

\* spawn_child returns: what its caller does with the result.
LEMMA SpawnedMaps ==
    ASSUME IInv, CallInv, pc \in {"spawn", "pre_start", "launch"},
           NEW res \in {"ok", "err"}, Reply(cur, res),
           UNCHANGED <<command_rx, cancel_token>>, pc' = "select", cur' = Idle,
           \/ res = "ok" /\ status'.state \in {"Starting", "Running"}
           \/ res = "err" /\ status'.state = "Fatal"
           \/ res = "err" /\ status' = status /\ cur.op \in {"Start", "Restart"}
    PROVE  ContractStep \/ UNCHANGED Presented
<1> DEFINE z == status'.state
<1>1. /\ Doing' = "idle" /\ Half' = FALSE /\ Inbox' = Inbox
      /\ (pc = "done") = FALSE /\ (pc' = "done") = FALSE
  BY DEF Doing, Half, Inbox, Idle, SpawnPoints, C!Ops
<1>2. Outcome' = Answer(Inbox, Outcome, res)
  BY ReplyShows
<1>3. cur.op \in {"Start", "Restart", "Health", "Backoff", "Autorestart"}
  BY DEF IInv, Serving
<1>4. cur.op \notin {"Start", "Restart"} => Outcome' = Outcome
  <2>1. cur.op \notin {"Start", "Restart"} => ~cur.live
    BY <1>3 DEF CallInv, Delivery, ProgramCommand
  <2>2. QED
    BY <2>1 DEF Reply, Outcome
<1>5. CASE cur.op \in {"Start", "Restart"}
  <2>1. Doing = cur.op /\ (cur.op = "Restart" => Half = TRUE)
    BY <1>5 DEF Doing, Half, SpawnPoints, C!Ops
  <2>2. Shows(status.state, Inbox, cur.op, Half, cancel_token, FALSE, Outcome)
    BY <1>1, <2>1 DEF Shows
  <2>3. ShowsNext(z, Inbox, "idle", FALSE, cancel_token, FALSE,
                  Answer(Inbox, Outcome, res))
    BY <1>1, <1>2 DEF ShowsNext
  <2>4. Rec(z, Inbox, "idle", FALSE, cancel_token, FALSE, Answer(Inbox, Outcome, res))
            \in C!Steps(Rec(status.state, Inbox, cur.op, Half, cancel_token, FALSE, Outcome))
    <3>1. cur.op = "Start" \/ (cur.op = "Restart" /\ Half)
      BY <1>5, <2>1
    <3>2. \/ res = "ok" /\ z \in {"Starting", "Running"}
          \/ res = "err" /\ z \in {status.state, "Fatal"}
      OBVIOUS
    <3>3. QED
      BY <3>1, <3>2, SpawnAllowed
  <2>5. QED
    BY <2>2, <2>3, <2>4, Moves
<1>6. CASE cur.op = "Health"
  <2>1. Doing = "Health" /\ Half = TRUE
    BY <1>6 DEF Doing, Half, SpawnPoints
  <2>2. Shows(status.state, Inbox, "Health", TRUE, cancel_token, FALSE, Outcome)
    BY <1>1, <2>1 DEF Shows
  <2>3. ShowsNext(z, Inbox, "idle", FALSE, cancel_token, FALSE, Outcome)
    BY <1>1, <1>4, <1>6 DEF ShowsNext
  <2>4. z \in {"Starting", "Running", "Fatal"}
    BY <1>6
  <2>5. Rec(z, Inbox, "idle", FALSE, cancel_token, FALSE, Outcome)
            \in C!Steps(Rec(status.state, Inbox, "Health", TRUE, cancel_token, FALSE, Outcome))
    BY <2>4, RespawnAllowed
  <2>6. QED
    BY <2>2, <2>3, <2>5, Moves
<1>7. CASE cur.op \in {"Backoff", "Autorestart"}
  <2>1. Doing = "idle" /\ Half = FALSE
    BY <1>7 DEF Doing, Half, SpawnPoints, C!Ops
  <2>2. Shows(status.state, Inbox, "idle", FALSE, cancel_token, FALSE, Outcome)
    BY <1>1, <2>1 DEF Shows
  <2>3. ShowsNext(z, Inbox, "idle", FALSE, cancel_token, FALSE, Outcome)
    BY <1>1, <1>4, <1>7 DEF ShowsNext
  <2>4. \/ status.state = "Backoff" /\ z \in {"Starting", "Running", "Fatal"}
        \/ status.state = "Starting" /\ z \in {"Starting", "Running", "Fatal"}
    BY <1>7 DEF CallInv, Engaged
  <2>5. CASE z = status.state
    <3>1. Presented = Rec(status.state, Inbox, "idle", FALSE, cancel_token, FALSE, Outcome)
      BY <2>2, Presents
    <3>2. Presented' = Rec(z, Inbox, "idle", FALSE, cancel_token, FALSE, Outcome)
      BY <2>3, Presents
    <3>3. QED
      BY <2>5, <3>1, <3>2
  <2>6. CASE z # status.state
    <3>1. Rec(z, Inbox, "idle", FALSE, cancel_token, FALSE, Outcome)
            \in C!Steps(Rec(status.state, Inbox, "idle", FALSE, cancel_token, FALSE, Outcome))
      BY <2>4, <2>6, OwnAllowed
    <3>2. QED
      BY <2>2, <2>3, <3>1, Moves
  <2>7. QED
    BY <2>5, <2>6
<1>8. QED
  BY <1>3, <1>5, <1>6, <1>7

\* spawn_child, await by await.
LEMMA SpawnStepMaps ==
    ASSUME IInv, CallInv, SpawnStep
    PROVE  ContractStep \/ UNCHANGED Presented
<1> USE DEF controlVars, childVars, flagVars, timerVars, sharedVars, handleVars, probeVars
<1>1. ASSUME NEW st, SpawnFailed(current_child, st),
             st = status \/ st = UpdateStatus("Fatal", None),
             UNCHANGED <<command_rx, cancel_token>>, pc \in {"spawn", "pre_start", "launch"}
      PROVE  ContractStep \/ UNCHANGED Presented
  <2>1. Reply(cur, "err") /\ pc' = "select" /\ cur' = Idle
    BY <1>1 DEF SpawnFailed
  <2>2. \/ status' = status /\ cur.op \in {"Start", "Restart"}
        \/ status'.state = "Fatal"
    BY <1>1 DEF SpawnFailed, UpdateStatus
  <2>3. QED
    BY <1>1, <2>1, <2>2, SpawnedMaps
<1>2. ASSUME UNCHANGED <<status, command_rx, call, cancel_token, cur>>,
             pc \in SpawnPoints, pc' \in SpawnPoints
      PROVE  UNCHANGED Presented
  BY <1>2, SameShown DEF Doing, Half, SpawnPoints
<1>3. CASE SpawnChild
  <2>1. CASE SpawnFailed(current_child, status)
    BY <1>1, <1>3, <2>1 DEF SpawnChild
  <2>2. CASE ~SpawnFailed(current_child, status)
    BY <1>2, <1>3, <2>2 DEF SpawnChild, SpawnProceeds, SpawnPoints
  <2>3. QED
    BY <2>1, <2>2
<1>4. CASE SpawnDrained
  BY <1>2, <1>4 DEF SpawnDrained, SpawnProceeds, SpawnPoints
<1>5. CASE PreStartDone
  <2>1. CASE SpawnFailed(current_child, UpdateStatus("Fatal", None))
    BY <1>1, <1>5, <2>1 DEF PreStartDone
  <2>2. CASE ~SpawnFailed(current_child, UpdateStatus("Fatal", None))
    BY <1>2, <1>5, <2>2 DEF PreStartDone, SpawnPoints
  <2>3. QED
    BY <2>1, <2>2
<1>6. CASE LaunchFails
  BY <1>1, <1>6 DEF LaunchFails
<1>7. CASE Launch
  <2>1. /\ Reply(cur, "ok") /\ pc' = "select" /\ cur' = Idle /\ pc = "launch"
        /\ UNCHANGED <<command_rx, cancel_token>>
    BY <1>7 DEF Launch
  <2>2. status'.state \in {"Starting", "Running"}
    BY <1>7 DEF Launch
  <2>3. QED
    BY <2>1, <2>2, SpawnedMaps
<1>8. QED
  BY <1>3, <1>4, <1>5, <1>6, <1>7 DEF SpawnStep

\* Stop and Shutdown are answered, the cancelled actor ends.
LEMMA EndMaps ==
    ASSUME IInv, CallInv, StopReturned \/ RunEnds
    PROVE  ContractStep
<1>1. pc = "stopped" /\ Half = TRUE /\ (pc = "done") = FALSE /\ status.state = "Stopped"
  BY DEF StopReturned, RunEnds, Half, CallInv, Engaged
<1>2. CASE StopReturned
  <2>1. /\ Reply(cur, "ok") /\ pc' = "select" /\ cur' = Idle
        /\ UNCHANGED <<command_rx, status>>
        /\ cancel_token' = (cancel_token \/ cur.op = "Shutdown")
        /\ cur.op \in {"Stop", "Shutdown"}
    BY <1>2 DEF StopReturned, sharedVars
  <2>2. /\ Doing' = "idle" /\ Half' = FALSE /\ Inbox' = Inbox /\ (pc' = "done") = FALSE
        /\ Doing = cur.op
    BY <2>1 DEF Doing, Half, Inbox, Idle, SpawnPoints, C!Ops
  <2>3. Outcome' = Answer(Inbox, Outcome, "ok")
    BY <2>1, ReplyShows
  <2>4. Shows("Stopped", Inbox, cur.op, TRUE, cancel_token, FALSE, Outcome)
    BY <1>1, <2>2 DEF Shows
  <2>5. CASE cur.op = "Stop"
    <3>1. cancel_token' = cancel_token
      BY <2>1, <2>5 DEF IInv, TypeOK
    <3>2. ShowsNext("Stopped", Inbox, "idle", FALSE, cancel_token, FALSE,
                    Answer(Inbox, Outcome, "ok"))
      BY <1>1, <2>1, <2>2, <2>3, <3>1 DEF ShowsNext
    <3>3. Rec("Stopped", Inbox, "idle", FALSE, cancel_token, FALSE,
              Answer(Inbox, Outcome, "ok"))
            \in C!Steps(Rec("Stopped", Inbox, "Stop", TRUE, cancel_token, FALSE, Outcome))
      BY EndAllowed
    <3>4. QED
      BY <2>4, <2>5, <3>2, <3>3, Moves
  <2>6. CASE cur.op = "Shutdown"
    <3>1. cancel_token' = TRUE
      BY <2>1, <2>6
    <3>2. ShowsNext("Stopped", Inbox, "idle", FALSE, TRUE, FALSE,
                    Answer(Inbox, Outcome, "ok"))
      BY <1>1, <2>1, <2>2, <2>3, <3>1 DEF ShowsNext
    <3>3. Rec("Stopped", Inbox, "idle", FALSE, TRUE, FALSE, Answer(Inbox, Outcome, "ok"))
            \in C!Steps(Rec("Stopped", Inbox, "Shutdown", TRUE, cancel_token, FALSE, Outcome))
      BY EndAllowed
    <3>4. QED
      BY <2>4, <2>6, <3>2, <3>3, Moves
  <2>7. QED
    BY <2>1, <2>5, <2>6
<1>3. CASE RunEnds
  <2>1. /\ pc' = "done" /\ cur' = Idle /\ cur.op = "Cancel" /\ command_rx' = <<>>
        /\ status'.state = "Stopped" /\ UNCHANGED cancel_token
        /\ call' = IF call.res = "waiting" THEN [op |-> call.op, res |-> "closed"] ELSE call
    BY <1>3 DEF RunEnds, UpdateStatus
  <2>2. Doing' = "idle" /\ Half' = FALSE /\ (pc' = "done") = TRUE /\ Doing = "Cancel"
    BY <2>1 DEF Doing, Half, Idle, SpawnPoints, C!Ops
  <2>3. Inbox' = <<>>
    BY <2>1 DEF Inbox
  <2>4. Outcome' = Answer(<<>>, Outcome, "err")
    <3>1. CASE call.res = "waiting"
      <4>1. call'.res = "closed"
        BY <2>1, <3>1
      <4>2. QED
        BY <3>1, <4>1 DEF Outcome, Answer
    <3>2. CASE call.res # "waiting"
      <4>1. call' = call
        BY <2>1, <3>2
      <4>2. Outcome # "wait"
        BY <3>2, OutcomeIs DEF IInv
      <4>3. Outcome' = Outcome
        BY <4>1 DEF Outcome
      <4>4. QED
        BY <4>2, <4>3 DEF Answer
    <3>3. QED
      BY <3>1, <3>2
  <2>5. Shows("Stopped", Inbox, "Cancel", TRUE, cancel_token, FALSE, Outcome)
    BY <1>1, <2>2 DEF Shows
  <2>6. ShowsNext("Stopped", <<>>, "idle", FALSE, cancel_token, TRUE,
                  Answer(<<>>, Outcome, "err"))
    BY <2>1, <2>2, <2>3, <2>4 DEF ShowsNext
  <2>7. Rec("Stopped", <<>>, "idle", FALSE, cancel_token, TRUE,
            Answer(<<>>, Outcome, "err"))
            \in C!Steps(Rec("Stopped", Inbox, "Cancel", TRUE, cancel_token, FALSE, Outcome))
    BY EndAllowed
  <2>8. QED
    BY <2>5, <2>6, <2>7, Moves
<1>4. QED
  BY <1>2, <1>3

\* The published state changes while no command is served.
LEMMA OwnMaps ==
    ASSUME IInv, CallInv, ExitDrained \/ StartDeadline
    PROVE  ContractStep \/ UNCHANGED Presented
<1> DEFINE z == status'.state
<1>1. /\ UNCHANGED <<command_rx, call, cancel_token>>
      /\ pc \in {"select", "exit_drain"} /\ pc' \in {"select", "spawn"}
      /\ cur' = cur \/ cur' = [op |-> "Autorestart", live |-> FALSE]
  BY DEF ExitDrained, StartDeadline, TimersPolled, handleVars, controlVars
<1>2. cur.op = "None"
  BY <1>1 DEF CallInv, Engaged
<1>3. /\ Doing = "idle" /\ Half = FALSE /\ Doing' = "idle" /\ Half' = FALSE
      /\ (pc = "done") = FALSE /\ (pc' = "done") = FALSE
      /\ Inbox' = Inbox /\ Outcome' = Outcome
  BY <1>1, <1>2 DEF Doing, Half, Inbox, Outcome, SpawnPoints, C!Ops
<1>4. \/ z = status.state
      \/ status.state = "Starting" /\ z \in {"Running", "Backoff", "Fatal"}
      \/ status.state = "Running" /\ z \in {"Exited", "Starting"}
  <2>1. CASE StartDeadline
    BY <2>1 DEF StartDeadline, TimersPolled, UpdateStatus, IInv, Published, Alive,
                Spawns, None
  <2>2. CASE ExitDrained
    <3>1. ~is_shutting_down /\ ~manual_stop
      BY <2>2 DEF ExitDrained, CallInv, Leaving
    <3>2. status.state = IF marked_running THEN "Running" ELSE "Starting"
      BY <2>2 DEF ExitDrained, IInv, Published
    <3>3. z \in IF marked_running THEN {"Exited", "Starting"} ELSE {"Backoff", "Fatal"}
      BY <2>2, <3>1 DEF ExitDrained, UpdateStatus
    <3>4. QED
      BY <3>2, <3>3
  <2>3. QED
    BY <2>1, <2>2
<1>5. CASE z = status.state
  BY <1>1, <1>3, <1>5, SameShown
<1>6. CASE z # status.state
  <2>1. Shows(status.state, Inbox, "idle", FALSE, cancel_token, FALSE, Outcome)
    BY <1>3 DEF Shows
  <2>2. ShowsNext(z, Inbox, "idle", FALSE, cancel_token, FALSE, Outcome)
    BY <1>1, <1>3 DEF ShowsNext
  <2>3. Rec(z, Inbox, "idle", FALSE, cancel_token, FALSE, Outcome)
            \in C!Steps(Rec(status.state, Inbox, "idle", FALSE, cancel_token, FALSE, Outcome))
    BY <1>4, <1>6, OwnAllowed
  <2>4. QED
    BY <2>1, <2>2, <2>3, Moves
<1>7. QED
  BY <1>5, <1>6

\* The caller sends, gives up, cancels; joining the task shows nothing new.
LEMMA HandleMaps ==
    ASSUME IInv, CallInv, Handle
    PROVE  ContractStep \/ UNCHANGED Presented
<1> DEFINE e == (pc = "done")
<1>1. UNCHANGED pc => (pc' = "done") = e
  OBVIOUS
<1>2. Presented = Rec(status.state, Inbox, Doing, Half, cancel_token, e, Outcome)
  BY DEF Presented, Rec
<1> HIDE DEF e
<1>3. ASSUME NEW op \in ProgramCommand, Call(op)
      PROVE  ContractStep
  <2>1. /\ command_rx' = Append(command_rx, [op |-> op, live |-> TRUE])
        /\ call' = [op |-> op, res |-> "waiting"]
        /\ UNCHANGED <<pc, cur, status, cancel_token>> /\ MayCall
    BY <1>3 DEF Call, controlVars, sharedVars
  <2>2. pc # "done"
    BY <2>1 DEF CallInv, Leaving, MayCall
  <2>3. Inbox' = Append(Inbox, op) /\ Outcome' = "wait"
    BY <2>1, InboxSend DEF IInv, Outcome
  <2>4. Doing' = Doing /\ Half' = Half /\ (pc' = "done") = FALSE /\ (pc = "done") = FALSE
    BY <2>1, <2>2 DEF Doing, Half
  <2>5. Shows(status.state, Inbox, Doing, Half, cancel_token, FALSE, Outcome)
    BY <2>4 DEF Shows
  <2>6. ShowsNext(status.state, Append(Inbox, op), Doing, Half, cancel_token, FALSE, "wait")
    BY <2>1, <2>3, <2>4 DEF ShowsNext
  <2>7. Presented = Rec(status.state, Inbox, Doing, Half, cancel_token, FALSE, Outcome)
    BY <2>5, Presents
  <2>8. Presented' = Rec(status.state, Append(Inbox, op), Doing, Half, cancel_token, FALSE,
                         "wait")
    BY <2>6, Presents
  <2>9. CallerSteps(status.state, Inbox, Doing, Half, cancel_token, FALSE, Outcome, op)
    BY CallerAllowed
  <2>10. op \in C!Ops
    BY DEF C!Ops, ProgramCommand
  <2>11. QED
    BY <2>7, <2>8, <2>9, <2>10 DEF ContractStep, CallerSteps
<1>4. ASSUME UNCHANGED <<pc, status>>, Inbox' = Inbox, cur'.op = cur.op,
             call'.res \in {"timeout", "joining", "dropped"}
      PROVE  /\ cancel_token' = cancel_token => ContractStep
             /\ cancel_token' = TRUE => ContractStep
  <2>1. Outcome' = "none" /\ Doing' = Doing /\ Half' = Half /\ (pc' = "done") = e
    BY <1>1, <1>4 DEF Outcome, Doing, Half
  <2>2. ASSUME cancel_token' = cancel_token
        PROVE  ContractStep
    <3>1. ShowsNext(status.state, Inbox, Doing, Half, cancel_token, e, "none")
      BY <1>4, <2>1, <2>2 DEF ShowsNext
    <3>2. Presented' = Rec(status.state, Inbox, Doing, Half, cancel_token, e, "none")
      BY <3>1, Presents
    <3>3. CallerSteps(status.state, Inbox, Doing, Half, cancel_token, e, Outcome, "Stop")
      BY CallerAllowed
    <3>4. QED
      BY <1>2, <3>2, <3>3 DEF ContractStep, CallerSteps
  <2>3. ASSUME cancel_token' = TRUE
        PROVE  ContractStep
    <3>1. ShowsNext(status.state, Inbox, Doing, Half, TRUE, e, "none")
      BY <1>4, <2>1, <2>3 DEF ShowsNext
    <3>2. Presented' = Rec(status.state, Inbox, Doing, Half, TRUE, e, "none")
      BY <3>1, Presents
    <3>3. CallerSteps(status.state, Inbox, Doing, Half, cancel_token, e, Outcome, "Stop")
      BY CallerAllowed
    <3>4. QED
      BY <1>2, <3>2, <3>3 DEF ContractStep, CallerSteps
  <2>4. QED
    BY <2>2, <2>3
<1>5. CASE CallTimeout
  <2>1. ForgetReply /\ call.res = "waiting" /\ call'.res = "timeout"
        /\ UNCHANGED <<pc, status, cancel_token>>
    BY <1>5 DEF CallTimeout, sharedVars
  <2>2. Inbox' = Inbox /\ cur'.op = cur.op
    BY <2>1, InboxForget, ForgetDelivers DEF CallInv
  <2>3. QED
    BY <1>4, <2>1, <2>2
<1>6. CASE DropHandle
  <2>1. call'.res = "dropped" /\ cancel_token' = TRUE /\ UNCHANGED <<pc, status>>
    BY <1>6 DEF DropHandle, sharedVars
  <2>2. Inbox' = Inbox /\ cur'.op = cur.op
    <3>1. CASE call.res = "waiting"
      BY <1>6, <3>1, InboxForget, ForgetDelivers DEF DropHandle, CallInv
    <3>2. CASE call.res # "waiting"
      BY <1>6, <3>2 DEF DropHandle, Inbox
    <3>3. QED
      BY <3>1, <3>2
  <2>3. QED
    BY <1>4, <2>1, <2>2
<1>7. CASE ShutdownCancel
  <2>1. call'.res = "joining" /\ cancel_token' = TRUE
        /\ UNCHANGED <<pc, status, cur, command_rx>>
    BY <1>7 DEF ShutdownCancel, sharedVars, controlVars
  <2>2. Inbox' = Inbox
    BY <2>1 DEF Inbox
  <2>3. QED
    BY <1>4, <2>1, <2>2
<1>8. CASE ShutdownJoin
  <2>1. call.res = "joining" /\ call'.res = "joined"
        /\ UNCHANGED <<pc, status, cur, command_rx, cancel_token>>
    BY <1>8 DEF ShutdownJoin, sharedVars, controlVars
  <2>2. /\ Outcome' = Outcome /\ Inbox' = Inbox /\ Doing' = Doing /\ Half' = Half
    BY <2>1 DEF Outcome, Inbox, Doing, Half
  <2>3. QED
    BY <2>1, <2>2 DEF Presented
<1>9. QED
  BY <1>3, <1>5, <1>6, <1>7, <1>8 DEF Handle

\* Every step is a step of the contract or shows nothing new.
LEMMA ContractMaps ==
    ASSUME IInv, CallInv, [Next]_vars
    PROVE  ContractStep \/ UNCHANGED Presented
<1> USE DEF vars, controlVars, childVars, flagVars, timerVars, sharedVars,
            handleVars, probeVars
<1>1. CASE Handle
  BY <1>1, HandleMaps
<1>2. CASE SpawnStep
  BY <1>2, SpawnStepMaps
<1>3. CASE StopDrained \/ StopReturned \/ RunEnds
  BY <1>3, StopDrainedMaps, EndMaps
<1>4. CASE PreStopDone \/ GraceExit \/ GraceTimeout \/ KillReaped
  <2>1. /\ UNCHANGED <<status, command_rx, call, cancel_token, cur>>
        /\ pc \in {"pre_stop", "grace", "kill"} /\ pc' \in {"grace", "kill", "drain"}
    BY <1>4 DEF PreStopDone, GraceExit, GraceTimeout, KillReaped
  <2>2. Doing' = Doing /\ Half' = FALSE /\ Half = FALSE
    BY <2>1 DEF Doing, Half, SpawnPoints
  <2>3. QED
    BY <2>1, <2>2, SameShown
<1>5. CASE StopThenSpawn
  <2>1. /\ UNCHANGED <<status, command_rx, call, cancel_token, cur>>
        /\ pc = "stopped" /\ pc' = "spawn" /\ cur.op \in {"Restart", "Health"}
    BY <1>5 DEF StopThenSpawn
  <2>2. Doing' = Doing /\ Half' = TRUE /\ Half = TRUE
    BY <2>1 DEF Doing, Half, SpawnPoints
  <2>3. QED
    BY <2>1, <2>2, SameShown
<1>6. CASE HandleStart \/ HandleSignal
  BY <1>6, TakeMaps
<1>7. CASE HandleStop \/ HandleRestart \/ HandleShutdown
  BY <1>7, BeginMaps
<1>8. CASE Cancelled \/ UnhealthyRestart
  BY <1>8, CancelledMaps, UnhealthyMaps
<1>9. CASE HealthyEvent \/ UnhealthyEvent
  <2>1. /\ UNCHANGED <<command_rx, call, cancel_token, cur, pc>>
        /\ status'.state = status.state
    BY <1>9 DEF HealthyEvent, UnhealthyEvent, IInv, TypeOK
  <2>2. Doing' = Doing /\ Half' = Half
    BY <2>1 DEF Doing, Half
  <2>3. QED
    BY <2>1, <2>2, SameShown
<1>10. CASE BackoffExpires \/ ChildExit
  <2>1. /\ UNCHANGED <<command_rx, call, cancel_token, status>>
        /\ pc = "select" /\ pc' \in {"spawn", "exit_drain"}
        /\ cur' = cur \/ cur' = [op |-> "Backoff", live |-> FALSE]
    BY <1>10 DEF BackoffExpires, ChildExit, TimersPolled
  <2>2. cur.op = "None"
    BY <2>1 DEF CallInv, Engaged
  <2>3. Doing' = Doing /\ Half' = FALSE /\ Half = FALSE
    BY <2>1, <2>2 DEF Doing, Half, SpawnPoints, C!Ops
  <2>4. QED
    BY <2>1, <2>3, SameShown
<1>11. CASE ExitDrained \/ StartDeadline
  BY <1>11, OwnMaps
<1>12. CASE Probe \/ OS \/ Terminated \/ UNCHANGED vars
  <2>1. UNCHANGED <<command_rx, call, cancel_token, cur, pc, status>>
    BY <1>12 DEF Probe, ProbeBegin, ProbeSucceeds, ProbeFails, OS, ProcessExits,
                 ProcessKilled, Terminated
  <2>2. Doing' = Doing /\ Half' = Half
    BY <2>1 DEF Doing, Half
  <2>3. QED
    BY <2>1, <2>2, SameShown
<1>13. QED
  BY <1>1, <1>2, <1>3, <1>4, <1>5, <1>6, <1>7, <1>8, <1>9, <1>10, <1>11, <1>12
     DEF Next, Actor, StopStep, SelectStep, HealthEvent

\* The actor, its child, its probe and its caller keep to the contract by which
\* the manager is modelled: whatever the manager relies on when it talks to a
\* program, the code of process.rs provides.
THEOREM ContractKept == Spec => ImplementsContract
<1>1. Init => Presented = C!Fresh
  <2> SUFFICES ASSUME Init
               PROVE  Presented = C!Fresh
    OBVIOUS
  <2>1. /\ status.state = "Stopped" /\ command_rx = <<>> /\ cur.op = "None"
        /\ pc = "select" /\ cancel_token = FALSE /\ call.res = "idle"
    BY DEF Init, Idle
  <2>2. /\ Inbox = <<>> /\ Doing = "idle" /\ Half = FALSE /\ Outcome = "none"
        /\ (pc = "done") = FALSE
    BY <2>1 DEF Inbox, Doing, Half, Outcome, SpawnPoints, C!Ops
  <2>3. Shows("Stopped", <<>>, "idle", FALSE, FALSE, FALSE, "none")
    BY <2>1, <2>2 DEF Shows
  <2>4. Presented = Rec("Stopped", <<>>, "idle", FALSE, FALSE, FALSE, "none")
    BY <2>3, Presents
  <2>5. QED
    BY <2>4 DEF Rec, C!Fresh
<1>2. IInv /\ CallInv /\ [Next]_vars => [ContractStep]_Presented
  BY ContractMaps
<1>3. QED
  BY <1>1, <1>2, Invariance, CallInvariance, PTL DEF Spec, ImplementsContract
=============================================================================
