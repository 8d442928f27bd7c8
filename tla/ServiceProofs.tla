---------------------------- MODULE ServiceProofs ----------------------------
(***************************************************************************)
(* Proofs about the watcher of files, the life of the daemon and the       *)
(* writer of standard input, as parts of Services: for any programs and    *)
(* files, any watch settings, debounce and retry times; for any number of  *)
(* lives, signals and listeners; for any messages, callers and capacities. *)
(***************************************************************************)
EXTENDS Services, SequenceTheorems, TLAPS

-----------------------------------------------------------------------------
(* The watcher.                                                            *)

\* A trigger of p has its fields, and waits for what is left of the debounce
\* time since the last change of its files, or longer; a trigger of the batch
\* has waited it out.
TriggerInv ==
    /\ DOMAIN pending = Programs
    /\ \A p \in Programs :
          /\ quiet[p] \in 0 .. Debounce
          /\ pending[p] # Watcher!NoTrigger =>
                /\ DOMAIN pending[p] =
                       {"left", "prog", "target", "is_binary", "action", "checks"}
                /\ pending[p].prog = p
                /\ pending[p].left \in Nat /\ pending[p].checks \in Nat
                /\ quiet[p] + pending[p].left >= Debounce
          /\ p \in batch => pending[p] # Watcher!NoTrigger /\ pending[p].left = 0

\* Nothing is pending at first.
LEMMA TriggerInit ==
    ASSUME Watcher!Init
    PROVE  TriggerInv
BY WatchAssumption DEF Watcher!Init, TriggerInv

\* Time: whatever waits loses at most as much as the files have been quiet.
LEMMA TriggerTick ==
    ASSUME TriggerInv, Watcher!Tick
    PROVE  TriggerInv'
<1>1. DOMAIN pending' = Programs /\ UNCHANGED batch
  BY DEF Watcher!Tick
<1>2. ASSUME NEW p \in Programs
      PROVE  TriggerInv!2!(p)'
  <2>1. quiet'[p] = IF quiet[p] < Debounce THEN quiet[p] + 1 ELSE quiet[p]
    BY DEF Watcher!Tick
  <2>2. quiet[p] \in 0 .. Debounce
    BY DEF TriggerInv
  <2>3. CASE pending[p] # Watcher!NoTrigger /\ pending[p].left > 0
    <3>1. pending'[p] = [pending[p] EXCEPT !.left = pending[p].left - 1]
      BY <2>3 DEF Watcher!Tick
    <3>2. p \notin batch
      BY <2>3 DEF TriggerInv
    <3>3. QED
      BY <1>1, <2>1, <2>2, <2>3, <3>1, <3>2, WatchAssumption DEF TriggerInv
  <2>4. CASE ~(pending[p] # Watcher!NoTrigger /\ pending[p].left > 0)
    <3>1. pending'[p] = pending[p]
      BY <2>4 DEF Watcher!Tick
    <3>2. QED
      BY <1>1, <2>1, <2>2, <3>1, WatchAssumption DEF TriggerInv
  <2>5. QED
    BY <2>3, <2>4
<1>3. QED
  BY <1>1, <1>2 DEF TriggerInv

\* A change of a program's files starts the debounce time anew.
LEMMA TriggerEvent ==
    ASSUME TriggerInv, Watcher!HandleEvent
    PROVE  TriggerInv'
<1>1. PICK hit \in SUBSET Programs :
          /\ pending' = [p \in Programs |->
                IF p \notin hit THEN pending[p]
                ELSE IF pending[p] = Watcher!NoTrigger
                     THEN Watcher!NewTrigger(p, Head(events))
                     ELSE Watcher!Extended(pending[p], Head(events))]
          /\ quiet' = [p \in Programs |-> IF p \in hit THEN 0 ELSE quiet[p]]
  BY DEF Watcher!HandleEvent
<1>2. batch = {} /\ batch' = {}
  BY DEF Watcher!HandleEvent, Watcher!Idle
<1>3. ASSUME NEW p \in Programs
      PROVE  TriggerInv!2!(p)'
  <2>1. CASE p \notin hit
    BY <1>1, <1>2, <2>1 DEF TriggerInv
  <2>2. CASE p \in hit /\ pending[p] = Watcher!NoTrigger
    <3>1. quiet'[p] = 0 /\ pending'[p] = Watcher!NewTrigger(p, Head(events))
      BY <1>1, <2>2
    <3>2. QED
      BY <1>2, <3>1, WatchAssumption DEF Watcher!NewTrigger
  <2>3. CASE p \in hit /\ pending[p] # Watcher!NoTrigger
    <3>1. quiet'[p] = 0 /\ pending'[p] = Watcher!Extended(pending[p], Head(events))
      BY <1>1, <2>3
    <3>2. QED
      BY <1>2, <2>3, <3>1, WatchAssumption DEF TriggerInv, Watcher!Extended
  <2>4. QED
    BY <2>1, <2>2, <2>3
<1>4. QED
  BY <1>1, <1>3 DEF TriggerInv

\* A due trigger leaves the batch, executed or put back.
LEMMA TriggerDue ==
    ASSUME TriggerInv, NEW q \in Programs, Watcher!HandleDue(q)
    PROVE  TriggerInv'
<1>1. batch' = batch \ {q} /\ UNCHANGED quiet /\ q \in batch
  BY DEF Watcher!HandleDue
<1>2. CASE pending' = [pending EXCEPT ![q].checks = pending[q].checks + 1,
                                      ![q].left = RetryDelay]
  <2>1. ASSUME NEW p \in Programs
        PROVE  TriggerInv!2!(p)'
    <3>1. CASE p = q
      <4>1. pending'[q] = [pending[q] EXCEPT !.checks = pending[q].checks + 1,
                                             !.left = RetryDelay]
        BY <1>2 DEF TriggerInv
      <4>2. QED
        BY <1>1, <3>1, <4>1, WatchAssumption DEF TriggerInv
    <3>2. CASE p # q
      BY <1>1, <1>2, <3>2 DEF TriggerInv
    <3>3. QED
      BY <3>1, <3>2
  <2>2. QED
    BY <1>2, <2>1 DEF TriggerInv
<1>3. CASE pending' = [pending EXCEPT ![q] = Watcher!NoTrigger]
  BY <1>1, <1>3 DEF TriggerInv
<1>4. QED
  BY <1>2, <1>3 DEF Watcher!HandleDue

\* Every step of the watcher keeps it.
LEMMA TriggerStep ==
    ASSUME TriggerInv, [Watcher!Next]_(Watcher!vars)
    PROVE  TriggerInv'
<1>1. CASE UNCHANGED <<pending, batch, quiet>>
  BY <1>1 DEF TriggerInv
<1>2. CASE Watcher!DeadlineExpires
  BY <1>2 DEF Watcher!DeadlineExpires, Watcher!Due, TriggerInv
<1>3. CASE Watcher!Next
  <2>1. ASSUME NEW f \in Files, NEW c, Watcher!FileChanges(f, c)
        PROVE  TriggerInv'
    BY <1>1, <2>1 DEF Watcher!FileChanges
  <2>2. CASE Watcher!Service
    <3>1. CASE Watcher!HandleReload
      BY <1>1, <3>1 DEF Watcher!HandleReload
    <3>2. QED
      BY <1>2, <2>2, <3>1, TriggerEvent, TriggerDue DEF Watcher!Service
  <2>3. CASE Watcher!CommandEnds \/ Watcher!ManagerAnswers \/ Watcher!Dispatch
    BY <1>1, <2>3 DEF Watcher!CommandEnds, Watcher!ManagerAnswers, Watcher!Dispatch
  <2>4. ASSUME NEW c \in ConfigSets, Watcher!ManagerReloads(c)
        PROVE  TriggerInv'
    BY <1>1, <2>4 DEF Watcher!ManagerReloads
  <2>5. QED
    BY <1>3, <2>1, <2>2, <2>3, <2>4, TriggerTick DEF Watcher!Next
<1>4. QED
  BY <1>1, <1>3 DEF Watcher!vars

\* What Settled says of one step.
SettledStep ==
    \A p \in Programs :
        exec = Watcher!NoTrigger /\ exec' # Watcher!NoTrigger /\ exec'.prog = p =>
            /\ quiet[p] >= Debounce
            /\ Watcher!Unreadable(exec') => exec'.checks >= MaxChecks

\* Only HandleDue starts to execute a trigger: one that has waited long enough
\* and is not being written, or was looked at as often as allowed.
LEMMA SettledStarts ==
    ASSUME TriggerInv, Watcher!Next
    PROVE  SettledStep
<1>1. ASSUME NEW q \in Programs, Watcher!HandleDue(q)
      PROVE  SettledStep
  <2>1. pending[q] # Watcher!NoTrigger /\ pending[q].left = 0 /\ pending[q].prog = q
        /\ pending[q].checks \in Nat /\ quiet[q] \in Nat /\ quiet[q] >= Debounce
    BY <1>1, WatchAssumption DEF Watcher!HandleDue, TriggerInv
  <2>2. CASE exec' = exec
    BY <2>2 DEF SettledStep
  <2>3. CASE exec' = pending[q]
             /\ ~(Watcher!Unreadable(pending[q]) /\ pending[q].checks < MaxChecks)
    BY <2>1, <2>3, WatchAssumption DEF SettledStep
  <2>4. QED
    BY <1>1, <2>2, <2>3 DEF Watcher!HandleDue
<1>2. CASE exec' = exec \/ exec' = Watcher!NoTrigger
  BY <1>2 DEF SettledStep
<1>3. ASSUME NEW f \in Files, NEW c, Watcher!FileChanges(f, c)
      PROVE  SettledStep
  BY <1>2, <1>3 DEF Watcher!FileChanges
<1>4. ASSUME NEW c \in ConfigSets, Watcher!ManagerReloads(c)
      PROVE  SettledStep
  BY <1>2, <1>4 DEF Watcher!ManagerReloads
<1>5. CASE Watcher!HandleEvent \/ Watcher!DeadlineExpires \/ Watcher!HandleReload
  BY <1>2, <1>5 DEF Watcher!HandleEvent, Watcher!DeadlineExpires, Watcher!HandleReload
<1>6. CASE Watcher!Tick \/ Watcher!CommandEnds \/ Watcher!ManagerAnswers \/ Watcher!Dispatch
  BY <1>2, <1>6 DEF Watcher!Tick, Watcher!CommandEnds, Watcher!ManagerAnswers,
      Watcher!Dispatch
<1>7. QED
  BY <1>1, <1>3, <1>4, <1>5, <1>6 DEF Watcher!Next, Watcher!Service

\* WatchService::run executes no trigger before its files have settled, however
\* changes, reloads, retries and the manager's answers interleave.
THEOREM TriggersSettled == Spec => Settled
<1>1. Init => TriggerInv
  BY TriggerInit DEF Init
<1>2. [Next]_vars => [Watcher!Next]_(Watcher!vars)
  BY DEF Next, WatchStep, DaemonStep, StdinStep, vars, watchVars, Watcher!vars, Watcher!mgrVars,
      Watcher!fileVars
<1>3. TriggerInv /\ [Next]_vars => TriggerInv'
  BY <1>2, TriggerStep
<1>4. TriggerInv /\ [Next]_vars => [SettledStep]_(Watcher!vars)
  BY <1>2, SettledStarts
<1>5. QED
  BY <1>1, <1>3, <1>4, PTL DEF Spec, Settled, Watcher!Settled, SettledStep

-----------------------------------------------------------------------------
(* The daemon.                                                             *)

Starting == {"load", "pidfile", "build", "autostart"}

\* Until start-up is over nothing of the server runs and nobody has asked the
\* manager for anything; the pid file is one of a life up to this one, of an
\* earlier one as long as the configuration is not loaded; a manager that has
\* ended has stopped its programs.
LifeInv ==
    /\ life \in Nat \ {0} /\ pidfile \in 0 .. life
    /\ pc = "load" => pidfile < life
    /\ pc \in Starting =>
           /\ ~token /\ queued = {} /\ stopTask = "none" /\ engine = "none"
           /\ \A l \in Listeners : listener[l] = "none"
    /\ pc \in {"load", "pidfile", "build"} => supervisor = "none" /\ ~programs
    /\ pc = "autostart" => supervisor = "idle"
    /\ supervisor = "ended" => ~programs
    /\ CleanExit

\* The first life starts without a pid file.
LEMMA LifeInit ==
    ASSUME Process!Init
    PROVE  LifeInv
BY DEF Process!Init, Process!Fresh, LifeInv, Starting, CleanExit, Process!CleanExit

\* The main task: every way out of it drops the guard of the pid file, except
\* the first, which comes before the file is written.
LEMMA LifeMain ==
    ASSUME LifeInv, Process!MainTask
    PROVE  LifeInv'
<1>1. CASE Process!LoadConfig
  BY <1>1 DEF Process!LoadConfig, Process!Leave, Process!DropTasks, Process!envVars,
      Process!signalVars, Process!serverVars, Process!managerVars,
      LifeInv, Starting, CleanExit, Process!CleanExit
<1>2. CASE Process!WritePidfile
  BY <1>2 DEF Process!WritePidfile, Process!envVars,
      Process!signalVars, Process!serverVars, Process!managerVars,
      LifeInv, Starting, CleanExit, Process!CleanExit
<1>3. CASE Process!BuildManager
  BY <1>3 DEF Process!BuildManager, Process!Leave, Process!DropTasks, Process!envVars,
      Process!signalVars, Process!serverVars, Process!managerVars,
      LifeInv, Starting, CleanExit, Process!CleanExit
<1>4. CASE Process!Autostart
  BY <1>4 DEF Process!Autostart, Process!envVars,
      LifeInv, Starting, CleanExit, Process!CleanExit
<1>5. CASE Process!Poll \/ Process!BreakLoop
  BY <1>5 DEF Process!Poll, Process!BreakLoop, Process!envVars,
      Process!serverVars, Process!managerVars,
      LifeInv, Starting, CleanExit, Process!CleanExit
<1>6. CASE Process!StartReload \/ Process!EndReload
  BY <1>6 DEF Process!StartReload, Process!EndReload, Process!envVars,
      Process!signalVars, Process!serverVars, Process!managerVars,
      LifeInv, Starting, CleanExit, Process!CleanExit
<1>7. CASE Process!AwaitEngine
  BY <1>7 DEF Process!AwaitEngine, Process!envVars,
      Process!signalVars, Process!serverVars,
      LifeInv, Starting, CleanExit, Process!CleanExit
<1>8. CASE Process!AwaitManager
  BY <1>8 DEF Process!AwaitManager, Process!Leave, Process!DropTasks, Process!envVars,
      Process!signalVars, Process!serverVars, Process!managerVars,
      LifeInv, Starting, CleanExit, Process!CleanExit
<1>9. QED
  BY <1>1, <1>2, <1>3, <1>4, <1>5, <1>6, <1>7, <1>8 DEF Process!MainTask

\* The manager's task moves only in a life that goes on.
LEMMA LifeManager ==
    ASSUME LifeInv, Process!ManagerTask
    PROVE  LifeInv'
<1>1. CASE Process!ManagerReloads \/ Process!ManagerReloaded
  BY <1>1 DEF Process!ManagerReloads, Process!ManagerReloaded, Process!Alive,
      Process!envVars, Process!signalVars, Process!serverVars,
      LifeInv, Starting, CleanExit, Process!CleanExit
<1>2. CASE Process!ManagerStops \/ Process!ManagerEnds
  BY <1>2 DEF Process!ManagerStops, Process!ManagerEnds, Process!Alive,
      Process!envVars, Process!signalVars, Process!serverVars,
      LifeInv, Starting, CleanExit, Process!CleanExit
<1>3. QED
  BY <1>1, <1>2 DEF Process!ManagerTask

\* The server's tasks run only after start-up.
LEMMA LifeServer ==
    ASSUME LifeInv, Process!ServerTask
    PROVE  LifeInv'
<1>1. CASE Process!EngineEnds
  BY <1>1 DEF Process!EngineEnds, Process!DropTasks, Process!envVars,
      Process!signalVars, Process!managerVars,
      LifeInv, Starting, CleanExit, Process!CleanExit
<1>2. ASSUME NEW l \in Listeners, Process!Bind(l) \/ Process!ListenerEnds(l)
      PROVE  LifeInv'
  BY <1>2 DEF Process!Bind, Process!ListenerEnds, Process!envVars,
      Process!signalVars, Process!managerVars,
      LifeInv, Starting, CleanExit, Process!CleanExit
<1>3. QED
  BY <1>1, <1>2 DEF Process!ServerTask

\* Signals, clients and the next life.
LEMMA LifeEnvironment ==
    ASSUME LifeInv,
           \/ Process!ApiShutdown \/ Process!ApiShutdownAnswered \/ Process!Restart
           \/ \E sig \in {"term", "hup"} : Process!Signal(sig)
    PROVE  LifeInv'
<1>1. CASE Process!ApiShutdown
  BY <1>1 DEF Process!ApiShutdown, Process!Alive, Process!envVars,
      Process!signalVars, Process!serverVars,
      LifeInv, Starting, CleanExit, Process!CleanExit
<1>2. CASE Process!ApiShutdownAnswered
  BY <1>2 DEF Process!ApiShutdownAnswered, Process!Alive, Process!envVars,
      Process!signalVars, Process!serverVars, Process!managerVars,
      LifeInv, Starting, CleanExit, Process!CleanExit
<1>3. CASE Process!Restart
  BY <1>3 DEF Process!Restart, LifeInv, Starting, CleanExit, Process!CleanExit
<1>4. ASSUME NEW sig \in {"term", "hup"}, Process!Signal(sig)
      PROVE  LifeInv'
  <2>1. pc' \in {pc, "killed"} /\ UNCHANGED <<life, Process!serverVars, Process!managerVars,
                                             token, stopTask, pidfile>>
    BY <1>4 DEF Process!Signal, Process!Deliver
  <2>2. QED
    BY <2>1 DEF Process!serverVars, Process!managerVars,
        LifeInv, Starting, CleanExit, Process!CleanExit
<1>5. QED
  BY <1>1, <1>2, <1>3, <1>4

\* A daemon that leaves by itself removes its own pid file, and leaves no program
\* running unless the manager was aborted, at whatever point of start-up, of
\* its loop or of the teardown it leaves, and however many lives it had.
THEOREM LeavesClean == Spec => []CleanExit
<1>1. Init => LifeInv
  BY LifeInit DEF Init
<1>2. [Next]_vars => [Process!Next]_(Process!vars)
  BY DEF Next, WatchStep, DaemonStep, StdinStep, vars, daemonVars, Process!vars
<1>3. LifeInv /\ [Next]_vars => LifeInv'
  <2>1. LifeInv /\ UNCHANGED Process!vars => LifeInv'
    BY DEF Process!vars, LifeInv, Starting, CleanExit, Process!CleanExit
  <2>2. LifeInv /\ Process!Next => LifeInv'
    BY LifeMain, LifeManager, LifeServer, LifeEnvironment DEF Process!Next
  <2>3. QED
    BY <1>2, <2>1, <2>2
<1>4. LifeInv => CleanExit
  BY DEF LifeInv
<1>5. QED
  BY <1>1, <1>3, <1>4, PTL DEF Spec
-----------------------------------------------------------------------------
(* The writer of a child's standard input.                                 *)

StdinTypes ==
    /\ calling \in [Callers -> Seq(Int)] /\ calls \in Int
    /\ stdin_rx \in Seq(Seq(Int))
    /\ accepted \in Seq(Int) /\ buffer \in Seq(Int) /\ pipe \in Seq(Int)

\* What the child has and what is in the buffer is the beginning of what was
\* accepted, byte by byte.
StdinStarts ==
    /\ Len(pipe) + Len(buffer) <= Len(accepted)
    /\ \A i \in 1 .. Len(pipe) : accepted[i] = pipe[i]
    /\ \A i \in 1 .. Len(buffer) : accepted[Len(pipe) + i] = buffer[i]

\* A writer that ends because no sender is left has an empty channel, and
\* nobody can fill it.
StdinClean ==
    clean =>
        /\ writer \in {"drain", "gone"} /\ (writer = "gone" => buffer = <<>>)
        /\ stdin_rx = <<>> /\ ~open /\ \A c \in Callers : calling[c] = <<>>

StdinInv ==
    /\ StdinTypes /\ StdinStarts /\ StdinClean
    /\ Stdin!EndToEnd(stdin_rx, accepted, Len(pipe) + Len(buffer))

\* A message is a sequence of bytes.
LEMMA MessageType ==
    ASSUME NEW n \in Int
    PROVE  Stdin!Message(n) \in Seq(Int)
<1>1. ASSUME NEW i \in 1 .. MessageSize
      PROVE  (n - 1) * MessageSize + i \in Int
  BY <1>1, StdinAssumption
<1>2. QED
  BY <1>1, StdinAssumption DEF Stdin!Message

\* Nothing was sent at first.
LEMMA StdinInit ==
    ASSUME Stdin!Init
    PROVE  StdinInv
<1>1. StdinTypes /\ StdinStarts /\ StdinClean
  BY DEF Stdin!Init, StdinTypes, StdinStarts, StdinClean
<1>2. Stdin!EndToEnd(<<>>, <<>>, 0)
  <2>1. PICK e : e = <<>>
    OBVIOUS
  <2>2. Len(e) = 0
    BY <2>1
  <2>3. PICK off : off = [i \in 1 .. 1 |-> 0]
    OBVIOUS
  <2>4. off \in [1 .. Len(e) + 1 -> 0 .. Len(e)] /\ off[1] = 0 /\ off[Len(e) + 1] = Len(e)
    BY <2>2, <2>3
  <2>5. \A i \in 1 .. Len(e) :
            /\ off[i + 1] = off[i] + Len(e[i])
            /\ \A j \in 1 .. Len(e[i]) : e[off[i] + j] = e[i][j]
    BY <2>2
  <2>6. Stdin!EndToEnd(e, e, 0)
    BY <2>4, <2>5 DEF Stdin!EndToEnd
  <2>7. QED
    BY <2>1, <2>6
<1>3. QED
  BY <1>1, <1>2 DEF StdinInv, Stdin!Init

\* A message that is accepted follows the last one of the channel.
LEMMA EndToEndAppend ==
    ASSUME NEW q \in Seq(Seq(Int)), NEW s \in Seq(Int), NEW k \in Int,
           NEW m \in Seq(Int), Stdin!EndToEnd(q, s, k)
    PROVE  Stdin!EndToEnd(Append(q, m), s \o m, k)
<1>1. PICK off \in [1 .. Len(q) + 1 -> 0 .. Len(s)] :
          /\ off[1] = k /\ off[Len(q) + 1] = Len(s)
          /\ \A i \in 1 .. Len(q) :
                /\ off[i + 1] = off[i] + Len(q[i])
                /\ \A j \in 1 .. Len(q[i]) : s[off[i] + j] = q[i][j]
  BY DEF Stdin!EndToEnd
<1>2. PICK t : t = s \o m
  OBVIOUS
<1>3. /\ t \in Seq(Int) /\ Len(t) = Len(s) + Len(m)
      /\ \A i \in 1 .. Len(s) : t[i] = s[i]
      /\ \A i \in 1 .. Len(m) : t[Len(s) + i] = m[i]
  BY <1>2
<1>4. PICK p : p = Append(q, m)
  OBVIOUS
<1>5. /\ p \in Seq(Seq(Int)) /\ Len(p) = Len(q) + 1 /\ p[Len(q) + 1] = m
      /\ \A i \in 1 .. Len(q) : p[i] = q[i]
  BY <1>4
<1>6. PICK new : new = [i \in 1 .. Len(p) + 1 |-> IF i <= Len(q) + 1 THEN off[i] ELSE Len(t)]
  OBVIOUS
<1>7. new \in [1 .. Len(p) + 1 -> 0 .. Len(t)]
  BY <1>1, <1>3, <1>5, <1>6
<1>8. new[1] = k /\ new[Len(p) + 1] = Len(t)
  BY <1>1, <1>3, <1>5, <1>6
<1>9. ASSUME NEW i \in 1 .. Len(p)
      PROVE  /\ new[i + 1] = new[i] + Len(p[i])
             /\ \A j \in 1 .. Len(p[i]) : t[new[i] + j] = p[i][j]
  <2>1. CASE i = Len(q) + 1
    <3>1. new[i] = Len(s) /\ new[i + 1] = Len(t) /\ p[i] = m
      <4>1. Len(q) \in Nat
        OBVIOUS
      <4>2. i \in 1 .. Len(p) + 1 /\ i + 1 \in 1 .. Len(p) + 1 /\ ~(i + 1 <= Len(q) + 1)
        BY <1>5, <2>1, <4>1
      <4>3. new[i] = off[Len(q) + 1] /\ new[i + 1] = Len(t)
        BY <1>6, <2>1, <4>1, <4>2
      <4>4. QED
        BY <1>1, <1>5, <2>1, <4>3
    <3>2. new[i + 1] = new[i] + Len(p[i])
      BY <1>3, <3>1
    <3>3. \A j \in 1 .. Len(p[i]) : t[new[i] + j] = p[i][j]
      BY <1>3, <3>1
    <3>4. QED
      BY <3>2, <3>3
  <2>2. CASE i \in 1 .. Len(q)
    <3>1. new[i] = off[i] /\ new[i + 1] = off[i + 1] /\ p[i] = q[i]
      <4>1. Len(q) \in Nat
        OBVIOUS
      <4>2. /\ i \in 1 .. Len(p) + 1 /\ i <= Len(q) + 1
            /\ i + 1 \in 1 .. Len(p) + 1 /\ i + 1 <= Len(q) + 1
        BY <1>5, <2>2, <4>1
      <4>3. new[i] = off[i] /\ new[i + 1] = off[i + 1]
        BY <1>6, <4>2
      <4>4. QED
        BY <1>5, <2>2, <4>3
    <3>2. off[i] \in 0 .. Len(s) /\ off[i + 1] \in 0 .. Len(s)
      <4>1. Len(q) \in Nat
        OBVIOUS
      <4>2. i \in 1 .. Len(q) + 1 /\ i + 1 \in 1 .. Len(q) + 1
        BY <2>2, <4>1
      <4>3. QED
        BY <4>2
    <3>3. q[i] \in Seq(Int)
      BY <2>2, ElementOfSeq
    <3>4. /\ off[i + 1] = off[i] + Len(q[i])
          /\ \A j \in 1 .. Len(q[i]) : s[off[i] + j] = q[i][j]
      BY <1>1, <2>2
    <3>5. ASSUME NEW j \in 1 .. Len(q[i])
          PROVE  t[off[i] + j] = q[i][j]
      <4>1. PICK a, b, l, z : a = off[i] /\ b = off[i + 1] /\ l = Len(q[i]) /\ z = Len(s)
        OBVIOUS
      <4>2. l \in Nat /\ z \in Nat
        BY <3>3, <4>1
      <4>3. a \in 0 .. z /\ b \in 0 .. z /\ b = a + l /\ j \in 1 .. l
        BY <3>2, <3>4, <4>1
      <4>4. a + j \in 1 .. z
        BY <4>2, <4>3
      <4>5. QED
        BY <1>3, <3>4, <4>1, <4>4
    <3>6. new[i + 1] = new[i] + Len(p[i])
      BY <3>1, <3>4
    <3>7. \A j \in 1 .. Len(p[i]) : t[new[i] + j] = p[i][j]
      BY <3>1, <3>5
    <3>8. QED
      BY <3>6, <3>7
  <2>3. i = Len(q) + 1 \/ i \in 1 .. Len(q)
    <3>1. Len(q) \in Nat
      OBVIOUS
    <3>2. QED
      BY <1>5, <3>1
  <2>4. QED
    BY <2>1, <2>2, <2>3
<1>10. Stdin!EndToEnd(p, t, k)
  BY <1>7, <1>8, <1>9 DEF Stdin!EndToEnd
<1>11. QED
  BY <1>2, <1>4, <1>10

\* The first message of the channel stands at its beginning, and without it the
\* others still follow one another.
LEMMA EndToEndTail ==
    ASSUME NEW q \in Seq(Seq(Int)), NEW s \in Seq(Int), NEW k \in Int,
           q # <<>>, Stdin!EndToEnd(q, s, k)
    PROVE  /\ k \in Nat /\ k + Len(Head(q)) <= Len(s)
           /\ \A j \in 1 .. Len(Head(q)) : s[k + j] = Head(q)[j]
           /\ Stdin!EndToEnd(Tail(q), s, k + Len(Head(q)))
<1>1. PICK off \in [1 .. Len(q) + 1 -> 0 .. Len(s)] :
          /\ off[1] = k /\ off[Len(q) + 1] = Len(s)
          /\ \A i \in 1 .. Len(q) :
                /\ off[i + 1] = off[i] + Len(q[i])
                /\ \A j \in 1 .. Len(q[i]) : s[off[i] + j] = q[i][j]
  BY DEF Stdin!EndToEnd
<1>2. Head(q) = q[1] /\ 1 \in 1 .. Len(q) /\ {1, 2} \subseteq 1 .. Len(q) + 1
  OBVIOUS
<1>3. /\ off[2] = k + Len(Head(q)) /\ k \in 0 .. Len(s) /\ off[2] \in 0 .. Len(s)
      /\ \A j \in 1 .. Len(Head(q)) : s[k + j] = Head(q)[j]
  <2>1. /\ off[1 + 1] = off[1] + Len(q[1])
        /\ \A j \in 1 .. Len(q[1]) : s[off[1] + j] = q[1][j]
    BY <1>1, <1>2
  <2>2. off[1] \in 0 .. Len(s) /\ off[2] \in 0 .. Len(s)
    BY <1>2
  <2>3. off[2] = k + Len(q[1]) /\ k \in 0 .. Len(s)
    BY <1>1, <2>1, <2>2
  <2>4. QED
    BY <1>1, <1>2, <2>1, <2>2, <2>3
<1>4. PICK p : p = Tail(q)
  OBVIOUS
<1>5. /\ p \in Seq(Seq(Int)) /\ Len(p) = Len(q) - 1
      /\ \A i \in 1 .. Len(p) : p[i] = q[i + 1]
  BY <1>4
<1>6. PICK new : new = [i \in 1 .. Len(p) + 1 |-> off[i + 1]]
  OBVIOUS
<1>7. new \in [1 .. Len(p) + 1 -> 0 .. Len(s)]
  <2>1. Len(q) \in Nat
    OBVIOUS
  <2>2. \A i \in 1 .. Len(p) + 1 : i + 1 \in 1 .. Len(q) + 1
    BY <1>5, <2>1
  <2>3. QED
    BY <1>6, <2>2
<1>8. new[1] = off[2] /\ new[Len(p) + 1] = Len(s)
  BY <1>1, <1>5, <1>6
<1>9. ASSUME NEW i \in 1 .. Len(p)
      PROVE  /\ new[i + 1] = new[i] + Len(p[i])
             /\ \A j \in 1 .. Len(p[i]) : s[new[i] + j] = p[i][j]
  <2>1. i + 1 \in 1 .. Len(q)
    BY <1>5
  <2>2. new[i] = off[i + 1] /\ new[i + 1] = off[(i + 1) + 1] /\ p[i] = q[i + 1]
    BY <1>5, <1>6
  <2>3. QED
    BY <1>1, <2>1, <2>2
<1>10. Stdin!EndToEnd(p, s, off[2])
  BY <1>7, <1>8, <1>9 DEF Stdin!EndToEnd
<1>11. QED
  BY <1>3, <1>4, <1>10

\* send_stdin: the message goes to the end of the channel and is accepted.
LEMMA StdinSent ==
    ASSUME StdinInv, NEW c \in Callers, Stdin!SendOk(c)
    PROVE  StdinInv'
<1>1. /\ calling[c] \in Seq(Int) /\ calling[c] # <<>>
      /\ stdin_rx' = Append(stdin_rx, calling[c]) /\ accepted' = accepted \o calling[c]
      /\ calling' = [calling EXCEPT ![c] = <<>>]
      /\ UNCHANGED <<calls, open, writer, buffer, cancelled, pipe, clean>>
  BY DEF Stdin!SendOk, StdinInv, StdinTypes
<1>2. StdinTypes'
  BY <1>1 DEF StdinInv, StdinTypes
<1>3. StdinStarts'
  <2>1. /\ Len(accepted') = Len(accepted) + Len(calling[c])
        /\ \A i \in 1 .. Len(accepted) : accepted'[i] = accepted[i]
    BY <1>1 DEF StdinInv, StdinTypes
  <2>2. /\ Len(pipe) \in Nat /\ Len(buffer) \in Nat /\ Len(accepted) \in Nat
        /\ Len(calling[c]) \in Nat
    BY <1>1 DEF StdinInv, StdinTypes
  <2>3. /\ \A i \in 1 .. Len(pipe) : i \in 1 .. Len(accepted)
        /\ \A i \in 1 .. Len(buffer) : Len(pipe) + i \in 1 .. Len(accepted)
    BY <2>2 DEF StdinInv, StdinStarts
  <2>4. QED
    BY <1>1, <2>1, <2>2, <2>3 DEF StdinInv, StdinStarts
<1>4. StdinClean'
  BY <1>1 DEF StdinInv, StdinClean
<1>5. Stdin!EndToEnd(stdin_rx', accepted', Len(pipe) + Len(buffer))
  BY <1>1, EndToEndAppend DEF StdinInv, StdinTypes
<1>6. QED
  BY <1>1, <1>2, <1>3, <1>4, <1>5 DEF StdinInv

\* A message moves from the channel to the end of the buffer.
LEMMA StdinReceived ==
    ASSUME StdinInv, Stdin!Receive
    PROVE  StdinInv'
<1>1. PICK m : m = Head(stdin_rx)
  OBVIOUS
<1>2. /\ m \in Seq(Int) /\ stdin_rx # <<>> /\ writer = "loop"
      /\ buffer' = buffer \o m /\ stdin_rx' = Tail(stdin_rx)
      /\ UNCHANGED <<calling, calls, open, accepted, writer, cancelled, pipe, clean>>
  BY <1>1 DEF Stdin!Receive, Stdin!callVars, StdinInv, StdinTypes
<1>3. StdinTypes'
  BY <1>2 DEF StdinInv, StdinTypes
<1>4. PICK k : k = Len(pipe) + Len(buffer)
  OBVIOUS
<1>5. /\ k \in Nat /\ k + Len(m) <= Len(accepted)
      /\ \A j \in 1 .. Len(m) : accepted[k + j] = m[j]
      /\ Stdin!EndToEnd(stdin_rx', accepted, k + Len(m))
  <2>1. /\ stdin_rx \in Seq(Seq(Int)) /\ accepted \in Seq(Int) /\ k \in Int
        /\ stdin_rx # <<>> /\ Stdin!EndToEnd(stdin_rx, accepted, k)
    BY <1>2, <1>4 DEF StdinInv, StdinTypes
  <2>2. QED
    BY <1>1, <1>2, <2>1, EndToEndTail
<1>6. PICK b : b = buffer \o m
  OBVIOUS
<1>7. /\ Len(b) = Len(buffer) + Len(m)
      /\ \A i \in 1 .. Len(buffer) : b[i] = buffer[i]
      /\ \A j \in 1 .. Len(m) : b[Len(buffer) + j] = m[j]
  BY <1>2, <1>6 DEF StdinInv, StdinTypes
<1>8. ASSUME NEW i \in 1 .. Len(b)
      PROVE  accepted[Len(pipe) + i] = b[i]
  <2>1. CASE i \in 1 .. Len(buffer)
    BY <1>7, <2>1 DEF StdinInv, StdinStarts
  <2>2. CASE i \notin 1 .. Len(buffer)
    <3>1. PICK j \in 1 .. Len(m) : i = Len(buffer) + j
      <4>1. i - Len(buffer) \in 1 .. Len(m) /\ i = Len(buffer) + (i - Len(buffer))
        BY <1>2, <1>7, <2>2 DEF StdinInv, StdinTypes
      <4>2. QED
        BY <4>1
    <3>2. Len(pipe) + i = k + j
      BY <1>2, <1>4, <3>1 DEF StdinInv, StdinTypes
    <3>3. QED
      BY <1>5, <1>7, <3>1, <3>2
  <2>3. QED
    BY <2>1, <2>2
<1>9. Len(pipe) + Len(b) = k + Len(m)
  BY <1>2, <1>4, <1>7 DEF StdinInv, StdinTypes
<1>10. StdinStarts'
  BY <1>2, <1>5, <1>6, <1>8, <1>9 DEF StdinInv, StdinStarts
<1>11. StdinClean'
  BY <1>2 DEF StdinInv, StdinClean
<1>12. QED
  BY <1>2, <1>3, <1>5, <1>6, <1>9, <1>10, <1>11 DEF StdinInv

\* The pipe takes the first bytes of the buffer.
LEMMA StdinWritten ==
    ASSUME StdinInv, NEW n \in Int, Stdin!Write(n)
    PROVE  StdinInv'
<1>1. /\ n \in 1 .. Len(buffer)
      /\ pipe' = pipe \o SubSeq(buffer, 1, n)
      /\ buffer' = SubSeq(buffer, n + 1, Len(buffer))
      /\ UNCHANGED <<calling, calls, open, accepted, stdin_rx, writer, cancelled, clean>>
  BY DEF Stdin!Write, Stdin!callVars
<1>2. pipe \in Seq(Int) /\ buffer \in Seq(Int)
  BY DEF StdinInv, StdinTypes
<1>3. PICK w : w = SubSeq(buffer, 1, n)
  OBVIOUS
<1>4. w \in Seq(Int) /\ Len(w) = n /\ \A i \in 1 .. n : w[i] = buffer[i]
  BY <1>1, <1>2, <1>3
<1>5. PICK b : b = SubSeq(buffer, n + 1, Len(buffer))
  OBVIOUS
<1>6. /\ b \in Seq(Int) /\ Len(b) = Len(buffer) - n
      /\ \A i \in 1 .. Len(b) : b[i] = buffer[n + i]
  <2>1. Len(buffer) \in Nat /\ n \in Int /\ n + 1 \in Int
    BY <1>1, <1>2
  <2>2. \A i \in n + 1 .. Len(buffer) : buffer[i] \in Int
    BY <1>1, <1>2, <2>1
  <2>3. /\ b \in Seq(Int)
        /\ Len(b) = IF n + 1 <= Len(buffer) THEN Len(buffer) - (n + 1) + 1 ELSE 0
        /\ \A i \in 1 .. Len(buffer) - (n + 1) + 1 : b[i] = buffer[(n + 1) + i - 1]
    BY <1>5, <2>1, <2>2, SubSeqProperties
  <2>4. QED
    BY <1>1, <2>1, <2>3
<1>7. PICK p : p = pipe \o w
  OBVIOUS
<1>8. /\ p \in Seq(Int) /\ Len(p) = Len(pipe) + n
      /\ \A i \in 1 .. Len(pipe) : p[i] = pipe[i]
      /\ \A i \in 1 .. n : p[Len(pipe) + i] = w[i]
  <2>1. /\ p \in Seq(Int) /\ Len(p) = Len(pipe) + Len(w)
        /\ \A i \in 1 .. Len(pipe) + Len(w) :
               p[i] = IF i <= Len(pipe) THEN pipe[i] ELSE w[i - Len(pipe)]
    BY <1>2, <1>4, <1>7, ConcatProperties
  <2>2. Len(pipe) \in Nat /\ n \in Nat
    BY <1>1, <1>2
  <2>3. ASSUME NEW i \in 1 .. n
        PROVE  p[Len(pipe) + i] = w[i]
    <3>1. /\ Len(pipe) + i \in 1 .. Len(pipe) + Len(w) /\ ~(Len(pipe) + i <= Len(pipe))
          /\ (Len(pipe) + i) - Len(pipe) = i
      BY <1>4, <2>2
    <3>2. QED
      BY <2>1, <3>1
  <2>4. QED
    BY <1>4, <2>1, <2>2, <2>3
<1>9. pipe' = p /\ buffer' = b
  BY <1>1, <1>3, <1>5, <1>7
<1>10. Len(p) + Len(b) = Len(pipe) + Len(buffer)
  BY <1>1, <1>2, <1>6, <1>8
<1>11. ASSUME NEW i \in 1 .. Len(p)
       PROVE  accepted[i] = p[i]
  <2>1. CASE i \in 1 .. Len(pipe)
    BY <1>8, <2>1 DEF StdinInv, StdinStarts
  <2>2. CASE i \notin 1 .. Len(pipe)
    <3>1. PICK j \in 1 .. n : i = Len(pipe) + j
      <4>1. i - Len(pipe) \in 1 .. n /\ i = Len(pipe) + (i - Len(pipe))
        BY <1>1, <1>2, <1>8, <2>2
      <4>2. QED
        BY <4>1
    <3>2. j \in 1 .. Len(buffer)
      BY <1>1, <1>2, <3>1
    <3>3. accepted[Len(pipe) + j] = buffer[j]
      BY <3>2 DEF StdinInv, StdinStarts
    <3>4. QED
      BY <1>4, <1>8, <3>1, <3>3
  <2>3. QED
    BY <2>1, <2>2
<1>12. ASSUME NEW i \in 1 .. Len(b)
       PROVE  accepted[Len(p) + i] = b[i]
  <2>1. n + i \in 1 .. Len(buffer) /\ Len(p) + i = Len(pipe) + (n + i)
    BY <1>1, <1>2, <1>6, <1>8
  <2>2. accepted[Len(pipe) + (n + i)] = buffer[n + i]
    BY <2>1 DEF StdinInv, StdinStarts
  <2>3. QED
    BY <1>6, <2>1, <2>2
<1>13. StdinTypes'
  BY <1>1, <1>6, <1>8, <1>9 DEF StdinInv, StdinTypes
<1>14. StdinStarts'
  BY <1>1, <1>9, <1>10, <1>11, <1>12 DEF StdinInv, StdinStarts
<1>15. StdinClean'
  <2>1. CASE ~clean
    BY <1>1, <2>1 DEF StdinClean
  <2>2. CASE clean
    <3>1. writer = "drain"
      BY <2>2 DEF Stdin!Write, StdinInv, StdinClean
    <3>2. QED
      BY <1>1, <2>2, <3>1 DEF StdinInv, StdinClean
  <2>3. QED
    BY <2>1, <2>2
<1>16. QED
  BY <1>1, <1>9, <1>10, <1>13, <1>14, <1>15 DEF StdinInv

\* The other steps move no byte.
LEMMA StdinKept ==
    ASSUME StdinInv, [Stdin!Next]_(Stdin!vars)
    PROVE  StdinInv'
<1>1. ASSUME UNCHANGED <<stdin_rx, accepted, buffer, pipe>>, StdinClean',
             calling' \in [Callers -> Seq(Int)], calls' \in Int
      PROVE  StdinInv'
  BY <1>1 DEF StdinInv, StdinTypes, StdinStarts
<1>2. CASE UNCHANGED Stdin!vars
  BY <1>1, <1>2 DEF Stdin!vars, StdinInv, StdinTypes, StdinClean
<1>3. ASSUME NEW c \in Callers, Stdin!SendStdin(c)
      PROVE  StdinInv'
  <2>1. Stdin!Message(calls + 1) \in Seq(Int)
    BY MessageType DEF StdinInv, StdinTypes
  <2>2. QED
    BY <1>1, <1>3, <2>1 DEF Stdin!SendStdin, StdinInv, StdinTypes, StdinClean
<1>4. ASSUME NEW c \in Callers, Stdin!SendFails(c)
      PROVE  StdinInv'
  BY <1>1, <1>4 DEF Stdin!SendFails, StdinInv, StdinTypes, StdinClean
<1>5. CASE Stdin!ForgetSender \/ Stdin!Cancel
  BY <1>1, <1>5 DEF Stdin!ForgetSender, Stdin!Cancel, Stdin!callVars, StdinInv, StdinTypes,
      StdinClean
<1>6. CASE Stdin!Closed \/ Stdin!Breaks
  BY <1>1, <1>6 DEF Stdin!Closed, Stdin!Breaks, Stdin!callVars, StdinInv, StdinTypes,
      StdinClean
<1>7. CASE Stdin!DrainEnds
  BY <1>1, <1>7 DEF Stdin!DrainEnds, Stdin!callVars, StdinInv, StdinTypes, StdinClean
<1>8. ASSUME NEW n \in 1 .. BufferLimit + MessageSize, Stdin!Write(n)
      PROVE  StdinInv'
  <2>1. n \in Int
    BY DEF Stdin!Write
  <2>2. QED
    BY <1>8, <2>1, StdinWritten
<1>9. QED
  BY <1>2, <1>3, <1>4, <1>5, <1>6, <1>7, <1>8, StdinSent, StdinReceived DEF Stdin!Next

\* The invariant says what the child receives.
LEMMA StdinSays ==
    ASSUME StdinInv
    PROVE  StdinInOrder
<1>1. pipe \in Seq(Int) /\ buffer \in Seq(Int) /\ accepted \in Seq(Int)
  BY DEF StdinInv, StdinTypes
<1>2. PICK p : p = pipe \o buffer
  OBVIOUS
<1>3. /\ p \in Seq(Int) /\ Len(p) = Len(pipe) + Len(buffer)
      /\ \A i \in 1 .. Len(pipe) : p[i] = pipe[i]
      /\ \A i \in 1 .. Len(buffer) : p[Len(pipe) + i] = buffer[i]
  BY <1>1, <1>2
<1>4. ASSUME NEW i \in 1 .. Len(p)
      PROVE  accepted[i] = p[i]
  <2>1. CASE i \in 1 .. Len(pipe)
    BY <1>3, <2>1 DEF StdinInv, StdinStarts
  <2>2. CASE i \notin 1 .. Len(pipe)
    <3>1. i - Len(pipe) \in 1 .. Len(buffer) /\ Len(pipe) + (i - Len(pipe)) = i
      BY <1>1, <1>3, <2>2
    <3>2. PICK j \in 1 .. Len(buffer) : Len(pipe) + j = i
      BY <3>1
    <3>3. QED
      BY <1>3, <3>2 DEF StdinInv, StdinStarts
  <2>3. QED
    BY <2>1, <2>2
<1>5. Len(p) <= Len(accepted)
  BY <1>3 DEF StdinInv, StdinStarts
<1>6. SubSeq(p, 1, Len(p)) = SubSeq(accepted, 1, Len(p))
  <2>1. Len(p) \in Nat /\ Len(accepted) \in Nat
    BY <1>1, <1>3
  <2>2. \A i \in 1 .. Len(p) : p[i] \in Int /\ accepted[i] \in Int
    BY <1>1, <1>3, <1>5, <2>1
  <2>3. PICK u, v : u = SubSeq(p, 1, Len(p)) /\ v = SubSeq(accepted, 1, Len(p))
    OBVIOUS
  <2>4. /\ u \in Seq(Int) /\ Len(u) = (IF 1 <= Len(p) THEN Len(p) - 1 + 1 ELSE 0)
        /\ \A i \in 1 .. Len(p) - 1 + 1 : u[i] = p[1 + i - 1]
    BY <2>1, <2>2, <2>3, SubSeqProperties
  <2>5. /\ v \in Seq(Int) /\ Len(v) = (IF 1 <= Len(p) THEN Len(p) - 1 + 1 ELSE 0)
        /\ \A i \in 1 .. Len(p) - 1 + 1 : v[i] = accepted[1 + i - 1]
    BY <2>1, <2>2, <2>3, SubSeqProperties
  <2>6. Len(u) = Len(v) /\ \A i \in 1 .. Len(u) : u[i] = v[i]
    BY <1>4, <2>1, <2>4, <2>5
  <2>7. u = v
    BY <2>4, <2>5, <2>6, SeqEqual
  <2>8. QED
    BY <2>3, <2>7
<1>7. Stdin!IsPrefix(p, accepted)
  BY <1>5, <1>6 DEF Stdin!IsPrefix
<1>8. ASSUME writer = "gone", clean
      PROVE  pipe = accepted
  <2>1. buffer = <<>> /\ stdin_rx = <<>>
    BY <1>8 DEF StdinInv, StdinClean
  <2>2. Len(pipe) = Len(accepted)
    <3>1. Len(buffer) = 0 /\ Len(stdin_rx) = 0
      BY <2>1
    <3>2. PICK off : off[1] = Len(pipe) + Len(buffer) /\ off[Len(stdin_rx) + 1] = Len(accepted)
      BY DEF StdinInv, Stdin!EndToEnd
    <3>3. QED
      BY <1>1, <3>1, <3>2
  <2>3. \A i \in 1 .. Len(pipe) : accepted[i] = pipe[i]
    BY DEF StdinInv, StdinStarts
  <2>4. QED
    BY <1>1, <2>2, <2>3, SeqEqual
<1>9. QED
  BY <1>2, <1>7, <1>8 DEF StdinInv, StdinInOrder, Stdin!StdinInOrder

\* send_stdin and spawn_stdin_writer: for messages of any size, any number of
\* callers and every capacity of channel and buffer, the child gets the bytes of
\* the accepted calls once and in order, however the pipe splits them.
THEOREM StdinKeepsOrder == Spec => []StdinInOrder
<1>1. Init => StdinInv
  BY StdinInit DEF Init
<1>2. [Next]_vars => [Stdin!Next]_(Stdin!vars)
  BY DEF Next, WatchStep, DaemonStep, StdinStep, vars, stdinVars, Stdin!vars
<1>3. StdinInv /\ [Next]_vars => StdinInv'
  BY <1>2, StdinKept
<1>4. StdinInv => StdinInOrder
  BY StdinSays
<1>5. QED
  BY <1>1, <1>3, <1>4, PTL DEF Spec
=============================================================================
