---------------------------- MODULE ServerProofs ----------------------------
(***************************************************************************)
(* Proofs about what the daemon serves to its HTTP clients, as parts of    *)
(* Server: the sessions of the login, the activity tracker, and the        *)
(* requests with the events they wait for and the answers they get.  They  *)
(* hold for any number of listeners, clients, sessions and samplers, every *)
(* lifetime of a session and every idle period; for any programs, any      *)
(* requests that have a handler and every size of the manager's channel    *)
(* and of a subscriber's queue.                                            *)
(***************************************************************************)
EXTENDS Server, FiniteSetTheorems, TLAPS

-----------------------------------------------------------------------------
(* Sessions.                                                               *)

\* A session in use has left what it was not unused; all others have nothing.
SessionInv ==
    /\ sessions \in [SessionIds -> 0 .. Ttl] /\ unused \in [SessionIds -> 0 .. Ttl]
    /\ issued \subseteq SessionIds /\ ended \subseteq issued
    /\ \A id \in SessionIds :
           sessions[id] = IF id \in issued \ ended THEN Ttl - unused[id] ELSE 0

\* Nobody is logged in at first.
LEMMA SessionInit ==
    ASSUME Auth!Init
    PROVE  SessionInv
BY ServerAssumption DEF Auth!Init, SessionInv

\* Presenting a session renews it if it is valid, and changes nothing else.
LEMMA SessionPresented ==
    ASSUME SessionInv, NEW id \in Auth!Cookies, Auth!Validate(id),
           UNCHANGED <<issued, ended>>
    PROVE  SessionInv'
<1>1. ASSUME NEW i \in SessionIds
      PROVE  /\ sessions'[i] \in 0 .. Ttl /\ unused'[i] \in 0 .. Ttl
             /\ sessions'[i] = IF i \in issued \ ended THEN Ttl - unused'[i] ELSE 0
  BY ServerAssumption DEF SessionInv, Auth!Validate, Auth!Pruned, Auth!ValidSession
<1>2. /\ sessions' = [i \in SessionIds |-> sessions'[i]]
      /\ unused' = [i \in SessionIds |-> unused'[i]]
  BY DEF SessionInv, Auth!Validate, Auth!Pruned
<1>3. QED
  BY <1>1, <1>2 DEF SessionInv

\* Every step keeps the books.
LEMMA SessionStep ==
    ASSUME SessionInv, [Auth!Next]_(Auth!vars)
    PROVE  SessionInv'
<1>1. CASE UNCHANGED Auth!vars
  BY <1>1 DEF Auth!vars, SessionInv
<1>2. ASSUME NEW l \in Sockets, NEW basic \in BOOLEAN, NEW token \in BOOLEAN,
             Auth!AuthLogin(l, basic, token)
      PROVE  SessionInv'
  <2>1. CASE UNCHANGED <<sessions, issued, ended, unused>>
    BY <2>1 DEF SessionInv
  <2>2. CASE \E id \in SessionIds \ issued :
                /\ sessions' = [sessions EXCEPT ![id] = Ttl]
                /\ issued' = issued \cup {id}
                /\ unused' = [unused EXCEPT ![id] = 0]
                /\ UNCHANGED ended
    BY <2>2, ServerAssumption DEF SessionInv
  <2>3. QED
    BY <1>2, <2>1, <2>2 DEF Auth!AuthLogin
<1>3. ASSUME NEW l \in Sockets, NEW basic \in BOOLEAN, NEW token \in BOOLEAN,
             NEW tier \in Auth!Tiers, NEW id \in Auth!Cookies,
             Auth!Middleware(l, tier, basic, token, id)
      PROVE  SessionInv'
  <2>1. UNCHANGED <<issued, ended>>
    BY <1>3 DEF Auth!Middleware
  <2>2. CASE Auth!Validate(id)
    BY <2>1, <2>2, SessionPresented
  <2>3. CASE UNCHANGED <<sessions, unused>>
    BY <2>1, <2>3 DEF SessionInv
  <2>4. QED
    BY <1>3, <2>2, <2>3 DEF Auth!Middleware
<1>4. ASSUME NEW l \in Sockets, NEW id \in Auth!Cookies, Auth!AuthConfig(l, id)
      PROVE  SessionInv'
  BY <1>4, SessionPresented DEF Auth!AuthConfig
<1>5. ASSUME NEW l \in Sockets, NEW id \in Auth!Cookies, Auth!AuthLogout(l, id)
      PROVE  SessionInv'
  BY <1>5, ServerAssumption DEF SessionInv, Auth!AuthLogout, Auth!Cookies
<1>6. CASE Auth!Tick
  BY <1>6, ServerAssumption DEF SessionInv, Auth!Tick
<1>7. QED
  BY <1>1, <1>2, <1>3, <1>4, <1>5, <1>6 DEF Auth!Next

\* What a guarded request that was let through has shown.
Shown ==
    (request'.passed /\ Auth!IsGuarded(request'.tier)) =>
        \/ ~Auth!IsAuthConfigured(request'.listener)
        \/ Auth!HasCredentials(request')
        \/ /\ request'.session \in issued \ ended
           /\ unused[request'.session] < Ttl

\* Every step that lets a guarded request through has seen it.
LEMMA GuardStep ==
    ASSUME SessionInv, Auth!Next
    PROVE  Shown
<1> USE DEF Shown, Auth!IsGuarded
<1>1. ASSUME NEW l \in Sockets, NEW basic \in BOOLEAN, NEW token \in BOOLEAN,
             Auth!AuthLogin(l, basic, token)
      PROVE  Shown
  <2>1. request'.tier = "auth"
    BY <1>1 DEF Auth!AuthLogin
  <2>2. QED
    BY <2>1
<1>2. ASSUME NEW l \in Sockets, NEW basic \in BOOLEAN, NEW token \in BOOLEAN,
             NEW tier \in Auth!Tiers, NEW id \in Auth!Cookies,
             Auth!Middleware(l, tier, basic, token, id)
      PROVE  Shown
  <2>1. /\ request'.listener = l /\ request'.tier = tier /\ request'.session = id
        /\ request'.basic = basic /\ request'.token = token
        /\ request'.passed = (~Auth!IsGuarded(tier) \/ Auth!Authorize(l, basic, token, id))
    BY <1>2 DEF Auth!Middleware
  <2>2. SUFFICES ASSUME Auth!Authorize(l, basic, token, id)
                 PROVE  \/ ~Auth!IsAuthConfigured(l)
                        \/ Auth!HasCredentials(request')
                        \/ id \in issued \ ended /\ unused[id] < Ttl
    BY <2>1
  <2>3. CASE Auth!ValidSession(id)
    <3>1. id \in SessionIds /\ sessions[id] > 0
      BY <2>3 DEF Auth!ValidSession, Auth!Cookies, SessionInv
    <3>2. id \in issued \ ended /\ Ttl - unused[id] > 0 /\ unused[id] \in 0 .. Ttl
      BY <3>1 DEF SessionInv
    <3>3. QED
      BY <3>2, ServerAssumption
  <2>4. CASE setting.token /\ token
    BY <2>1, <2>4 DEF Auth!HasCredentials
  <2>5. CASE setting.basic[l] /\ basic
    BY <2>1, <2>5 DEF Auth!HasCredentials
  <2>6. QED
    BY <2>2, <2>3, <2>4, <2>5 DEF Auth!Authorize
<1>3. ASSUME NEW l \in Sockets, NEW id \in Auth!Cookies,
             Auth!AuthConfig(l, id) \/ Auth!AuthLogout(l, id)
      PROVE  Shown
  <2>1. request'.tier = "auth"
    BY <1>3 DEF Auth!AuthConfig, Auth!AuthLogout, Auth!NoRequest
  <2>2. QED
    BY <2>1
<1>4. CASE Auth!Tick
  <2>1. request'.tier = "static"
    BY <1>4 DEF Auth!Tick, Auth!NoRequest
  <2>2. QED
    BY <2>1
<1>5. QED
  BY <1>1, <1>2, <1>3, <1>4 DEF Auth!Next

\* A session opens exactly what it should, exactly as long as it should
\* (http_auth_middleware, validate_session, auth_login, auth_logout): on every
\* run, for any listeners, settings and lifetime.
THEOREM SessionsHold == ServerSpec => SessionsSound
<1>. USE ServerAssumption
<1>1. ServerInit => SessionInv
  BY SessionInit DEF ServerInit
<1>2. [ServerNext]_serverVars => [Auth!Next]_(Auth!vars)
  BY DEF ServerNext, ActionsStep, AuthStep, TrackerStep, PoolStep, serverVars, authVars, Auth!vars
<1>3. SessionInv /\ [ServerNext]_serverVars => SessionInv'
  BY <1>2, SessionStep
<1>4. SessionInv => Auth!SessionKept
  BY DEF SessionInv, Auth!SessionKept
<1>5. SessionInv /\ [ServerNext]_serverVars => [Shown]_(Auth!vars)
  BY <1>2, GuardStep
<1>6. ServerSpec => []Auth!SessionKept
  BY <1>1, <1>3, <1>4, PTL DEF ServerSpec
<1>7. ServerSpec => [][Shown]_(Auth!vars)
  BY <1>1, <1>3, <1>5, PTL DEF ServerSpec
<1>8. QED
  BY <1>6, <1>7 DEF SessionsSound, Auth!SessionsSound, Auth!GuardedRequests, Shown

-----------------------------------------------------------------------------
(* The activity tracker.                                                   *)

Open == {c \in Clients : streaming[c]}

\* Between the write and the notify of a call somebody counts as active, and
\* a sampler that has taken its sample in a dormant time is past looking.
DormantInv ==
    /\ idle \in 0 .. IdleTimeout /\ observers = Cardinality(Open)
    /\ step \in [Clients -> {"idle", "record", "notify", "enter", "counted"}]
    /\ streaming \in [Clients -> BOOLEAN]
    /\ \A c \in Clients : step[c] = "enter" => ~streaming[c]
    /\ \A c \in Clients : step[c] = "notify" => idle < IdleTimeout
    /\ sampler \in [Samplers -> {"look", "ticking", "arming", "waiting", "woken"}]
    /\ surplus \in [Samplers -> {0, 1}]
    /\ \A s \in Samplers : surplus[s] # 0 =>
           ~Tracker!IsMetricsActive /\ sampler[s] \in {"look", "arming", "waiting"}

\* Activity counts with the same Cardinality.
LEMMA SameCount == Tracker!Cardinality(Open) = Cardinality(Open)
BY DEF Tracker!Cardinality, Cardinality

\* Everybody is active at first, and no stream is open.
LEMMA DormantInit ==
    ASSUME Tracker!Init
    PROVE  DormantInv
<1>1. Open = {}
  BY DEF Open, Tracker!Init
<1>2. observers = Cardinality(Open)
  BY <1>1, FS_EmptySet DEF Tracker!Init
<1>3. QED
  BY <1>2, ServerAssumption DEF Tracker!Init, DormantInv

\* The requests, and the streams they open and close.
LEMMA DormantRequest ==
    ASSUME DormantInv, NEW c \in Clients,
           Tracker!Request(c) \/ Tracker!EnterStream(c) \/ Tracker!LeaveStream(c)
    PROVE  DormantInv'
<1>1. IsFiniteSet(Open) /\ observers \in Nat
  <2>1. IsFiniteSet(Open)
    BY FS_Subset, ServerAssumption DEF Open
  <2>2. QED
    BY <2>1, FS_CardinalityType DEF DormantInv
<1>2. CASE Tracker!RecordLook(c) \/ Tracker!EnterStream(c)
  <2>1. UNCHANGED <<idle, observers, streaming, sampler, surplus>> /\ Open' = Open
    BY <1>2 DEF Tracker!RecordLook, Tracker!EnterStream, Open
  <2>2. \/ step' = [step EXCEPT ![c] = "record"]
        \/ step' = [step EXCEPT ![c] = "enter"] /\ ~streaming[c]
    BY <1>2 DEF Tracker!RecordLook, Tracker!EnterStream, Tracker!Go
  <2>3. QED
    BY <2>1, <2>2 DEF DormantInv, Tracker!IsMetricsActive
<1>3. CASE Tracker!RecordWrite(c)
  <2>1. /\ UNCHANGED <<observers, streaming, sampler>> /\ Open' = Open
        /\ idle' = 0 /\ step' = [step EXCEPT ![c] = "notify"]
        /\ surplus' = [s \in Samplers |-> 0]
    BY <1>3 DEF Tracker!RecordWrite, Tracker!Go, Open
  <2>2. QED
    BY <2>1, ServerAssumption DEF DormantInv
<1>4. CASE Tracker!RecordNotify(c)
  <2>1. /\ UNCHANGED <<idle, observers, streaming, surplus>> /\ Open' = Open
        /\ step' = [step EXCEPT ![c] = "idle"] /\ step[c] = "notify"
    BY <1>4 DEF Tracker!RecordNotify, Tracker!Go, Open
  <2>2. Tracker!IsMetricsActive
    BY <2>1 DEF DormantInv, Tracker!IsMetricsActive
  <2>3. \A s \in Samplers : surplus[s] = 0
    BY <2>2 DEF DormantInv
  <2>4. sampler' \in [Samplers -> {"look", "ticking", "arming", "waiting", "woken"}]
    BY <1>4 DEF Tracker!RecordNotify, Tracker!NotifyWaiters, DormantInv
  <2>5. QED
    BY <2>1, <2>3, <2>4 DEF DormantInv
<1>5. CASE Tracker!CountStream(c)
  <2>1. /\ UNCHANGED <<idle, sampler>> /\ observers' = observers + 1
        /\ streaming' = [streaming EXCEPT ![c] = TRUE] /\ step[c] = "enter"
        /\ step' = [step EXCEPT ![c] = "counted"] /\ surplus' = [s \in Samplers |-> 0]
    BY <1>5 DEF Tracker!CountStream, Tracker!Go
  <2>2. c \notin Open /\ Open' = Open \cup {c}
    BY <2>1 DEF DormantInv, Open
  <2>3. observers' = Cardinality(Open')
    BY <1>1, <2>1, <2>2, FS_AddElement DEF DormantInv
  <2>4. QED
    BY <2>1, <2>3 DEF DormantInv
<1>6. CASE Tracker!LeaveStream(c)
  <2>1. /\ UNCHANGED <<idle, step, sampler, surplus>> /\ observers' = observers - 1
        /\ streaming' = [streaming EXCEPT ![c] = FALSE] /\ streaming[c]
    BY <1>6 DEF Tracker!LeaveStream
  <2>2. c \in Open /\ Open' = Open \ {c}
    BY <2>1 DEF DormantInv, Open
  <2>3. observers' = Cardinality(Open')
    BY <1>1, <2>1, <2>2, FS_RemoveElement DEF DormantInv
  <2>4. Tracker!IsMetricsActive' => Tracker!IsMetricsActive
    BY <1>1, <2>1 DEF Tracker!IsMetricsActive, DormantInv
  <2>5. QED
    BY <2>1, <2>3, <2>4 DEF DormantInv
<1>7. QED
  BY <1>2, <1>3, <1>4, <1>5, <1>6 DEF Tracker!Request

\* The metrics branches of the actors.
LEMMA DormantSampling ==
    ASSUME DormantInv, NEW s \in Samplers, Tracker!Sampling(s)
    PROVE  DormantInv'
<1>1. /\ UNCHANGED <<idle, observers, step, streaming>> /\ Open' = Open
      /\ Tracker!IsMetricsActive' <=> Tracker!IsMetricsActive
  BY DEF Tracker!Sampling, Tracker!Look, Tracker!MetricsTick, Tracker!Arm, Tracker!Woken,
         Open, Tracker!IsMetricsActive
<1>2. CASE Tracker!Look(s) \/ Tracker!Arm(s)
  <2>1. /\ surplus' = surplus
        /\ \/ /\ sampler' = [sampler EXCEPT ![s] = "ticking"] /\ Tracker!IsMetricsActive
           \/ sampler' = [sampler EXCEPT ![s] = "arming"]
           \/ sampler' = [sampler EXCEPT ![s] = "waiting"]
    BY <1>2 DEF Tracker!Look, Tracker!Arm
  <2>2. QED
    BY <1>1, <2>1 DEF DormantInv
<1>3. CASE Tracker!MetricsTick(s) \/ Tracker!Woken(s)
  <2>1. /\ sampler' = [sampler EXCEPT ![s] = "look"]
        /\ sampler[s] \in {"ticking", "woken"} /\ Tracker!Sample(s)
    BY <1>3 DEF Tracker!MetricsTick, Tracker!Woken
  <2>2. surplus[s] = 0
    BY <2>1 DEF DormantInv
  <2>3. \/ Tracker!IsMetricsActive /\ surplus' = surplus
        \/ ~Tracker!IsMetricsActive /\ surplus' = [surplus EXCEPT ![s] = 1]
    BY <2>1, <2>2 DEF Tracker!Sample, DormantInv
  <2>4. QED
    BY <1>1, <2>1, <2>3 DEF DormantInv
<1>4. QED
  BY <1>2, <1>3 DEF Tracker!Sampling

\* Tracker!Sampling can pause: the observers are the open streams, however requests,
\* streams and samplers interleave, and a dormant actor takes at most one sample
\* (enter_stream, record_activity, is_metrics_active).
THEOREM TrackerDormant == ServerSpec => []DormantWhenIdle
<1>. USE ServerAssumption
<1>1. ServerInit => DormantInv
  BY DormantInit DEF ServerInit
<1>2. DormantInv /\ [ServerNext]_serverVars => DormantInv'
  <2> SUFFICES ASSUME DormantInv, [ServerNext]_serverVars PROVE DormantInv'
    OBVIOUS
  <2>0. [Tracker!Next]_(Tracker!vars)
    BY DEF ServerNext, ActionsStep, AuthStep, TrackerStep, PoolStep, serverVars,
           activityVars, Tracker!vars
  <2>1. CASE UNCHANGED Tracker!vars
    BY <2>1 DEF Tracker!vars, DormantInv, Open, Tracker!IsMetricsActive
  <2>2. CASE Tracker!Tick
    <3>1. /\ UNCHANGED <<observers, step, streaming, sampler, surplus>> /\ Open' = Open
          /\ idle' = IF idle < IdleTimeout THEN idle + 1 ELSE IdleTimeout
          /\ idle + 1 < IdleTimeout \/ \A c \in Clients : step[c] # "notify"
      BY <2>2 DEF Tracker!Tick, Open
    <3>2. idle' \in 0 .. IdleTimeout /\ (idle + 1 < IdleTimeout => idle' < IdleTimeout)
      BY <3>1 DEF DormantInv
    <3>3. Tracker!IsMetricsActive' => Tracker!IsMetricsActive
      BY <3>1 DEF DormantInv, Tracker!IsMetricsActive
    <3>4. QED
      BY <3>1, <3>2, <3>3 DEF DormantInv
  <2>3. QED
    BY <2>0, <2>1, <2>2, DormantRequest, DormantSampling DEF Tracker!Next
<1>3. DormantInv => DormantWhenIdle
  <2>1. DormantInv => observers = Cardinality({c \in Clients : streaming[c]})
    BY DEF DormantInv, Open
  <2>2. DormantInv => \A s \in Samplers : surplus[s] < 2
    BY DEF DormantInv
  <2>3. QED
    BY <2>1, <2>2, SameCount DEF DormantWhenIdle, Tracker!DormantWhenIdle, Open
<1>4. QED
  BY <1>1, <1>2, <1>3, PTL DEF ServerSpec
-----------------------------------------------------------------------------
(* Requests: what is under way for a client.                               *)

States  == {"Stopped", "Starting", "Running", "Backoff", "Stopping", "Exited", "Fatal"}
Steps   == {"act", "subscribe", "recheck", "wait", "final", "lagcheck", "check", "spawn",
            "survey", "query"}
Bulk    == {"start_all", "stop_all"}
Groups  == {"start_group", "stop_group", "restart_group"}
ActOps  == {"start", "stop", "restart", "signal"} \cup Groups \cup Bulk
Asking  == {"status", "all_status", "query"}
Posed   == UNION {Requests[c] : c \in Clients}
Names   == {Group} \cup {r.name : r \in Posed}
Answers == {"none", "ok", "accepted", "not_found", "already_started", "not_running",
            "bad_request", "error"}
Codes   == {"none", "sent", "ok", "not_found", "err"}
Callers == Clients \cup {Actions!Nobody}

CommandType == [op : ActOps \cup Asking, name : Names, from : Callers, by : Clients]
ServingType == [op : ActOps, left : SUBSET Programs, again : BOOLEAN, from : Callers,
                by : Clients, name : Names]
TaskType    == [op : ActOps, name : Names, from : {Actions!Nobody}, by : Clients]
EventType   == [name : Programs, new : States]

ActionType ==
    /\ registered \subseteq Programs /\ state \in [Programs -> States]
    /\ channel \in Seq(CommandType) /\ serving \in ServingType \cup {Actions!NoCommand}
    /\ tasks \in Seq(TaskType)
    /\ req \in [Clients -> Posed \cup {Actions!NoRequest}]
    /\ script \in [Clients -> Seq(Steps)]
    /\ asked \in [Clients -> [code : Codes, state : States]]
    /\ listening \in [Clients -> BOOLEAN] /\ lagged \in [Clients -> BOOLEAN]
    /\ rx \in [Clients -> Seq(EventType)]
    /\ answer \in [Clients -> Answers]
    /\ blind \in [Clients -> BOOLEAN] /\ done \in [Clients -> {"no", "part", "all"}]

\* The requests that wait for an event, that act, and whose reply is not looked at.
Waits(r)   == r.api = "rest" /\ r.op = "start" /\ r.sync
Acts(r)    == r.op \in ActOps
RpcBulk(r) == r.api = "rpc" /\ r.op \in Bulk

\* What can be left of the handler's script.
Remaining(r) ==
    {<<>>} \cup
    CASE Waits(r) ->
             {<<"act", "subscribe", "recheck", "wait", "final">>,
              <<"subscribe", "recheck", "wait", "final">>, <<"recheck", "wait", "final">>,
              <<"wait", "final">>, <<"lagcheck", "final">>, <<"final">>}
      [] r.api = "rest" /\ r.op = "start" /\ ~r.sync -> {<<"act">>}
      [] r.api = "rest" /\ r.op \in {"stop", "restart"} /\ r.sync ->
             {<<"check", "act", "final">>, <<"act", "final">>, <<"final">>}
      [] r.api = "rest" /\ r.op \in {"stop", "restart"} /\ ~r.sync ->
             {<<"check", "spawn">>, <<"spawn">>}
      [] r.op \in Bulk \/ (r.api = "rest" /\ r.op \in Groups) ->
             {<<"act", "survey">>, <<"survey">>}
      [] r.api = "rest" /\ r.op = "details" -> {<<"query", "survey">>, <<"survey">>}
      [] r.op \in {"query", "stdin"} -> {<<"query">>}
      [] r.api = "rpc" /\ r.op \in {"restart"} \cup Groups -> {<<"act">>}
      [] r.api = "rpc" /\ r.op \in {"start", "stop", "signal"} -> {<<"check", "act">>, <<"act">>}
      [] OTHER -> {<<"check">>}

\* The scripts whose command is still to come.
Ahead ==
    {<<"act", "subscribe", "recheck", "wait", "final">>, <<"act">>,
     <<"check", "act", "final">>, <<"act", "final">>, <<"check", "spawn">>, <<"spawn">>,
     <<"act", "survey">>, <<"check", "act">>}

\* A handler is where its script can be, and has made a call only at a step that makes one.
Placed(c) ==
    /\ req[c] # Actions!NoRequest => req[c] \in Requests[c]
    /\ script[c] \in IF req[c] = Actions!NoRequest THEN {<<>>} ELSE Remaining(req[c])
    /\ asked[c].code # "none" =>
           script[c] # <<>> /\ Head(script[c]) \notin {"subscribe", "wait", "spawn"}

\* The command that will answer c is the one of the step c is at, and the only one.
Sent(c) ==
    \A i \in 1 .. Len(channel) : channel[i].from = c =>
        /\ asked[c].code = "sent"
        /\ channel[i] = Actions!Command(req[c], Head(script[c]), c, c)
Single(c) ==
    \A i, j \in 1 .. Len(channel) : channel[i].from = c /\ channel[j].from = c => i = j
Served(c) ==
    (serving # Actions!NoCommand /\ serving.from = c) =>
        /\ asked[c].code = "sent" /\ Actions!At(c, "act") /\ serving.by = c
        /\ \A i \in 1 .. Len(channel) : channel[i].from # c
Held(c) == Sent(c) /\ Single(c) /\ Served(c)

WireInv == ActionType /\ \A c \in Clients : Placed(c) /\ Held(c)

\* An event that ends the wait of c is still to be read, or events were lost.
Due(c) == lagged[c] \/ \E i \in 1 .. Len(rx[c]) : Actions!IsAwaited(c, rx[c][i])

\* From its look at the state on c is subscribed, and what happened since it was
\* answered is in its queue.
Alert(c) ==
    req[c] # Actions!NoRequest =>
    /\ Actions!At(c, "recheck") \/ Actions!IsWaiting(c) => listening[c]
    /\ (req[c].name \in registered /\ state[req[c].name] \in Actions!Settled) =>
           /\ Actions!At(c, "wait") => Due(c) \/ blind[c]
           /\ (/\ Actions!At(c, "recheck") \/ Actions!At(c, "lagcheck")
               /\ asked[c].code = "ok" /\ asked[c].state \notin Actions!Settled) => Due(c)

AlertInv == WireInv /\ \A c \in Clients : Alert(c)

\* No command of c that acts is under way; or none that c does not wait for.
Quiet(c) ==
    /\ \A i \in 1 .. Len(channel) : Actions!IsQuery(channel[i]) \/ channel[i].by # c
    /\ \A i \in 1 .. Len(tasks) : tasks[i].by # c
    /\ serving = Actions!NoCommand \/ serving.by # c

Watched(c) ==
    /\ \A i \in 1 .. Len(channel) :
           Actions!IsQuery(channel[i]) \/ channel[i].by # c \/ channel[i].from = c
    /\ \A i \in 1 .. Len(tasks) : tasks[i].by # c
    /\ serving = Actions!NoCommand \/ serving.by # c \/ serving.from = c

Answering(c) == asked[c].code \notin {"none", "sent"}
Refused(a)   == a \in {"not_found", "already_started", "not_running"}

\* What was done for c, from the state of its handler.
Untouched(c) == done[c] = "no" /\ Quiet(c)
Complete(c)  == done[c] = "all" /\ Quiet(c)

Truthful(c) ==
    /\ req[c] = Actions!NoRequest \/ script[c] # <<>> => answer[c] = "none"
    /\ req[c] = Actions!NoRequest \/ ~Acts(req[c]) => Untouched(c)
    /\ (script[c] \in Ahead /\ ~(Actions!At(c, "act") /\ asked[c].code # "none")) => Untouched(c)
    /\ (Actions!At(c, "act") /\ asked[c].code = "sent") =>
           /\ Watched(c) /\ done[c] # "all"
           /\ serving = Actions!NoCommand \/ serving.by # c => done[c] = "no"
    /\ (Actions!At(c, "act") /\ Answering(c)) =>
           /\ Quiet(c)
           /\ asked[c].code = "ok" => done[c] = "all"
           /\ asked[c].code = "not_found" => done[c] = "no"
    /\ (script[c] # <<>> /\ script[c] \notin Ahead /\ Acts(req[c]) /\ ~RpcBulk(req[c])) =>
           Complete(c)
    /\ (Actions!At(c, "survey") /\ Answering(c)) => asked[c].code = "ok"
    /\ Refused(answer[c]) => Untouched(c)
    /\ (answer[c] = "ok" /\ Acts(req[c]) /\ ~RpcBulk(req[c])) => Complete(c)
    /\ (answer[c] = "accepted" /\ req[c].op = "start") => Complete(c)

TruthInv == WireInv /\ \A c \in Clients : Truthful(c)

\* A script without its first step.
LEMMA TailOfOne == \A a : Head(<<a>>) = a /\ Tail(<<a>>) = <<>> /\ Len(<<a>>) = 1
OBVIOUS

\* The same for a script of two steps.
LEMMA TailOfTwo == \A a, b : Head(<<a, b>>) = a /\ Tail(<<a, b>>) = <<b>> /\ Len(<<a, b>>) = 2
OBVIOUS

\* Of three.
LEMMA TailOfThree ==
    \A a, b, c : Head(<<a, b, c>>) = a /\ Tail(<<a, b, c>>) = <<b, c>> /\ Len(<<a, b, c>>) = 3
OBVIOUS

\* Of four.
LEMMA TailOfFour ==
    \A a, b, c, d : /\ Head(<<a, b, c, d>>) = a /\ Tail(<<a, b, c, d>>) = <<b, c, d>>
                    /\ Len(<<a, b, c, d>>) = 4
OBVIOUS

\* Of five, the longest one.
LEMMA TailOfFive ==
    \A a, b, c, d, e : /\ Head(<<a, b, c, d, e>>) = a /\ Tail(<<a, b, c, d, e>>) = <<b, c, d, e>>
                       /\ Len(<<a, b, c, d, e>>) = 5
OBVIOUS

\* What a step of a script is followed by, and which request it is a step of.
Follows(r, s) ==
    /\ s \in Seq(Steps) /\ Head(s) \in Steps /\ Tail(s) \in Remaining(r)
    /\ (Len(s) = 1) <=> (Tail(s) = <<>>)
    /\ Head(s) \in {"act", "spawn"} => Acts(r) /\ s \in Ahead /\ Tail(s) \notin Ahead
    /\ Head(s) = "spawn" => r.op # "start" /\ Tail(s) = <<>> /\ Actions!Completed(r) = "accepted"
    /\ Head(s) = "check" => IF r.op = "probe" THEN Tail(s) = <<>>
                            ELSE Acts(r) /\ s \in Ahead /\ Tail(s) \in Ahead
    /\ Head(s) = "query" => ~Acts(r)
    /\ Head(s) \in {"subscribe", "recheck", "wait", "lagcheck", "final", "survey"} =>
           s \notin Ahead /\ Tail(s) \notin Ahead
    /\ Head(s) \in {"subscribe", "recheck", "wait", "lagcheck"} => Waits(r)
    /\ Head(s) = "recheck" => s = <<"recheck", "wait", "final">>
    /\ Head(s) = "wait" => s = <<"wait", "final">>
    /\ Head(s) = "lagcheck" => s = <<"lagcheck", "final">>
    /\ Head(s) = "subscribe" => s = <<"subscribe", "recheck", "wait", "final">>
    /\ Head(s) = "final" => r.api = "rest"
    /\ Tail(s) # <<>> =>
           /\ Head(Tail(s)) \notin {"lagcheck"}
           /\ (Head(Tail(s)) = "recheck" => Head(s) = "subscribe")
           /\ (Head(Tail(s)) = "wait" => Head(s) = "recheck")

\* Every script that can be left of a request goes on as Follows says.
LEMMA ScriptStep ==
    ASSUME NEW r, Actions!Handled(r), NEW s \in Remaining(r), s # <<>>
    PROVE  Follows(r, s)
<1> USE TailOfOne, TailOfTwo, TailOfThree, TailOfFour, TailOfFive
    DEF Steps, Acts, ActOps, Groups, Bulk, Waits
<1>a. \/ s \in {<<"act", "subscribe", "recheck", "wait", "final">>,
              <<"subscribe", "recheck", "wait", "final">>, <<"recheck", "wait", "final">>,
              <<"wait", "final">>, <<"lagcheck", "final">>, <<"final">>} /\ Waits(r)
      \/ s = <<"act">> /\ r.api = "rest" /\ r.op = "start" /\ ~r.sync
      \/ s \in {<<"check", "act", "final">>, <<"act", "final">>, <<"final">>} /\
             r.api = "rest" /\ r.op \in {"stop", "restart"} /\ r.sync
      \/ s \in {<<"check", "spawn">>, <<"spawn">>} /\
             r.api = "rest" /\ r.op \in {"stop", "restart"} /\ ~r.sync
      \/ s \in {<<"act", "survey">>, <<"survey">>} /\
             (r.op \in Bulk \/ (r.api = "rest" /\ r.op \in Groups))
      \/ s \in {<<"query", "survey">>, <<"survey">>} /\ r.api = "rest" /\ r.op = "details"
      \/ s = <<"query">> /\ r.op \in {"query", "stdin"}
      \/ s = <<"act">> /\ r.api = "rpc" /\ r.op \in {"restart"} \cup Groups
      \/ s \in {<<"check", "act">>, <<"act">>} /\
             r.api = "rpc" /\ r.op \in {"start", "stop", "signal"}
      \/ s = <<"check">> /\ r.api = "rpc" /\ r.op = "probe"
  BY DEF Remaining, Actions!Handled
<1>1. ASSUME Waits(r)
      PROVE  Remaining(r) = {<<>>} \cup
                 {<<"act", "subscribe", "recheck", "wait", "final">>,
                  <<"subscribe", "recheck", "wait", "final">>, <<"recheck", "wait", "final">>,
                  <<"wait", "final">>, <<"lagcheck", "final">>, <<"final">>}
  BY <1>1 DEF Remaining
<1>2. ASSUME r.api = "rest" /\ r.op = "start" /\ ~r.sync
      PROVE  Remaining(r) = {<<>>} \cup {<<"act">>}
  BY <1>2 DEF Remaining
<1>3. ASSUME r.api = "rest" /\ r.op \in {"stop", "restart"} /\ r.sync
      PROVE  Remaining(r) = {<<>>} \cup
                 {<<"check", "act", "final">>, <<"act", "final">>, <<"final">>}
  BY <1>3 DEF Remaining
<1>4. ASSUME r.api = "rest" /\ r.op \in {"stop", "restart"} /\ ~r.sync
      PROVE  Remaining(r) = {<<>>} \cup {<<"check", "spawn">>, <<"spawn">>}
  BY <1>4 DEF Remaining
<1>5. ASSUME (r.op \in Bulk \/ (r.api = "rest" /\ r.op \in Groups))
      PROVE  Remaining(r) = {<<>>} \cup {<<"act", "survey">>, <<"survey">>}
  BY <1>5 DEF Remaining
<1>6. ASSUME r.api = "rest" /\ r.op = "details"
      PROVE  Remaining(r) = {<<>>} \cup {<<"query", "survey">>, <<"survey">>}
  BY <1>6 DEF Remaining
<1>7. ASSUME r.op \in {"query", "stdin"}
      PROVE  Remaining(r) = {<<>>} \cup {<<"query">>}
  BY <1>7 DEF Remaining
<1>8. ASSUME r.api = "rpc" /\ r.op \in {"restart"} \cup Groups
      PROVE  Remaining(r) = {<<>>} \cup {<<"act">>}
  BY <1>8 DEF Remaining
<1>9. ASSUME r.api = "rpc" /\ r.op \in {"start", "stop", "signal"}
      PROVE  Remaining(r) = {<<>>} \cup {<<"check", "act">>, <<"act">>}
  BY <1>9 DEF Remaining
<1>10. ASSUME r.api = "rpc" /\ r.op = "probe"
      PROVE  Remaining(r) = {<<>>} \cup {<<"check">>}
  BY <1>10 DEF Remaining
<1>11. CASE s = <<"act", "subscribe", "recheck", "wait", "final">> /\ Waits(r)
  BY <1>11, <1>1 DEF Follows, Ahead, Actions!Completed
<1>12. CASE s = <<"subscribe", "recheck", "wait", "final">> /\ Waits(r)
  BY <1>12, <1>1 DEF Follows, Ahead, Actions!Completed
<1>13. CASE s = <<"recheck", "wait", "final">> /\ Waits(r)
  BY <1>13, <1>1 DEF Follows, Ahead, Actions!Completed
<1>14. CASE s = <<"wait", "final">> /\ Waits(r)
  BY <1>14, <1>1 DEF Follows, Ahead, Actions!Completed
<1>15. CASE s = <<"lagcheck", "final">> /\ Waits(r)
  BY <1>15, <1>1 DEF Follows, Ahead, Actions!Completed
<1>16. CASE s = <<"final">> /\ Waits(r)
  BY <1>16, <1>1 DEF Follows, Ahead, Actions!Completed
<1>17. CASE s = <<"act">> /\ r.api = "rest" /\ r.op = "start" /\ ~r.sync
  BY <1>17, <1>2 DEF Follows, Ahead, Actions!Completed
<1>18. CASE s = <<"check", "act", "final">> /\
             r.api = "rest" /\ r.op \in {"stop", "restart"} /\ r.sync
  BY <1>18, <1>3 DEF Follows, Ahead, Actions!Completed
<1>19. CASE s = <<"act", "final">> /\ r.api = "rest" /\ r.op \in {"stop", "restart"} /\ r.sync
  BY <1>19, <1>3 DEF Follows, Ahead, Actions!Completed
<1>20. CASE s = <<"final">> /\ r.api = "rest" /\ r.op \in {"stop", "restart"} /\ r.sync
  BY <1>20, <1>3 DEF Follows, Ahead, Actions!Completed
<1>21. CASE s = <<"check", "spawn">> /\ r.api = "rest" /\ r.op \in {"stop", "restart"} /\ ~r.sync
  BY <1>21, <1>4 DEF Follows, Ahead, Actions!Completed
<1>22. CASE s = <<"spawn">> /\ r.api = "rest" /\ r.op \in {"stop", "restart"} /\ ~r.sync
  BY <1>22, <1>4 DEF Follows, Ahead, Actions!Completed
<1>23. CASE s = <<"act", "survey">> /\ (r.op \in Bulk \/ (r.api = "rest" /\ r.op \in Groups))
  BY <1>23, <1>5 DEF Follows, Ahead, Actions!Completed
<1>24. CASE s = <<"survey">> /\ (r.op \in Bulk \/ (r.api = "rest" /\ r.op \in Groups))
  BY <1>24, <1>5 DEF Follows, Ahead, Actions!Completed
<1>25. CASE s = <<"query", "survey">> /\ r.api = "rest" /\ r.op = "details"
  BY <1>25, <1>6 DEF Follows, Ahead, Actions!Completed
<1>26. CASE s = <<"survey">> /\ r.api = "rest" /\ r.op = "details"
  BY <1>26, <1>6 DEF Follows, Ahead, Actions!Completed
<1>27. CASE s = <<"query">> /\ r.op \in {"query", "stdin"}
  BY <1>27, <1>7 DEF Follows, Ahead, Actions!Completed
<1>28. CASE s = <<"act">> /\ r.api = "rpc" /\ r.op \in {"restart"} \cup Groups
  BY <1>28, <1>8 DEF Follows, Ahead, Actions!Completed
<1>29. CASE s = <<"check", "act">> /\ r.api = "rpc" /\ r.op \in {"start", "stop", "signal"}
  BY <1>29, <1>9 DEF Follows, Ahead, Actions!Completed
<1>30. CASE s = <<"act">> /\ r.api = "rpc" /\ r.op \in {"start", "stop", "signal"}
  BY <1>30, <1>9 DEF Follows, Ahead, Actions!Completed
<1>31. CASE s = <<"check">> /\ r.api = "rpc" /\ r.op = "probe"
  BY <1>31, <1>10 DEF Follows, Ahead, Actions!Completed
<1>b. QED
  BY <1>a, <1>11, <1>12, <1>13, <1>14, <1>15, <1>16, <1>17, <1>18,
     <1>19, <1>20, <1>21, <1>22, <1>23, <1>24, <1>25, <1>26, <1>27, <1>28, <1>29, <1>30, <1>31

\* A handler begins with its command or a question, and the command is ahead.
LEMMA ScriptFirst ==
    ASSUME NEW r, Actions!Handled(r)
    PROVE  LET s == Actions!ScriptOf(r) IN
           /\ s \in Remaining(r) /\ s # <<>> /\ Head(s) \in {"act", "check", "query"}
           /\ Acts(r) => s \in Ahead
<1>1. PICK s : s = Actions!ScriptOf(r)
  OBVIOUS
<1> USE TailOfOne, TailOfTwo, TailOfThree, TailOfFour, TailOfFive
    DEF Acts, ActOps, Groups, Bulk, Waits, Actions!Handled
<1>2. \/ Waits(r) /\ s = <<"act", "subscribe", "recheck", "wait", "final">>
      \/ r.api = "rest" /\ r.op = "start" /\ ~r.sync /\ s = <<"act">>
      \/ r.api = "rest" /\ r.op \in {"stop", "restart"} /\ r.sync /\ s = <<"check", "act", "final">>
      \/ r.api = "rest" /\ r.op \in {"stop", "restart"} /\ ~r.sync /\ s = <<"check", "spawn">>
      \/ (r.op \in Bulk \/ (r.api = "rest" /\ r.op \in Groups)) /\ s = <<"act", "survey">>
      \/ r.api = "rest" /\ r.op = "details" /\ s = <<"query", "survey">>
      \/ r.op \in {"query", "stdin"} /\ s = <<"query">>
      \/ r.api = "rpc" /\ r.op \in {"restart"} \cup Groups /\ s = <<"act">>
      \/ r.api = "rpc" /\ r.op \in {"start", "stop", "signal"} /\ s = <<"check", "act">>
      \/ r.api = "rpc" /\ r.op = "probe" /\ s = <<"check">>
  <2>1. Waits(r) => s = <<"act", "subscribe", "recheck", "wait", "final">>
    BY <1>1 DEF Actions!ScriptOf, Actions!RestStart
  <2>2. r.api = "rest" /\ r.op = "start" /\ ~r.sync => s = <<"act">>
    BY <1>1 DEF Actions!ScriptOf, Actions!RestStart
  <2>3. r.api = "rest" /\ r.op \in {"stop", "restart"} /\ r.sync => s = <<"check", "act", "final">>
    BY <1>1 DEF Actions!ScriptOf, Actions!RestStop, Actions!RestRestart
  <2>4. r.api = "rest" /\ r.op \in {"stop", "restart"} /\ ~r.sync => s = <<"check", "spawn">>
    BY <1>1 DEF Actions!ScriptOf, Actions!RestStop, Actions!RestRestart
  <2>5. r.api = "rest" /\ r.op \in Bulk \cup Groups => s = <<"act", "survey">>
    BY <1>1 DEF Actions!ScriptOf, Actions!RestGroup, Actions!RestAll
  <2>6. r.api = "rest" /\ r.op = "details" => s = <<"query", "survey">>
    BY <1>1 DEF Actions!ScriptOf, Actions!RestDetails
  <2>7. r.op \in {"query", "stdin"} => s = <<"query">>
    BY <1>1 DEF Actions!ScriptOf, Actions!RestQuery, Actions!RestStdin, Actions!RpcQuery
  <2>8. r.api = "rpc" /\ r.op \in Bulk => s = <<"act", "survey">>
    BY <1>1 DEF Actions!ScriptOf, Actions!RpcAll
  <2>9. r.api = "rpc" /\ r.op \in {"restart"} \cup Groups => s = <<"act">>
    BY <1>1 DEF Actions!ScriptOf, Actions!RpcProgram, Actions!RpcGroup
  <2>10. r.api = "rpc" /\ r.op \in {"start", "stop", "signal"} => s = <<"check", "act">>
    BY <1>1 DEF Actions!ScriptOf, Actions!RpcProgram, Actions!RpcSignal
  <2>11. r.api = "rpc" /\ r.op = "probe" => s = <<"check">>
    BY <1>1 DEF Actions!ScriptOf, Actions!RpcSignal
  <2>12. \/ Waits(r)
         \/ r.api = "rest" /\ r.op = "start" /\ ~r.sync
         \/ r.api = "rest" /\ r.op \in {"stop", "restart"} /\ r.sync
         \/ r.api = "rest" /\ r.op \in {"stop", "restart"} /\ ~r.sync
         \/ r.api = "rest" /\ r.op \in Bulk \cup Groups
         \/ r.api = "rest" /\ r.op = "details"
         \/ r.op \in {"query", "stdin"}
         \/ r.api = "rpc" /\ r.op \in Bulk
         \/ r.api = "rpc" /\ r.op \in {"restart"} \cup Groups
         \/ r.api = "rpc" /\ r.op \in {"start", "stop", "signal"}
         \/ r.api = "rpc" /\ r.op = "probe"
    OBVIOUS
  <2>13. QED
    BY <2>1, <2>2, <2>3, <2>4, <2>5, <2>6, <2>7, <2>8, <2>9, <2>10, <2>11, <2>12
<1>3. s \in Remaining(r)
  BY <1>2 DEF Remaining
<1>4. s # <<>> /\ Head(s) \in {"act", "check", "query"}
  BY <1>2
<1>5. Acts(r) => s \in Ahead
  BY <1>2 DEF Ahead
<1>6. QED
  BY <1>1, <1>3, <1>4, <1>5

\* n is what a queue q of elements of T becomes when the events ev are appended.
Newest(n, q, ev, T) ==
    /\ n \in Seq(T) /\ Len(n) \in Nat /\ Len(n) > 0 /\ n[Len(n)] = ev[Len(ev)]
    /\ Len(q) + Len(ev) <= HubCapacity =>
           \A i \in 1 .. Len(q) : i \in 1 .. Len(n) /\ n[i] = q[i]

\* A subscription holds the newest events, and all of them if there is room.
LEMMA PublishedHolds ==
    ASSUME NEW T, NEW q \in Seq(T), NEW ev \in Seq(T), Len(ev) > 0
    PROVE  Newest(Actions!Published(q, ev), q, ev, T)
<1> USE RequestAssumption
<1>1. PICK all : all = q \o ev
  OBVIOUS
<1>2. /\ all \in Seq(T) /\ Len(all) = Len(q) + Len(ev)
      /\ \A i \in 1 .. Len(q) : all[i] = q[i]
      /\ all[Len(all)] = ev[Len(ev)]
      /\ Len(q) \in Nat /\ Len(ev) \in Nat
  BY <1>1
<1>3. PICK k : k = IF Len(all) > HubCapacity THEN Len(all) - HubCapacity ELSE 0
  OBVIOUS
<1>4. k \in Nat /\ k < Len(all) /\ Len(all) \in Nat
  BY <1>2, <1>3
<1>5. Actions!Published(q, ev) = SubSeq(all, 1 + k, Len(all))
  BY <1>1, <1>3 DEF Actions!Published
<1>6. PICK n : n = SubSeq(all, 1 + k, Len(all))
  OBVIOUS
<1>7. /\ n \in Seq(T) /\ Len(n) = Len(all) - k
      /\ \A i \in 1 .. Len(n) : n[i] = all[i + k]
  BY <1>2, <1>4, <1>6
<1>8. Len(n) > 0 /\ n[Len(n)] = ev[Len(ev)]
  BY <1>2, <1>4, <1>7
<1>9. ASSUME Len(q) + Len(ev) <= HubCapacity
      PROVE  \A i \in 1 .. Len(q) : i \in 1 .. Len(n) /\ n[i] = q[i]
  <2>1. k = 0
    BY <1>2, <1>3, <1>9
  <2>2. QED
    BY <1>2, <1>7, <2>1
<1>10. Newest(n, q, ev, T)
  BY <1>7, <1>8, <1>9 DEF Newest
<1>11. QED
  BY <1>5, <1>6, <1>10

\* A change of state is stored and then published: who listens has its event, and
\* keeps what was due or knows that events were lost.
LEMMA Becoming ==
    ASSUME ActionType, NEW p \in Programs, NEW states \in Seq(States), Len(states) > 0,
           Actions!Becomes(p, states), req' = req
    PROVE  /\ state' \in [Programs -> States] /\ rx' \in [Clients -> Seq(EventType)]
           /\ lagged' \in [Clients -> BOOLEAN] /\ listening' = listening
           /\ \A q \in Programs : q # p => state'[q] = state[q]
           /\ \A c \in Clients : listening[c] =>
                  /\ Due(c) => Due(c)'
                  /\ (req[c].name = p /\ state'[p] \in Actions!Settled) => Due(c)'
<1>1. PICK ev : ev = [i \in 1 .. Len(states) |-> [name |-> p, new |-> states[i]]]
  OBVIOUS
<1>2. /\ state' = [state EXCEPT ![p] = states[Len(states)]]
      /\ Actions!Publish(ev)
  BY <1>1 DEF Actions!Becomes, Actions!Last
<1>3. /\ ev \in Seq(EventType) /\ Len(ev) = Len(states)
      /\ ev[Len(ev)] = [name |-> p, new |-> states[Len(states)]]
  BY <1>1 DEF EventType
<1>4. states[Len(states)] \in States
  OBVIOUS
<1>5. state' \in [Programs -> States] /\ state'[p] = states[Len(states)]
      /\ \A q \in Programs : q # p => state'[q] = state[q]
  BY <1>2, <1>4 DEF ActionType
<1>6. /\ rx' = [c \in Clients |-> IF listening[c] THEN Actions!Published(rx[c], ev) ELSE rx[c]]
      /\ listening' = listening
      /\ lagged' = [c \in Clients |->
             lagged[c] \/ (listening[c] /\ Len(rx[c]) + Len(ev) > HubCapacity)]
  BY <1>2 DEF Actions!Publish
<1>7. ASSUME NEW c \in Clients
      PROVE  Newest(Actions!Published(rx[c], ev), rx[c], ev, EventType)
  BY <1>3, PublishedHolds DEF ActionType
<1>8. rx' \in [Clients -> Seq(EventType)] /\ lagged' \in [Clients -> BOOLEAN]
  <2>1. rx' \in [Clients -> Seq(EventType)]
    BY <1>6, <1>7 DEF ActionType, Newest
  <2>2. lagged' \in [Clients -> BOOLEAN]
    BY <1>6 DEF ActionType
  <2>3. QED
    BY <2>1, <2>2
<1>9. ASSUME NEW c \in Clients, listening[c]
      PROVE  /\ Due(c) => Due(c)'
             /\ (req[c].name = p /\ state'[p] \in Actions!Settled) => Due(c)'
  <2>1. PICK n : n = Actions!Published(rx[c], ev)
    OBVIOUS
  <2>0. Newest(n, rx[c], ev, EventType) /\ Len(rx[c]) \in Nat
    BY <1>7, <2>1 DEF ActionType
  <2>2. /\ rx'[c] = n /\ n \in Seq(EventType) /\ Len(n) \in Nat /\ Len(n) > 0 
        /\ n[Len(n)] = ev[Len(ev)]
        /\ lagged'[c] <=> (lagged[c] \/ Len(rx[c]) + Len(ev) > HubCapacity)
    BY <1>6, <1>9, <2>0, <2>1 DEF Newest
  <2>3. ASSUME Due(c) PROVE Due(c)'
    <3>1. CASE lagged'[c]
      BY <3>1 DEF Due
    <3>2. CASE ~lagged'[c]
      <4>1. Len(rx[c]) + Len(ev) <= HubCapacity /\ ~lagged[c]
        BY <2>0, <2>2, <3>2, <1>3, RequestAssumption
      <4>2. PICK i \in 1 .. Len(rx[c]) : Actions!IsAwaited(c, rx[c][i])
        BY <2>3, <4>1 DEF Due
      <4>3. i \in 1 .. Len(n) /\ n[i] = rx[c][i]
        BY <2>0, <4>1, <4>2 DEF Newest
      <4>4. QED
        BY <2>2, <4>2, <4>3 DEF Due, Actions!IsAwaited
    <3>3. QED
      BY <3>1, <3>2
  <2>4. ASSUME req[c].name = p, state'[p] \in Actions!Settled PROVE Due(c)'
    <3>1. Len(n) \in 1 .. Len(n) /\ n[Len(n)].name = p /\ n[Len(n)].new = state'[p]
      BY <1>3, <1>5, <2>2
    <3>2. QED
      BY <2>2, <2>4, <3>1 DEF Due, Actions!IsAwaited, Actions!Settled
  <2>5. QED
    BY <2>3, <2>4
<1>10. QED
  BY <1>5, <1>6, <1>8, <1>9

\* What a command that acts makes a program publish.
LEMMA OutcomeStates ==
    ASSUME NEW op \in ActOps \ {"restart_group"}, NEW s \in States,
           NEW o \in Actions!Outcomes(op, s)
    PROVE  o.states \in Seq(States) /\ Len(o.states) > 0
<1>0. {"Stopping", "Stopped", "Starting", "Fatal"} \subseteq States
  BY DEF States
<1>1. PICK stop : stop = Actions!Stopping(s)
  OBVIOUS
<1>2. stop = <<"Stopping", "Stopped">> \/ stop = <<"Stopped">>
  BY <1>1 DEF Actions!Stopping
<1>3. stop \in Seq(States) /\ Len(stop) > 0
  <2>1. CASE stop = <<"Stopping", "Stopped">>
    BY <1>0, <2>1
  <2>2. CASE stop = <<"Stopped">>
    BY <1>0, <2>2
  <2>3. QED
    BY <1>2, <2>1, <2>2
<1>4. /\ stop \o <<"Starting">> \in Seq(States) /\ Len(stop \o <<"Starting">>) > 0
      /\ stop \o <<"Fatal">> \in Seq(States) /\ Len(stop \o <<"Fatal">>) > 0
  BY <1>0, <1>3
<1>5. CASE op \in {"start", "start_group", "start_all"}
  <2>1. o \in {[states |-> <<s>>, bad |-> TRUE], [states |-> <<"Starting">>, bad |-> FALSE],
               [states |-> <<"Fatal">>, bad |-> TRUE]}
    BY <1>5 DEF Actions!Outcomes
  <2>2. \E x \in States : o.states = <<x>>
    BY <1>0, <2>1
  <2>3. QED
    BY <2>2
<1>6. CASE op \in {"stop", "stop_group", "stop_all"}
  <2>1. o = [states |-> stop, bad |-> FALSE]
    BY <1>1, <1>6 DEF Actions!Outcomes
  <2>2. QED
    BY <1>3, <2>1
<1>7. CASE op = "restart"
  <2>1. o \in {[states |-> stop \o <<"Starting">>, bad |-> FALSE],
               [states |-> stop \o <<"Fatal">>, bad |-> TRUE], [states |-> stop, bad |-> TRUE]}
    BY <1>1, <1>7 DEF Actions!Outcomes
  <2>2. o.states \in {stop \o <<"Starting">>, stop \o <<"Fatal">>, stop}
    BY <2>1
  <2>3. QED
    BY <1>3, <1>4, <2>2
<1>8. CASE op = "signal"
  <2>1. o = [states |-> <<s>>, bad |-> ~Actions!HasChild(s)]
    BY <1>8 DEF Actions!Outcomes
  <2>2. o.states = <<s>>
    BY <2>1
  <2>3. QED
    BY <2>2
<1>9. QED
  BY <1>5, <1>6, <1>7, <1>8 DEF ActOps, Groups, Bulk

\* m is the command of the step `step' of a request r.
IsCommand(m, r, at, from, by) ==
    /\ m \in CommandType /\ m.from = from /\ m.by = by
    /\ Actions!IsQuery(m) <=> at # "act"
    /\ at \in {"check", "recheck", "final", "lagcheck"} => m.op = "status" /\ m.name = r.name
    /\ at = "survey" => m.op = "all_status"

\* The command of a step that makes a call.
LEMMA CommandOf ==
    ASSUME NEW r \in Posed, NEW at \in Steps \ {"subscribe", "wait", "spawn"},
           NEW from \in Callers, NEW by \in Clients, at = "act" => Acts(r)
    PROVE  IsCommand(Actions!Command(r, at, from, by), r, at, from, by)
<1>1. PICK k : k = Actions!CallAt(r, at)
  OBVIOUS
<1>2. Actions!Command(r, at, from, by) =
          [op |-> k.op, name |-> k.name, from |-> from, by |-> by]
  BY <1>1 DEF Actions!Command
<1>3. r.name \in Names /\ Group \in Names
  BY DEF Names
<1>4. CASE at \in {"check", "recheck", "final", "lagcheck"}
  <2>0. k = Actions!StatusCall(r)
    BY <1>1, <1>4 DEF Actions!CallAt
  <2>1. k.op = "status" /\ k.name = r.name
    BY <2>0 DEF Actions!StatusCall
  <2>2. QED
    BY <1>2, <1>3, <1>4, <2>1 DEF IsCommand, CommandType, Asking, Actions!IsQuery
<1>5. CASE at = "survey"
  <2>0. k = Actions!SurveyCall(r)
    BY <1>1, <1>5 DEF Actions!CallAt
  <2>1. k.op = "all_status" /\ k.name = Group
    BY <2>0 DEF Actions!SurveyCall
  <2>2. QED
    BY <1>2, <1>3, <1>5, <2>1 DEF IsCommand, CommandType, Asking, Actions!IsQuery
<1>6. CASE at = "query"
  <2>0. k = Actions!QueryCall(r)
    BY <1>1, <1>6 DEF Actions!CallAt
  <2>1. k.op = "query" /\ k.name = r.name
    BY <2>0 DEF Actions!QueryCall
  <2>2. QED
    BY <1>2, <1>3, <1>6, <2>1 DEF IsCommand, CommandType, Asking, Actions!IsQuery
<1>7. CASE at = "act"
  <2>1. k.op = r.op /\ k.name \in Names
    BY <1>1, <1>3, <1>7 DEF Actions!CallAt, Actions!ActCall, Actions!GroupCall, Actions!BulkCall,
                            Actions!ProgramCall
  <2>2. r.op \in ActOps
    BY <1>7 DEF Acts
  <2>3. k.op \notin Asking
    BY <2>1, <2>2 DEF ActOps, Asking, Groups, Bulk
  <2>4. QED
    BY <1>2, <1>7, <2>1, <2>2, <2>3 DEF IsCommand, CommandType, Asking, Actions!IsQuery
<1>8. QED
  BY <1>4, <1>5, <1>6, <1>7 DEF Steps

\* What a handler makes of the result of a call: only a look at the state ends in
\* success, a command goes on only after success or when the reply is not looked at,
\* and what says that nothing was done was said by the manager or before the command.
Judged(r, at, res, a) ==
    /\ a \in Answers \ {"accepted"}
    /\ at # "recheck" => a # "ok"
    /\ at = "recheck" /\ r.api = "rest" =>
           a = IF res.code = "ok" /\ res.state \in Actions!Settled THEN "ok" ELSE "none"
    /\ at = "act" /\ a = "none" => res.code = "ok" \/ RpcBulk(r)
    /\ at = "act" /\ Refused(a) => res.code = "not_found"
    /\ at = "survey" /\ res.code # "not_found" => ~Refused(a)
    /\ at = "survey" /\ r.api = "rest" => a = "none"
    /\ at = "final" /\ r.api = "rest" => ~Refused(a)

\* What RestAfter and RpcAfter make of a result is judged so.
LEMMA AfterJudges ==
    ASSUME NEW r, Actions!Handled(r), NEW at \in Steps, NEW res
    PROVE  Judged(r, at, res, Actions!After(r, at, res))
<1>1. PICK a : a = Actions!After(r, at, res)
  OBVIOUS
<1> USE DEF Judged, Answers, Refused, RpcBulk, Bulk
<1>2. CASE r.api = "rest"
  <2>1. a = Actions!RestAfter(r, at, res)
    BY <1>1, <1>2 DEF Actions!After
  <2>2. CASE at = "recheck"
    <3>1. a = IF res.code = "ok" /\ res.state \in Actions!Settled THEN "ok" ELSE "none"
      BY <2>1, <2>2 DEF Actions!RestAfter
    <3>2. QED
      BY <1>1, <1>2, <2>2, <3>1
  <2>3. CASE at # "recheck"
    BY <1>2, <2>1, <2>3, <1>1 DEF Actions!RestAfter
  <2>4. QED
    BY <2>2, <2>3
<1>3. CASE r.api = "rpc"
  <2>1. a = Actions!RpcAfter(r, at, res)
    BY <1>1, <1>3 DEF Actions!After
  <2>2. Actions!StateFault(r.op, res.state) \in {"none", "already_started", "not_running"}
    BY DEF Actions!StateFault
  <2>3. QED
    BY <1>3, <2>1, <2>2, <1>1 DEF Actions!RpcAfter
<1>4. QED
  BY <1>2, <1>3 DEF Actions!Handled

\* What a handler changes on its way: its script, its subscription and its answer.
WayType ==
    /\ script \in [Clients -> Seq(Steps)] /\ answer \in [Clients -> Answers]
    /\ listening \in [Clients -> BOOLEAN] /\ lagged \in [Clients -> BOOLEAN]
    /\ rx \in [Clients -> Seq(EventType)]

\* No handler but that of c is on its way.
AloneOnWay(c) ==
    \A d \in Clients \ {c} :
        /\ script'[d] = script[d] /\ listening'[d] = listening[d] /\ rx'[d] = rx[d]
        /\ lagged'[d] = lagged[d] /\ answer'[d] = answer[d]

\* The handler of c has taken a step, with what is due to it.
Onward(c) ==
    /\ script'[c] = Tail(script[c]) /\ script'[c] # <<>> /\ answer'[c] = answer[c]
    /\ listening'[c] = listening[c] /\ rx'[c] = rx[c] /\ lagged'[c] = lagged[c]

\* The handler of c has answered.
Ends(c, a) == script'[c] = <<>> /\ answer'[c] = a

\* A client at work has a request, and its script is one of that request.
LEMMA AtWork ==
    ASSUME WireInv, NEW c \in Clients, script[c] # <<>>
    PROVE  /\ req[c] # Actions!NoRequest /\ req[c] \in Posed /\ Actions!Handled(req[c])
           /\ script[c] \in Remaining(req[c]) /\ Follows(req[c], script[c])
<1>1. /\ req[c] # Actions!NoRequest /\ req[c] \in Requests[c]
      /\ script[c] \in Remaining(req[c])
  BY DEF WireInv, Placed
<1>2. req[c] \in Posed /\ Actions!Handled(req[c])
  BY <1>1, RequestAssumption DEF Posed
<1>3. QED
  BY <1>1, <1>2, ScriptStep

\* The response.
LEMMA Responding ==
    ASSUME ActionType, NEW c \in Clients, NEW a \in Answers, Actions!Respond(c, a)
    PROVE  WayType' /\ AloneOnWay(c) /\ Ends(c, a)
<1>1. <<>> \in Seq(Steps) /\ <<>> \in Seq(EventType)
  OBVIOUS
<1>2. /\ answer' = [answer EXCEPT ![c] = a] /\ script' = [script EXCEPT ![c] = <<>>]
      /\ listening' = [listening EXCEPT ![c] = FALSE] /\ rx' = [rx EXCEPT ![c] = <<>>]
      /\ lagged' = [lagged EXCEPT ![c] = FALSE]
  BY DEF Actions!Respond
<1>3. WayType'
  BY <1>1, <1>2 DEF WayType, ActionType
<1>4. QED
  BY <1>2, <1>3 DEF AloneOnWay, Ends, ActionType

\* The step after, or the response of a script at its end.
LEMMA Advancing ==
    ASSUME WireInv, NEW c \in Clients, script[c] # <<>>, Actions!Advance(c)
    PROVE  /\ WayType' /\ AloneOnWay(c)
           /\ Onward(c) \/ (Tail(script[c]) = <<>> /\ Ends(c, Actions!Completed(req[c])))
<1>1. ActionType /\ Follows(req[c], script[c])
  BY AtWork DEF WireInv
<1>2. CASE Len(script[c]) = 1
  <2>1. Actions!Completed(req[c]) \in Answers
    BY DEF Actions!Completed, Answers
  <2>2. Actions!Respond(c, Actions!Completed(req[c])) /\ Tail(script[c]) = <<>>
    BY <1>1, <1>2 DEF Actions!Advance, Follows
  <2>3. QED
    BY <1>1, <2>1, <2>2, Responding
<1>3. CASE Len(script[c]) # 1
  <2>1. /\ script' = [script EXCEPT ![c] = Tail(script[c])]
        /\ UNCHANGED <<answer, listening, rx, lagged>> /\ Tail(script[c]) # <<>>
    BY <1>1, <1>3 DEF Actions!Advance, Actions!hubVars, Follows
  <2>2. Tail(script[c]) \in Seq(Steps)
    BY <1>1 DEF Follows
  <2>3. QED
    BY <1>1, <2>1, <2>2 DEF WayType, AloneOnWay, Onward, ActionType
<1>4. QED
  BY <1>2, <1>3

\* What the handler of c does with a result, by the step it was at.
Resumed(c, res) ==
    LET a == Actions!After(req[c], Head(script[c]), res) IN
    \/ /\ Actions!At(c, "lagcheck") /\ answer'[c] = answer[c]
       /\ listening'[c] = listening[c] /\ rx'[c] = rx[c] /\ lagged'[c] = lagged[c]
       /\ script'[c] = IF res.code = "ok" /\ res.state \in Actions!Settled THEN <<"final">>
                       ELSE <<"wait", "final">>
       /\ blind'[c] = (blind[c] \/ res.code # "ok")
    \/ /\ ~Actions!At(c, "lagcheck") /\ a = "none"
       /\ Onward(c) \/ (Tail(script[c]) = <<>> /\ Ends(c, Actions!Completed(req[c])))
       /\ blind'[c] = (blind[c] \/ (Actions!At(c, "recheck") /\ res.code # "ok"))
    \/ ~Actions!At(c, "lagcheck") /\ a # "none" /\ Ends(c, a)

\* Resume does that, for the client c alone, and leaves it without a call.
LEMMA Resuming ==
    ASSUME WireInv, NEW c \in Clients, script[c] # <<>>, NEW res, Actions!Resume(c, res)
    PROVE  /\ WayType' /\ AloneOnWay(c) /\ Resumed(c, res)
           /\ blind' \in [Clients -> BOOLEAN] /\ \A d \in Clients \ {c} : blind'[d] = blind[d]
           /\ asked' = [asked EXCEPT ![c] = Actions!Result("none", "Stopped")]
<1>1. /\ ActionType /\ Follows(req[c], script[c]) /\ Actions!Handled(req[c])
      /\ Head(script[c]) \in Steps
  BY AtWork DEF WireInv, Follows
<1>2. asked' = [asked EXCEPT ![c] = Actions!Result("none", "Stopped")]
  BY DEF Actions!Resume
<1>3. PICK a : a = Actions!After(req[c], Head(script[c]), res)
  OBVIOUS
<1>4. a \in Answers
  BY <1>1, <1>3, AfterJudges DEF Judged
<1>5. CASE Actions!At(c, "lagcheck")
  <2>1. PICK s : s = IF res.code = "ok" /\ res.state \in Actions!Settled THEN <<"final">>
                     ELSE <<"wait", "final">>
    OBVIOUS
  <2>2. s \in Seq(Steps)
    <3>1. "wait" \in Steps /\ "final" \in Steps
      BY DEF Steps
    <3>2. CASE s = <<"final">>
      BY <3>1, <3>2
    <3>3. CASE s = <<"wait", "final">>
      BY <3>1, <3>3
    <3>4. QED
      BY <2>1, <3>2, <3>3
  <2>3. /\ script' = [script EXCEPT ![c] = s]
        /\ blind' = [blind EXCEPT ![c] = blind[c] \/ res.code # "ok"]
        /\ UNCHANGED <<answer, listening, rx, lagged>>
    BY <1>5, <2>1 DEF Actions!Resume, Actions!hubVars
  <2>4. WayType' /\ AloneOnWay(c)
    BY <1>1, <2>2, <2>3 DEF WayType, AloneOnWay, ActionType
  <2>5. blind' \in [Clients -> BOOLEAN] /\ \A d \in Clients \ {c} : blind'[d] = blind[d]
    BY <1>1, <2>3 DEF ActionType
  <2>6. Resumed(c, res)
    <3>1. script'[c] = s /\ blind'[c] = (blind[c] \/ res.code # "ok")
      BY <1>1, <2>3 DEF ActionType
    <3>2. QED
      BY <1>5, <2>1, <2>3, <3>1 DEF Resumed
  <2>7. QED
    BY <1>2, <2>4, <2>5, <2>6
<1>6. CASE ~Actions!At(c, "lagcheck")
  <2>1. /\ blind' = [blind EXCEPT ![c] =
                        blind[c] \/ (Actions!At(c, "recheck") /\ res.code # "ok")]
        /\ IF a = "none" THEN Actions!Advance(c) ELSE Actions!Respond(c, a)
    BY <1>3, <1>6 DEF Actions!Resume
  <2>2. /\ blind' \in [Clients -> BOOLEAN] /\ \A d \in Clients \ {c} : blind'[d] = blind[d]
        /\ blind'[c] = (blind[c] \/ (Actions!At(c, "recheck") /\ res.code # "ok"))
    BY <1>1, <2>1 DEF ActionType
  <2>3. CASE a = "none"
    BY <1>2, <1>3, <1>6, <2>1, <2>2, <2>3, Advancing DEF Resumed
  <2>4. CASE a # "none"
    BY <1>1, <1>2, <1>3, <1>4, <1>6, <2>1, <2>2, <2>4, Responding DEF Resumed
  <2>5. QED
    BY <2>3, <2>4
<1>7. QED
  BY <1>5, <1>6

\* A client whose handler does not move is where it was.
LEMMA StillPlaced ==
    ASSUME NEW d \in Clients, Placed(d), req'[d] = req[d], script'[d] = script[d],
           asked'[d] = asked[d]
    PROVE  Placed(d)'
BY DEF Placed

\* And so is its command when nothing is taken or sent.
LEMMA StillHeld ==
    ASSUME NEW d \in Clients, Held(d), req'[d] = req[d], script'[d] = script[d],
           asked'[d] = asked[d], UNCHANGED <<channel, serving>>
    PROVE  Held(d)'
BY DEF Held, Sent, Single, Served, Actions!At, Actions!Command, Actions!CallAt, Actions!ActCall, Actions!StatusCall,
   Actions!SurveyCall, Actions!QueryCall, Actions!GroupCall, Actions!BulkCall, Actions!ProgramCall

\* A command is taken from the channel: it was the only one of its caller.
LEMMA Taken ==
    ASSUME WireInv, channel # <<>>, channel' = Tail(channel)
    PROVE  /\ channel' \in Seq(CommandType) /\ Head(channel) \in CommandType
           /\ Head(channel) = channel[1] /\ 1 \in 1 .. Len(channel)
           /\ \A i \in 1 .. Len(channel') : i + 1 \in 1 .. Len(channel) /\ channel'[i] = channel[i + 1]
           /\ \A d \in Clients : Head(channel).from = d =>
                  \A i \in 1 .. Len(channel') : channel'[i].from # d
<1>1. channel \in Seq(CommandType)
  BY DEF WireInv, ActionType
<1>2. /\ channel' \in Seq(CommandType) /\ Head(channel) \in CommandType
      /\ Head(channel) = channel[1] /\ 1 \in 1 .. Len(channel)
      /\ \A i \in 1 .. Len(channel') : i + 1 \in 1 .. Len(channel) /\ channel'[i] = channel[i + 1]
  BY <1>1
<1>3. ASSUME NEW d \in Clients, Head(channel).from = d, NEW i \in 1 .. Len(channel'),
             channel'[i].from = d
      PROVE  FALSE
  <2>1. Single(d)
    BY DEF WireInv, Held
  <2>2. i + 1 = 1
    BY <1>2, <1>3, <2>1 DEF Single
  <2>3. QED
    BY <2>2
<1>4. QED
  BY <1>2, <1>3

\* The reply reaches the caller.
LEMMA Replying ==
    ASSUME ActionType, NEW from \in Callers, NEW res \in [code : Codes, state : States],
           Actions!ReplyTo(from, res)
    PROVE  /\ asked' \in [Clients -> [code : Codes, state : States]]
           /\ \A d \in Clients : asked'[d] = IF d = from THEN res ELSE asked[d]
BY RequestAssumption DEF ActionType, Actions!ReplyTo, Callers

\* The command of a client that is not at a reply is as it was.
LEMMA HeldAfterTaking ==
    ASSUME WireInv, channel # <<>>, channel' = Tail(channel), NEW d \in Clients,
           req'[d] = req[d], script'[d] = script[d],
           Head(channel).from # d => asked'[d] = asked[d]
    PROVE  Sent(d)' /\ Single(d)'
<1>1. Held(d)
  BY DEF WireInv
<1>2. /\ \A i \in 1 .. Len(channel') : i + 1 \in 1 .. Len(channel) /\ channel'[i] = channel[i + 1]
      /\ Head(channel).from = d => \A i \in 1 .. Len(channel') : channel'[i].from # d
      /\ channel' \in Seq(CommandType)
  BY Taken
<1>3. Single(d)'
  <2>1. SUFFICES ASSUME NEW i \in 1 .. Len(channel'), NEW j \in 1 .. Len(channel'),
                        channel'[i].from = d, channel'[j].from = d
                 PROVE  i = j
    BY DEF Single
  <2>2. i + 1 = j + 1
    BY <1>1, <1>2, <2>1 DEF Held, Single
  <2>3. QED
    BY <2>2, <1>2
<1>4. Sent(d)'
  <2>1. SUFFICES ASSUME NEW i \in 1 .. Len(channel'), channel'[i].from = d
                 PROVE  /\ asked'[d].code = "sent"
                        /\ channel'[i] = Actions!Command(req[d], Head(script[d]), d, d)
    BY DEF Sent, Actions!Command, Actions!CallAt, Actions!ActCall, Actions!StatusCall,
   Actions!SurveyCall, Actions!QueryCall, Actions!GroupCall, Actions!BulkCall, Actions!ProgramCall
  <2>2. asked'[d] = asked[d]
    BY <1>2, <2>1
  <2>3. QED
    BY <1>1, <1>2, <2>1, <2>2 DEF Held, Sent
<1>5. QED
  BY <1>3, <1>4

\* The caller hangs up: its command goes on, and answers nobody.
LEMMA HangingUp ==
    ASSUME ActionType, NEW c \in Clients, Actions!Hangup(c)
    PROVE  /\ channel' \in Seq(CommandType) /\ Len(channel') = Len(channel)
           /\ \A i \in 1 .. Len(channel) :
                  /\ channel'[i].op = channel[i].op /\ channel'[i].by = channel[i].by
                  /\ channel'[i].from # c
                  /\ channel'[i] = channel[i] \/ channel'[i].from = Actions!Nobody
           /\ serving' \in ServingType \cup {Actions!NoCommand}
           /\ serving' = Actions!NoCommand <=> serving = Actions!NoCommand
           /\ serving # Actions!NoCommand =>
                  /\ serving'.from # c /\ serving'.by = serving.by
                  /\ serving' = serving \/ serving'.from = Actions!Nobody
<1> USE RequestAssumption
<1>1. /\ channel' = [i \in 1 .. Len(channel) |->
             IF channel[i].from = c THEN [channel[i] EXCEPT !.from = Actions!Nobody]
             ELSE channel[i]]
      /\ serving' = IF serving # Actions!NoCommand /\ serving.from = c
                    THEN [serving EXCEPT !.from = Actions!Nobody] ELSE serving
  BY DEF Actions!Hangup
<1>2. ASSUME NEW m \in CommandType
      PROVE  LET n == [m EXCEPT !.from = Actions!Nobody]
             IN n \in CommandType /\ n.op = m.op /\ n.by = m.by /\ n.from = Actions!Nobody
  BY DEF CommandType, Callers
<1>3. ASSUME NEW i \in 1 .. Len(channel)
      PROVE  /\ channel[i] \in CommandType
             /\ channel'[i] \in CommandType
             /\ channel'[i].op = channel[i].op /\ channel'[i].by = channel[i].by
             /\ channel'[i].from # c
             /\ channel'[i] = channel[i] \/ channel'[i].from = Actions!Nobody
  <2>1. PICK m : m = channel[i]
    OBVIOUS
  <2>2. m \in CommandType /\ channel'[i] = IF m.from = c THEN [m EXCEPT !.from = Actions!Nobody] ELSE m
    BY <1>1, <2>1 DEF ActionType
  <2>3. QED
    BY <1>2, <2>1, <2>2
<1>4. Len(channel) \in Nat
  BY DEF ActionType
<1>5. channel' \in Seq(CommandType) /\ Len(channel') = Len(channel)
  BY <1>1, <1>3, <1>4
<1>6. ASSUME serving # Actions!NoCommand
      PROVE  /\ serving' \in ServingType /\ serving'.from # c /\ serving'.by = serving.by
             /\ serving' = serving \/ serving'.from = Actions!Nobody
  BY <1>1, <1>6 DEF ActionType, ServingType, Callers
<1>7. Actions!NoCommand \notin ServingType
  BY DEF Actions!NoCommand, ServingType, ActOps, Groups, Bulk
<1>8. QED
  BY <1>1, <1>3, <1>5, <1>6, <1>7

\* A record of a command being served is not NoCommand.
LEMMA ServingIsReal == \A s \in ServingType : s # Actions!NoCommand
BY DEF Actions!NoCommand, ServingType, ActOps, Groups, Bulk

\* What the client of a hung up command, and every other one, has in the channel.
LEMMA HeldAfterHangup ==
    ASSUME WireInv, NEW c \in Clients, Actions!Hangup(c), NEW d \in Clients,
           d # c => req'[d] = req[d] /\ script'[d] = script[d] /\ asked'[d] = asked[d]
    PROVE  Held(d)'
<1> USE RequestAssumption
<1>1. Held(d) /\ ActionType
  BY DEF WireInv
<1>2. /\ channel' \in Seq(CommandType) /\ Len(channel') = Len(channel)
      /\ \A i \in 1 .. Len(channel) :
             /\ channel'[i].from # c
             /\ channel'[i].from = d => channel'[i] = channel[i]
      /\ serving' = Actions!NoCommand <=> serving = Actions!NoCommand
      /\ serving # Actions!NoCommand =>
             serving'.from # c /\ (serving'.from = d => serving' = serving)
  BY <1>1, HangingUp
<1>3. CASE d = c
  BY <1>2, <1>3 DEF Held, Sent, Single, Served
<1>4. CASE d # c
  <2>1. Single(d)'
    BY <1>1, <1>2 DEF Held, Single
  <2>2. Sent(d)'
    BY <1>1, <1>2, <1>4 DEF Held, Sent, Actions!Command, Actions!CallAt, Actions!ActCall,
       Actions!StatusCall, Actions!SurveyCall, Actions!QueryCall, Actions!GroupCall,
       Actions!BulkCall, Actions!ProgramCall
  <2>3. Served(d)'
    BY <1>1, <1>2, <1>4 DEF Held, Served, Actions!At
  <2>4. QED
    BY <2>1, <2>2, <2>3 DEF Held
<1>5. QED
  BY <1>3, <1>4

\* The programs and the hub after a step: who listens keeps what is due, and has the
\* event of every change.
HubKept ==
    /\ state' \in [Programs -> States] /\ rx' \in [Clients -> Seq(EventType)]
    /\ lagged' \in [Clients -> BOOLEAN] /\ listening' = listening
    /\ \A c \in Clients : listening[c] =>
           /\ Due(c) => Due(c)'
           /\ \A q \in Programs : (req[c].name = q /\ state'[q] \in Actions!Settled) =>
                  Due(c)' \/ state'[q] = state[q]

\* A change of state that is published.
LEMMA BecomingKept ==
    ASSUME ActionType, NEW p \in Programs, NEW states \in Seq(States), Len(states) > 0,
           Actions!Becomes(p, states), req' = req
    PROVE  HubKept
<1>1. /\ state' \in [Programs -> States] /\ rx' \in [Clients -> Seq(EventType)]
      /\ lagged' \in [Clients -> BOOLEAN] /\ listening' = listening
      /\ \A q \in Programs : q # p => state'[q] = state[q]
      /\ \A c \in Clients : listening[c] =>
             /\ Due(c) => Due(c)'
             /\ (req[c].name = p /\ state'[p] \in Actions!Settled) => Due(c)'
  BY Becoming
<1>2. QED
  BY <1>1 DEF HubKept

\* Nothing is published.
LEMMA QuietKept ==
    ASSUME ActionType, UNCHANGED <<state, rx, lagged, listening, req>>
    PROVE  HubKept
BY DEF HubKept, ActionType, Due, Actions!IsAwaited

\* A program changes its own state.
LEMMA OwnMoveEffect ==
    ASSUME ActionType, NEW p \in Programs, Actions!OwnMove(p)
    PROVE  /\ HubKept
           /\ UNCHANGED <<registered, channel, serving, tasks, done, req, script, asked,
                          answer, blind>>
<1>1. UNCHANGED <<registered, channel, serving, tasks, done, req, script, asked, answer, blind>>
  BY DEF Actions!OwnMove, Actions!mgrVars
<1>2. PICK s \in {"Running", "Backoff", "Fatal", "Exited", "Starting"} : Actions!Becomes(p, <<s>>)
  BY DEF Actions!OwnMove
<1>3. s \in States
  BY <1>2 DEF States
<1>4. <<s>> \in Seq(States) /\ Len(<<s>>) > 0
  BY <1>3
<1>5. QED
  BY <1>1, <1>2, <1>4, BecomingKept

\* A target of a command.
LEMMA TargetEffect ==
    ASSUME WireInv, Actions!ServeTarget
    PROVE  /\ HubKept
           /\ UNCHANGED <<registered, channel, tasks, req, script, answer, blind>>
           /\ serving \in ServingType
           /\ \/ /\ serving' = Actions!NoCommand /\ UNCHANGED done
                 /\ Actions!ReplyTo(serving.from, Actions!Result("err", "Stopped"))
              \/ /\ serving' \in ServingType /\ serving'.from = serving.from
                 /\ serving'.by = serving.by /\ serving'.op = serving.op
                 /\ Actions!Progress(serving.by, "part") /\ UNCHANGED asked
<1>1. UNCHANGED <<registered, channel, tasks, req, script, answer, blind>>
  BY DEF Actions!ServeTarget
<1>2. ActionType /\ serving \in ServingType
  BY DEF WireInv, ActionType, Actions!ServeTarget
<1>3. PICK p \in serving.left : \E o \in Actions!Outcomes(Actions!CurrentOp, state[p]) :
       /\ IF o.states = <<state[p]>> THEN UNCHANGED <<state, Actions!hubVars>>
          ELSE Actions!Becomes(p, o.states)
       /\ IF o.bad /\ serving.op \notin {"start_all", "stop_all"}
          THEN /\ serving' = Actions!NoCommand
               /\ Actions!ReplyTo(serving.from, Actions!Result("err", "Stopped"))
               /\ UNCHANGED done
          ELSE /\ serving' = [serving EXCEPT !.left = @ \ {p}]
               /\ Actions!Progress(serving.by, "part")
               /\ UNCHANGED asked
  BY DEF Actions!ServeTarget
<1>4. PICK o \in Actions!Outcomes(Actions!CurrentOp, state[p]) :
       /\ IF o.states = <<state[p]>> THEN UNCHANGED <<state, Actions!hubVars>>
          ELSE Actions!Becomes(p, o.states)
       /\ IF o.bad /\ serving.op \notin {"start_all", "stop_all"}
          THEN /\ serving' = Actions!NoCommand
               /\ Actions!ReplyTo(serving.from, Actions!Result("err", "Stopped"))
               /\ UNCHANGED done
          ELSE /\ serving' = [serving EXCEPT !.left = @ \ {p}]
               /\ Actions!Progress(serving.by, "part")
               /\ UNCHANGED asked
  BY <1>3
<1>5. p \in Programs /\ state[p] \in States
  BY <1>2, <1>3 DEF ServingType, ActionType
<1>6. Actions!CurrentOp \in ActOps \ {"restart_group"}
  BY <1>2 DEF Actions!CurrentOp, ServingType, ActOps, Groups, Bulk
<1>7. HubKept
  <2>1. o.states \in Seq(States) /\ Len(o.states) > 0
    BY <1>4, <1>5, <1>6, OutcomeStates
  <2>2. UNCHANGED <<state, rx, lagged, listening>> \/ Actions!Becomes(p, o.states)
    BY <1>4 DEF Actions!hubVars
  <2>3. QED
    BY <1>1, <1>2, <1>5, <2>1, <2>2, BecomingKept, QuietKept
<1>8. [serving EXCEPT !.left = @ \ {p}] \in ServingType
  BY <1>2 DEF ServingType
<1>9. ASSUME serving' = [serving EXCEPT !.left = @ \ {p}]
      PROVE  serving'.from = serving.from /\ serving'.by = serving.by /\ serving'.op = serving.op
  BY <1>2, <1>9 DEF ServingType
<1>10. QED
  BY <1>1, <1>2, <1>4, <1>7, <1>8, <1>9

\* Nothing is asked at first.
LEMMA WireInit ==
    ASSUME Actions!Init
    PROVE  WireInv
<1>1. ActionType
  BY DEF Actions!Init, ActionType, States, Codes, Answers, Actions!Result
<1>2. ASSUME NEW c \in Clients PROVE Placed(c) /\ Held(c)
  BY DEF Actions!Init, Placed, Held, Sent, Single, Served, Actions!Result
<1>3. QED
  BY <1>1, <1>2 DEF WireInv

\* The programs do not touch what the handlers and the manager hold.
LEMMA WireStill ==
    ASSUME WireInv, HubKept, registered' \subseteq registered,
           UNCHANGED <<channel, serving, tasks, done, req, script, asked, answer, blind>>
    PROVE  WireInv'
<1>1. ActionType'
  BY DEF WireInv, ActionType, HubKept
<1>2. ASSUME NEW c \in Clients PROVE (Placed(c) /\ Held(c))'
  BY StillPlaced, StillHeld DEF WireInv
<1>3. QED
  BY <1>1, <1>2 DEF WireInv

\* A reply to the caller of a command that was held.
LEMMA PlacedAfterReply ==
    ASSUME WireInv, NEW d \in Clients, req'[d] = req[d], script'[d] = script[d],
           asked'[d] = asked[d] \/ asked[d].code = "sent"
    PROVE  Placed(d)'
BY DEF WireInv, Placed

\* A question is answered, or a command that matches nothing.
LEMMA WireAnswered ==
    ASSUME WireInv, serving = Actions!NoCommand, channel # <<>>, channel' = Tail(channel),
           NEW res \in [code : Codes, state : States],
           Actions!ReplyTo(Head(channel).from, res),
           UNCHANGED <<registered, state, serving, tasks, done, req, script, listening, rx,
                       lagged, answer, blind>>
    PROVE  WireInv'
<1>1. /\ channel' \in Seq(CommandType) /\ Head(channel) \in CommandType
      /\ Head(channel) = channel[1] /\ 1 \in 1 .. Len(channel)
  BY Taken
<1>2. /\ asked' \in [Clients -> [code : Codes, state : States]]
      /\ \A d \in Clients : asked'[d] = IF d = Head(channel).from THEN res ELSE asked[d]
  <2>1. Head(channel).from \in Callers
    BY <1>1 DEF CommandType
  <2>2. QED
    BY <2>1, Replying DEF WireInv
<1>3. ActionType'
  BY <1>1, <1>2 DEF WireInv, ActionType
<1>4. ASSUME NEW d \in Clients PROVE (Placed(d) /\ Held(d))'
  <2>1. Placed(d)'
    <3>1. d = Head(channel).from => asked[d].code = "sent"
      BY <1>1 DEF WireInv, Held, Sent
    <3>2. QED
      BY <1>2, <3>1, PlacedAfterReply
  <2>2. Sent(d)' /\ Single(d)'
    BY <1>2, HeldAfterTaking
  <2>3. Served(d)'
    BY DEF Served
  <2>4. QED
    BY <2>1, <2>2, <2>3 DEF Held
<1>5. QED
  BY <1>3, <1>4 DEF WireInv

\* A command is begun for the client that is at it.
LEMMA WireBegun ==
    ASSUME WireInv, serving = Actions!NoCommand, channel # <<>>, channel' = Tail(channel),
           ~Actions!IsQuery(Head(channel)), serving' \in ServingType,
           serving'.from = Head(channel).from, serving'.by = Head(channel).by,
           UNCHANGED <<registered, state, tasks, done, req, script, asked, listening, rx,
                       lagged, answer, blind>>
    PROVE  WireInv'
<1>1. /\ channel' \in Seq(CommandType) /\ Head(channel) \in CommandType
      /\ Head(channel) = channel[1] /\ 1 \in 1 .. Len(channel)
      /\ \A d \in Clients : Head(channel).from = d =>
             \A i \in 1 .. Len(channel') : channel'[i].from # d
  BY Taken
<1>2. ActionType'
  BY <1>1 DEF WireInv, ActionType
<1>3. ASSUME NEW d \in Clients PROVE (Placed(d) /\ Held(d))'
  <2>1. Placed(d)'
    BY StillPlaced DEF WireInv
  <2>2. Sent(d)' /\ Single(d)'
    BY HeldAfterTaking
  <2>3. ASSUME Head(channel).from = d
        PROVE  /\ asked[d].code = "sent" /\ Actions!At(d, "act") /\ Head(channel).by = d
    <3>1. /\ asked[d].code = "sent"
          /\ Head(channel) = Actions!Command(req[d], Head(script[d]), d, d)
      BY <1>1, <2>3 DEF WireInv, Held, Sent
    <3>2. script[d] # <<>> /\ Head(script[d]) \notin {"subscribe", "wait", "spawn"}
      BY <3>1 DEF WireInv, Placed
    <3>3. req[d] \in Posed /\ Follows(req[d], script[d])
      BY <3>2, AtWork
    <3>4. IsCommand(Head(channel), req[d], Head(script[d]), d, d)
      <4>1. Head(script[d]) \in Steps \ {"subscribe", "wait", "spawn"} /\ d \in Callers
        BY <3>2, <3>3 DEF Follows, Callers
      <4>2. Head(script[d]) = "act" => Acts(req[d])
        BY <3>3 DEF Follows
      <4>3. QED
        BY <3>1, <3>3, <4>1, <4>2, CommandOf
    <3>5. Head(script[d]) = "act" /\ Head(channel).by = d
      BY <3>4 DEF IsCommand
    <3>6. QED
      BY <3>1, <3>2, <3>5 DEF Actions!At
  <2>4. Served(d)'
    BY <1>1, <2>3 DEF Served, Actions!At
  <2>5. QED
    BY <2>1, <2>2, <2>4 DEF Held
<1>4. QED
  BY <1>2, <1>3 DEF WireInv

\* A command is over.
LEMMA WireOver ==
    ASSUME WireInv, serving \in ServingType, serving' = Actions!NoCommand, HubKept,
           NEW res \in [code : Codes, state : States],
           Actions!ReplyTo(serving.from, res), done' \in [Clients -> {"no", "part", "all"}],
           UNCHANGED <<registered, channel, tasks, req, script, answer, blind>>
    PROVE  WireInv'
<1>1. serving # Actions!NoCommand /\ serving.from \in Callers
  BY ServingIsReal DEF ServingType
<1>2. /\ asked' \in [Clients -> [code : Codes, state : States]]
      /\ \A d \in Clients : asked'[d] = IF d = serving.from THEN res ELSE asked[d]
  BY <1>1, Replying DEF WireInv
<1>3. ActionType'
  BY <1>2 DEF WireInv, ActionType, HubKept
<1>4. ASSUME NEW d \in Clients PROVE (Placed(d) /\ Held(d))'
  <2>1. /\ Held(d)
        /\ d = serving.from => asked[d].code = "sent" /\ \A i \in 1 .. Len(channel) : channel[i].from # d
    BY <1>1 DEF WireInv, Held, Served
  <2>2. Placed(d)'
    BY <1>2, <2>1, PlacedAfterReply
  <2>3. Served(d)' /\ Single(d)'
    BY <2>1 DEF Served, Held, Single
  <2>4. Sent(d)'
    BY <1>2, <2>1 DEF Held, Sent, Actions!Command, Actions!CallAt, Actions!ActCall,
       Actions!StatusCall, Actions!SurveyCall, Actions!QueryCall, Actions!GroupCall,
       Actions!BulkCall, Actions!ProgramCall
  <2>5. QED
    BY <2>2, <2>3, <2>4 DEF Held
<1>5. QED
  BY <1>3, <1>4 DEF WireInv

\* A command goes on.
LEMMA WireGoesOn ==
    ASSUME WireInv, serving \in ServingType, serving' \in ServingType,
           serving'.from = serving.from, serving'.by = serving.by, HubKept,
           done' \in [Clients -> {"no", "part", "all"}],
           UNCHANGED <<registered, channel, tasks, req, script, asked, answer, blind>>
    PROVE  WireInv'
<1>1. serving # Actions!NoCommand
  BY ServingIsReal
<1>2. ActionType'
  BY DEF WireInv, ActionType, HubKept
<1>3. ASSUME NEW d \in Clients PROVE (Placed(d) /\ Held(d))'
  <2>1. Placed(d)'
    BY StillPlaced DEF WireInv
  <2>2. Single(d)' /\ Served(d)'
    BY <1>1 DEF WireInv, Held, Single, Served, Actions!At
  <2>3. Sent(d)'
    BY DEF WireInv, Held, Sent, Actions!Command, Actions!CallAt, Actions!ActCall,
       Actions!StatusCall, Actions!SurveyCall, Actions!QueryCall, Actions!GroupCall,
       Actions!BulkCall, Actions!ProgramCall
  <2>4. QED
    BY <2>1, <2>2, <2>3 DEF Held
<1>4. QED
  BY <1>2, <1>3 DEF WireInv

\* The answer to a question: about all, about what does not exist, or the state of a match.
IsReply(m, res) ==
    /\ res \in [code : {"ok", "not_found"}, state : States]
    /\ m.op = "all_status" => res.code = "ok"
    /\ (m.op # "all_status" /\ m.name \in registered) => res.code = "ok" /\ res.state = state[m.name]

\* ServeQuery takes one question and answers it so.
LEMMA QueryEffect ==
    ASSUME WireInv, Actions!ServeQuery
    PROVE  /\ serving = Actions!NoCommand /\ channel # <<>> /\ channel' = Tail(channel)
           /\ Actions!IsQuery(Head(channel))
           /\ \E res : IsReply(Head(channel), res) /\ Actions!ReplyTo(Head(channel).from, res)
           /\ UNCHANGED <<registered, state, serving, tasks, done, req, script, listening, rx,
                          lagged, answer, blind>>
<1>1. PICK m : m = Head(channel)
  OBVIOUS
<1>2. /\ serving = Actions!NoCommand /\ channel # <<>> /\ channel' = Tail(channel)
      /\ Actions!IsQuery(Head(channel))
      /\ UNCHANGED <<registered, state, serving, tasks, done, req, script, listening, rx,
                     lagged, answer, blind>>
  BY DEF Actions!ServeQuery, Actions!progVars, Actions!hubVars
<1>3. IF m.op = "all_status" THEN Actions!ReplyTo(m.from, Actions!Result("ok", "Stopped"))
      ELSE IF Actions!FindMatch(m.name) = {}
      THEN Actions!ReplyTo(m.from, Actions!Result("not_found", "Stopped"))
      ELSE \E p \in Actions!FindMatch(m.name) :
              Actions!ReplyTo(m.from, Actions!Result("ok", state[p]))
  BY <1>1 DEF Actions!ServeQuery
<1>4. m.name \in registered => Actions!FindMatch(m.name) = {m.name}
  BY DEF Actions!FindMatch
<1>5. registered \subseteq Programs /\ state \in [Programs -> States] /\ "Stopped" \in States
  BY DEF WireInv, ActionType, States
<1>6. \E res : IsReply(m, res) /\ Actions!ReplyTo(m.from, res)
  <2>1. CASE m.op = "all_status"
    <3>1. IsReply(m, Actions!Result("ok", "Stopped"))
      BY <1>5, <2>1 DEF IsReply, Actions!Result
    <3>2. QED
      BY <1>3, <2>1, <3>1
  <2>2. CASE m.op # "all_status" /\ Actions!FindMatch(m.name) = {}
    <3>1. IsReply(m, Actions!Result("not_found", "Stopped"))
      BY <1>4, <1>5, <2>2 DEF IsReply, Actions!Result
    <3>2. QED
      BY <1>3, <2>2, <3>1
  <2>3. CASE m.op # "all_status" /\ Actions!FindMatch(m.name) # {}
    <3>1. PICK p \in Actions!FindMatch(m.name) :
              Actions!ReplyTo(m.from, Actions!Result("ok", state[p]))
      BY <1>3, <2>3
    <3>2. p \in Programs /\ state[p] \in States
      BY <1>5, <3>1 DEF Actions!FindMatch
    <3>3. IsReply(m, Actions!Result("ok", state[p]))
      BY <1>4, <2>3, <3>1, <3>2 DEF IsReply, Actions!Result
    <3>4. QED
      BY <3>1, <3>3
  <2>4. QED
    BY <2>1, <2>2, <2>3
<1>7. QED
  BY <1>1, <1>2, <1>6

\* A command that acts is refused because it matches nothing, or begun.
LEMMA CommandEffect ==
    ASSUME WireInv, Actions!ServeCommand
    PROVE  /\ serving = Actions!NoCommand /\ channel # <<>> /\ channel' = Tail(channel)
           /\ ~Actions!IsQuery(Head(channel))
           /\ \/ /\ Actions!ReplyTo(Head(channel).from, Actions!Result("not_found", "Stopped"))
                 /\ UNCHANGED serving
              \/ /\ serving' \in ServingType /\ serving'.from = Head(channel).from
                 /\ serving'.by = Head(channel).by /\ UNCHANGED asked
           /\ UNCHANGED <<registered, state, tasks, done, req, script, listening, rx,
                          lagged, answer, blind>>
<1>1. PICK m : m = Head(channel)
  OBVIOUS
<1>2. /\ serving = Actions!NoCommand /\ channel # <<>> /\ channel' = Tail(channel)
      /\ ~Actions!IsQuery(m)
      /\ UNCHANGED <<registered, state, tasks, done, req, script, listening, rx,
                     lagged, answer, blind>>
  BY <1>1 DEF Actions!ServeCommand, Actions!progVars, Actions!hubVars
<1>3. \/ /\ Actions!ReplyTo(m.from, Actions!Result("not_found", "Stopped"))
         /\ UNCHANGED serving
      \/ /\ serving' = [op |-> m.op, left |-> Actions!TargetsOf(m), again |-> FALSE,
                        from |-> m.from, by |-> m.by, name |-> m.name]
         /\ UNCHANGED asked
  BY <1>1 DEF Actions!ServeCommand
<1>4. m \in CommandType
  BY <1>1, <1>2, Taken
<1>5. m.op \in ActOps
  BY <1>2, <1>4 DEF CommandType, Asking, Actions!IsQuery
<1>6. Actions!TargetsOf(m) \subseteq Programs
  BY DEF WireInv, ActionType, Actions!TargetsOf, Actions!FindMatch
<1>7. [op |-> m.op, left |-> Actions!TargetsOf(m), again |-> FALSE,
       from |-> m.from, by |-> m.by, name |-> m.name] \in ServingType
  BY <1>4, <1>5, <1>6 DEF CommandType, ServingType
<1>8. ASSUME serving' = [op |-> m.op, left |-> Actions!TargetsOf(m), again |-> FALSE,
                         from |-> m.from, by |-> m.by, name |-> m.name]
      PROVE  serving' \in ServingType /\ serving'.from = m.from /\ serving'.by = m.by
  BY <1>7, <1>8
<1>9. QED
  BY <1>1, <1>2, <1>3, <1>8

\* All targets are served: the second half of restart_group, or the end.
LEMMA DoneEffect ==
    ASSUME WireInv, Actions!ServeDone
    PROVE  /\ serving \in ServingType
           /\ \/ /\ serving' \in ServingType /\ serving'.from = serving.from
                 /\ serving'.by = serving.by /\ UNCHANGED <<asked, done>>
              \/ /\ serving' = Actions!NoCommand
                 /\ Actions!ReplyTo(serving.from, Actions!Result("ok", "Stopped"))
                 /\ Actions!Progress(serving.by, "all")
           /\ UNCHANGED <<registered, state, channel, tasks, req, script, listening, rx,
                          lagged, answer, blind>>
<1>1. serving \in ServingType
  BY DEF WireInv, ActionType, Actions!ServeDone
<1>2. Actions!FindMatch(serving.name) \subseteq Programs
  BY DEF WireInv, ActionType, Actions!FindMatch
<1>3. UNCHANGED <<registered, state, channel, tasks, req, script, listening, rx,
                  lagged, answer, blind>>
  BY DEF Actions!ServeDone, Actions!progVars, Actions!hubVars
<1>4. \/ /\ serving' = [serving EXCEPT !.left = Actions!FindMatch(serving.name), !.again = TRUE]
         /\ UNCHANGED <<asked, done>>
      \/ /\ serving' = Actions!NoCommand
         /\ Actions!ReplyTo(serving.from, Actions!Result("ok", "Stopped"))
         /\ Actions!Progress(serving.by, "all")
  BY DEF Actions!ServeDone
<1>5. ASSUME serving' = [serving EXCEPT !.left = Actions!FindMatch(serving.name), !.again = TRUE]
      PROVE  /\ serving' \in ServingType /\ serving'.from = serving.from
             /\ serving'.by = serving.by
  BY <1>1, <1>2, <1>5 DEF ServingType
<1>6. QED
  BY <1>1, <1>3, <1>4, <1>5

\* The progress of a command is that of the client that asked for it.
LEMMA Progressing ==
    ASSUME ActionType, NEW c \in Clients, NEW x \in {"no", "part", "all"},
           Actions!Progress(c, x)
    PROVE  /\ done' \in [Clients -> {"no", "part", "all"}]
           /\ \A d \in Clients : done'[d] = IF d = c THEN x ELSE done[d]
<1>1. c # Actions!Nobody
  BY RequestAssumption
<1>2. done' = [done EXCEPT ![c] = x]
  BY <1>1 DEF Actions!Progress
<1>3. QED
  BY <1>2 DEF ActionType

\* The results the manager gives.
LEMMA ResultType ==
    /\ \A m, res : IsReply(m, res) => res \in [code : Codes, state : States]
    /\ \A x \in Codes : Actions!Result(x, "Stopped") \in [code : Codes, state : States]
    /\ \A x, s : Actions!Result(x, s).code = x /\ Actions!Result(x, s).state = s
BY DEF IsReply, Codes, States, Actions!Result

\* The manager holds a command for its client until it answers.
LEMMA WireManage ==
    ASSUME WireInv, Actions!Manage
    PROVE  WireInv'
<1>1. ActionType
  BY DEF WireInv
<1>2. CASE Actions!ServeQuery
  BY <1>2, QueryEffect, ResultType, WireAnswered
<1>3. CASE Actions!ServeCommand
  <2>1. Actions!Result("not_found", "Stopped") \in [code : Codes, state : States]
    BY ResultType DEF Codes
  <2>2. QED
    BY <1>3, <2>1, CommandEffect, WireAnswered, WireBegun
<1>4. CASE Actions!ServeTarget
  <2>1. Actions!Result("err", "Stopped") \in [code : Codes, state : States]
    BY ResultType DEF Codes
  <2>2. serving \in ServingType /\ serving.by \in Clients
    BY <1>4, TargetEffect DEF ServingType
  <2>3. Actions!Progress(serving.by, "part") => done' \in [Clients -> {"no", "part", "all"}]
    BY <1>1, <2>2, Progressing
  <2>4. done \in [Clients -> {"no", "part", "all"}]
    BY <1>1 DEF ActionType
  <2>5. QED
    BY <1>4, <2>1, <2>2, <2>3, <2>4, TargetEffect, WireOver, WireGoesOn
<1>5. CASE Actions!ServeDone
  <2>1. Actions!Result("ok", "Stopped") \in [code : Codes, state : States]
    BY ResultType DEF Codes
  <2>2. serving \in ServingType /\ serving.by \in Clients
    BY <1>5, DoneEffect DEF ServingType
  <2>3. Actions!Progress(serving.by, "all") => done' \in [Clients -> {"no", "part", "all"}]
    BY <1>1, <2>2, Progressing
  <2>4. done \in [Clients -> {"no", "part", "all"}]
    BY <1>1 DEF ActionType
  <2>5. HubKept
    BY <1>1, <1>5, DoneEffect, QuietKept
  <2>6. QED
    BY <1>5, <2>1, <2>2, <2>3, <2>4, <2>5, DoneEffect, WireOver, WireGoesOn
<1>6. QED
  BY <1>2, <1>3, <1>4, <1>5 DEF Actions!Manage

\* What can follow in the scripts that wait.
LEMMA WaitScripts ==
    ASSUME NEW r
    PROVE  /\ <<>> \in Remaining(r)
           /\ Waits(r) => /\ <<"final">> \in Remaining(r) /\ <<"wait", "final">> \in Remaining(r)
                          /\ <<"lagcheck", "final">> \in Remaining(r)
<1>1. <<>> \in Remaining(r)
  BY DEF Remaining
<1>2. ASSUME Waits(r)
      PROVE  Remaining(r) = {<<>>} \cup
                 {<<"act", "subscribe", "recheck", "wait", "final">>,
                  <<"subscribe", "recheck", "wait", "final">>, <<"recheck", "wait", "final">>,
                  <<"wait", "final">>, <<"lagcheck", "final">>, <<"final">>}
  BY <1>2 DEF Remaining, Waits, Bulk, Groups
<1>3. QED
  BY <1>1, <1>2

\* A client that does not wait for a reply holds no command.
LEMMA HoldsNone ==
    ASSUME NEW c \in Clients, Held(c), asked[c].code # "sent"
    PROVE  /\ \A i \in 1 .. Len(channel) : channel[i].from # c
           /\ serving # Actions!NoCommand => serving.from # c
BY DEF Held, Sent, Served

\* It holds none after a step that leaves the channel and the manager alone.
LEMMA StillHoldsNone ==
    ASSUME NEW c \in Clients, Held(c), asked[c].code # "sent", UNCHANGED <<channel, serving>>
    PROVE  Held(c)'
BY HoldsNone DEF Held, Sent, Single, Served

\* The handler of c moves on, with no call of its own under way afterwards.
LEMMA WireOnWay ==
    ASSUME WireInv, NEW c \in Clients, script[c] # <<>>, WayType', AloneOnWay(c),
           asked' \in [Clients -> [code : Codes, state : States]], asked'[c].code = "none",
           \A d \in Clients \ {c} : asked'[d] = asked[d],
           blind' \in [Clients -> BOOLEAN], script'[c] \in Remaining(req[c]),
           channel' \in Seq(CommandType), serving' \in ServingType \cup {Actions!NoCommand},
           tasks' \in Seq(TaskType), \A d \in Clients : Held(d)',
           UNCHANGED <<registered, state, done, req>>
    PROVE  WireInv'
<1>2. ActionType'
  BY DEF WireInv, ActionType, WayType
<1>3. Placed(c)'
  BY AtWork DEF Placed, WireInv
<1>4. ASSUME NEW d \in Clients \ {c} PROVE Placed(d)'
  BY StillPlaced DEF WireInv, AloneOnWay
<1>5. QED
  BY <1>2, <1>3, <1>4 DEF WireInv

\* What is left of a script after a result.
LEMMA ResumedPlace ==
    ASSUME WireInv, NEW c \in Clients, script[c] # <<>>, NEW res, Resumed(c, res)
    PROVE  script'[c] \in Remaining(req[c])
<1>1. Follows(req[c], script[c])
  BY AtWork
<1>2. Actions!At(c, "lagcheck") => Waits(req[c])
  BY <1>1 DEF Actions!At, Follows
<1>3. QED
  BY <1>1, <1>2, WaitScripts DEF Resumed, Onward, Ends, Follows

\* The handler has no call any more.
LEMMA CallCleared ==
    ASSUME ActionType, NEW c \in Clients,
           asked' = [asked EXCEPT ![c] = Actions!Result("none", "Stopped")]
    PROVE  /\ asked' \in [Clients -> [code : Codes, state : States]] /\ asked'[c].code = "none"
           /\ \A d \in Clients \ {c} : asked'[d] = asked[d]
BY ResultType DEF ActionType, Codes

\* A handler takes the result of its call, or gives up waiting for it.
LEMMA WireResumed ==
    ASSUME WireInv, NEW c \in Clients, Actions!Answered(c) \/ Actions!CallTimesOut(c)
    PROVE  WireInv'
<1>1. /\ asked[c].code # "none" /\ script[c] # <<>>
      /\ UNCHANGED <<registered, state, tasks, done, req>>
      /\ \E res : Actions!Resume(c, res)
  <2>1. asked[c].code # "none"
    BY DEF Actions!Answered, Actions!CallTimesOut
  <2>2. QED
    BY <2>1 DEF Actions!Answered, Actions!CallTimesOut, Actions!progVars, Actions!mgrVars,
                WireInv, Placed
<1>2. PICK res : Actions!Resume(c, res)
  BY <1>1
<1>3. /\ WayType' /\ AloneOnWay(c) /\ Resumed(c, res)
      /\ blind' \in [Clients -> BOOLEAN]
      /\ asked' \in [Clients -> [code : Codes, state : States]] /\ asked'[c].code = "none"
      /\ \A d \in Clients \ {c} : asked'[d] = asked[d]
  BY <1>1, <1>2, Resuming, CallCleared DEF WireInv
<1>4. script'[c] \in Remaining(req[c])
  BY <1>1, <1>3, ResumedPlace
<1>5. ActionType /\ tasks' \in Seq(TaskType)
  BY <1>1 DEF WireInv, ActionType
<1>6. \A d \in Clients \ {c} : req'[d] = req[d] /\ script'[d] = script[d] /\ asked'[d] = asked[d]
  BY <1>1, <1>3 DEF AloneOnWay
<1>7. CASE Actions!Answered(c)
  <2>1. UNCHANGED <<channel, serving>> /\ asked[c].code # "sent"
    BY <1>7 DEF Actions!Answered, Actions!mgrVars
  <2>2. \A d \in Clients : Held(d)'
    BY <1>6, <2>1, StillHeld, StillHoldsNone DEF WireInv
  <2>3. QED
    BY <1>1, <1>3, <1>4, <1>5, <2>1, <2>2, WireOnWay DEF ActionType
<1>8. CASE Actions!CallTimesOut(c)
  <2>1. Actions!Hangup(c)
    BY <1>8 DEF Actions!CallTimesOut
  <2>2. \A d \in Clients : Held(d)'
    BY <1>6, <2>1, HeldAfterHangup
  <2>3. channel' \in Seq(CommandType) /\ serving' \in ServingType \cup {Actions!NoCommand}
    BY <1>5, <2>1, HangingUp
  <2>4. QED
    BY <1>1, <1>3, <1>4, <1>5, <2>2, <2>3, WireOnWay
<1>9. QED
  BY <1>7, <1>8

\* The step of a client that is at a step which makes no call.
LEMMA CallsNothing ==
    ASSUME WireInv, NEW c \in Clients, script[c] # <<>>,
           Head(script[c]) \in {"subscribe", "wait", "spawn"}
    PROVE  asked[c].code = "none"
BY DEF WireInv, Placed

\* A new request, its calls and the task it leaves behind.
LEMMA WireRequest ==
    ASSUME WireInv, NEW c \in Clients, Actions!Request(c)
    PROVE  WireInv'
<1>1. /\ req[c] = Actions!NoRequest
      /\ UNCHANGED <<registered, state, channel, serving, tasks, done, asked, listening, rx,
                     lagged, answer, blind>>
  BY DEF Actions!Request, Actions!progVars, Actions!mgrVars, Actions!hubVars
<1>2. PICK r \in Requests[c] : /\ req' = [req EXCEPT ![c] = r]
                               /\ script' = [script EXCEPT ![c] = Actions!ScriptOf(r)]
  BY DEF Actions!Request
<1>3. r \in Posed /\ Actions!Handled(r)
  BY <1>2, RequestAssumption DEF Posed
<1>4. PICK s : s = Actions!ScriptOf(r)
  OBVIOUS
<1>5. s \in Remaining(r) /\ s \in Seq(Steps)
  <2>1. s \in Remaining(r) /\ s # <<>>
    BY <1>3, <1>4, ScriptFirst
  <2>2. QED
    BY <1>3, <2>1, ScriptStep DEF Follows
<1>6. /\ req'[c] = r /\ script'[c] = s
      /\ \A d \in Clients \ {c} : req'[d] = req[d] /\ script'[d] = script[d]
  BY <1>2, <1>4 DEF WireInv, ActionType
<1>7. ActionType'
  BY <1>1, <1>2, <1>3, <1>4, <1>5 DEF WireInv, ActionType
<1>8. asked[c].code = "none"
  BY <1>1 DEF WireInv, Placed
<1>9. Placed(c)'
  <2>1. r # Actions!NoRequest
    BY <1>3 DEF Actions!Handled, Actions!NoRequest
  <2>2. QED
    BY <1>1, <1>2, <1>5, <1>6, <1>8, <2>1 DEF Placed
<1>10. ASSUME NEW d \in Clients \ {c} PROVE Placed(d)'
  BY <1>1, <1>6, StillPlaced DEF WireInv
<1>11. ASSUME NEW d \in Clients PROVE Held(d)'
  BY <1>1, <1>6, <1>8, StillHeld, StillHoldsNone DEF WireInv
<1>12. QED
  BY <1>7, <1>9, <1>10, <1>11 DEF WireInv

\* A handler makes the call of its step.
LEMMA SendEffect ==
    ASSUME WireInv, NEW c \in Clients, Actions!Send(c)
    PROVE  /\ script[c] # <<>> /\ asked[c].code = "none"
           /\ Head(script[c]) \in Steps \ {"subscribe", "wait", "spawn"}
           /\ \E m : /\ m = Actions!Command(req[c], Head(script[c]), c, c)
                     /\ channel' = Append(channel, m)
                     /\ IsCommand(m, req[c], Head(script[c]), c, c)
           /\ asked' = [asked EXCEPT ![c] = Actions!Result("sent", "Stopped")]
           /\ UNCHANGED <<registered, state, serving, tasks, done, req, script, listening, rx,
                          lagged, answer, blind>>
<1>1. /\ script[c] # <<>> /\ asked[c].code = "none"
      /\ Head(script[c]) \notin {"subscribe", "wait", "spawn"}
      /\ channel' = Append(channel, Actions!Command(req[c], Head(script[c]), c, c))
      /\ asked' = [asked EXCEPT ![c] = Actions!Result("sent", "Stopped")]
      /\ UNCHANGED <<registered, state, serving, tasks, done, req, script, listening, rx,
                     lagged, answer, blind>>
  BY DEF Actions!Send, Actions!progVars, Actions!hubVars
<1>2. req[c] \in Posed /\ Follows(req[c], script[c])
  BY <1>1, AtWork
<1>3. /\ Head(script[c]) \in Steps \ {"subscribe", "wait", "spawn"} /\ c \in Callers
      /\ Head(script[c]) = "act" => Acts(req[c])
  BY <1>1, <1>2 DEF Follows, Callers
<1>4. IsCommand(Actions!Command(req[c], Head(script[c]), c, c), req[c], Head(script[c]), c, c)
  BY <1>2, <1>3, CommandOf
<1>5. QED
  BY <1>1, <1>3, <1>4

\* A command joins the channel.
LEMMA Appended ==
    ASSUME NEW m \in CommandType, channel \in Seq(CommandType), channel' = Append(channel, m)
    PROVE  /\ channel' \in Seq(CommandType) /\ Len(channel') = Len(channel) + 1
           /\ Len(channel) \in Nat /\ channel'[Len(channel')] = m
           /\ \A i \in 1 .. Len(channel') : i # Len(channel') =>
                  i \in 1 .. Len(channel) /\ channel'[i] = channel[i]
OBVIOUS

\* What a client holds after another one, or nobody, has sent a command.
LEMMA HeldAfterSend ==
    ASSUME NEW m \in CommandType, channel \in Seq(CommandType), channel' = Append(channel, m),
           NEW d \in Clients, Held(d), m.from # d, req'[d] = req[d], script'[d] = script[d],
           asked'[d] = asked[d], UNCHANGED serving
    PROVE  Held(d)'
<1>1. /\ channel' \in Seq(CommandType)
      /\ \A i \in 1 .. Len(channel') : channel'[i].from = d =>
             i \in 1 .. Len(channel) /\ channel'[i] = channel[i]
  BY Appended
<1>2. Single(d)'
  BY <1>1 DEF Held, Single
<1>3. Sent(d)'
  <2>1. SUFFICES ASSUME NEW i \in 1 .. Len(channel'), channel'[i].from = d
                 PROVE  /\ asked'[d].code = "sent"
                        /\ channel'[i] = Actions!Command(req[d], Head(script[d]), d, d)
    BY DEF Sent, Actions!Command, Actions!CallAt, Actions!ActCall, Actions!StatusCall,
           Actions!SurveyCall, Actions!QueryCall, Actions!GroupCall, Actions!BulkCall,
           Actions!ProgramCall
  <2>2. QED
    BY <1>1, <2>1 DEF Held, Sent
<1>4. Served(d)'
  <2>1. SUFFICES ASSUME serving # Actions!NoCommand, serving.from = d
                 PROVE  /\ asked'[d].code = "sent" /\ Actions!At(d, "act")' /\ serving.by = d
                        /\ \A i \in 1 .. Len(channel') : channel'[i].from # d
    BY DEF Served
  <2>2. /\ asked[d].code = "sent" /\ Actions!At(d, "act") /\ serving.by = d
        /\ \A i \in 1 .. Len(channel) : channel[i].from # d
    BY <2>1 DEF Held, Served
  <2>3. QED
    BY <1>1, <2>2 DEF Actions!At
<1>5. QED
  BY <1>2, <1>3, <1>4 DEF Held

\* The call of a handler is the one command it holds.
LEMMA WireSend ==
    ASSUME WireInv, NEW c \in Clients, Actions!Send(c)
    PROVE  WireInv'
<1>1. PICK m : /\ m = Actions!Command(req[c], Head(script[c]), c, c)
               /\ channel' = Append(channel, m) /\ IsCommand(m, req[c], Head(script[c]), c, c)
  BY SendEffect
<1>2. /\ script[c] # <<>> /\ asked[c].code = "none"
      /\ Head(script[c]) \in Steps \ {"subscribe", "wait", "spawn"}
      /\ asked' = [asked EXCEPT ![c] = Actions!Result("sent", "Stopped")]
      /\ UNCHANGED <<registered, state, serving, tasks, done, req, script, listening, rx,
                     lagged, answer, blind>>
  BY SendEffect
<1>3. m \in CommandType /\ m.from = c /\ channel \in Seq(CommandType)
  BY <1>1 DEF IsCommand, WireInv, ActionType
<1>4. /\ channel' \in Seq(CommandType) /\ channel'[Len(channel')] = m
      /\ \A i \in 1 .. Len(channel') : i # Len(channel') =>
             i \in 1 .. Len(channel) /\ channel'[i] = channel[i]
  BY <1>1, <1>3, Appended
<1>5. /\ asked' \in [Clients -> [code : Codes, state : States]] /\ asked'[c].code = "sent"
      /\ \A d \in Clients \ {c} : asked'[d] = asked[d]
  BY <1>2, ResultType DEF WireInv, ActionType, Codes
<1>6. ActionType'
  BY <1>2, <1>4, <1>5 DEF WireInv, ActionType
<1>7. ASSUME NEW d \in Clients \ {c} PROVE (Placed(d) /\ Held(d))'
  BY <1>1, <1>2, <1>3, <1>5, StillPlaced, HeldAfterSend DEF WireInv
<1>8. Placed(c)'
  BY <1>2 DEF Placed, WireInv
<1>9. Held(c)'
  <2>1. /\ \A i \in 1 .. Len(channel) : channel[i].from # c
        /\ serving # Actions!NoCommand => serving.from # c
    BY <1>2, HoldsNone DEF WireInv
  <2>2. \A i \in 1 .. Len(channel') : channel'[i].from = c => i = Len(channel')
    BY <1>4, <2>1
  <2>3. Single(c)' /\ Served(c)'
    BY <1>2, <2>1, <2>2 DEF Single, Served
  <2>4. Sent(c)'
    <3>1. SUFFICES ASSUME NEW i \in 1 .. Len(channel'), channel'[i].from = c
                   PROVE  /\ asked'[c].code = "sent"
                          /\ channel'[i] = Actions!Command(req[c], Head(script[c]), c, c)
      BY <1>2 DEF Sent, Actions!Command, Actions!CallAt, Actions!ActCall, Actions!StatusCall,
             Actions!SurveyCall, Actions!QueryCall, Actions!GroupCall, Actions!BulkCall,
             Actions!ProgramCall
    <3>2. QED
      BY <1>1, <1>4, <1>5, <2>2, <3>1
  <2>5. QED
    BY <2>3, <2>4 DEF Held
<1>10. QED
  BY <1>6, <1>7, <1>8, <1>9 DEF WireInv

\* A detached task sends its command, for which nobody waits.
LEMMA WireTaskSends ==
    ASSUME WireInv, Actions!TaskSends
    PROVE  /\ WireInv' /\ tasks # <<>> /\ Head(tasks) \in CommandType
           /\ Head(tasks) = tasks[1] /\ 1 \in 1 .. Len(tasks)
           /\ \A i \in 1 .. Len(tasks') : i + 1 \in 1 .. Len(tasks) /\ tasks'[i] = tasks[i + 1]
<1>1. /\ tasks # <<>> /\ channel' = Append(channel, Head(tasks)) /\ tasks' = Tail(tasks)
      /\ UNCHANGED <<registered, state, serving, done, req, script, asked, listening, rx,
                     lagged, answer, blind>>
  BY DEF Actions!TaskSends, Actions!progVars, Actions!clientVars, Actions!hubVars
<1>2. tasks \in Seq(TaskType) /\ channel \in Seq(CommandType)
  BY DEF WireInv, ActionType
<1>3. /\ Head(tasks) \in TaskType /\ Head(tasks) = tasks[1] /\ 1 \in 1 .. Len(tasks)
      /\ tasks' \in Seq(TaskType)
      /\ \A i \in 1 .. Len(tasks') : i + 1 \in 1 .. Len(tasks) /\ tasks'[i] = tasks[i + 1]
  BY <1>1, <1>2
<1>4. Head(tasks) \in CommandType /\ Head(tasks).from = Actions!Nobody
  BY <1>3 DEF TaskType, CommandType, Callers
<1>5. channel' \in Seq(CommandType)
  BY <1>1, <1>2, <1>4, Appended
<1>6. ActionType'
  BY <1>1, <1>3, <1>5 DEF WireInv, ActionType
<1>7. ASSUME NEW d \in Clients PROVE (Placed(d) /\ Held(d))'
  BY <1>1, <1>2, <1>4, StillPlaced, HeldAfterSend, RequestAssumption DEF WireInv
<1>8. QED
  BY <1>1, <1>3, <1>4, <1>6, <1>7 DEF WireInv

\* An asynchronous stop or restart answers and leaves its command to a task.
LEMMA SpawnEffect ==
    ASSUME WireInv, NEW c \in Clients, Actions!Spawn(c)
    PROVE  /\ script[c] # <<>> /\ Head(script[c]) = "spawn" /\ asked[c].code = "none"
           /\ WayType' /\ AloneOnWay(c) /\ Ends(c, "accepted")
           /\ req[c].op # "start" /\ Acts(req[c])
           /\ \E m \in TaskType : m.by = c /\ tasks' = Append(tasks, m)
           /\ UNCHANGED <<registered, state, channel, serving, done, req, asked, blind>>
<1>1. /\ script[c] # <<>> /\ Head(script[c]) = "spawn" /\ Actions!Advance(c)
      /\ tasks' = Append(tasks, Actions!Command(req[c], "act", Actions!Nobody, c))
      /\ UNCHANGED <<registered, state, channel, serving, done, req, asked, blind>>
  BY DEF Actions!Spawn, Actions!At, Actions!progVars
<1>2. /\ req[c] \in Posed /\ Acts(req[c]) /\ req[c].op # "start" /\ Tail(script[c]) = <<>>
      /\ Actions!Completed(req[c]) = "accepted"
  BY <1>1, AtWork DEF Follows
<1>3. WayType' /\ AloneOnWay(c) /\ Ends(c, "accepted")
  BY <1>1, <1>2, Advancing DEF Onward
<1>4. PICK m : m = Actions!Command(req[c], "act", Actions!Nobody, c)
  OBVIOUS
<1>5. IsCommand(m, req[c], "act", Actions!Nobody, c)
  <2>1. "act" \in Steps \ {"subscribe", "wait", "spawn"} /\ Actions!Nobody \in Callers
    BY DEF Steps, Callers
  <2>2. QED
    BY <1>2, <1>4, <2>1, CommandOf
<1>6. m \in TaskType /\ m.by = c
  BY <1>5 DEF IsCommand, CommandType, TaskType, Asking, Actions!IsQuery
<1>7. QED
  BY <1>1, <1>2, <1>3, <1>4, <1>6, CallsNothing

\* The waits: subscribing, reading an event, finding that events were lost, giving up.
LEMMA SubscribeEffect ==
    ASSUME WireInv, NEW c \in Clients, Actions!Subscribe(c)
    PROVE  /\ script[c] # <<>> /\ asked[c].code = "none" /\ Waits(req[c])
           /\ script[c] \notin Ahead /\ script'[c] \notin Ahead
           /\ script'[c] = <<"recheck", "wait", "final">> /\ listening'[c]
           /\ WayType' /\ AloneOnWay(c) /\ script'[c] \in Remaining(req[c])
           /\ UNCHANGED <<registered, state, channel, serving, tasks, done, req, asked, rx,
                          lagged, answer, blind>>
<1>1. /\ script[c] # <<>> /\ Head(script[c]) = "subscribe"
      /\ listening' = [listening EXCEPT ![c] = TRUE]
      /\ script' = [script EXCEPT ![c] = Tail(script[c])]
      /\ UNCHANGED <<registered, state, channel, serving, tasks, done, req, asked, rx,
                     lagged, answer, blind>>
  BY DEF Actions!Subscribe, Actions!At, Actions!progVars, Actions!mgrVars
<1>2. ActionType /\ Follows(req[c], script[c]) /\ asked[c].code = "none"
  BY <1>1, AtWork, CallsNothing DEF WireInv
<1>3. script[c] = <<"subscribe", "recheck", "wait", "final">>
  BY <1>1, <1>2 DEF Follows
<1>4. Tail(script[c]) = <<"recheck", "wait", "final">>
  BY <1>3, TailOfFour
<1>5. /\ script'[c] = Tail(script[c]) /\ listening'[c]
      /\ WayType' /\ AloneOnWay(c) 
  BY <1>1, <1>2 DEF WayType, AloneOnWay, ActionType, Follows
<1>6. Waits(req[c]) /\ script[c] \notin Ahead /\ Tail(script[c]) \notin Ahead
      /\ Tail(script[c]) \in Remaining(req[c])
  BY <1>1, <1>2 DEF Follows
<1>7. QED
  BY <1>1, <1>2, <1>4, <1>5, <1>6

\* An event is read: the awaited one ends the wait.
LEMMA WaitEventEffect ==
    ASSUME WireInv, NEW c \in Clients, Actions!WaitEvent(c)
    PROVE  /\ script[c] # <<>> /\ asked[c].code = "none" /\ Waits(req[c])
           /\ script[c] \notin Ahead /\ script'[c] \notin Ahead /\ script'[c] # <<>>
           /\ ~lagged[c] /\ rx[c] # <<>> /\ rx'[c] = Tail(rx[c])
           /\ \/ Actions!IsAwaited(c, Head(rx[c])) /\ script'[c] = <<"final">>
              \/ ~Actions!IsAwaited(c, Head(rx[c])) /\ script'[c] = <<"wait", "final">>
           /\ WayType' /\ AloneOnWay(c) /\ script'[c] \in Remaining(req[c])
           /\ UNCHANGED <<registered, state, channel, serving, tasks, done, req, asked,
                          listening, lagged, answer, blind>>
<1>1. /\ script[c] # <<>> /\ Head(script[c]) = "wait" /\ ~lagged[c] /\ rx[c] # <<>>
      /\ rx' = [rx EXCEPT ![c] = Tail(rx[c])]
      /\ script' = [script EXCEPT ![c] = IF Actions!IsAwaited(c, Head(rx[c]))
                                         THEN Tail(script[c]) ELSE script[c]]
      /\ UNCHANGED <<registered, state, channel, serving, tasks, done, req, asked,
                     listening, lagged, answer, blind>>
  BY DEF Actions!WaitEvent, Actions!At, Actions!progVars, Actions!mgrVars
<1>2. ActionType /\ Follows(req[c], script[c]) /\ asked[c].code = "none"
      /\ script[c] \in Remaining(req[c])
  BY <1>1, AtWork, CallsNothing DEF WireInv
<1>3. script[c] = <<"wait", "final">> /\ Waits(req[c]) /\ script[c] \notin Ahead
      /\ Tail(script[c]) \notin Ahead /\ Tail(script[c]) \in Remaining(req[c])
      /\ Tail(script[c]) \in Seq(Steps)
  BY <1>1, <1>2 DEF Follows
<1>4. Tail(script[c]) = <<"final">> /\ Tail(script[c]) # <<>>
  BY <1>3, TailOfTwo
<1>5. Tail(rx[c]) \in Seq(EventType)
  BY <1>1, <1>2 DEF ActionType
<1>6. /\ rx'[c] = Tail(rx[c])
      /\ script'[c] = IF Actions!IsAwaited(c, Head(rx[c])) THEN Tail(script[c]) ELSE script[c]
      /\ WayType' /\ AloneOnWay(c)
  BY <1>1, <1>2, <1>3, <1>5 DEF WayType, AloneOnWay, ActionType
<1>7. QED
  BY <1>1, <1>2, <1>3, <1>4, <1>6

\* Lost events make the handler look at the state.
LEMMA WaitLagEffect ==
    ASSUME WireInv, NEW c \in Clients, Actions!WaitLag(c)
    PROVE  /\ script[c] # <<>> /\ asked[c].code = "none" /\ Waits(req[c])
           /\ script[c] \notin Ahead /\ script'[c] = <<"lagcheck", "final">>
           /\ Head(script[c]) = "wait"
           /\ WayType' /\ AloneOnWay(c) /\ script'[c] \in Remaining(req[c])
           /\ UNCHANGED <<registered, state, channel, serving, tasks, done, req, asked,
                          listening, rx, answer, blind>>
<1>1. /\ script[c] # <<>> /\ Head(script[c]) = "wait"
      /\ lagged' = [lagged EXCEPT ![c] = FALSE]
      /\ script' = [script EXCEPT ![c] = <<"lagcheck", "final">>]
      /\ UNCHANGED <<registered, state, channel, serving, tasks, done, req, asked,
                     listening, rx, answer, blind>>
  BY DEF Actions!WaitLag, Actions!At, Actions!progVars, Actions!mgrVars
<1>2. ActionType /\ Follows(req[c], script[c]) /\ asked[c].code = "none"
  BY <1>1, AtWork, CallsNothing DEF WireInv
<1>3. Waits(req[c]) /\ script[c] \notin Ahead
  BY <1>1, <1>2 DEF Follows
<1>4. <<"lagcheck", "final">> \in Seq(Steps)
  BY DEF Steps
<1>5. WayType' /\ AloneOnWay(c) /\ script'[c] = <<"lagcheck", "final">>
  BY <1>1, <1>2, <1>4 DEF WayType, AloneOnWay, ActionType
<1>6. QED
  BY <1>1, <1>2, <1>3, <1>5, WaitScripts

\* The timeout of the client ends the wait and the look at the state.
LEMMA WaitTimeoutEffect ==
    ASSUME WireInv, NEW c \in Clients, Actions!WaitTimeout(c)
    PROVE  /\ script[c] # <<>> /\ Waits(req[c]) /\ Head(script[c]) \in {"wait", "lagcheck"}
           /\ script[c] \notin Ahead /\ script'[c] = <<"final">>
           /\ WayType' /\ AloneOnWay(c) /\ script'[c] \in Remaining(req[c])
           /\ Actions!Hangup(c)
           /\ asked' = [asked EXCEPT ![c] = Actions!Result("none", "Stopped")]
           /\ UNCHANGED <<registered, state, tasks, done, req, listening, rx, lagged, answer,
                          blind>>
<1>1. /\ script[c] # <<>> /\ Head(script[c]) \in {"wait", "lagcheck"} /\ Actions!Hangup(c)
      /\ asked' = [asked EXCEPT ![c] = Actions!Result("none", "Stopped")]
      /\ script' = [script EXCEPT ![c] = <<"final">>]
      /\ UNCHANGED <<registered, state, tasks, done, req, listening, rx, lagged, answer, blind>>
  BY DEF Actions!WaitTimeout, Actions!IsWaiting, Actions!At, Actions!progVars, Actions!hubVars
<1>2. ActionType /\ Follows(req[c], script[c])
  BY <1>1, AtWork DEF WireInv
<1>3. Waits(req[c]) /\ script[c] \notin Ahead
  BY <1>1, <1>2 DEF Follows
<1>4. <<"final">> \in Seq(Steps)
  BY DEF Steps
<1>5. WayType' /\ AloneOnWay(c) /\ script'[c] = <<"final">>
  BY <1>1, <1>2, <1>4 DEF WayType, AloneOnWay, ActionType
<1>6. QED
  BY <1>1, <1>3, <1>5, WaitScripts

\* The steps of a handler that make no call keep the wire as it is.
LEMMA WireWaits ==
    ASSUME WireInv, NEW c \in Clients,
           \/ Actions!Spawn(c) \/ Actions!Subscribe(c) \/ Actions!WaitEvent(c)
           \/ Actions!WaitLag(c) \/ Actions!WaitTimeout(c)
    PROVE  WireInv'
<1>1. ActionType
  BY DEF WireInv
<1>2. CASE Actions!WaitTimeout(c)
  <2>1. /\ asked' \in [Clients -> [code : Codes, state : States]] /\ asked'[c].code = "none"
        /\ \A d \in Clients \ {c} : asked'[d] = asked[d]
    BY <1>1, <1>2, WaitTimeoutEffect, CallCleared
  <2>2. ASSUME NEW d \in Clients PROVE Held(d)'
    BY <1>2, <2>1, WaitTimeoutEffect, HeldAfterHangup DEF AloneOnWay
  <2>3. channel' \in Seq(CommandType) /\ serving' \in ServingType \cup {Actions!NoCommand}
    BY <1>1, <1>2, WaitTimeoutEffect, HangingUp
  <2>4. blind' \in [Clients -> BOOLEAN] /\ tasks' \in Seq(TaskType)
    BY <1>1, <1>2, WaitTimeoutEffect DEF ActionType
  <2>5. QED
    BY <1>2, <2>1, <2>2, <2>3, <2>4, WaitTimeoutEffect, WireOnWay
<1>3. CASE Actions!Spawn(c) \/ Actions!Subscribe(c) \/ Actions!WaitEvent(c) \/ Actions!WaitLag(c)
  <2>1. /\ script[c] # <<>> /\ asked[c].code = "none" /\ WayType' /\ AloneOnWay(c)
        /\ script'[c] \in Remaining(req[c])
        /\ UNCHANGED <<registered, state, channel, serving, done, req, asked, blind>>
    BY <1>3, SpawnEffect, SubscribeEffect, WaitEventEffect, WaitLagEffect, WaitScripts DEF Ends
  <2>2. tasks' \in Seq(TaskType)
    <3>1. CASE Actions!Spawn(c)
      <4>1. PICK m \in TaskType : tasks' = Append(tasks, m)
        BY <3>1, SpawnEffect
      <4>2. tasks \in Seq(TaskType)
        BY <1>1 DEF ActionType
      <4>3. QED
        BY <4>1, <4>2
    <3>2. CASE ~Actions!Spawn(c)
      BY <1>1, <1>3, <3>2, SubscribeEffect, WaitEventEffect, WaitLagEffect DEF ActionType
    <3>3. QED
      BY <3>1, <3>2
  <2>3. ASSUME NEW d \in Clients PROVE Held(d)'
    BY <2>1, StillHeld, StillHoldsNone DEF WireInv, AloneOnWay
  <2>4. QED
    BY <1>1, <2>1, <2>2, <2>3, WireOnWay DEF ActionType
<1>4. QED
  BY <1>2, <1>3

\* Whatever happens, a command answers the step that sent it.
LEMMA WireAlways ==
    ASSUME WireInv, [Actions!Next]_actionVars
    PROVE  WireInv'
<1>1. ActionType
  BY DEF WireInv
<1>2. CASE UNCHANGED actionVars
  <2>1. HubKept
    BY <1>1, <1>2, QuietKept DEF actionVars
  <2>2. QED
    BY <1>2, <2>1, WireStill DEF actionVars
<1>3. ASSUME NEW p \in Programs, Actions!OwnMove(p) PROVE WireInv'
  BY <1>1, <1>3, OwnMoveEffect, WireStill
<1>4. ASSUME NEW p \in Programs, Actions!RemoveProgram(p) PROVE WireInv'
  <2>1. /\ registered' \subseteq registered
        /\ UNCHANGED <<state, channel, serving, tasks, done, req, script, asked, listening, rx,
                       lagged, answer, blind>>
    BY <1>4 DEF Actions!RemoveProgram, Actions!mgrVars, Actions!clientVars, Actions!hubVars
  <2>2. HubKept
    BY <1>1, <2>1, QuietKept
  <2>3. QED
    BY <2>1, <2>2, WireStill
<1>5. CASE Actions!Manage
  BY <1>5, WireManage
<1>6. CASE Actions!TaskSends
  BY <1>6, WireTaskSends
<1>7. ASSUME NEW c \in Clients, Actions!Request(c) \/ Actions!Handle(c) PROVE WireInv'
  BY <1>7, WireRequest, WireSend, WireResumed, WireWaits DEF Actions!Handle
<1>8. QED
  BY <1>2, <1>3, <1>4, <1>5, <1>6, <1>7 DEF Actions!Next

-----------------------------------------------------------------------------
(* Requests that wait.                                                     *)

\* A client whose handler does not move sees what it saw.
LEMMA AlertStill ==
    ASSUME NEW d \in Clients, Alert(d), registered' \subseteq registered, state' = state,
           req'[d] = req[d], script'[d] = script[d], asked'[d] = asked[d],
           listening'[d] = listening[d], rx'[d] = rx[d], lagged'[d] = lagged[d],
           blind'[d] = blind[d]
    PROVE  Alert(d)'
BY DEF Alert, Due, Actions!IsAwaited, Actions!At, Actions!IsWaiting, Actions!Settled

\* Neither does it miss what is published.
LEMMA AlertHub ==
    ASSUME WireInv, NEW d \in Clients, Alert(d), HubKept, UNCHANGED <<registered, req, script, blind>>,
           asked'[d] = asked[d] \/ asked'[d].code # "ok" \/ Actions!At(d, "act")
    PROVE  Alert(d)'
<1>1. SUFFICES ASSUME req[d] # Actions!NoRequest
               PROVE  Alert(d)'
  BY DEF Alert
<1>2. /\ Actions!At(d, "recheck")' <=> Actions!At(d, "recheck")
      /\ Actions!At(d, "wait")' <=> Actions!At(d, "wait")
      /\ Actions!At(d, "lagcheck")' <=> Actions!At(d, "lagcheck")
  BY DEF Actions!At
<1>3. (Actions!At(d, "recheck") \/ Actions!At(d, "wait") \/ Actions!At(d, "lagcheck")) => listening[d]
  BY <1>1 DEF Alert, Actions!IsWaiting
<1>4. ASSUME req[d].name \in registered, state'[req[d].name] \in Actions!Settled,
             Actions!At(d, "wait")
      PROVE  Due(d)' \/ blind[d]
  <2>1. req[d].name \in Programs
    BY <1>4 DEF WireInv, ActionType
  <2>2. CASE Due(d)'
    BY <2>2
  <2>3. CASE state'[req[d].name] = state[req[d].name]
    <3>1. Due(d) \/ blind[d]
      BY <1>1, <1>4, <2>3 DEF Alert
    <3>2. QED
      BY <1>3, <1>4, <3>1 DEF HubKept
  <2>4. QED
    BY <1>3, <1>4, <2>1, <2>2, <2>3 DEF HubKept
<1>5. ASSUME req[d].name \in registered, state'[req[d].name] \in Actions!Settled,
             Actions!At(d, "recheck") \/ Actions!At(d, "lagcheck"),
             asked'[d].code = "ok", asked'[d].state \notin Actions!Settled
      PROVE  Due(d)'
  <2>1. req[d].name \in Programs /\ asked'[d] = asked[d]
    BY <1>5 DEF WireInv, ActionType, Actions!At
  <2>2. CASE Due(d)'
    BY <2>2
  <2>3. CASE state'[req[d].name] = state[req[d].name]
    <3>1. Due(d)
      BY <1>1, <1>5, <2>1, <2>3 DEF Alert
    <3>2. QED
      BY <1>3, <1>5, <3>1 DEF HubKept
  <2>4. QED
    BY <1>3, <1>5, <2>1, <2>2, <2>3 DEF HubKept
<1>6. listening' = listening
  BY DEF HubKept
<1>7. QED
  BY <1>2, <1>3, <1>4, <1>5, <1>6 DEF Alert, Actions!IsWaiting, Actions!Settled

\* A look at the state is answered by the state.
LEMMA AlertQuery ==
    ASSUME AlertInv, Actions!ServeQuery, NEW d \in Clients
    PROVE  Alert(d)'
<1>1. /\ channel # <<>> /\ channel' = Tail(channel) /\ WireInv /\ ActionType /\ Alert(d)
      /\ UNCHANGED <<registered, state, req, script, listening, rx, lagged, blind>>
  BY QueryEffect DEF AlertInv, WireInv
<1>2. PICK res : IsReply(Head(channel), res) /\ Actions!ReplyTo(Head(channel).from, res)
  BY QueryEffect DEF AlertInv
<1>3. Head(channel).from \in Callers /\ Head(channel) = channel[1] /\ 1 \in 1 .. Len(channel)
  BY <1>1, Taken DEF CommandType
<1>4. asked'[d] = IF d = Head(channel).from THEN res ELSE asked[d]
  BY <1>1, <1>2, <1>3, Replying, ResultType
<1>5. CASE d # Head(channel).from
  BY <1>1, <1>4, <1>5, AlertStill
<1>6. CASE d = Head(channel).from
  <2>1. /\ asked[d].code = "sent"
        /\ Head(channel) = Actions!Command(req[d], Head(script[d]), d, d)
    BY <1>1, <1>3, <1>6 DEF WireInv, Held, Sent
  <2>2. script[d] # <<>> /\ Head(script[d]) \notin {"subscribe", "wait", "spawn"}
    BY <1>1, <2>1 DEF WireInv, Placed
  <2>3. req[d] \in Posed /\ Follows(req[d], script[d])
    BY <1>1, <2>2, AtWork
  <2>4. IsCommand(Head(channel), req[d], Head(script[d]), d, d)
    <3>1. Head(script[d]) \in Steps \ {"subscribe", "wait", "spawn"} /\ d \in Callers
      BY <2>2, <2>3 DEF Follows, Callers
    <3>2. Head(script[d]) = "act" => Acts(req[d])
      BY <2>3 DEF Follows
    <3>3. QED
      BY <2>1, <2>3, <3>1, <3>2, CommandOf
  <2>5. ASSUME Actions!At(d, "recheck") \/ Actions!At(d, "lagcheck"), req[d].name \in registered
        PROVE  res.state = state[req[d].name]
    <3>1. Head(channel).op = "status" /\ Head(channel).name = req[d].name
      BY <2>4, <2>5 DEF IsCommand, Actions!At
    <3>2. QED
      BY <1>2, <2>5, <3>1 DEF IsReply
  <2>6. ~Actions!At(d, "wait")
    BY <2>2 DEF Actions!At
  <2>7. /\ Actions!At(d, "recheck")' <=> Actions!At(d, "recheck")
        /\ Actions!At(d, "wait")' <=> Actions!At(d, "wait")
        /\ Actions!At(d, "lagcheck")' <=> Actions!At(d, "lagcheck")
    BY <1>1 DEF Actions!At
  <2>8. QED
    BY <1>1, <1>4, <1>6, <2>5, <2>6, <2>7 DEF Alert, Actions!IsWaiting, Actions!Settled
<1>7. QED
  BY <1>5, <1>6

\* What a handler waits for after it has moved on.
LEMMA AlertResumed ==
    ASSUME AlertInv, NEW c \in Clients, Actions!Answered(c) \/ Actions!CallTimesOut(c)
    PROVE  Alert(c)'
<1>1. WireInv /\ Alert(c)
  BY DEF AlertInv
<1>2. /\ asked[c].code # "none" /\ UNCHANGED <<registered, state, req>>
      /\ \E res : Actions!Resume(c, res) /\ (res = asked[c] \/ res.code = "timeout")
  BY ResultType DEF Actions!Answered, Actions!CallTimesOut, Actions!progVars
<1>3. PICK res : Actions!Resume(c, res) /\ (res = asked[c] \/ res.code = "timeout")
  BY <1>2
<1>4. script[c] # <<>> /\ Head(script[c]) \notin {"subscribe", "wait", "spawn"}
  BY <1>1, <1>2 DEF WireInv, Placed
<1>5. /\ Resumed(c, res) /\ asked'[c].code = "none"
  BY <1>1, <1>3, <1>4, Resuming, CallCleared DEF WireInv
<1>6. Follows(req[c], script[c]) /\ req[c] # Actions!NoRequest /\ Actions!Handled(req[c])
  BY <1>1, <1>4, AtWork
<1>7. CASE script'[c] = <<>>
  BY <1>2, <1>5, <1>7 DEF Alert, Actions!At, Actions!IsWaiting
<1>8. CASE Actions!At(c, "lagcheck")
  <2>1. /\ listening'[c] = listening[c] /\ rx'[c] = rx[c] /\ lagged'[c] = lagged[c]
        /\ script'[c] = IF res.code = "ok" /\ res.state \in Actions!Settled THEN <<"final">>
                        ELSE <<"wait", "final">>
        /\ blind'[c] = (blind[c] \/ res.code # "ok")
    BY <1>5, <1>8 DEF Resumed
  <2>2. listening[c]
    BY <1>1, <1>6, <1>8 DEF Alert, Actions!IsWaiting
  <2>3. CASE res.code = "ok" /\ res.state \in Actions!Settled
    <3>1. script'[c] = <<"final">>
      BY <2>1, <2>3
    <3>2. Head(script'[c]) = "final"
      BY <3>1, TailOfOne
    <3>3. QED
      BY <1>2, <1>5, <2>1, <2>2, <3>2 DEF Alert, Actions!At, Actions!IsWaiting
  <2>4. CASE ~(res.code = "ok" /\ res.state \in Actions!Settled)
    <3>1. script'[c] = <<"wait", "final">>
      BY <2>1, <2>4
    <3>2. Head(script'[c]) = "wait" /\ script'[c] # <<>>
      BY <3>1, TailOfTwo
    <3>3. ASSUME req[c].name \in registered, state[req[c].name] \in Actions!Settled
          PROVE  Due(c)' \/ blind'[c]
      <4>1. CASE res.code # "ok"
        BY <2>1, <4>1
      <4>2. CASE res.code = "ok"
        <5>1. Due(c)
          BY <1>1, <1>3, <1>6, <1>8, <2>4, <3>3, <4>2 DEF Alert
        <5>2. QED
          BY <1>2, <2>1, <5>1 DEF Due, Actions!IsAwaited, Actions!Settled
      <4>3. QED
        BY <4>1, <4>2
    <3>4. QED
      BY <1>2, <1>5, <2>1, <2>2, <3>2, <3>3 DEF Alert, Actions!At, Actions!IsWaiting,
                                               Actions!Settled
  <2>5. QED
    BY <2>3, <2>4
<1>9. CASE ~Actions!At(c, "lagcheck") /\ script'[c] # <<>>
  <2>1. PICK a : a = Actions!After(req[c], Head(script[c]), res)
    OBVIOUS
  <2>2. /\ a = "none" /\ Onward(c)
        /\ blind'[c] = (blind[c] \/ (Actions!At(c, "recheck") /\ res.code # "ok"))
    BY <1>5, <1>9, <2>1 DEF Resumed, Ends
  <2>3. Judged(req[c], Head(script[c]), res, a)
    BY <1>6, <2>1, AfterJudges DEF Follows
  <2>4. /\ script'[c] = Tail(script[c]) /\ listening'[c] = listening[c] /\ rx'[c] = rx[c]
        /\ lagged'[c] = lagged[c]
    BY <2>2 DEF Onward
  <2>5. /\ Head(script'[c]) \notin {"recheck", "lagcheck"}
        /\ Head(script'[c]) = "wait" => Actions!At(c, "recheck")
    BY <1>4, <1>6, <1>9, <2>4 DEF Follows, Actions!At
  <2>6. ASSUME Actions!At(c, "recheck") 
        PROVE  /\ listening[c]
               /\ (req[c].name \in registered /\ state[req[c].name] \in Actions!Settled) =>
                      Due(c)' \/ blind'[c]
    <3>1. listening[c]
      BY <1>1, <1>6, <2>6 DEF Alert
    <3>2. ~(res.code = "ok" /\ res.state \in Actions!Settled)
      BY <1>4, <1>6, <2>2, <2>3, <2>6 DEF Judged, Follows, Waits, Actions!At
    <3>3. CASE res.code # "ok"
      BY <2>2, <2>6, <3>1, <3>3
    <3>4. CASE res.code = "ok"
      <4>1. (req[c].name \in registered /\ state[req[c].name] \in Actions!Settled) => Due(c)
        BY <1>1, <1>3, <1>6, <2>6, <3>2, <3>4 DEF Alert
      <4>2. Due(c) => Due(c)'
        BY <1>2, <2>4 DEF Due, Actions!IsAwaited, Actions!Settled
      <4>3. QED
        BY <3>1, <4>1, <4>2
    <3>5. QED
      BY <3>3, <3>4
  <2>7. QED
    BY <1>2, <1>5, <2>4, <2>5, <2>6 DEF Alert, Actions!At, Actions!IsWaiting, Actions!Settled
<1>10. QED
  BY <1>7, <1>8, <1>9

\* The handlers, one by one.
LEMMA AlertWaits ==
    ASSUME AlertInv, NEW c \in Clients,
           \/ Actions!Spawn(c) \/ Actions!Subscribe(c) \/ Actions!WaitEvent(c)
           \/ Actions!WaitLag(c) \/ Actions!WaitTimeout(c)
    PROVE  Alert(c)'
<1>1. WireInv /\ Alert(c)
  BY DEF AlertInv
<1> USE DEF Alert, Actions!At, Actions!IsWaiting
<1>2. CASE Actions!Spawn(c)
  BY <1>1, <1>2, SpawnEffect DEF Ends
<1>3. CASE Actions!Subscribe(c)
  <2>1. Head(script'[c]) = "recheck"
    BY <1>1, <1>3, SubscribeEffect, TailOfThree
  <2>2. QED
    BY <1>1, <1>3, <2>1, SubscribeEffect
<1>4. CASE Actions!WaitEvent(c)
  <2>1. CASE script'[c] = <<"final">>
    <3>1. Head(script'[c]) = "final"
      BY <2>1, TailOfOne
    <3>2. QED
      BY <1>1, <1>4, <3>1, WaitEventEffect
  <2>2. CASE script'[c] = <<"wait", "final">>
    <3>1. /\ ~Actions!IsAwaited(c, Head(rx[c])) /\ rx'[c] = Tail(rx[c]) /\ rx[c] # <<>>
          /\ UNCHANGED <<registered, state, req, asked, listening, lagged, blind>>
          /\ script[c] # <<>> /\ script'[c] # <<>> /\ asked[c].code = "none" /\ ~lagged[c]
      <4>1. <<"wait", "final">> # <<"final">>
        OBVIOUS
      <4>2. QED
        BY <1>1, <1>4, <2>2, <4>1, WaitEventEffect
    <3>2. Head(script'[c]) = "wait" /\ Head(script[c]) = "wait"
      BY <1>4, <2>2, TailOfTwo DEF Actions!WaitEvent
    <3>3. req[c] # Actions!NoRequest /\ rx[c] \in Seq(EventType)
      BY <1>1, <3>1, AtWork DEF WireInv, ActionType
    <3>4. Due(c) => Due(c)'
      <4>1. SUFFICES ASSUME NEW i \in 1 .. Len(rx[c]), Actions!IsAwaited(c, rx[c][i])
                     PROVE  Due(c)'
        BY <3>1 DEF Due
      <4>2. i # 1
        BY <3>1, <3>3, <4>1
      <4>3. i - 1 \in 1 .. Len(rx'[c]) /\ rx'[c][i - 1] = rx[c][i]
        BY <3>1, <3>3, <4>1, <4>2
      <4>4. QED
        BY <3>1, <4>1, <4>3 DEF Due, Actions!IsAwaited, Actions!Settled
    <3>5. QED
      BY <1>1, <3>1, <3>2, <3>3, <3>4 DEF Actions!Settled
  <2>3. QED
    BY <1>1, <1>4, <2>1, <2>2, WaitEventEffect
<1>5. CASE Actions!WaitLag(c)
  <2>1. Head(script'[c]) = "lagcheck"
    BY <1>1, <1>5, WaitLagEffect, TailOfTwo
  <2>2. req[c] # Actions!NoRequest
    BY <1>1, <1>5, WaitLagEffect, AtWork
  <2>3. QED
    BY <1>1, <1>5, <2>1, <2>2, WaitLagEffect
<1>6. CASE Actions!WaitTimeout(c)
  <2>1. Head(script'[c]) = "final"
    BY <1>1, <1>6, WaitTimeoutEffect, TailOfOne
  <2>2. QED
    BY <1>1, <1>6, <2>1, WaitTimeoutEffect
<1>7. QED
  BY <1>2, <1>3, <1>4, <1>5, <1>6

\* A client that has just asked does not wait yet, nor one whose call is sent.
LEMMA AlertAsks ==
    ASSUME AlertInv, NEW c \in Clients, Actions!Request(c) \/ Actions!Send(c)
    PROVE  Alert(c)'
<1>1. WireInv /\ Alert(c)
  BY DEF AlertInv
<1> USE DEF Alert, Actions!At, Actions!IsWaiting
<1>2. CASE Actions!Request(c)
  <2>1. PICK r \in Requests[c] : script' = [script EXCEPT ![c] = Actions!ScriptOf(r)]
    BY <1>2 DEF Actions!Request
  <2>2. script'[c] = Actions!ScriptOf(r)
    BY <1>1, <2>1 DEF WireInv, ActionType
  <2>3. Head(script'[c]) \in {"act", "check", "query"}
    BY <2>1, <2>2, ScriptFirst, RequestAssumption
  <2>4. QED
    BY <2>3
<1>3. CASE Actions!Send(c)
  <2>1. asked'[c].code = "sent" /\ Head(script[c]) # "wait"
        /\ UNCHANGED <<registered, state, req, script, listening>>
    BY <1>1, <1>3, SendEffect, ResultType DEF WireInv, ActionType
  <2>2. QED
    BY <1>1, <2>1
<1>4. QED
  BY <1>2, <1>3

\* A handler's step is its own.
LEMMA HandlerAlone ==
    ASSUME WireInv, NEW c \in Clients, Actions!Request(c) \/ Actions!Handle(c),
           NEW d \in Clients, d # c
    PROVE  /\ UNCHANGED <<registered, state, done>>
           /\ req'[d] = req[d] /\ script'[d] = script[d] /\ asked'[d] = asked[d]
           /\ listening'[d] = listening[d] /\ rx'[d] = rx[d] /\ lagged'[d] = lagged[d]
           /\ blind'[d] = blind[d] /\ answer'[d] = answer[d]
<1>1. ActionType
  BY DEF WireInv
<1>2. CASE Actions!Request(c)
  BY <1>1, <1>2 DEF Actions!Request, ActionType, Actions!progVars, Actions!mgrVars,
                    Actions!hubVars
<1>3. CASE Actions!Send(c)
  BY <1>1, <1>3, SendEffect DEF ActionType
<1>4. CASE Actions!Answered(c) \/ Actions!CallTimesOut(c)
  <2>1. /\ asked[c].code # "none" /\ UNCHANGED <<registered, state, done, req>>
        /\ \E res : Actions!Resume(c, res)
    BY <1>4 DEF Actions!Answered, Actions!CallTimesOut, Actions!progVars, Actions!mgrVars
  <2>2. script[c] # <<>>
    BY <2>1 DEF WireInv, Placed
  <2>3. /\ AloneOnWay(c) /\ \A e \in Clients \ {c} : blind'[e] = blind[e]
        /\ asked' = [asked EXCEPT ![c] = Actions!Result("none", "Stopped")]
    BY <2>1, <2>2, Resuming
  <2>4. QED
    BY <1>1, <2>1, <2>3, CallCleared DEF AloneOnWay
<1>5. CASE Actions!Spawn(c)
  BY <1>5, SpawnEffect DEF AloneOnWay
<1>6. CASE Actions!Subscribe(c)
  BY <1>6, SubscribeEffect DEF AloneOnWay
<1>7. CASE Actions!WaitEvent(c)
  BY <1>7, WaitEventEffect DEF AloneOnWay
<1>8. CASE Actions!WaitLag(c)
  BY <1>8, WaitLagEffect DEF AloneOnWay
<1>9. CASE Actions!WaitTimeout(c)
  BY <1>1, <1>9, WaitTimeoutEffect, CallCleared DEF AloneOnWay
<1>10. QED
  BY <1>2, <1>3, <1>4, <1>5, <1>6, <1>7, <1>8, <1>9 DEF Actions!Handle

\* Every step keeps the clients that wait alert.
LEMMA AlertAlways ==
    ASSUME AlertInv, [Actions!Next]_actionVars, NEW d \in Clients
    PROVE  Alert(d)'
<1>1. WireInv /\ ActionType /\ Alert(d)
  BY DEF AlertInv, WireInv
<1>2. CASE UNCHANGED actionVars
  BY <1>1, <1>2, AlertStill DEF actionVars
<1>3. ASSUME NEW p \in Programs, Actions!OwnMove(p) PROVE Alert(d)'
  BY <1>1, <1>3, OwnMoveEffect, AlertHub
<1>4. ASSUME NEW p \in Programs, Actions!RemoveProgram(p) PROVE Alert(d)'
  BY <1>1, <1>4, AlertStill DEF Actions!RemoveProgram, Actions!mgrVars, Actions!clientVars,
                                Actions!hubVars
<1>5. CASE Actions!ServeQuery
  BY <1>5, AlertQuery
<1>6. CASE Actions!ServeCommand
  <2>1. /\ channel # <<>> /\ channel' = Tail(channel)
        /\ UNCHANGED <<registered, state, req, script, listening, rx, lagged, blind>>
        /\ \/ Actions!ReplyTo(Head(channel).from, Actions!Result("not_found", "Stopped"))
           \/ UNCHANGED asked
    BY <1>1, <1>6, CommandEffect
  <2>2. Head(channel).from \in Callers
    BY <1>1, <2>1, Taken DEF CommandType
  <2>3. asked'[d] = asked[d] \/ asked'[d].code # "ok"
    <3>1. Actions!Result("not_found", "Stopped") \in [code : Codes, state : States]
      BY ResultType DEF Codes
    <3>2. QED
      BY <1>1, <2>1, <2>2, <3>1, Replying, ResultType
  <2>4. HubKept
    BY <1>1, <2>1, QuietKept
  <2>5. QED
    BY <1>1, <2>1, <2>3, <2>4, AlertHub
<1>7. CASE Actions!ServeTarget
  <2>1. /\ HubKept /\ UNCHANGED <<registered, req, script, blind>>
        /\ \/ Actions!ReplyTo(serving.from, Actions!Result("err", "Stopped"))
           \/ UNCHANGED asked
        /\ serving.from \in Callers
    BY <1>1, <1>7, TargetEffect DEF ServingType
  <2>2. asked'[d] = asked[d] \/ asked'[d].code # "ok"
    <3>1. Actions!Result("err", "Stopped") \in [code : Codes, state : States]
      BY ResultType DEF Codes
    <3>2. QED
      BY <1>1, <2>1, <3>1, Replying, ResultType
  <2>3. QED
    BY <1>1, <2>1, <2>2, AlertHub
<1>8. CASE Actions!ServeDone
  <2>1. /\ UNCHANGED <<registered, state, req, script, listening, rx, lagged, blind>>
        /\ \/ Actions!ReplyTo(serving.from, Actions!Result("ok", "Stopped"))
           \/ UNCHANGED asked
        /\ serving.from \in Callers /\ serving # Actions!NoCommand
    BY <1>1, <1>8, DoneEffect, ServingIsReal DEF ServingType
  <2>2. serving.from = d => Actions!At(d, "act")
    BY <1>1, <2>1 DEF WireInv, Held, Served
  <2>3. asked'[d] = asked[d] \/ Actions!At(d, "act")
    <3>1. Actions!Result("ok", "Stopped") \in [code : Codes, state : States]
      BY ResultType DEF Codes
    <3>2. QED
      BY <1>1, <2>1, <2>2, <3>1, Replying
  <2>4. HubKept
    BY <1>1, <2>1, QuietKept
  <2>5. QED
    BY <1>1, <2>1, <2>3, <2>4, AlertHub
<1>9. CASE Actions!TaskSends
  BY <1>1, <1>9, AlertStill DEF Actions!TaskSends, Actions!progVars, Actions!clientVars,
                                Actions!hubVars
<1>10. ASSUME NEW c \in Clients, Actions!Request(c) \/ Actions!Handle(c) PROVE Alert(d)'
  <2>1. CASE d = c
    BY <1>10, <2>1, AlertAsks, AlertResumed, AlertWaits DEF Actions!Handle
  <2>2. CASE d # c
    BY <1>1, <1>10, <2>2, HandlerAlone, AlertStill
  <2>3. QED
    BY <2>1, <2>2
<1>11. QED
  BY <1>2, <1>3, <1>4, <1>5, <1>6, <1>7, <1>8, <1>9, <1>10 DEF Actions!Next, Actions!Manage

\* A request that waits for its program to settle wakes up: on every run, for any
\* number of clients, programs and events and every capacity of the hub, the event is
\* in the queue of the subscription, or the subscription knows of lost ones
\* (start_program of server/api.rs).
THEOREM WaitsWakeUp == ServerSpec => []WakeupPending
<1>1. ServerInit => AlertInv
  BY WireInit DEF ServerInit, AlertInv, Alert, Actions!Init
<1>2. AlertInv /\ [ServerNext]_serverVars => AlertInv'
  <2>1. SUFFICES ASSUME AlertInv, [ServerNext]_serverVars PROVE AlertInv'
    OBVIOUS
  <2>2. [Actions!Next]_actionVars
    BY <2>1 DEF ServerNext, ActionsStep, AuthStep, TrackerStep, PoolStep, serverVars
  <2>3. QED
    BY <2>1, <2>2, WireAlways, AlertAlways DEF AlertInv
<1>3. AlertInv => WakeupPending
  BY DEF AlertInv, Alert, Due, WakeupPending, Actions!WakeupPending, Actions!Noticed,
         Actions!IsWaiting
<1>4. QED
  BY <1>1, <1>2, <1>3, PTL DEF ServerSpec

-----------------------------------------------------------------------------
(* What the answers say.                                                   *)

\* What does not touch a client's handler, its commands and its progress.
LEMMA TruthCarried ==
    ASSUME NEW d \in Clients, Truthful(d), req'[d] = req[d], script'[d] = script[d],
           asked'[d] = asked[d], answer'[d] = answer[d], done'[d] = done[d],
           Quiet(d) => Quiet(d)', Watched(d) => Watched(d)',
           (Watched(d) /\ (serving' = Actions!NoCommand \/ serving'.by # d)) =>
               serving = Actions!NoCommand \/ serving.by # d
    PROVE  Truthful(d)'
<1> USE DEF Actions!At, Answering, Refused, Acts, RpcBulk
<1>1. Untouched(d) => Untouched(d)'
  BY DEF Untouched
<1>2. Complete(d) => Complete(d)'
  BY DEF Complete
<1>3. QED
  BY <1>1, <1>2 DEF Truthful

\* A command of the client is under way, so nothing is said about it yet.
LEMMA TruthBusy ==
    ASSUME NEW d \in Clients, Truthful(d), ~Quiet(d), req'[d] = req[d],
           script'[d] = script[d], asked'[d] = asked[d], answer'[d] = answer[d],
           (Actions!At(d, "act") /\ asked[d].code = "sent") =>
               /\ Watched(d)' /\ done'[d] # "all"
               /\ serving' = Actions!NoCommand \/ serving'.by # d => done'[d] = "no"
    PROVE  Truthful(d)'
<1> USE DEF Actions!At, Answering, Refused, Acts, RpcBulk
<1>1. ~Untouched(d) /\ ~Complete(d)
  BY DEF Untouched, Complete
<1>2. QED
  BY <1>1 DEF Truthful

\* The command of the client is answered.
LEMMA TruthReplied ==
    ASSUME WireInv, NEW d \in Clients, Truthful(d), Actions!At(d, "act"),
           req'[d] = req[d], script'[d] = script[d],
           answer'[d] = answer[d], Quiet(d)', asked'[d].code \notin {"none", "sent"},
           asked'[d].code = "ok" => done'[d] = "all",
           asked'[d].code = "not_found" => done'[d] = "no"
    PROVE  Truthful(d)'
<1>1. script[d] # <<>> /\ Head(script[d]) = "act"
  BY DEF Actions!At
<1>2. req[d] # Actions!NoRequest /\ Acts(req[d]) /\ script[d] \in Ahead
  BY <1>1, AtWork DEF Follows
<1>3. answer[d] = "none"
  BY <1>1 DEF Truthful
<1>4. Acts(req'[d]) /\ req'[d] # Actions!NoRequest
  BY <1>2 DEF Acts, ActOps, Actions!NoRequest
<1>5. QED
  BY <1>1, <1>2, <1>3, <1>4 DEF Truthful, Actions!At, Answering, Refused

\* A question of the client is answered.
LEMMA TruthLooked ==
    ASSUME WireInv, NEW d \in Clients, Truthful(d), script[d] # <<>>, Head(script[d]) # "act",
           req'[d] = req[d], script'[d] = script[d], answer'[d] = answer[d],
           done'[d] = done[d], Quiet(d) => Quiet(d)',
           (Actions!At(d, "survey") /\ asked'[d].code \notin {"none", "sent"}) => asked'[d].code = "ok"
    PROVE  Truthful(d)'
<1> USE DEF Actions!At, Answering, Refused, Acts, RpcBulk
<1>1. Untouched(d) => Untouched(d)'
  BY DEF Untouched
<1>2. Complete(d) => Complete(d)'
  BY DEF Complete
<1>3. QED
  BY <1>1, <1>2 DEF Truthful

\* A handler that waits has its command behind it.
LEMMA TruthOnWait ==
    ASSUME NEW c \in Clients, Truthful(c), script[c] # <<>>, script[c] \notin Ahead,
           Waits(req[c]), req'[c] = req[c], script'[c] # <<>>, script'[c] \notin Ahead,
           asked'[c].code = "none", answer'[c] = answer[c], done'[c] = done[c],
           Quiet(c) => Quiet(c)'
    PROVE  Truthful(c)'
<1>1. Acts(req[c]) /\ ~RpcBulk(req[c]) /\ answer[c] = "none"
  BY DEF Waits, Acts, ActOps, RpcBulk, Bulk, Truthful
<1>2. Complete(c)
  BY <1>1 DEF Truthful
<1>3. Complete(c)'
  BY <1>2 DEF Complete
<1>4. Acts(req'[c]) /\ req'[c] # Actions!NoRequest
  BY <1>1 DEF Acts, ActOps, Groups, Bulk, Actions!NoRequest
<1>5. QED
  BY <1>1, <1>3, <1>4 DEF Truthful, Answering, Refused

\* A command leaves the channel: it is over, or begun.
LEMMA QuietTaken ==
    ASSUME WireInv, NEW d \in Clients, channel # <<>>, channel' = Tail(channel), UNCHANGED tasks,
           serving = Actions!NoCommand,
           \/ serving' = Actions!NoCommand
           \/ /\ ~Actions!IsQuery(Head(channel)) /\ serving'.by = Head(channel).by
              /\ serving'.from = Head(channel).from
    PROVE  (Quiet(d) => Quiet(d)') /\ (Watched(d) => Watched(d)')
<1>1. /\ Head(channel) = channel[1] /\ 1 \in 1 .. Len(channel)
      /\ \A i \in 1 .. Len(channel') : i + 1 \in 1 .. Len(channel) /\ channel'[i] = channel[i + 1]
  BY Taken
<1>2. Quiet(d) => Quiet(d)'
  BY <1>1 DEF Quiet, Actions!IsQuery
<1>3. Watched(d) => Watched(d)'
  BY <1>1 DEF Watched, Actions!IsQuery
<1>4. QED
  BY <1>2, <1>3

\* A caller hangs up: its commands go on.
LEMMA QuietHangup ==
    ASSUME WireInv, NEW c \in Clients, Actions!Hangup(c), UNCHANGED tasks, NEW d \in Clients
    PROVE  /\ Quiet(d) => Quiet(d)'
           /\ d # c /\ Watched(d) => Watched(d)'
           /\ serving' = Actions!NoCommand <=> serving = Actions!NoCommand
           /\ serving # Actions!NoCommand => serving'.by = serving.by
<1>1. /\ Len(channel') = Len(channel)
      /\ \A i \in 1 .. Len(channel) :
             /\ channel'[i].op = channel[i].op /\ channel'[i].by = channel[i].by
             /\ channel'[i].from # c
             /\ channel'[i] = channel[i] \/ channel'[i].from = Actions!Nobody
      /\ serving' = Actions!NoCommand <=> serving = Actions!NoCommand
      /\ serving # Actions!NoCommand =>
             /\ serving'.from # c /\ serving'.by = serving.by
             /\ serving' = serving \/ serving'.from = Actions!Nobody
  BY HangingUp DEF WireInv
<1>2. Quiet(d) => Quiet(d)'
  BY <1>1 DEF Quiet, Actions!IsQuery
<1>3. ASSUME d # c, Watched(d) PROVE Watched(d)'
  <2>1. /\ \A i \in 1 .. Len(channel) : channel[i].from = d => channel'[i].from = d
        /\ (serving # Actions!NoCommand /\ serving.from = d) => serving'.from = d
    BY <1>3, RequestAssumption DEF Actions!Hangup, WireInv, ActionType
  <2>2. QED
    BY <1>1, <1>3, <2>1 DEF Watched, Actions!IsQuery
<1>4. QED
  BY <1>1, <1>2, <1>3

\* A command joins the channel: a question, one of another client, or one its client
\* waits for.
LEMMA QuietSent ==
    ASSUME WireInv, NEW d \in Clients, NEW m \in CommandType, channel' = Append(channel, m),
           tasks' = tasks \/ \A i \in 1 .. Len(tasks') : \E j \in 1 .. Len(tasks) : tasks'[i] = tasks[j],
           UNCHANGED serving
    PROVE  /\ Actions!IsQuery(m) \/ m.by # d => (Quiet(d) => Quiet(d)')
           /\ Actions!IsQuery(m) \/ m.by # d \/ m.from = d => (Watched(d) => Watched(d)')
<1>1. /\ channel'[Len(channel')] = m
      /\ \A i \in 1 .. Len(channel') : i # Len(channel') =>
             i \in 1 .. Len(channel) /\ channel'[i] = channel[i]
  BY Appended DEF WireInv, ActionType
<1>2. ASSUME \A i \in 1 .. Len(tasks) : tasks[i].by # d
      PROVE  \A i \in 1 .. Len(tasks') : tasks'[i].by # d
  BY <1>2
<1>3. Actions!IsQuery(m) \/ m.by # d => (Quiet(d) => Quiet(d)')
  BY <1>1, <1>2 DEF Quiet, Actions!IsQuery
<1>4. Actions!IsQuery(m) \/ m.by # d \/ m.from = d => (Watched(d) => Watched(d)')
  BY <1>1, <1>2 DEF Watched, Actions!IsQuery
<1>5. QED
  BY <1>3, <1>4

\* The command the client of a reply held is the one of its step.
LEMMA HeadHeld ==
    ASSUME WireInv, channel # <<>>, NEW d \in Clients, Head(channel).from = d
    PROVE  /\ asked[d].code = "sent" /\ script[d] # <<>> /\ Follows(req[d], script[d])
           /\ IsCommand(Head(channel), req[d], Head(script[d]), d, d)
<1>1. Head(channel) = channel[1] /\ 1 \in 1 .. Len(channel)
  BY DEF WireInv, ActionType
<1>2. /\ asked[d].code = "sent"
      /\ Head(channel) = Actions!Command(req[d], Head(script[d]), d, d)
  BY <1>1 DEF WireInv, Held, Sent
<1>3. script[d] # <<>> /\ Head(script[d]) \notin {"subscribe", "wait", "spawn"}
  BY <1>2 DEF WireInv, Placed
<1>4. req[d] \in Posed /\ Follows(req[d], script[d])
  BY <1>3, AtWork
<1>5. Head(script[d]) \in Steps \ {"subscribe", "wait", "spawn"} /\ d \in Callers
  BY <1>3, <1>4 DEF Follows, Callers
<1>6. Head(script[d]) = "act" => Acts(req[d])
  BY <1>4 DEF Follows
<1>7. QED
  BY <1>2, <1>3, <1>4, <1>5, <1>6, CommandOf

\* The manager answers a question.
LEMMA TruthQuery ==
    ASSUME TruthInv, Actions!ServeQuery, NEW d \in Clients
    PROVE  Truthful(d)'
<1>1. /\ WireInv /\ ActionType /\ Truthful(d) /\ serving = Actions!NoCommand
      /\ channel # <<>> /\ channel' = Tail(channel) /\ Actions!IsQuery(Head(channel))
      /\ UNCHANGED <<serving, tasks, done, req, script, answer>>
  BY QueryEffect DEF TruthInv, WireInv
<1>2. PICK res : IsReply(Head(channel), res) /\ Actions!ReplyTo(Head(channel).from, res)
  BY QueryEffect DEF TruthInv
<1>3. Head(channel).from \in Callers
  BY <1>1, Taken DEF CommandType
<1>4. asked'[d] = IF d = Head(channel).from THEN res ELSE asked[d]
  BY <1>1, <1>2, <1>3, Replying, ResultType
<1>5. (Quiet(d) => Quiet(d)') /\ (Watched(d) => Watched(d)')
  BY <1>1, QuietTaken
<1>6. CASE d # Head(channel).from
  BY <1>1, <1>4, <1>5, <1>6, TruthCarried
<1>7. CASE d = Head(channel).from
  <2>1. script[d] # <<>> /\ IsCommand(Head(channel), req[d], Head(script[d]), d, d)
    BY <1>1, <1>7, HeadHeld
  <2>2. Head(script[d]) # "act"
    BY <1>1, <2>1 DEF IsCommand
  <2>3. Actions!At(d, "survey") => asked'[d].code = "ok"
    BY <1>2, <1>4, <1>7, <2>1 DEF IsCommand, IsReply, Actions!At
  <2>4. QED
    BY <1>1, <1>5, <2>1, <2>2, <2>3, TruthLooked
<1>8. QED
  BY <1>6, <1>7

\* The manager takes up a command, or finds that it matches nothing.
LEMMA TruthCommand ==
    ASSUME TruthInv, Actions!ServeCommand, NEW d \in Clients
    PROVE  Truthful(d)'
<1>1. /\ WireInv /\ ActionType /\ Truthful(d) /\ serving = Actions!NoCommand
      /\ channel # <<>> /\ channel' = Tail(channel) /\ ~Actions!IsQuery(Head(channel))
      /\ \/ /\ Actions!ReplyTo(Head(channel).from, Actions!Result("not_found", "Stopped"))
            /\ UNCHANGED serving
         \/ /\ serving' \in ServingType /\ serving'.from = Head(channel).from
            /\ serving'.by = Head(channel).by /\ UNCHANGED asked
      /\ UNCHANGED <<tasks, done, req, script, answer>>
  BY CommandEffect DEF TruthInv, WireInv
<1>2. (Quiet(d) => Quiet(d)') /\ (Watched(d) => Watched(d)')
  BY <1>1, QuietTaken
<1>3. CASE UNCHANGED asked
  BY <1>1, <1>2, <1>3, TruthCarried
<1>4. CASE /\ Actions!ReplyTo(Head(channel).from, Actions!Result("not_found", "Stopped"))
           /\ UNCHANGED serving
  <2>1. /\ Head(channel).from \in Callers
        /\ \A i \in 1 .. Len(channel') : Head(channel).from = d => channel'[i].from # d
    BY <1>1, Taken DEF CommandType
  <2>2. /\ Actions!Result("not_found", "Stopped") \in [code : Codes, state : States]
        /\ Actions!Result("not_found", "Stopped").code = "not_found"
    BY ResultType DEF Codes
  <2>3. asked'[d] = IF d = Head(channel).from THEN Actions!Result("not_found", "Stopped")
                    ELSE asked[d]
    BY <1>1, <1>4, <2>1, <2>2, Replying
  <2>4. CASE d # Head(channel).from
    BY <1>1, <1>2, <1>4, <2>3, <2>4, TruthCarried
  <2>5. CASE d = Head(channel).from
    <3>1. /\ asked[d].code = "sent" /\ script[d] # <<>>
          /\ IsCommand(Head(channel), req[d], Head(script[d]), d, d)
      BY <1>1, <2>5, HeadHeld
    <3>2. Actions!At(d, "act")
      BY <1>1, <3>1 DEF IsCommand, Actions!At
    <3>3. Watched(d) /\ done[d] = "no"
      BY <1>1, <3>1, <3>2 DEF Truthful
    <3>4. Quiet(d)'
      BY <1>1, <1>2, <1>4, <2>1, <2>5, <3>3 DEF Quiet, Watched
    <3>5. QED
      BY <1>1, <2>2, <2>3, <2>5, <3>2, <3>3, <3>4, TruthReplied
  <2>6. QED
    BY <2>4, <2>5
<1>5. QED
  BY <1>1, <1>3, <1>4

\* A command is over for the client that waits for it: nothing of it is left.
LEMMA TruthOver ==
    ASSUME TruthInv, serving \in ServingType, serving' = Actions!NoCommand,
           NEW res \in [code : {"ok", "err"}, state : States],
           Actions!ReplyTo(serving.from, res), NEW d \in Clients,
           res.code = "ok" => done'[serving.by] = "all",
           d # serving.by \/ res.code # "ok" => done'[d] = done[d],
           UNCHANGED <<channel, tasks, req, script, answer>>
    PROVE  Truthful(d)'
<1>1. /\ WireInv /\ ActionType /\ Truthful(d) /\ serving # Actions!NoCommand
      /\ serving.from \in Callers
  BY ServingIsReal DEF TruthInv, WireInv, ServingType
<1>2. asked'[d] = IF d = serving.from THEN res ELSE asked[d]
  <2>1. res \in [code : Codes, state : States]
    BY DEF Codes
  <2>2. QED
    BY <1>1, <2>1, Replying
<1>3. (Quiet(d) => Quiet(d)') /\ (Watched(d) => Watched(d)')
  BY DEF Quiet, Watched, Actions!IsQuery
<1>4. CASE d = serving.from
  <2>1. /\ asked[d].code = "sent" /\ Actions!At(d, "act") /\ serving.by = d
        /\ \A i \in 1 .. Len(channel) : channel[i].from # d
    BY <1>1, <1>4 DEF WireInv, Held, Served
  <2>2. Watched(d)
    BY <1>1, <2>1 DEF Truthful
  <2>3. Quiet(d)'
    BY <2>1, <2>2 DEF Quiet, Watched, Actions!IsQuery
  <2>4. QED
    BY <1>1, <1>2, <1>4, <2>1, <2>3, TruthReplied
<1>5. CASE d # serving.from /\ done'[d] = done[d]
  <2>1. Watched(d) => serving.by # d
    BY <1>1, <1>5 DEF Watched
  <2>2. QED
    BY <1>1, <1>2, <1>3, <1>5, <2>1, TruthCarried
<1>6. CASE d # serving.from /\ d = serving.by
  <2>1. ~Quiet(d) /\ ~Watched(d)
    BY <1>1, <1>6 DEF Quiet, Watched
  <2>2. ~(Actions!At(d, "act") /\ asked[d].code = "sent")
    BY <1>1, <2>1 DEF Truthful
  <2>3. QED
    BY <1>1, <1>2, <1>6, <2>1, <2>2, TruthBusy
<1>7. QED
  BY <1>4, <1>5, <1>6

\* A command goes on, one target further.
LEMMA TruthGoesOn ==
    ASSUME TruthInv, serving \in ServingType, serving' \in ServingType,
           serving'.from = serving.from, serving'.by = serving.by, NEW d \in Clients,
           d # serving.by => done'[d] = done[d],
           d = serving.by => done'[d] = done[d] \/ done'[d] = "part",
           UNCHANGED <<channel, tasks, req, script, asked, answer>>
    PROVE  Truthful(d)'
<1>1. /\ WireInv /\ Truthful(d) /\ serving # Actions!NoCommand /\ serving' # Actions!NoCommand
  BY ServingIsReal DEF TruthInv
<1>2. (Quiet(d) => Quiet(d)') /\ (Watched(d) => Watched(d)')
  BY <1>1 DEF Quiet, Watched, Actions!IsQuery
<1>3. CASE done'[d] = done[d]
  BY <1>1, <1>2, <1>3, TruthCarried
<1>4. CASE d = serving.by /\ done'[d] = "part"
  <2>1. ~Quiet(d)
    BY <1>1, <1>4 DEF Quiet
  <2>2. (Actions!At(d, "act") /\ asked[d].code = "sent") => Watched(d)
    BY <1>1 DEF Truthful
  <2>3. QED
    BY <1>1, <1>2, <1>4, <2>1, <2>2, TruthBusy
<1>5. QED
  BY <1>3, <1>4

\* Whatever the manager does, what was said of it stays true.
LEMMA TruthManage ==
    ASSUME TruthInv, Actions!Manage, NEW d \in Clients
    PROVE  Truthful(d)'
<1>1. WireInv /\ ActionType
  BY DEF TruthInv, WireInv
<1>2. CASE Actions!ServeQuery
  BY <1>2, TruthQuery
<1>3. CASE Actions!ServeCommand
  BY <1>3, TruthCommand
<1>4. CASE Actions!ServeTarget
  <2>1. /\ UNCHANGED <<channel, tasks, req, script, answer>>
        /\ serving \in ServingType /\ serving.by \in Clients
        /\ \/ /\ serving' = Actions!NoCommand /\ UNCHANGED done
              /\ Actions!ReplyTo(serving.from, Actions!Result("err", "Stopped"))
           \/ /\ serving' \in ServingType /\ serving'.from = serving.from
              /\ serving'.by = serving.by
              /\ Actions!Progress(serving.by, "part") /\ UNCHANGED asked
    BY <1>1, <1>4, TargetEffect DEF ServingType
  <2>2. CASE /\ serving' = Actions!NoCommand /\ UNCHANGED done
             /\ Actions!ReplyTo(serving.from, Actions!Result("err", "Stopped"))
    <3>1. /\ Actions!Result("err", "Stopped") \in [code : {"ok", "err"}, state : States]
          /\ Actions!Result("err", "Stopped").code = "err"
      BY DEF Actions!Result, States
    <3>2. QED
      BY <2>1, <2>2, <3>1, TruthOver
  <2>3. CASE /\ serving' \in ServingType /\ serving'.from = serving.from
             /\ serving'.by = serving.by
             /\ Actions!Progress(serving.by, "part") /\ UNCHANGED asked
    <3>1. done'[d] = IF d = serving.by THEN "part" ELSE done[d]
      BY <1>1, <2>1, <2>3, Progressing
    <3>2. QED
      BY <2>1, <2>3, <3>1, TruthGoesOn
  <2>4. QED
    BY <2>1, <2>2, <2>3
<1>5. CASE Actions!ServeDone
  <2>1. /\ UNCHANGED <<channel, tasks, req, script, answer>>
        /\ serving \in ServingType /\ serving.by \in Clients
        /\ \/ /\ serving' \in ServingType /\ serving'.from = serving.from
              /\ serving'.by = serving.by /\ UNCHANGED <<asked, done>>
           \/ /\ serving' = Actions!NoCommand
              /\ Actions!ReplyTo(serving.from, Actions!Result("ok", "Stopped"))
              /\ Actions!Progress(serving.by, "all")
    BY <1>1, <1>5, DoneEffect DEF ServingType
  <2>2. CASE /\ serving' \in ServingType /\ serving'.from = serving.from
             /\ serving'.by = serving.by /\ UNCHANGED <<asked, done>>
    BY <2>1, <2>2, TruthGoesOn
  <2>3. CASE /\ serving' = Actions!NoCommand
             /\ Actions!ReplyTo(serving.from, Actions!Result("ok", "Stopped"))
             /\ Actions!Progress(serving.by, "all")
    <3>1. /\ Actions!Result("ok", "Stopped") \in [code : {"ok", "err"}, state : States]
          /\ Actions!Result("ok", "Stopped").code = "ok"
      BY DEF Actions!Result, States
    <3>2. \A e \in Clients : done'[e] = IF e = serving.by THEN "all" ELSE done[e]
      BY <1>1, <2>1, <2>3, Progressing
    <3>3. QED
      BY <2>1, <2>3, <3>1, <3>2, TruthOver
  <2>4. QED
    BY <2>1, <2>2, <2>3
<1>6. QED
  BY <1>2, <1>3, <1>4, <1>5 DEF Actions!Manage

\* The handler of c goes on without a call, with what it has to have behind it.
LEMMA TruthOnward ==
    ASSUME NEW c \in Clients, Truthful(c), req[c] # Actions!NoRequest, req'[c] = req[c],
           asked'[c].code = "none", done'[c] = done[c], Quiet(c) => Quiet(c)',
           script'[c] # <<>>, answer'[c] = "none",
           script'[c] \in Ahead => Untouched(c),
           (script'[c] \notin Ahead /\ Acts(req[c]) /\ ~RpcBulk(req[c])) => Complete(c)
    PROVE  Truthful(c)'
<1>1. (Untouched(c) => Untouched(c)') /\ (Complete(c) => Complete(c)')
  BY DEF Untouched, Complete
<1>2. ~Acts(req[c]) => Untouched(c)
  BY DEF Truthful
<1>3. QED
  BY <1>1, <1>2 DEF Truthful, Answering, Refused, Acts, RpcBulk

\* The handler of c answers, with what the answer says behind it.
LEMMA TruthEnds ==
    ASSUME NEW c \in Clients, Truthful(c), req[c] # Actions!NoRequest, req'[c] = req[c],
           done'[c] = done[c], ~Acts(req[c]) \/ Refused(answer'[c]) => (Quiet(c) => Quiet(c)'),
           script'[c] = <<>>, <<>> \notin Ahead,
           Refused(answer'[c]) => Untouched(c),
           (answer'[c] = "ok" /\ Acts(req[c]) /\ ~RpcBulk(req[c])) => Complete(c)',
           (answer'[c] = "accepted" /\ req[c].op = "start") => Complete(c)'
    PROVE  Truthful(c)'
<1>1. ~Acts(req[c]) \/ Refused(answer'[c]) => (Untouched(c) => Untouched(c)')
  BY DEF Untouched
<1>2. ~Acts(req[c]) => Untouched(c)
  BY DEF Truthful
<1>3. QED
  BY <1>1, <1>2 DEF Truthful, Actions!At, Refused, Acts, RpcBulk

\* The scripts of a handler that is at an end or waits have no command ahead.
LEMMA BehindScripts ==
    /\ <<>> \notin Ahead /\ <<"final">> \notin Ahead /\ <<"wait", "final">> \notin Ahead
    /\ <<"lagcheck", "final">> \notin Ahead /\ <<"recheck", "wait", "final">> \notin Ahead
    /\ <<"final">> # <<>> /\ <<"wait", "final">> # <<>> /\ <<"lagcheck", "final">> # <<>>
    /\ <<"recheck", "wait", "final">> # <<>>
BY DEF Ahead

\* What was done for c when the result res of its call makes the handler answer a or,
\* for "none", go on.
LEMMA TruthJudged ==
    ASSUME TruthInv, NEW c \in Clients, script[c] # <<>>,
           Head(script[c]) \notin {"subscribe", "wait", "spawn", "lagcheck"},
           NEW res, (res = asked[c] /\ Answering(c)) \/ res.code = "timeout",
           NEW a, a = Actions!After(req[c], Head(script[c]), res)
    PROVE  /\ Refused(a) => Untouched(c)
           /\ a = "ok" => Complete(c)
           /\ a \in Answers \ {"accepted"}
           /\ a = "none" =>
                  /\ Tail(script[c]) \in Ahead => Untouched(c)
                  /\ (Tail(script[c]) \notin Ahead /\ Acts(req[c]) /\ ~RpcBulk(req[c])) =>
                         Complete(c)
<1>1. /\ WireInv /\ Truthful(c)
  BY DEF TruthInv
<1>2. /\ Follows(req[c], script[c]) /\ req[c] # Actions!NoRequest /\ Actions!Handled(req[c])
      /\ Head(script[c]) \in Steps
  BY <1>1, AtWork DEF Follows
<1>3. Judged(req[c], Head(script[c]), res, a)
  BY <1>2, AfterJudges
<1>4. ~Acts(req[c]) => Untouched(c)
  BY <1>1 DEF Truthful
<1>5. CASE Head(script[c]) = "act"
  <2>1. Tail(script[c]) \notin Ahead
    BY <1>2, <1>5 DEF Follows
  <2>2. (Answering(c) /\ asked[c].code = "ok") => Complete(c)
    BY <1>1, <1>5 DEF Truthful, Actions!At, Complete
  <2>3. (Answering(c) /\ asked[c].code = "not_found") => Untouched(c)
    BY <1>1, <1>5 DEF Truthful, Actions!At, Untouched
  <2>4. QED
    BY <1>3, <1>5, <2>1, <2>2, <2>3 DEF Judged
<1>6. CASE Head(script[c]) = "check"
  <2>1. CASE req[c].op = "probe"
    <3>1. ~Acts(req[c])
      BY <2>1 DEF Acts, ActOps, Groups, Bulk
    <3>2. QED
      BY <1>3, <1>4, <1>6, <3>1 DEF Judged
  <2>2. CASE req[c].op # "probe"
    <3>1. script[c] \in Ahead /\ Tail(script[c]) \in Ahead
      BY <1>2, <1>6, <2>2 DEF Follows
    <3>2. Untouched(c)
      BY <1>1, <1>6, <3>1 DEF Truthful, Actions!At
    <3>3. QED
      BY <1>3, <1>6, <3>1, <3>2 DEF Judged
  <2>3. QED
    BY <2>1, <2>2
<1>7. CASE Head(script[c]) = "query"
  <2>1. ~Acts(req[c])
    BY <1>2, <1>7 DEF Follows
  <2>2. QED
    BY <1>3, <1>4, <1>7, <2>1 DEF Judged
<1>8. CASE Head(script[c]) \in {"recheck", "final", "survey"}
  <2>1. script[c] \notin Ahead /\ Tail(script[c]) \notin Ahead
    BY <1>2, <1>8 DEF Follows
  <2>2. (Acts(req[c]) /\ ~RpcBulk(req[c])) => Complete(c)
    BY <1>1, <2>1 DEF Truthful
  <2>3. ASSUME Head(script[c]) = "survey" PROVE ~Refused(a)
    <3>1. Answering(c) => asked[c].code = "ok"
      BY <1>1, <2>3 DEF Truthful, Actions!At
    <3>2. res.code # "not_found"
      BY <3>1
    <3>3. QED
      BY <1>3, <2>3, <3>2 DEF Judged
  <2>4. ASSUME Head(script[c]) = "final" PROVE ~Refused(a)
    <3>1. req[c].api = "rest"
      BY <1>2, <2>4 DEF Follows
    <3>2. QED
      BY <1>3, <2>4, <3>1 DEF Judged
  <2>5. ASSUME Head(script[c]) = "recheck" PROVE ~Refused(a) /\ Complete(c)
    <3>1. Waits(req[c])
      BY <1>2, <2>5 DEF Follows
    <3>2. req[c].api = "rest" /\ Acts(req[c]) /\ ~RpcBulk(req[c])
      BY <3>1 DEF Waits, Acts, ActOps, RpcBulk
    <3>3. a \in {"ok", "none"}
      BY <1>3, <2>5, <3>2 DEF Judged
    <3>4. QED
      BY <2>2, <3>2, <3>3 DEF Refused
  <2>6. QED
    BY <1>3, <1>8, <2>1, <2>2, <2>3, <2>4, <2>5 DEF Judged
<1>9. QED
  BY <1>2, <1>5, <1>6, <1>7, <1>8 DEF Steps

\* A handler that takes its result, or gives up waiting for it.
LEMMA TruthResumed ==
    ASSUME TruthInv, NEW c \in Clients, Actions!Answered(c) \/ Actions!CallTimesOut(c)
    PROVE  Truthful(c)'
<1>1. WireInv /\ Truthful(c) /\ ActionType
  BY DEF TruthInv, WireInv
<1>2. /\ asked[c].code # "none" /\ UNCHANGED <<done, req>>
      /\ \E res : /\ Actions!Resume(c, res)
                  /\ (res = asked[c] /\ Answering(c)) \/ res.code = "timeout"
  BY ResultType DEF Actions!Answered, Actions!CallTimesOut, Actions!mgrVars, Answering
<1>3. PICK res : /\ Actions!Resume(c, res)
                 /\ (res = asked[c] /\ Answering(c)) \/ res.code = "timeout"
  BY <1>2
<1>4. Quiet(c) => Quiet(c)'
  <2>1. CASE Actions!Answered(c)
    BY <2>1 DEF Actions!Answered, Actions!mgrVars, Quiet, Actions!IsQuery
  <2>2. CASE Actions!CallTimesOut(c)
    <3>1. Actions!Hangup(c) /\ UNCHANGED tasks
      BY <2>2 DEF Actions!CallTimesOut
    <3>2. QED
      BY <1>1, <3>1, QuietHangup
  <2>3. QED
    BY <2>1, <2>2
<1>5. script[c] # <<>> /\ Head(script[c]) \notin {"subscribe", "wait", "spawn"}
  BY <1>1, <1>2 DEF WireInv, Placed
<1>6. Resumed(c, res) /\ asked'[c].code = "none"
  BY <1>1, <1>3, <1>5, Resuming, CallCleared
<1>7. /\ Follows(req[c], script[c]) /\ req[c] # Actions!NoRequest /\ answer[c] = "none"
  BY <1>1, <1>5, AtWork DEF Truthful
<1>8. CASE Actions!At(c, "lagcheck")
  <2>1. /\ answer'[c] = answer[c]
        /\ script'[c] = <<"final">> \/ script'[c] = <<"wait", "final">>
    BY <1>6, <1>8 DEF Resumed
  <2>2. script'[c] # <<>> /\ script'[c] \notin Ahead
    BY <2>1, BehindScripts
  <2>3. Waits(req[c]) /\ script[c] \notin Ahead
    BY <1>7, <1>8 DEF Follows, Actions!At
  <2>4. QED
    BY <1>1, <1>2, <1>4, <1>5, <1>6, <2>1, <2>2, <2>3, TruthOnWait
<1>9. CASE ~Actions!At(c, "lagcheck")
  <2>1. PICK a : a = Actions!After(req[c], Head(script[c]), res)
    OBVIOUS
  <2>2. Head(script[c]) \notin {"subscribe", "wait", "spawn", "lagcheck"}
    BY <1>5, <1>9 DEF Actions!At
  <2>3. /\ Refused(a) => Untouched(c)
        /\ a = "ok" => Complete(c)
        /\ a \in Answers \ {"accepted"}
        /\ a = "none" =>
               /\ Tail(script[c]) \in Ahead => Untouched(c)
               /\ (Tail(script[c]) \notin Ahead /\ Acts(req[c]) /\ ~RpcBulk(req[c])) =>
                      Complete(c)
    BY <1>3, <1>5, <2>1, <2>2, TruthJudged
  <2>4. Complete(c) => Complete(c)'
    BY <1>2, <1>4 DEF Complete
  <2>5. CASE a # "none"
    <3>1. script'[c] = <<>> /\ answer'[c] = a
      BY <1>6, <1>9, <2>1, <2>5 DEF Resumed, Ends
    <3>2. QED
      BY <1>1, <1>2, <1>4, <1>7, <2>3, <2>4, <3>1, BehindScripts, TruthEnds
  <2>6. CASE a = "none" /\ Onward(c)
    <3>1. script'[c] = Tail(script[c]) /\ script'[c] # <<>> /\ answer'[c] = "none"
      BY <1>7, <2>6 DEF Onward
    <3>2. QED
      BY <1>1, <1>2, <1>4, <1>6, <1>7, <2>3, <2>6, <3>1, TruthOnward
  <2>7. CASE a = "none" /\ Tail(script[c]) = <<>> /\ Ends(c, Actions!Completed(req[c]))
    <3>1. script'[c] = <<>> /\ answer'[c] = Actions!Completed(req[c])
      BY <2>7 DEF Ends
    <3>2. answer'[c] \in {"ok", "accepted"}
      BY <3>1 DEF Actions!Completed
    <3>3. answer'[c] = "accepted" => Acts(req[c]) /\ ~RpcBulk(req[c])
      BY <3>1 DEF Actions!Completed, Acts, ActOps, RpcBulk, Bulk
    <3>4. (Acts(req[c]) /\ ~RpcBulk(req[c])) => Complete(c)'
      BY <2>3, <2>4, <2>7, BehindScripts
    <3>5. ~Refused(answer'[c])
      BY <3>2 DEF Refused
    <3>6. QED
      BY <1>1, <1>2, <1>4, <1>7, <3>1, <3>3, <3>4, <3>5, BehindScripts, TruthEnds
  <2>8. QED
    BY <1>6, <1>9, <2>1, <2>5, <2>6, <2>7 DEF Resumed
<1>10. QED
  BY <1>8, <1>9

\* A request comes in, for which nothing was done yet; or a call is made.
LEMMA TruthAsks ==
    ASSUME TruthInv, NEW c \in Clients, Actions!Request(c) \/ Actions!Send(c)
    PROVE  Truthful(c)'
<1>1. WireInv /\ Truthful(c) /\ ActionType
  BY DEF TruthInv, WireInv
<1>2. CASE Actions!Request(c)
  <2>1. /\ req[c] = Actions!NoRequest
        /\ UNCHANGED <<channel, serving, tasks, done, asked, answer>>
    BY <1>2 DEF Actions!Request, Actions!mgrVars
  <2>2. PICK r \in Requests[c] : /\ req' = [req EXCEPT ![c] = r]
                                 /\ script' = [script EXCEPT ![c] = Actions!ScriptOf(r)]
    BY <1>2 DEF Actions!Request
  <2>3. Actions!Handled(r) /\ req'[c] = r /\ script'[c] = Actions!ScriptOf(r)
    BY <1>1, <2>2, RequestAssumption DEF ActionType
  <2>4. script'[c] # <<>> /\ (Acts(r) => script'[c] \in Ahead)
    BY <2>3, ScriptFirst
  <2>5. Untouched(c) /\ answer[c] = "none"
    BY <1>1, <2>1 DEF Truthful
  <2>6. Untouched(c)'
    BY <2>1, <2>5 DEF Untouched, Quiet, Actions!IsQuery
  <2>7. asked'[c].code = "none" /\ answer'[c] = "none"
    BY <1>1, <2>1, <2>5 DEF WireInv, Placed
  <2>8. QED
    BY <2>3, <2>4, <2>6, <2>7 DEF Truthful, Answering, Refused, Acts
<1>3. CASE Actions!Send(c)
  <2>1. PICK m : /\ m = Actions!Command(req[c], Head(script[c]), c, c)
                 /\ channel' = Append(channel, m) /\ IsCommand(m, req[c], Head(script[c]), c, c)
    BY <1>1, <1>3, SendEffect
  <2>2. /\ script[c] # <<>> /\ asked[c].code = "none"
        /\ asked' = [asked EXCEPT ![c] = Actions!Result("sent", "Stopped")]
        /\ UNCHANGED <<serving, tasks, done, req, script, answer>>
    BY <1>1, <1>3, SendEffect
  <2>3. m \in CommandType /\ m.from = c /\ (Actions!IsQuery(m) <=> Head(script[c]) # "act")
    BY <2>1 DEF IsCommand
  <2>4. asked'[c].code = "sent"
    BY <1>1, <2>2, ResultType DEF ActionType
  <2>5. /\ Actions!IsQuery(m) => (Quiet(c) => Quiet(c)')
        /\ Watched(c) => Watched(c)'
    BY <1>1, <2>1, <2>2, <2>3, QuietSent
  <2>6. CASE Head(script[c]) # "act"
    BY <1>1, <2>2, <2>3, <2>4, <2>5, <2>6, TruthLooked
  <2>7. CASE Head(script[c]) = "act"
    <3>1. /\ req[c] # Actions!NoRequest /\ Acts(req[c]) /\ script[c] \in Ahead
          /\ answer[c] = "none"
      BY <1>1, <2>2, <2>7, AtWork DEF Follows, Truthful
    <3>2. Untouched(c)
      BY <1>1, <2>2, <3>1 DEF Truthful
    <3>3. Watched(c) /\ done[c] = "no"
      BY <3>2 DEF Untouched, Quiet, Watched
    <3>4. Watched(c)' /\ done'[c] = "no"
      BY <2>2, <2>5, <3>3
    <3>5. Acts(req'[c]) /\ req'[c] # Actions!NoRequest /\ script'[c] \in Ahead
          /\ answer'[c] = "none" /\ Head(script'[c]) = "act"
      BY <2>2, <2>7, <3>1
    <3>6. QED
      BY <2>2, <2>4, <3>4, <3>5 DEF Truthful, Answering, Refused, Actions!At
  <2>8. QED
    BY <2>6, <2>7
<1>4. QED
  BY <1>2, <1>3

\* The detached task and the waits.
LEMMA TruthWaits ==
    ASSUME TruthInv, NEW c \in Clients,
           \/ Actions!Spawn(c) \/ Actions!Subscribe(c) \/ Actions!WaitEvent(c)
           \/ Actions!WaitLag(c) \/ Actions!WaitTimeout(c)
    PROVE  Truthful(c)'
<1>1. WireInv /\ Truthful(c) /\ ActionType
  BY DEF TruthInv, WireInv
<1>2. CASE Actions!Spawn(c)
  <2>1. /\ script[c] # <<>> /\ script'[c] = <<>> /\ answer'[c] = "accepted"
        /\ req[c].op # "start" /\ Acts(req[c]) /\ UNCHANGED <<req, done>>
    BY <1>1, <1>2, SpawnEffect DEF Ends
  <2>2. req[c] # Actions!NoRequest
    BY <1>1, <2>1, AtWork
  <2>3. ~Refused(answer'[c])
    BY <2>1 DEF Refused
  <2>4. QED
    BY <1>1, <2>1, <2>2, <2>3, BehindScripts, TruthEnds
<1>3. CASE Actions!Subscribe(c) \/ Actions!WaitEvent(c) \/ Actions!WaitLag(c)
  <2>1. /\ script[c] # <<>> /\ script[c] \notin Ahead /\ Waits(req[c]) /\ asked[c].code = "none"
        /\ script'[c] # <<>> /\ script'[c] \notin Ahead
        /\ UNCHANGED <<channel, serving, tasks, done, req, asked, answer>>
    <3>1. CASE Actions!Subscribe(c)
      BY <1>1, <3>1, SubscribeEffect, BehindScripts
    <3>2. CASE Actions!WaitEvent(c)
      BY <1>1, <3>2, WaitEventEffect, BehindScripts
    <3>3. CASE Actions!WaitLag(c)
      BY <1>1, <3>3, WaitLagEffect, BehindScripts
    <3>4. QED
      BY <1>3, <3>1, <3>2, <3>3
  <2>2. Quiet(c) => Quiet(c)'
    BY <2>1 DEF Quiet, Actions!IsQuery
  <2>3. QED
    BY <1>1, <2>1, <2>2, TruthOnWait
<1>4. CASE Actions!WaitTimeout(c)
  <2>1. /\ script[c] # <<>> /\ script[c] \notin Ahead /\ Waits(req[c])
        /\ script'[c] # <<>> /\ script'[c] \notin Ahead /\ Actions!Hangup(c)
        /\ asked' = [asked EXCEPT ![c] = Actions!Result("none", "Stopped")]
        /\ UNCHANGED <<tasks, done, req, answer>>
    BY <1>1, <1>4, WaitTimeoutEffect, BehindScripts
  <2>2. Quiet(c) => Quiet(c)'
    BY <1>1, <2>1, QuietHangup
  <2>3. asked'[c].code = "none"
    BY <1>1, <2>1, CallCleared
  <2>4. QED
    BY <1>1, <2>1, <2>2, <2>3, TruthOnWait
<1>5. QED
  BY <1>2, <1>3, <1>4

\* The handler of c leaves the commands of d alone.
LEMMA TruthAlone ==
    ASSUME TruthInv, NEW c \in Clients, Actions!Request(c) \/ Actions!Handle(c),
           NEW d \in Clients, d # c
    PROVE  Truthful(d)'
<1>1. WireInv /\ Truthful(d) /\ ActionType
  BY DEF TruthInv, WireInv
<1>2. /\ req'[d] = req[d] /\ script'[d] = script[d] /\ asked'[d] = asked[d]
      /\ answer'[d] = answer[d] /\ done'[d] = done[d]
  BY <1>1, HandlerAlone
<1> DEFINE Kept == /\ Quiet(d) => Quiet(d)'
                   /\ Watched(d) => Watched(d)'
                   /\ serving' = Actions!NoCommand \/ serving'.by # d =>
                          serving = Actions!NoCommand \/ serving.by # d
<1>3. ASSUME UNCHANGED <<channel, serving, tasks>> PROVE Kept
  BY <1>3 DEF Quiet, Watched, Actions!IsQuery
<1>4. ASSUME Actions!Hangup(c), UNCHANGED tasks PROVE Kept
  BY <1>1, <1>4, QuietHangup
<1>5. CASE Actions!Send(c)
  <2>1. PICK m : channel' = Append(channel, m) /\ IsCommand(m, req[c], Head(script[c]), c, c)
    BY <1>1, <1>5, SendEffect
  <2>2. UNCHANGED <<serving, tasks>>
    BY <1>1, <1>5, SendEffect
  <2>3. m \in CommandType /\ m.by # d
    BY <2>1 DEF IsCommand
  <2>4. Kept
    BY <1>1, <2>1, <2>2, <2>3, QuietSent
  <2>5. QED
    BY <1>1, <1>2, <2>4, TruthCarried
<1>6. CASE Actions!Spawn(c)
  <2>1. PICK m \in TaskType : m.by = c /\ tasks' = Append(tasks, m)
    BY <1>1, <1>6, SpawnEffect
  <2>2. UNCHANGED <<channel, serving>> /\ tasks \in Seq(TaskType)
    BY <1>1, <1>6, SpawnEffect DEF ActionType
  <2>3. \A i \in 1 .. Len(tasks') :
            tasks'[i] = m \/ (i \in 1 .. Len(tasks) /\ tasks'[i] = tasks[i])
    BY <2>1, <2>2
  <2>4. Kept
    BY <2>1, <2>2, <2>3 DEF Quiet, Watched, Actions!IsQuery
  <2>5. QED
    BY <1>1, <1>2, <2>4, TruthCarried
<1>7. CASE Actions!CallTimesOut(c) \/ Actions!WaitTimeout(c)
  <2>1. Actions!Hangup(c) /\ UNCHANGED tasks
    BY <1>7 DEF Actions!CallTimesOut, Actions!WaitTimeout
  <2>2. QED
    BY <1>1, <1>2, <1>4, <2>1, TruthCarried
<1>8. CASE \/ Actions!Request(c) \/ Actions!Answered(c) \/ Actions!Subscribe(c)
           \/ Actions!WaitEvent(c) \/ Actions!WaitLag(c)
  <2>1. UNCHANGED <<channel, serving, tasks>>
    BY <1>8 DEF Actions!Request, Actions!Answered, Actions!Subscribe, Actions!WaitEvent,
                Actions!WaitLag, Actions!mgrVars
  <2>2. QED
    BY <1>1, <1>2, <1>3, <2>1, TruthCarried
<1>9. QED
  BY <1>5, <1>6, <1>7, <1>8 DEF Actions!Handle

\* Every step keeps what the answers say true.
LEMMA TruthAlways ==
    ASSUME TruthInv, [Actions!Next]_actionVars, NEW d \in Clients
    PROVE  Truthful(d)'
<1>1. WireInv /\ ActionType /\ Truthful(d)
  BY DEF TruthInv, WireInv
<1>2. ASSUME UNCHANGED <<channel, serving, tasks, done, req, script, asked, answer>>
      PROVE  Truthful(d)'
  <2>1. (Quiet(d) => Quiet(d)') /\ (Watched(d) => Watched(d)')
    BY <1>2 DEF Quiet, Watched, Actions!IsQuery
  <2>2. QED
    BY <1>1, <1>2, <2>1, TruthCarried
<1>3. CASE UNCHANGED actionVars
  BY <1>2, <1>3 DEF actionVars
<1>4. ASSUME NEW p \in Programs, Actions!OwnMove(p) \/ Actions!RemoveProgram(p)
      PROVE  Truthful(d)'
  BY <1>2, <1>4 DEF Actions!OwnMove, Actions!RemoveProgram, Actions!mgrVars,
                    Actions!clientVars
<1>5. CASE Actions!Manage
  BY <1>5, TruthManage
<1>6. CASE Actions!TaskSends
  <2>1. /\ Head(tasks) \in CommandType /\ Head(tasks) = tasks[1] /\ 1 \in 1 .. Len(tasks)
        /\ \A i \in 1 .. Len(tasks') : i + 1 \in 1 .. Len(tasks) /\ tasks'[i] = tasks[i + 1]
    BY <1>1, <1>6, WireTaskSends
  <2>2. /\ channel' = Append(channel, Head(tasks))
        /\ UNCHANGED <<serving, done, req, script, asked, answer>>
    BY <1>6 DEF Actions!TaskSends, Actions!clientVars
  <2>3. Quiet(d) \/ Watched(d) => Head(tasks).by # d
    BY <2>1 DEF Quiet, Watched
  <2>4. \A i \in 1 .. Len(tasks') : \E j \in 1 .. Len(tasks) : tasks'[i] = tasks[j]
    BY <2>1
  <2>5. (Quiet(d) => Quiet(d)') /\ (Watched(d) => Watched(d)')
    BY <1>1, <2>1, <2>2, <2>3, <2>4, QuietSent
  <2>6. QED
    BY <1>1, <2>2, <2>5, TruthCarried
<1>7. ASSUME NEW c \in Clients, Actions!Request(c) \/ Actions!Handle(c) PROVE Truthful(d)'
  <2>1. CASE d = c
    BY <1>7, <2>1, TruthAsks, TruthResumed, TruthWaits DEF Actions!Handle
  <2>2. CASE d # c
    BY <1>7, <2>2, TruthAlone
  <2>3. QED
    BY <2>1, <2>2
<1>8. QED
  BY <1>3, <1>4, <1>5, <1>6, <1>7 DEF Actions!Next

\* Nothing was asked and nothing done at first.
LEMMA TruthInit ==
    ASSUME Actions!Init
    PROVE  TruthInv
<1>1. ASSUME NEW c \in Clients PROVE Truthful(c)
  <2>1. /\ req[c] = Actions!NoRequest /\ script[c] = <<>> /\ answer[c] = "none"
        /\ done[c] = "no" /\ channel = <<>> /\ tasks = <<>> /\ serving = Actions!NoCommand
    BY DEF Actions!Init
  <2>2. Untouched(c)
    BY <2>1 DEF Untouched, Quiet
  <2>3. QED
    BY <2>1, <2>2, BehindScripts DEF Truthful, Actions!At, Refused
<1>2. QED
  BY <1>1, WireInit DEF TruthInv

\* What a response says of its request is so: "ok" and the "accepted" of a start only
\* when the command was carried out on every program it matched, "not found", "already
\* started" and "not running" only when nothing was done and nothing is still under way
\* for it, for any number of clients and whatever times out or changes meanwhile (the
\* handlers of server/api.rs and compat/xmlrpc).
THEOREM AnswersHold == ServerSpec => []AnswersTrue
<1>1. ServerInit => TruthInv
  BY TruthInit DEF ServerInit
<1>2. TruthInv /\ [ServerNext]_serverVars => TruthInv'
  <2>1. SUFFICES ASSUME TruthInv, [ServerNext]_serverVars PROVE TruthInv'
    OBVIOUS
  <2>2. [Actions!Next]_actionVars
    BY <2>1 DEF ServerNext, ActionsStep, AuthStep, TrackerStep, PoolStep, serverVars
  <2>3. QED
    BY <2>1, <2>2, WireAlways, TruthAlways DEF TruthInv
<1>3. TruthInv => AnswersTrue
  <2>1. SUFFICES ASSUME TruthInv, NEW c \in Clients
                 PROVE  /\ (/\ answer[c] = "ok"
                            /\ req[c].op \notin {"query", "stdin", "details", "probe"}
                            /\ ~(req[c].api = "rpc" /\ req[c].op \in {"start_all", "stop_all"}))
                               => done[c] = "all"
                        /\ (answer[c] = "accepted" /\ req[c].op = "start") => done[c] = "all"
                        /\ answer[c] \in {"not_found", "already_started", "not_running"} =>
                               done[c] = "no"
    BY DEF AnswersTrue, Actions!AnswersTrue
  <2>2. WireInv /\ Truthful(c)
    BY <2>1 DEF TruthInv
  <2>3. CASE answer[c] = "none"
    BY <2>3
  <2>4. CASE answer[c] # "none"
    <3>1. req[c] # Actions!NoRequest
      BY <2>2, <2>4 DEF Truthful
    <3>2. Actions!Handled(req[c])
      BY <2>2, <3>1, RequestAssumption DEF WireInv, Placed
    <3>3. Acts(req[c]) \/ req[c].op \in {"query", "stdin", "details", "probe"}
      BY <3>2 DEF Actions!Handled, Acts, ActOps, Groups, Bulk
    <3>4. RpcBulk(req[c]) <=> (req[c].api = "rpc" /\ req[c].op \in {"start_all", "stop_all"})
      BY DEF RpcBulk, Bulk
    <3>5. QED
      BY <2>2, <3>3, <3>4 DEF Truthful, Untouched, Complete, Refused
  <2>5. QED
    BY <2>3, <2>4
<1>4. QED
  BY <1>1, <1>2, <1>3, PTL DEF ServerSpec
=============================================================================
