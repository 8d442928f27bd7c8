----------------------------- MODULE ApiActions ------------------------------
(***************************************************************************)
(* The request handlers of the REST and XML-RPC interfaces.  A handler is  *)
(* a script of calls on the manager's handle with waits between them; the  *)
(* manager takes one command at a time from its channel and carries it out *)
(* program by program, while programs change state on their own and        *)
(* publish every change to the event hub.  A call that times out drops its *)
(* reply channel: the command is still carried out.                        *)
(***************************************************************************)
EXTENDS Integers, FiniteSets, Sequences, SequencesExt

CONSTANTS
    Programs,       \* the programs, all of one group
    Group,          \* a name that matches every program of the group ("group:*")
    Clients,        \* open requests
    Requests,       \* Requests[c]: what c may ask, [api, op, name, sync]
    ChannelSize,    \* of the manager's command channel
    HubCapacity,    \* of a subscriber's broadcast queue
    MaxMoves,       \* bound on the programs' own changes of state
    MaxRemovals     \* bound on programs removed by reloads

VARIABLES
    registered,     \* the programs the manager knows
    state,          \* state[p]: the published ProgramState
    channel,        \* the manager's commands [op, name, from, by]
    serving,        \* the command being carried out, or NoCommand
    tasks,          \* commands of detached tasks that are not sent yet
    req,            \* req[c]: the request c handles, or NoRequest
    script,         \* script[c]: the steps left
    call,           \* call[c]: the result [code, state] of c's call, "none" or "sent"
    listening,      \* listening[c]: c has subscribed to the hub
    rx,             \* rx[c]: events of the subscription that were not read
    lagged,         \* lagged[c]: events of the subscription were overwritten
    answer,         \* answer[c]: the code of the response, or "none"
    blind,          \* history: c began to wait without an answer to its look at the state
    done,           \* history: "no", "part" or "all" of c's command was carried out
    moves, removals

progVars   == <<registered, state, moves, removals>>
mgrVars    == <<channel, serving, tasks, done>>
hubVars    == <<listening, rx, lagged>>
clientVars == <<req, script, call, hubVars, answer, blind>>
vars == <<progVars, mgrVars, clientVars>>

Result(code, s) == [code |-> code, state |-> s]
NoCommand == [op |-> "none"]
NoRequest == [op |-> "none"]
Nobody    == "nobody"
Settled   == {"Running", "Fatal", "Exited"}
HasChild(s) == s \in {"Starting", "Running"}

\* find_match: a program, or all programs of the group.
FindMatch(name) ==
    IF name \in registered THEN {name} ELSE IF name = Group THEN registered ELSE {}

-----------------------------------------------------------------------------
(* The handlers, as scripts.                                               *)

\* Fault: the state is looked at before the events are subscribed to.
RestStartSubscribesLate(r) ==
    IF r.sync THEN <<"act", "recheck", "subscribe", "wait", "final">> ELSE <<"act">>

\* start_program of the REST interface.
RestStart(r) ==
    IF r.sync THEN <<"act", "subscribe", "recheck", "wait", "final">> ELSE <<"act">>

\* stop_program and restart_program: an asynchronous request leaves the command
\* to a detached task.
RestStop(r)    == IF r.sync THEN <<"check", "act", "final">> ELSE <<"check", "spawn">>
RestRestart(r) == IF r.sync THEN <<"check", "act", "final">> ELSE <<"check", "spawn">>

\* start_group, stop_group, restart_group and then the states of their programs.
RestGroup(r) == <<"act", "survey">>
\* start_all and stop_all, and then get_all_status.
RestAll(r)   == <<"act", "survey">>
\* Reading and clearing logs; send_stdin.
RestQuery(r) == <<"query">>
RestStdin(r) == <<"query">>
\* get_program_details: the status, and the hooks of the configuration if it is there.
RestDetails(r) == <<"query", "survey">>

\* startProcess, stopProcess, restartProcess.
RpcProgram(r) == IF r.op = "restart" THEN <<"act">> ELSE <<"check", "act">>
\* startProcessGroup, stopProcessGroup.
RpcGroup(r)   == <<"act">>
\* startAllProcesses, stopAllProcesses.
RpcAll(r)     == <<"act", "survey">>
\* signalProcess; signal 0 only looks.
RpcSignal(r)  == IF r.op = "probe" THEN <<"check">> ELSE <<"check", "act">>
\* Reading, tailing and clearing logs, sendProcessStdin.
RpcQuery(r)   == <<"query">>

ScriptOf(r) ==
    CASE r.api = "rest" /\ r.op = "start"   -> RestStart(r)
      [] r.api = "rest" /\ r.op = "stop"    -> RestStop(r)
      [] r.api = "rest" /\ r.op = "restart" -> RestRestart(r)
      [] r.api = "rest" /\ r.op \in {"start_group", "stop_group", "restart_group"} -> RestGroup(r)
      [] r.api = "rest" /\ r.op \in {"start_all", "stop_all"} -> RestAll(r)
      [] r.api = "rest" /\ r.op = "query"   -> RestQuery(r)
      [] r.api = "rest" /\ r.op = "stdin"   -> RestStdin(r)
      [] r.api = "rest" /\ r.op = "details" -> RestDetails(r)
      [] r.api = "rpc" /\ r.op \in {"start", "stop", "restart"} -> RpcProgram(r)
      [] r.api = "rpc" /\ r.op \in {"start_group", "stop_group"} -> RpcGroup(r)
      [] r.api = "rpc" /\ r.op \in {"start_all", "stop_all"} -> RpcAll(r)
      [] r.api = "rpc" /\ r.op \in {"signal", "probe"} -> RpcSignal(r)
      [] r.api = "rpc" /\ r.op = "query"    -> RpcQuery(r)

\* The requests that are routed to a handler.
Handled(r) ==
    /\ r.sync \in BOOLEAN
    /\ \/ r.api = "rest" /\ r.op \in {"start", "stop", "restart", "start_group", "stop_group",
              "restart_group", "start_all", "stop_all", "query", "stdin", "details"}
       \/ r.api = "rpc" /\ r.op \in {"start", "stop", "restart", "start_group", "stop_group",
              "start_all", "stop_all", "signal", "probe", "query"}

\* The XML-RPC handlers judge by the state they looked up.
StateFault(op, s) ==
    CASE op = "start" /\ HasChild(s)           -> "already_started"
      [] op = "stop" /\ ~HasChild(s)           -> "not_running"
      [] op \in {"signal", "probe"} /\ s # "Running" -> "not_running"
      [] OTHER                                 -> "none"

\* What the REST handlers make of a call's result: an answer, or "none" to go on.
RestAfter(r, step, res) ==
    IF step = "recheck" THEN IF res.code = "ok" /\ res.state \in Settled THEN "ok" ELSE "none"
    ELSE IF step = "survey" \/ res.code = "ok" THEN "none"
    ELSE IF step \in {"check", "act", "query"} /\ res.code = "not_found" THEN "not_found"
    ELSE IF step = "act" /\ r.op \notin {"start_all", "stop_all"} THEN "bad_request"
    ELSE "error"

\* Fault: a refused command is taken for a success.
RpcAfterForgives(r, step, res) ==
    IF step = "check" /\ res.code = "ok" THEN StateFault(r.op, res.state)
    ELSE IF res.code = "ok" \/ step = "act" THEN "none"
    ELSE IF res.code = "not_found" THEN "not_found" ELSE "error"

RpcAfter(r, step, res) ==
    IF step = "check" /\ res.code = "ok" THEN StateFault(r.op, res.state)
    ELSE IF res.code = "ok" \/ (step = "act" /\ r.op \in {"start_all", "stop_all"}) THEN "none"
    ELSE IF res.code = "not_found" THEN "not_found" ELSE "error"

After(r, step, res) == IF r.api = "rest" THEN RestAfter(r, step, res) ELSE RpcAfter(r, step, res)

\* The response of a script that came to its end.
Completed(r) ==
    IF r.api = "rest" /\ ~r.sync /\ r.op \in {"start", "stop", "restart"}
    THEN "accepted" ELSE "ok"

-----------------------------------------------------------------------------
(* Programs and the event hub.                                             *)

\* publish: every subscription keeps the newest HubCapacity events.
Published(q, events) ==
    LET all == q \o events
    IN  SubSeq(all, 1 + (IF Len(all) > HubCapacity THEN Len(all) - HubCapacity ELSE 0), Len(all))

Publish(events) ==
    /\ rx' = [c \in Clients |-> IF listening[c] THEN Published(rx[c], events) ELSE rx[c]]
    /\ UNCHANGED listening
    /\ lagged' = [c \in Clients |->
           lagged[c] \/ (listening[c] /\ Len(rx[c]) + Len(events) > HubCapacity)]

Becomes(p, states) ==
    /\ state' = [state EXCEPT ![p] = Last(states)]
    /\ Publish([i \in 1..Len(states) |-> [name |-> p, new |-> states[i]]])

\* A program changes state on its own; a change is stored and then published.
OwnMove(p) ==
    /\ moves < MaxMoves /\ p \in registered
    /\ \E s \in CASE state[p] = "Starting" -> {"Running", "Backoff", "Fatal"}
                  [] state[p] = "Running"  -> {"Exited"}
                  [] state[p] = "Backoff"  -> {"Starting", "Fatal"}
                  [] OTHER                 -> {} :
           Becomes(p, <<s>>)
    /\ moves' = moves + 1
    /\ UNCHANGED <<registered, removals, mgrVars, req, script, call, answer, blind>>

\* A reload drops a program between two commands.
RemoveProgram(p) ==
    /\ removals < MaxRemovals /\ serving = NoCommand /\ p \in registered
    /\ registered' = registered \ {p}
    /\ removals' = removals + 1
    /\ UNCHANGED <<state, moves, mgrVars, clientVars>>

-----------------------------------------------------------------------------
(* The manager.                                                            *)

\* A reply reaches the caller unless it gave up.
ReplyTo(from, res) ==
    call' = IF from = Nobody THEN call ELSE [call EXCEPT ![from] = res]

Progress(by, d) == done' = IF by = Nobody THEN done ELSE [done EXCEPT ![by] = d]

IsQuery(cmd) == cmd.op \in {"status", "all_status", "query"}

\* GetStatus and the other questions: the first match answers.
ServeQuery ==
    /\ serving = NoCommand /\ channel # <<>> /\ IsQuery(Head(channel))
    /\ LET cmd == Head(channel) IN
       /\ channel' = Tail(channel)
       /\ IF cmd.op = "all_status" THEN ReplyTo(cmd.from, Result("ok", "Stopped"))
          ELSE IF FindMatch(cmd.name) = {}
          THEN ReplyTo(cmd.from, Result("not_found", "Stopped"))
          ELSE \E p \in FindMatch(cmd.name) :
                  ReplyTo(cmd.from, Result("ok", state[p]))
    /\ UNCHANGED <<progVars, serving, tasks, done, req, script, hubVars, answer, blind>>

\* What the command is carried out on; every program has autostart.
TargetsOf(cmd) ==
    CASE cmd.op = "start_all" ->
             {p \in registered : state[p] \in {"Stopped", "Exited", "Fatal"}}
      [] cmd.op = "stop_all"  -> {p \in registered : state[p] # "Stopped"}
      [] OTHER                -> FindMatch(cmd.name)

ServeCommand ==
    /\ serving = NoCommand /\ channel # <<>> /\ ~IsQuery(Head(channel))
    /\ LET cmd == Head(channel) IN
       /\ channel' = Tail(channel)
       /\ IF TargetsOf(cmd) = {} /\ cmd.op \notin {"start_all", "stop_all"}
          THEN /\ ReplyTo(cmd.from, Result("not_found", "Stopped"))
               /\ UNCHANGED serving
          ELSE /\ serving' = [op |-> cmd.op, left |-> TargetsOf(cmd), again |-> FALSE,
                              from |-> cmd.from, by |-> cmd.by, name |-> cmd.name]
               /\ UNCHANGED call
    /\ UNCHANGED <<progVars, tasks, done, req, script, hubVars, answer, blind>>

\* What one program does for the command: the states it publishes and whether
\* it refuses.  A start is refused when there is a child; a start that fails
\* ends in FATAL, or in the old state when its hook failed.
Stopping(s) == IF HasChild(s) THEN <<"Stopping", "Stopped">> ELSE <<"Stopped">>

Outcomes(op, s) ==
    CASE op \in {"start", "start_group", "start_all"} ->
             IF HasChild(s) THEN {[states |-> <<s>>, bad |-> TRUE]}
             ELSE {[states |-> <<"Starting">>, bad |-> FALSE],
                   [states |-> <<"Fatal">>, bad |-> TRUE], [states |-> <<s>>, bad |-> TRUE]}
      [] op \in {"stop", "stop_group", "stop_all"} -> {[states |-> Stopping(s), bad |-> FALSE]}
      [] op = "restart" -> {[states |-> Stopping(s) \o <<"Starting">>, bad |-> FALSE],
                            [states |-> Stopping(s) \o <<"Fatal">>, bad |-> TRUE],
                            [states |-> Stopping(s), bad |-> TRUE]}
      [] op = "signal" -> {[states |-> <<s>>, bad |-> ~HasChild(s)]}

\* restart_group stops them all and then starts them all.
CurrentOp == IF serving.op # "restart_group" THEN serving.op
             ELSE IF serving.again THEN "start_group" ELSE "stop_group"

\* One target of the command; the first refusal ends a command, except the bulk ones.
ServeTarget ==
    /\ serving # NoCommand /\ serving.left # {}
    /\ \E p \in serving.left : \E o \in Outcomes(CurrentOp, state[p]) :
       /\ IF o.states = <<state[p]>> THEN UNCHANGED <<state, hubVars>> ELSE Becomes(p, o.states)
       /\ IF o.bad /\ serving.op \notin {"start_all", "stop_all"}
          THEN /\ serving' = NoCommand
               /\ ReplyTo(serving.from, Result("err", "Stopped"))
               /\ UNCHANGED done
          ELSE /\ serving' = [serving EXCEPT !.left = @ \ {p}]
               /\ Progress(serving.by, "part")
               /\ UNCHANGED call
    /\ UNCHANGED <<registered, moves, removals, channel, tasks, req, script, answer, blind>>

ServeDone ==
    /\ serving # NoCommand /\ serving.left = {}
    /\ IF serving.op = "restart_group" /\ ~serving.again
       THEN /\ serving' = [serving EXCEPT !.left = FindMatch(serving.name), !.again = TRUE]
            /\ UNCHANGED <<call, done>>
       ELSE /\ serving' = NoCommand
            /\ ReplyTo(serving.from, Result("ok", "Stopped"))
            /\ Progress(serving.by, "all")
    /\ UNCHANGED <<progVars, channel, tasks, req, script, hubVars, answer, blind>>

-----------------------------------------------------------------------------
(* The handlers at work.                                                   *)

\* The response is sent; the receiver of the events is dropped.
Respond(c, code) ==
    /\ answer' = [answer EXCEPT ![c] = code]
    /\ script' = [script EXCEPT ![c] = <<>>]
    /\ listening' = [listening EXCEPT ![c] = FALSE]
    /\ rx' = [rx EXCEPT ![c] = <<>>]
    /\ lagged' = [lagged EXCEPT ![c] = FALSE]

Advance(c) ==
    IF Len(script[c]) = 1 THEN Respond(c, Completed(req[c]))
    ELSE script' = [script EXCEPT ![c] = Tail(@)] /\ UNCHANGED <<answer, hubVars>>

At(c, step) == script[c] # <<>> /\ Head(script[c]) = step
IsWaiting(c) == At(c, "wait") \/ At(c, "lagcheck")

Request(c) ==
    /\ req[c] = NoRequest
    /\ \E r \in Requests[c] :
           /\ req' = [req EXCEPT ![c] = r]
           /\ script' = [script EXCEPT ![c] = ScriptOf(r)]
    /\ UNCHANGED <<progVars, mgrVars, call, hubVars, answer, blind>>

\* The methods of ManagerHandle send a command and then wait for its reply:
\* those that act on a program, on a group, on everything, and the questions.
ProgramCall(r) == [op |-> r.op, name |-> r.name]
GroupCall(r)   == [op |-> r.op, name |-> r.name]
BulkCall(r)    == [op |-> r.op, name |-> Group]
StatusCall(r)  == [op |-> "status", name |-> r.name]
SurveyCall(r)  == [op |-> "all_status", name |-> Group]
QueryCall(r)   == [op |-> "query", name |-> r.name]

ActCall(r) ==
    CASE r.op \in {"start_group", "stop_group", "restart_group"} -> GroupCall(r)
      [] r.op \in {"start_all", "stop_all"} -> BulkCall(r)
      [] OTHER -> ProgramCall(r)

CallAt(r, step) ==
    CASE step \in {"check", "recheck", "final", "lagcheck"} -> StatusCall(r)
      [] step = "survey" -> SurveyCall(r)
      [] step = "query"  -> QueryCall(r)
      [] OTHER -> ActCall(r)

Command(r, step, from, by) ==
    [op |-> CallAt(r, step).op, name |-> CallAt(r, step).name, from |-> from, by |-> by]

Send(c) ==
    /\ script[c] # <<>> /\ Head(script[c]) \notin {"subscribe", "wait", "spawn"}
    /\ call[c].code = "none" /\ Len(channel) < ChannelSize
    /\ channel' = Append(channel, Command(req[c], Head(script[c]), c, c))
    /\ call' = [call EXCEPT ![c] = Result("sent", "Stopped")]
    /\ UNCHANGED <<progVars, serving, tasks, done, req, script, hubVars, answer, blind>>

\* What the handler does with the result of the call it made.  A look at the
\* state after lost events goes back to waiting.
Resume(c, res) ==
    /\ call' = [call EXCEPT ![c] = Result("none", "Stopped")]
    /\ IF At(c, "lagcheck")
       THEN /\ script' = [script EXCEPT ![c] =
                  IF res.code = "ok" /\ res.state \in Settled THEN <<"final">>
                  ELSE <<"wait", "final">>]
            /\ blind' = [blind EXCEPT ![c] = @ \/ res.code # "ok"]
            /\ UNCHANGED <<answer, hubVars>>
       ELSE /\ LET a == After(req[c], Head(script[c]), res) IN
               IF a = "none" THEN Advance(c) ELSE Respond(c, a)
            /\ blind' = [blind EXCEPT ![c] = @ \/ (At(c, "recheck") /\ res.code # "ok")]

Answered(c) ==
    /\ call[c].code \notin {"none", "sent"}
    /\ Resume(c, call[c])
    /\ UNCHANGED <<progVars, mgrVars, req>>

\* The caller drops its reply channel: the command loses its caller, not its effect.
Hangup(c) ==
    /\ channel' = [i \in 1..Len(channel) |->
           IF channel[i].from = c THEN [channel[i] EXCEPT !.from = Nobody] ELSE channel[i]]
    /\ serving' = IF serving # NoCommand /\ serving.from = c
                  THEN [serving EXCEPT !.from = Nobody] ELSE serving

CallTimesOut(c) ==
    /\ call[c].code = "sent"
    /\ Hangup(c)
    /\ Resume(c, Result("timeout", "Stopped"))
    /\ UNCHANGED <<progVars, tasks, done, req>>

\* The detached task of an asynchronous stop or restart.
Spawn(c) ==
    /\ At(c, "spawn")
    /\ tasks' = Append(tasks, Command(req[c], "act", Nobody, c))
    /\ Advance(c)
    /\ UNCHANGED <<progVars, channel, serving, done, req, call, blind>>

TaskSends ==
    /\ tasks # <<>> /\ Len(channel) < ChannelSize
    /\ channel' = Append(channel, Head(tasks))
    /\ tasks' = Tail(tasks)
    /\ UNCHANGED <<progVars, serving, done, clientVars>>

Subscribe(c) ==
    /\ At(c, "subscribe")
    /\ listening' = [listening EXCEPT ![c] = TRUE]
    /\ script' = [script EXCEPT ![c] = Tail(@)]
    /\ UNCHANGED <<progVars, mgrVars, req, call, rx, lagged, answer, blind>>

\* The wait for an event of this name: the client's name, not the one it matched.
IsAwaited(c, e) == e.name = req[c].name /\ e.new \in Settled

WaitEvent(c) ==
    /\ At(c, "wait") /\ ~lagged[c] /\ rx[c] # <<>>
    /\ rx' = [rx EXCEPT ![c] = Tail(@)]
    /\ script' = [script EXCEPT ![c] = IF IsAwaited(c, Head(rx[c])) THEN Tail(@) ELSE @]
    /\ UNCHANGED <<progVars, mgrVars, req, call, listening, lagged, answer, blind>>

\* Lagged: events were overwritten, so the state is looked up again.
WaitLag(c) ==
    /\ At(c, "wait") /\ lagged[c]
    /\ lagged' = [lagged EXCEPT ![c] = FALSE]
    /\ script' = [script EXCEPT ![c] = <<"lagcheck", "final">>]
    /\ UNCHANGED <<progVars, mgrVars, req, call, listening, rx, answer, blind>>

\* The client's timeout ends the wait, and whatever look at the state is under way.
WaitTimeout(c) ==
    /\ IsWaiting(c)
    /\ Hangup(c)
    /\ call' = [call EXCEPT ![c] = Result("none", "Stopped")]
    /\ script' = [script EXCEPT ![c] = <<"final">>]
    /\ UNCHANGED <<progVars, tasks, done, req, hubVars, answer, blind>>

-----------------------------------------------------------------------------
Init ==
    /\ registered = Programs
    /\ state \in [Programs -> {"Stopped", "Running"}]
    /\ channel = <<>> /\ serving = NoCommand /\ tasks = <<>>
    /\ req = [c \in Clients |-> NoRequest]
    /\ script = [c \in Clients |-> <<>>]
    /\ call = [c \in Clients |-> Result("none", "Stopped")]
    /\ listening = [c \in Clients |-> FALSE]
    /\ rx = [c \in Clients |-> <<>>]
    /\ lagged = [c \in Clients |-> FALSE]
    /\ answer = [c \in Clients |-> "none"]
    /\ blind = [c \in Clients |-> FALSE]
    /\ done = [c \in Clients |-> "no"]
    /\ moves = 0 /\ removals = 0

Manage == ServeQuery \/ ServeCommand \/ ServeTarget \/ ServeDone
Handle(c) ==
    \/ Send(c) \/ Answered(c) \/ CallTimesOut(c) \/ Spawn(c) \/ Subscribe(c)
    \/ WaitEvent(c) \/ WaitLag(c) \/ WaitTimeout(c)

Next ==
    \/ \E p \in Programs : OwnMove(p) \/ RemoveProgram(p)
    \/ Manage \/ TaskSends
    \/ \E c \in Clients : Request(c) \/ Handle(c)

Spec == Init /\ [][Next]_vars

-----------------------------------------------------------------------------
(* Properties.                                                             *)

\* Client c, when it waits for p to settle and p has settled, will see it: the
\* event is still unread, or the subscription knows that it lost some, or a look
\* at the state is under way or failed.
Noticed(c, p) ==
    (IsWaiting(c) /\ state[p] \in Settled) =>
        \/ lagged[c] \/ blind[c] \/ At(c, "lagcheck")
        \/ \E i \in 1..Len(rx[c]) : IsAwaited(c, rx[c][i])

\* A synchronous start that waits for its program to settle cannot miss it,
\* whatever happens between its subscription and its wait (start_program of
\* server/api.rs; a stop or restart waits for the manager's answer only).
WakeupPending ==
    \A c \in Clients : req[c] # NoRequest /\ req[c].name \in registered
        => Noticed(c, req[c].name)

\* A response says what became of the request: success means that the command was
\* carried out on every program it matched, and a program that is not known or is
\* in the wrong state means that nothing was done, whatever timed out or
\* changed in between.
AnswersTrue ==
    \A c \in Clients :
        /\ (answer[c] = "ok" /\ req[c].op \notin {"query", "stdin", "details", "probe"}
                /\ ~(req[c].api = "rpc" /\ req[c].op \in {"start_all", "stop_all"}))
               => done[c] = "all"
        /\ (answer[c] = "accepted" /\ req[c].op = "start") => done[c] = "all"
        /\ answer[c] \in {"not_found", "already_started", "not_running"} => done[c] = "no"
=============================================================================
