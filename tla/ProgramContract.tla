-------------------------- MODULE ProgramContract ---------------------------
(***************************************************************************)
(* What the manager relies on when it talks to a program through the       *)
(* `Program` trait: a mailbox served one command at a time, a published    *)
(* state that follows the lifecycle, and a task that ends when cancelled.  *)
(*                                                                         *)
(* A program is a record, and Steps(r) is the set of records it may become *)
(* in one step of its own.  ProgramActor is shown to take only these steps *)
(* (ImplementsContract); Manager runs its programs by them.                *)
(***************************************************************************)
EXTENDS Sequences

Ops == {"Start", "Stop", "Restart", "Signal", "Shutdown"}

\* A new handle: its actor waits for the first command.
Fresh ==
    [state   |-> "Stopped",     \* the published ProgramState
     inbox   |-> <<>>,          \* commands sent and not yet taken
     doing   |-> "idle",        \* a command, "Health", "Cancel" or "idle"
     half    |-> FALSE,         \* the child of the current command is stopped
     cancel  |-> FALSE,         \* the program's cancellation token
     ended   |-> FALSE,         \* the actor task has ended
     outcome |-> "none"]        \* what became of the newest call

ProgramType ==
    [state   : {"Stopped", "Starting", "Running", "Backoff", "Stopping",
                "Exited", "Fatal"},
     inbox   : Seq(Ops),
     doing   : Ops \cup {"idle", "Health", "Cancel"},
     half    : BOOLEAN,
     cancel  : BOOLEAN,
     ended   : BOOLEAN,
     outcome : {"none", "wait", "ok", "err"}]

IsActive(state) == state \in {"Starting", "Running", "Stopping"}

-----------------------------------------------------------------------------
(* Steps of the holder of the handle.                                      *)

\* A command is sent; the task of an ended program no longer receives.
Send(r, op) ==
    IF r.ended THEN [r EXCEPT !.outcome = "err"]
               ELSE [r EXCEPT !.inbox = Append(@, op), !.outcome = "wait"]

\* The call is over: its reply was received or did not come in time.
Hangup(r) == [r EXCEPT !.outcome = "none"]

\* The handle is dropped, or shutdown() cancels the task.
CancelIt(r) == [Hangup(r) EXCEPT !.cancel = TRUE]

IsAnswered(r) == r.outcome # "wait"
IsRefused(r)  == r.outcome = "err"

-----------------------------------------------------------------------------
(* Steps of the program.                                                   *)

\* A reply; only the newest command may still have somebody waiting for it.
Reply(r, res) ==
    IF r.inbox = <<>> /\ r.outcome = "wait" THEN [r EXCEPT !.outcome = res] ELSE r

Finish(r, res) == Reply([r EXCEPT !.doing = "idle", !.half = FALSE], res)

\* A child that exists is told to stop; otherwise the state is STOPPED at once.
BeginStop(r, op) ==
    {[r EXCEPT !.doing = op, !.state = "Stopped", !.half = TRUE]}
        \cup (IF r.state \in {"Starting", "Running"}
              THEN {[r EXCEPT !.doing = op, !.state = "Stopping"]} ELSE {})

TakeSteps(r) ==
    IF r.doing # "idle" \/ r.cancel \/ r.inbox = <<>> THEN {}
    ELSE LET op   == Head(r.inbox)
             rest == [r EXCEPT !.inbox = Tail(@)]
         IN  CASE op = "Start"  -> {[rest EXCEPT !.doing = "Start"]}
               [] op = "Signal" -> {Reply(rest, "ok"), Reply(rest, "err")}
               [] OTHER         -> BeginStop(rest, op)

\* The select loop polls the token first; a Shutdown command sets it.
CancelSteps(r) ==
    IF r.doing = "idle" /\ r.cancel THEN BeginStop(r, "Cancel") ELSE {}

StopSteps(r) ==
    IF r.state = "Stopping"
    THEN {[r EXCEPT !.state = "Stopped", !.half = TRUE]} ELSE {}

Spawned(r) == {[r EXCEPT !.state = s] : s \in {"Starting", "Running"}}

\* What follows once the child is stopped, and what Start does at once.
SecondHalfSteps(r) ==
    CASE r.doing = "Start" \/ (r.doing = "Restart" /\ r.half) ->
             {Finish(s, "ok") : s \in Spawned(r)}
                 \cup {Finish(s, "err") : s \in {r, [r EXCEPT !.state = "Fatal"]}}
      [] r.doing = "Health" /\ r.half ->
             {[s EXCEPT !.doing = "idle", !.half = FALSE] :
                 s \in Spawned(r) \cup {[r EXCEPT !.state = "Fatal"]}}
      [] r.doing = "Stop" /\ r.half -> {Finish(r, "ok")}
      [] r.doing = "Shutdown" /\ r.half -> {[Finish(r, "ok") EXCEPT !.cancel = TRUE]}
      [] r.doing = "Cancel" /\ r.half ->
             {[Finish([r EXCEPT !.inbox = <<>>], "err") EXCEPT !.ended = TRUE]}
      [] OTHER -> {}

\* What happens without a command: the start_secs window ends, the process
\* ends, a retry is due.
OwnSteps(r) ==
    IF r.doing # "idle" THEN {}
    ELSE {[r EXCEPT !.state = s] : s \in
             CASE r.state = "Starting" -> {"Running", "Backoff", "Fatal"}
               [] r.state = "Running"  -> {"Exited", "Starting"}
               [] r.state = "Backoff"  -> {"Starting", "Running", "Fatal"}
               [] OTHER                -> {}}

\* The probe's verdict restarts the child.
HealthSteps(r) ==
    IF /\ r.doing = "idle" /\ ~r.cancel /\ r.inbox = <<>>
       /\ r.state \in {"Starting", "Running"}
    THEN {[r EXCEPT !.doing = "Health", !.state = "Stopping"]} ELSE {}

\* Serving the mailbox and the token: what a fair scheduler brings about.
ServeSteps(r) ==
    IF r.ended THEN {}
    ELSE TakeSteps(r) \cup CancelSteps(r) \cup StopSteps(r) \cup SecondHalfSteps(r)

Steps(r) ==
    IF r.ended THEN {} ELSE ServeSteps(r) \cup OwnSteps(r) \cup HealthSteps(r)
=============================================================================
