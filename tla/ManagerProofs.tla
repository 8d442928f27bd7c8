--------------------------- MODULE ManagerProofs ----------------------------
(***************************************************************************)
(* What one step of the manager or of a program does to the inductive      *)
(* invariant of Manager (the records of the contract, the agenda as a      *)
(* sequence and as a set, the blocks), then the invariant, action by       *)
(* action, and what follows from it for every set of configuration files   *)
(* and commands.                                                           *)
(***************************************************************************)
EXTENDS Manager, DependencyOrderProofs, SequenceTheorems

-----------------------------------------------------------------------------
(* Programs of the contract.                                               *)

\* A program goes on: it does not wake by itself, and only a command or its
\* token ends it.
Evolves(r, s) ==
    /\ s \in ProgramType /\ Sane(s)
    /\ Dormant(r) => Dormant(s)
    /\ Live(r) => Live(s)
    /\ r.ended => s.ended

\* A reply changes nothing but the outcome of the newest call.
LEMMA ReplyFacts ==
    ASSUME NEW r \in ProgramType, NEW res \in {"ok", "err"}
    PROVE  /\ Reply(r, res) \in ProgramType
           /\ Reply(r, res).state = r.state /\ Reply(r, res).inbox = r.inbox
           /\ Reply(r, res).doing = r.doing /\ Reply(r, res).half = r.half
           /\ Reply(r, res).cancel = r.cancel /\ Reply(r, res).ended = r.ended
BY DEF Reply, ProgramType

\* Finish answers the call in hand and leaves the actor idle; state, inbox and flags stay.
LEMMA FinishFacts ==
    ASSUME NEW r \in ProgramType, NEW res \in {"ok", "err"}
    PROVE  /\ Finish(r, res) \in ProgramType
           /\ Finish(r, res).state = r.state /\ Finish(r, res).inbox = r.inbox
           /\ Finish(r, res).doing = "idle" /\ Finish(r, res).half = FALSE
           /\ Finish(r, res).cancel = r.cancel /\ Finish(r, res).ended = r.ended
<1>. DEFINE q == [r EXCEPT !.doing = "idle", !.half = FALSE]
<1>1. /\ q \in ProgramType /\ q.state = r.state /\ q.inbox = r.inbox
      /\ q.doing = "idle" /\ q.half = FALSE /\ q.cancel = r.cancel /\ q.ended = r.ended
  BY DEF ProgramType
<1>2. Finish(r, res) = Reply(q, res)
  BY DEF Finish
<1>. HIDE DEF q
<1>. QED  BY <1>1, <1>2, ReplyFacts

\* Serving its mailbox and its token, a program evolves.
LEMMA ServeEvolves ==
    ASSUME NEW r \in ProgramType, Sane(r), NEW s \in ServeSteps(r)
    PROVE  Evolves(r, s)
<1>0. ~r.ended /\ s \in TakeSteps(r) \cup CancelSteps(r) \cup StopSteps(r) \cup SecondHalfSteps(r)
  BY DEF ServeSteps
<1>1. CASE s \in TakeSteps(r)
  <2>. DEFINE rest == [r EXCEPT !.inbox = Tail(@)]
  <2>1. r.doing = "idle" /\ ~r.cancel /\ r.inbox # <<>> /\ r.inbox \in Seq(Ops)
    BY <1>1 DEF TakeSteps, ProgramType
  <2>2. Head(r.inbox) \in Ops /\ Tail(r.inbox) \in Seq(Ops)
    BY <2>1, HeadTailProperties
  <2>2a. \A k \in DOMAIN Tail(r.inbox) : k + 1 \in DOMAIN r.inbox /\ Tail(r.inbox)[k] = r.inbox[k + 1]
    BY <2>1, HeadTailProperties, LenProperties
  <2>2b. 1 \in DOMAIN r.inbox /\ Head(r.inbox) = r.inbox[1]
    BY <2>1, HeadTailProperties, LenProperties, EmptySeq
  <2>3. /\ rest \in ProgramType /\ rest.state = r.state /\ rest.inbox = Tail(r.inbox)
        /\ rest.doing = "idle" /\ rest.half = r.half /\ rest.cancel = FALSE
        /\ rest.ended = FALSE
    BY <2>1, <2>2, <1>0 DEF ProgramType
  <2>4. r.half = FALSE /\ r.state # "Stopping" /\ ~Dormant(r)
    BY <2>1, <1>0 DEF Sane, Dormant, ProgramType
  <2>5. s \in CASE Head(r.inbox) = "Start"  -> {[rest EXCEPT !.doing = "Start"]}
               [] Head(r.inbox) = "Signal" -> {Reply(rest, "ok"), Reply(rest, "err")}
               [] OTHER         -> BeginStop(rest, Head(r.inbox))
    BY <1>1, <2>1 DEF TakeSteps
  <2>6. Live(r) => /\ Head(r.inbox) # "Shutdown"
                   /\ \A k \in DOMAIN Tail(r.inbox) : Tail(r.inbox)[k] # "Shutdown"
    BY <2>2a, <2>2b DEF Live
  <2>. HIDE DEF rest
  <2>7. CASE Head(r.inbox) = "Start"
    <3>1. s = [rest EXCEPT !.doing = "Start"]
      BY <2>5, <2>7
    <3>2. /\ s \in ProgramType /\ s.state = rest.state /\ s.inbox = rest.inbox
          /\ s.doing = "Start" /\ s.half = rest.half /\ s.cancel = FALSE /\ s.ended = FALSE
      BY <3>1, <2>3 DEF ProgramType, Ops
    <3>. QED  BY <3>2, <2>3, <2>4, <2>6, <1>0 DEF Evolves, Sane, Live
  <2>8. CASE Head(r.inbox) = "Signal"
    <3>1. PICK res \in {"ok", "err"} : s = Reply(rest, res)
      BY <2>5, <2>8
    <3>2. /\ s \in ProgramType /\ s.state = rest.state /\ s.inbox = rest.inbox
          /\ s.doing = rest.doing /\ s.half = rest.half /\ s.cancel = FALSE /\ s.ended = FALSE
      BY <3>1, <2>3, ReplyFacts
    <3>. QED  BY <3>2, <2>3, <2>4, <2>6, <1>0 DEF Evolves, Sane, Live
  <2>9. CASE Head(r.inbox) \notin {"Start", "Signal"}
    <3>1. s \in BeginStop(rest, Head(r.inbox))
      BY <2>5, <2>9
    <3>2. \/ s = [rest EXCEPT !.doing = Head(r.inbox), !.state = "Stopped", !.half = TRUE]
          \/ s = [rest EXCEPT !.doing = Head(r.inbox), !.state = "Stopping"]
      BY <3>1 DEF BeginStop
    <3>3. /\ s \in ProgramType /\ s.inbox = rest.inbox
          /\ s.doing = Head(r.inbox) /\ s.cancel = FALSE /\ s.ended = FALSE
          /\ s.half => s.state = "Stopped"
      BY <3>2, <2>3, <2>2, <2>4 DEF ProgramType
    <3>. QED  BY <3>3, <2>2, <2>3, <2>4, <2>6, <2>9, <1>0 DEF Evolves, Sane, Live, Ops
  <2>. QED  BY <2>7, <2>8, <2>9
<1>2. CASE s \in CancelSteps(r)
  <2>1. r.doing = "idle" /\ r.cancel /\ s \in BeginStop(r, "Cancel")
    BY <1>2 DEF CancelSteps
  <2>2. \/ s = [r EXCEPT !.doing = "Cancel", !.state = "Stopped", !.half = TRUE]
        \/ r.state # "Stopped" /\ s = [r EXCEPT !.doing = "Cancel", !.state = "Stopping"]
    BY <2>1 DEF BeginStop
  <2>3. /\ s \in ProgramType /\ s.inbox = r.inbox /\ s.doing = "Cancel"
        /\ s.ended = FALSE /\ (s.half => s.state = "Stopped")
        /\ r.state = "Stopped" => s.state = "Stopped"
    BY <2>2, <2>1, <1>0 DEF ProgramType, Sane
  <2>. QED  BY <2>3, <2>1, <1>0 DEF Evolves, Sane, Live, Dormant
<1>3. CASE s \in StopSteps(r)
  <2>1. r.state = "Stopping" /\ s = [r EXCEPT !.state = "Stopped", !.half = TRUE]
    BY <1>3 DEF StopSteps
  <2>2. /\ s \in ProgramType /\ s.inbox = r.inbox /\ s.doing = r.doing /\ s.state = "Stopped"
        /\ s.ended = FALSE /\ s.cancel = r.cancel
    BY <2>1, <1>0 DEF ProgramType
  <2>. QED  BY <2>1, <2>2, <1>0 DEF Evolves, Sane, Live, Dormant
<1>4. CASE s \in SecondHalfSteps(r)
  <2>1. CASE r.doing = "Start" \/ (r.doing = "Restart" /\ r.half)
    <3>1. s \in {Finish(q, "ok") : q \in Spawned(r)}
                 \cup {Finish(q, "err") : q \in {r, [r EXCEPT !.state = "Fatal"]}}
      BY <1>4, <2>1 DEF SecondHalfSteps
    <3>2. PICK q :
             /\ s = Finish(q, "ok") \/ s = Finish(q, "err")
             /\ q = r \/ \E t \in {"Starting", "Running", "Fatal"} : q = [r EXCEPT !.state = t]
      BY <3>1 DEF Spawned
    <3>3. /\ q \in ProgramType /\ q.inbox = r.inbox /\ q.doing = r.doing
          /\ q.cancel = r.cancel /\ q.ended = r.ended /\ q.state # "Stopping"
      BY <3>2, <2>1 DEF ProgramType, Sane
    <3>4. /\ s \in ProgramType /\ s.inbox = r.inbox /\ s.doing = "idle" /\ s.half = FALSE
          /\ s.cancel = r.cancel /\ s.ended = FALSE /\ s.state # "Stopping"
      <4>1. \A res \in {"ok", "err"} :
               /\ Finish(q, res) \in ProgramType /\ Finish(q, res).state = q.state
               /\ Finish(q, res).inbox = q.inbox /\ Finish(q, res).doing = "idle"
               /\ Finish(q, res).half = FALSE /\ Finish(q, res).cancel = q.cancel
               /\ Finish(q, res).ended = q.ended
        BY <3>3, FinishFacts
      <4>2. r.ended = FALSE
        BY <1>0 DEF ProgramType
      <4>. QED  BY <3>2, <3>3, <4>1, <4>2
    <3>. QED  BY <3>4, <2>1, <1>0 DEF Evolves, Sane, Live, Dormant
  <2>2. CASE r.doing = "Health" /\ r.half
    <3>1. s \in {[q EXCEPT !.doing = "idle", !.half = FALSE] :
                 q \in Spawned(r) \cup {[r EXCEPT !.state = "Fatal"]}}
      BY <1>4, <2>2 DEF SecondHalfSteps
    <3>2. PICK t \in {"Starting", "Running", "Fatal"} :
             s = [[r EXCEPT !.state = t] EXCEPT !.doing = "idle", !.half = FALSE]
      BY <3>1 DEF Spawned
    <3>4. /\ s \in ProgramType /\ s.inbox = r.inbox /\ s.doing = "idle" /\ s.half = FALSE
          /\ s.cancel = r.cancel /\ s.ended = FALSE /\ s.state # "Stopping"
      BY <3>2, <1>0 DEF ProgramType
    <3>. QED  BY <3>4, <2>2, <1>0 DEF Evolves, Sane, Live, Dormant
  <2>3. CASE r.doing = "Stop" /\ r.half
    <3>1. s = Finish(r, "ok")
      BY <1>4, <2>3 DEF SecondHalfSteps
    <3>2. /\ s \in ProgramType /\ s.inbox = r.inbox /\ s.doing = "idle" /\ s.half = FALSE
          /\ s.cancel = r.cancel /\ s.ended = FALSE /\ s.state = r.state
      BY <3>1, <1>0, FinishFacts DEF ProgramType
    <3>. QED  BY <3>2, <2>3, <1>0 DEF Evolves, Sane, Live, Dormant
  <2>4. CASE r.doing = "Shutdown" /\ r.half
    <3>1. PICK f : f = Finish(r, "ok") /\ s = [f EXCEPT !.cancel = TRUE]
      BY <1>4, <2>4 DEF SecondHalfSteps
    <3>1a. /\ f \in ProgramType /\ f.state = r.state /\ f.inbox = r.inbox /\ f.doing = "idle"
           /\ f.half = FALSE /\ f.ended = r.ended
      BY <3>1, FinishFacts
    <3>2. /\ s \in ProgramType /\ s.inbox = r.inbox /\ s.doing = "idle" /\ s.half = FALSE
          /\ s.ended = FALSE /\ s.state = r.state
      BY <3>1, <3>1a, <1>0 DEF ProgramType
    <3>. QED  BY <3>2, <2>4, <1>0 DEF Evolves, Sane, Live, Dormant, ProgramType
  <2>5. CASE r.doing = "Cancel" /\ r.half
    <3>. DEFINE q == [r EXCEPT !.inbox = <<>>]
    <3>0. <<>> \in Seq(Ops)
      BY EmptySeq
    <3>1. q \in ProgramType /\ q.state = r.state
      BY <3>0 DEF ProgramType
    <3>2. PICK f : f = Finish(q, "err") /\ s = [f EXCEPT !.ended = TRUE]
      BY <1>4, <2>5 DEF SecondHalfSteps
    <3>. HIDE DEF q
    <3>3. /\ s \in ProgramType /\ s.doing = "idle" /\ s.half = FALSE
          /\ s.ended = TRUE /\ s.state = r.state
      <4>1. /\ f \in ProgramType /\ f.state = q.state /\ f.doing = "idle" /\ f.half = FALSE
        BY <3>1, <3>2, FinishFacts
      <4>. QED  BY <4>1, <3>1, <3>2 DEF ProgramType
    <3>. QED  BY <3>3, <2>5, <1>0 DEF Evolves, Sane, Live, Dormant, ProgramType
  <2>. QED  BY <1>4, <2>1, <2>2, <2>3, <2>4, <2>5 DEF SecondHalfSteps
<1>. QED  BY <1>0, <1>1, <1>2, <1>3, <1>4

\* What it does without a command, and what its probe does, too.
LEMMA OwnEvolves ==
    ASSUME NEW r \in ProgramType, Sane(r), ~r.ended,
           NEW s \in OwnSteps(r) \cup HealthSteps(r)
    PROVE  Evolves(r, s)
<1>1. CASE s \in OwnSteps(r)
  <2>1. r.doing = "idle"
    BY <1>1 DEF OwnSteps
  <2>2. PICK t \in {"Running", "Backoff", "Fatal", "Exited", "Starting"} :
           r.state # "Stopped" /\ s = [r EXCEPT !.state = t]
    BY <1>1, <2>1 DEF OwnSteps, ProgramType
  <2>3. /\ s \in ProgramType /\ s.inbox = r.inbox /\ s.doing = "idle" /\ s.half = r.half
        /\ s.cancel = r.cancel /\ s.ended = FALSE /\ s.state # "Stopping"
    BY <2>1, <2>2 DEF ProgramType
  <2>. QED  BY <2>1, <2>2, <2>3 DEF Evolves, Sane, Live, Dormant, ProgramType
<1>2. CASE s \in HealthSteps(r)
  <2>1. /\ r.doing = "idle" /\ r.state # "Stopped"
        /\ s = [r EXCEPT !.doing = "Health", !.state = "Stopping"]
    BY <1>2 DEF HealthSteps
  <2>2. /\ s \in ProgramType /\ s.inbox = r.inbox /\ s.doing = "Health" /\ s.half = r.half
        /\ s.cancel = r.cancel /\ s.ended = FALSE /\ s.state = "Stopping"
    BY <2>1 DEF ProgramType
  <2>. QED  BY <2>1, <2>2 DEF Evolves, Sane, Live, Dormant, ProgramType
<1>. QED  BY <1>1, <1>2

\* Hanging up and cancelling do not wake a program; cancelling alone makes it
\* unfit for commands.
LEMMA HangupFacts ==
    ASSUME NEW r \in ProgramType, Sane(r)
    PROVE  /\ Evolves(r, Hangup(r))
           /\ CancelIt(r) \in ProgramType /\ Sane(CancelIt(r))
           /\ Dormant(r) => Dormant(CancelIt(r))
           /\ CancelIt(r).ended = r.ended
<1>. DEFINE h == Hangup(r)
            c == CancelIt(r)
<1>1. /\ h \in ProgramType /\ h.state = r.state /\ h.inbox = r.inbox /\ h.doing = r.doing
      /\ h.half = r.half /\ h.cancel = r.cancel /\ h.ended = r.ended
  BY DEF Hangup, ProgramType
<1>2. /\ c \in ProgramType /\ c.state = r.state /\ c.inbox = r.inbox /\ c.doing = r.doing
      /\ c.half = r.half /\ c.ended = r.ended
  BY DEF CancelIt, Hangup, ProgramType
<1>. HIDE DEF h, c
<1>3. Evolves(r, h) /\ Sane(c) /\ (Dormant(r) => Dormant(c)) /\ c.ended = r.ended
  BY <1>1, <1>2 DEF Evolves, Sane, Live, Dormant
<1>. QED  BY <1>2, <1>3 DEF h, c

\* A command reaches a program that is there; only Shutdown asks for its end.
LEMMA SendFacts ==
    ASSUME NEW r \in ProgramType, Sane(r), NEW op \in Ops
    PROVE  /\ Send(r, op) \in ProgramType /\ Sane(Send(r, op))
           /\ Send(r, op).ended = r.ended
           /\ op # "Shutdown" /\ Live(r) => Live(Send(r, op))
<1>. DEFINE s == Send(r, op)
<1>1. CASE r.ended
  <2>1. /\ s \in ProgramType /\ s.state = r.state /\ s.doing = r.doing /\ s.half = r.half
        /\ s.ended = r.ended
    BY <1>1 DEF Send, ProgramType
  <2>. HIDE DEF s
  <2>2. Sane(s) /\ ~Live(r)
    BY <1>1, <2>1 DEF Sane, Live
  <2>. QED  BY <2>1, <2>2 DEF s
<1>2. CASE ~r.ended
  <2>1. r.inbox \in Seq(Ops)
    BY DEF ProgramType
  <2>2. /\ Append(r.inbox, op) \in Seq(Ops)
        /\ \A k \in DOMAIN Append(r.inbox, op) :
              Append(r.inbox, op)[k] = op \/ (k \in DOMAIN r.inbox /\ Append(r.inbox, op)[k] = r.inbox[k])
    BY <2>1, AppendProperties, LenProperties
  <2>3. /\ s \in ProgramType /\ s.state = r.state /\ s.doing = r.doing /\ s.half = r.half
        /\ s.ended = r.ended /\ s.cancel = r.cancel /\ s.inbox = Append(r.inbox, op)
    BY <1>2, <2>2 DEF Send, ProgramType
  <2>. HIDE DEF s
  <2>4. Sane(s) /\ (op # "Shutdown" /\ Live(r) => Live(s))
    BY <2>2, <2>3 DEF Sane, Live
  <2>. QED  BY <2>3, <2>4 DEF s
<1>. QED  BY <1>1, <1>2 DEF ProgramType

\* A program record just built by instantiate_program is idle, stopped and reachable.
LEMMA FreshFacts ==
    Fresh \in ProgramType /\ Sane(Fresh) /\ Dormant(Fresh) /\ Live(Fresh)
<1>1. <<>> \in Seq(Ops) /\ DOMAIN <<>> = {}
  BY EmptySeq
<1>. QED  BY <1>1 DEF Fresh, ProgramType, Sane, Dormant, Live

\* A program that is dormant has no process.
LEMMA DormantFacts ==
    ASSUME NEW r \in ProgramType, Sane(r), Dormant(r)
    PROVE  ~IsActive(r.state)
BY DEF Sane, Dormant, IsActive

-----------------------------------------------------------------------------
(* The agenda.                                                             *)

IsSeq(s) == s \in Seq(SetOf(s))

\* A sequence over its own elements: domain, membership, and when it is empty.
LEMMA SeqFacts ==
    ASSUME NEW s, IsSeq(s)
    PROVE  /\ Len(s) \in Nat /\ DOMAIN s = 1 .. Len(s)
           /\ \A k \in DOMAIN s : s[k] \in SetOf(s)
           /\ s = <<>> <=> SetOf(s) = {}
<1>1. Len(s) \in Nat /\ DOMAIN s = 1 .. Len(s) /\ s = [k \in 1 .. Len(s) |-> s[k]]
  BY LenProperties DEF IsSeq
<1>2. s = <<>> <=> Len(s) = 0
  BY EmptySeq DEF IsSeq
<1>3. Len(s) = 0 <=> SetOf(s) = {}
  <2>1. ASSUME Len(s) # 0 PROVE SetOf(s) # {}
    <3>1. 1 \in DOMAIN s
      BY <1>1, <2>1
    <3>. QED  BY <3>1 DEF SetOf
  <2>2. ASSUME Len(s) = 0 PROVE SetOf(s) = {}
    <3>1. DOMAIN s = {}
      BY <1>1, <2>2
    <3>. QED  BY <3>1 DEF SetOf
  <2>. QED  BY <2>1, <2>2
<1>. QED  BY <1>1, <1>2, <1>3 DEF SetOf

\* A function on an initial segment of the numbers is a sequence.
LEMMA FunctionIsSeq ==
    ASSUME NEW n \in Nat, NEW s, s = [k \in 1 .. n |-> s[k]]
    PROVE  IsSeq(s) /\ Len(s) = n
<1>1. s \in [1 .. n -> SetOf(s)]
  BY DEF SetOf
<1>2. s \in Seq(SetOf(s))
  BY <1>1, SeqDef
<1>. QED  BY <1>1, <1>2, LenProperties DEF IsSeq

\* Taking the head off a sequence loses no element but the head.
LEMMA PopFacts ==
    ASSUME NEW s, IsSeq(s), s # <<>>
    PROVE  /\ IsSeq(Tail(s))
           /\ SetOf(s) = {Head(s)} \cup SetOf(Tail(s))
           /\ DOMAIN Tail(s) = 1 .. Len(s) - 1
           /\ \A k \in DOMAIN Tail(s) : k + 1 \in DOMAIN s /\ Tail(s)[k] = s[k + 1]
           /\ 1 \in DOMAIN s /\ Head(s) = s[1]
<1>. DEFINE t == Tail(s)
<1>1. /\ Len(s) \in Nat \ {0} /\ DOMAIN s = 1 .. Len(s) /\ Head(s) = s[1]
      /\ t \in Seq(SetOf(s)) /\ Len(t) = Len(s) - 1
      /\ \A k \in 1 .. Len(t) : t[k] = s[k + 1]
  BY HeadTailProperties, LenProperties, EmptySeq DEF IsSeq
<1>2. DOMAIN t = 1 .. Len(t) /\ t = [k \in 1 .. Len(t) |-> t[k]]
  BY <1>1, LenProperties
<1>. HIDE DEF t
<1>3. IsSeq(t)
  BY <1>1, <1>2, FunctionIsSeq
<1>4. \A k \in DOMAIN t : k + 1 \in DOMAIN s /\ t[k] = s[k + 1]
  BY <1>1, <1>2
<1>5. \A k \in DOMAIN s : k = 1 \/ (k - 1 \in DOMAIN t /\ s[k] = t[k - 1])
  BY <1>1, <1>2
<1>6. 1 \in DOMAIN s
  BY <1>1
<1>7. SetOf(s) = {s[1]} \cup SetOf(t)
  BY <1>4, <1>5, <1>6 DEF SetOf
<1>. QED  BY <1>1, <1>2, <1>3, <1>4, <1>6, <1>7 DEF t

\* Concatenation joins the elements and keeps the positions of both parts.
LEMMA JoinFacts ==
    ASSUME NEW s, IsSeq(s), NEW t, IsSeq(t)
    PROVE  /\ IsSeq(s \o t)
           /\ SetOf(s \o t) = SetOf(s) \cup SetOf(t)
           /\ Len(s \o t) = Len(s) + Len(t)
           /\ \A k \in DOMAIN (s \o t) :
                 \/ k \in DOMAIN s /\ (s \o t)[k] = s[k]
                 \/ /\ k > Len(s) /\ k - Len(s) \in DOMAIN t
                    /\ (s \o t)[k] = t[k - Len(s)]
<1>. DEFINE B == SetOf(s) \cup SetOf(t)
            u == s \o t
<1>1. /\ Len(s) \in Nat /\ DOMAIN s = 1 .. Len(s) /\ Len(t) \in Nat /\ DOMAIN t = 1 .. Len(t)
      /\ s = [k \in 1 .. Len(s) |-> s[k]] /\ t = [k \in 1 .. Len(t) |-> t[k]]
  BY LenProperties DEF IsSeq
<1>2. s \in [1 .. Len(s) -> B] /\ t \in [1 .. Len(t) -> B]
  BY <1>1 DEF SetOf
<1>3. s \in Seq(B) /\ t \in Seq(B)
  BY <1>1, <1>2, SeqDef
<1>. HIDE DEF B
<1>4. /\ u \in Seq(B) /\ Len(u) = Len(s) + Len(t)
      /\ \A k \in 1 .. Len(s) + Len(t) :
             u[k] = IF k <= Len(s) THEN s[k] ELSE t[k - Len(s)]
  BY <1>3, ConcatProperties
<1>5. DOMAIN u = 1 .. Len(u) /\ u = [k \in 1 .. Len(u) |-> u[k]]
  BY <1>4, LenProperties
<1>. HIDE DEF u
<1>6. \A k \in DOMAIN u :
         \/ k \in DOMAIN s /\ u[k] = s[k]
         \/ k > Len(s) /\ k - Len(s) \in DOMAIN t /\ u[k] = t[k - Len(s)]
  BY <1>1, <1>4, <1>5
<1>7. \A k \in DOMAIN s : k \in DOMAIN u /\ u[k] = s[k]
  BY <1>1, <1>4, <1>5
<1>8. \A k \in DOMAIN t : k + Len(s) \in DOMAIN u /\ u[k + Len(s)] = t[k]
  BY <1>1, <1>4, <1>5
<1>9. SetOf(u) = SetOf(s) \cup SetOf(t)
  BY <1>6, <1>7, <1>8 DEF SetOf
<1>10. IsSeq(u)
  BY <1>1, <1>4, <1>5, FunctionIsSeq
<1>. QED  BY <1>4, <1>6, <1>9, <1>10 DEF u

\* Two ordered parts are in order if all of the first may precede all of the
\* second.
LEMMA OrderedJoin ==
    ASSUME NEW own, NEW s, IsSeq(s), NEW t, IsSeq(t),
           Ordered(own, s), Ordered(own, t),
           \A b \in SetOf(s), c \in SetOf(t) : Follows(own, b, c)
    PROVE  Ordered(own, s \o t)
<1>. DEFINE u == s \o t
<1>1. \A k \in DOMAIN u :
         \/ k \in DOMAIN s /\ u[k] = s[k]
         \/ k > Len(s) /\ k - Len(s) \in DOMAIN t /\ u[k] = t[k - Len(s)]
  BY JoinFacts
<1>2. Len(s) \in Nat /\ DOMAIN s = 1 .. Len(s) /\ Len(t) \in Nat /\ DOMAIN t = 1 .. Len(t)
  BY SeqFacts
<1>3. \A k \in DOMAIN u : k \in Nat
  BY <1>1, <1>2
<1>. HIDE DEF u
<1>. SUFFICES ASSUME NEW k \in DOMAIN u, NEW l \in DOMAIN u, k < l
              PROVE  Follows(own, u[k], u[l])
  BY DEF Ordered, u
<1>4. CASE k \in DOMAIN s /\ u[k] = s[k] /\ l \in DOMAIN s /\ u[l] = s[l]
  BY <1>4 DEF Ordered
<1>5. CASE /\ k - Len(s) \in DOMAIN t /\ u[k] = t[k - Len(s)]
           /\ l - Len(s) \in DOMAIN t /\ u[l] = t[l - Len(s)]
  <2>1. k - Len(s) < l - Len(s)
    BY <1>2, <1>3
  <2>. QED  BY <1>5, <2>1 DEF Ordered
<1>6. CASE k \in DOMAIN s /\ u[k] = s[k] /\ l - Len(s) \in DOMAIN t /\ u[l] = t[l - Len(s)]
  BY <1>6 DEF SetOf
<1>7. ~(k > Len(s) /\ l \in DOMAIN s)
  BY <1>2, <1>3
<1>. QED  BY <1>1, <1>4, <1>5, <1>6, <1>7

\* The rest of an ordered plan is ordered, and its blocks may follow the head.
LEMMA OrderedPop ==
    ASSUME NEW own, NEW s, IsSeq(s), s # <<>>, Ordered(own, s)
    PROVE  /\ Ordered(own, Tail(s))
           /\ \A c \in SetOf(Tail(s)) : Follows(own, Head(s), c)
<1>1. /\ DOMAIN Tail(s) = 1 .. Len(s) - 1
      /\ \A k \in DOMAIN Tail(s) : k + 1 \in DOMAIN s /\ Tail(s)[k] = s[k + 1]
      /\ 1 \in DOMAIN s /\ Head(s) = s[1]
      /\ Len(s) \in Nat
  BY PopFacts, SeqFacts
<1>2. \A k, l \in DOMAIN Tail(s) : k < l => k + 1 < l + 1
  BY <1>1
<1>3. \A k \in DOMAIN Tail(s) : 1 < k + 1
  BY <1>1
<1>. QED  BY <1>1, <1>2, <1>3 DEF Ordered, SetOf

\* Nothing left to do is an ordered plan.
LEMMA EmptyPlan == IsSeq(<<>>) /\ SetOf(<<>>) = {} /\ \A own : Ordered(own, <<>>)
<1>1. DOMAIN <<>> = {}
  OBVIOUS
<1>2. SetOf(<<>>) = {}
  BY <1>1 DEF SetOf
<1>. QED  BY <1>1, <1>2, EmptySeq DEF IsSeq, Ordered

\* Plans of one and of two blocks.
LEMMA ShortPlans ==
    ASSUME NEW a, NEW b
    PROVE  /\ IsSeq(<<a>>) /\ SetOf(<<a>>) = {a}
           /\ \A own : Ordered(own, <<a>>)
           /\ IsSeq(<<a, b>>) /\ SetOf(<<a, b>>) = {a, b}
           /\ \A own : Follows(own, a, b) => Ordered(own, <<a, b>>)
<1>1. /\ DOMAIN <<a>> = {1} /\ DOMAIN <<a, b>> = {1, 2}
      /\ <<a>>[1] = a /\ <<a, b>>[1] = a /\ <<a, b>>[2] = b
  OBVIOUS
<1>2. /\ SetOf(<<a>>) = {a} /\ SetOf(<<a, b>>) = {a, b}
  BY <1>1 DEF SetOf
<1>3. IsSeq(<<a>>) /\ IsSeq(<<a, b>>)
  BY <1>2 DEF IsSeq
<1>4. \A own : Ordered(own, <<a>>)
  BY <1>1 DEF Ordered
<1>5. \A own : Follows(own, a, b) => Ordered(own, <<a, b>>)
  BY <1>1 DEF Ordered
<1>. QED  BY <1>2, <1>3, <1>4, <1>5

\* Plans of three blocks.
LEMMA ThreeBlocks ==
    ASSUME NEW a, NEW b, NEW c
    PROVE  /\ DOMAIN <<a, b, c>> = {1, 2, 3}
           /\ <<a, b, c>>[1] = a /\ <<a, b, c>>[2] = b /\ <<a, b, c>>[3] = c
           /\ IsSeq(<<a, b, c>>) /\ SetOf(<<a, b, c>>) = {a, b, c}
<1>1. /\ DOMAIN <<a, b, c>> = {1, 2, 3}
      /\ <<a, b, c>>[1] = a /\ <<a, b, c>>[2] = b /\ <<a, b, c>>[3] = c
  OBVIOUS
<1>2. SetOf(<<a, b, c>>) = {a, b, c}
  BY <1>1 DEF SetOf
<1>3. IsSeq(<<a, b, c>>)
  BY <1>2 DEF IsSeq
<1>. QED  BY <1>1, <1>2, <1>3

\* They are in order if each block may follow the ones before it.
LEMMA ThreePlan ==
    ASSUME NEW own, NEW a, NEW b, NEW c,
           Follows(own, a, b), Follows(own, a, c), Follows(own, b, c)
    PROVE  /\ IsSeq(<<a, b, c>>) /\ SetOf(<<a, b, c>>) = {a, b, c}
           /\ Ordered(own, <<a, b, c>>)
<1>1. Ordered(own, <<a, b, c>>)
  BY ThreeBlocks DEF Ordered
<1>. QED  BY <1>1, ThreeBlocks

\* The first block gives way to a plan.
LEMMA ContinueFacts ==
    ASSUME AgendaSound, agenda # <<>>, NEW plan, IsSeq(plan), Continue(plan),
           Ordered(owner, plan), UNCHANGED owner,
           \A b \in SetOf(plan), c \in SetOf(Tail(agenda)) : Follows(owner, b, c)
    PROVE  /\ AgendaSound'
           /\ Todo' = SetOf(plan) \cup SetOf(Tail(agenda))
<1>1. IsSeq(agenda) /\ Ordered(owner, agenda)
  BY DEF AgendaSound, IsSeq, Todo
<1>2. IsSeq(Tail(agenda)) /\ Ordered(owner, Tail(agenda))
  BY <1>1, PopFacts, OrderedPop
<1>3. agenda' = plan \o Tail(agenda)
  BY DEF Continue
<1>4. /\ IsSeq(agenda') /\ SetOf(agenda') = SetOf(plan) \cup SetOf(Tail(agenda))
  BY <1>2, <1>3, JoinFacts
<1>5. Ordered(owner, agenda')
  BY <1>2, <1>3, OrderedJoin
<1>. QED  BY <1>4, <1>5 DEF AgendaSound, IsSeq, Todo

\* What the blocks still to do are, seen from the block in hand.
LEMMA HeadFacts ==
    ASSUME AgendaSound, agenda # <<>>
    PROVE  /\ Todo = {Head(agenda)} \cup SetOf(Tail(agenda))
           /\ \A c \in SetOf(Tail(agenda)) : Follows(owner, Head(agenda), c)
BY PopFacts, OrderedPop DEF AgendaSound, IsSeq, Todo

-----------------------------------------------------------------------------
(* Steps that change neither the registries nor what is still to be done   *)
(* with them.                                                              *)

SameBlocks ==
    /\ \A b \in Todo' : NameBlock(b) \/ EndBlock(b) \/ b.do = "call" => b \in Todo
    /\ \A b \in Todo : NameBlock(b) \/ EndBlock(b) => b \in Todo'
    /\ \A b \in Todo' : b.do = "await" => b.strict \in BOOLEAN
    /\ \A i : Closing(i)' <=> Closing(i)

\* Programs go on; one that is woken is the only one of its name that is not
\* dormant, and one that is made unfit is being shut down.
ProgramsMove ==
    /\ DOMAIN prog' = DOMAIN prog
    /\ \A i \in DOMAIN prog :
        /\ prog[i].ended => prog'[i].ended
        /\ Live(prog[i]) => Live(prog'[i]) \/ Closing(i)
        /\ Dormant(prog[i]) /\ ~Dormant(prog'[i]) =>
               /\ Registered(i) \/ Closing(i)
               /\ \A j \in DOMAIN prog : j # i /\ owner[j] = owner[i] => Dormant(prog'[j])

\* The part of the invariant that is about blocks and instances.
BlockInv ==
    /\ BlocksSound /\ ClosingSound /\ StagedSound /\ Accounted
    /\ RegisteredSound /\ Exclusive /\ Tracked /\ ReloadTracked

\* A step that only lets programs evolve, with the same blocks and registries, keeps the
\* bookkeeping of blocks.
LEMMA Neutral ==
    ASSUME BlockInv, MapsSound, DOMAIN owner = DOMAIN prog,
           UNCHANGED <<registryVars, owner>>,
           SameBlocks, Up, Up', Leaving' <=> Leaving, ProgramsMove
    PROVE  BlockInv'
<1>0. /\ programs' = programs /\ configs' = configs /\ pending_configs' = pending_configs
      /\ shared_configs' = shared_configs /\ dag' = dag /\ cron_table' = cron_table
      /\ owner' = owner /\ DOMAIN prog' = DOMAIN prog
  BY DEF registryVars, ProgramsMove
<1>1. ASSUME NEW n, NEW dos \in SUBSET {"remove", "forget", "replace", "add", "install"}
      PROVE  Named(dos, n)' <=> Named(dos, n)
  BY <1>1 DEF Named, SameBlocks, NameBlock
<1>2. Swapping' <=> Swapping
  BY DEF Swapping, SameBlocks, EndBlock
<1>3. \A i : Closing(i)' <=> Closing(i)
  BY DEF SameBlocks
<1>4. \A n : /\ Named({"replace", "add", "install"}, n)' <=> Named({"replace", "add", "install"}, n)
             /\ Named({"add", "install"}, n)' <=> Named({"add", "install"}, n)
             /\ Named({"install"}, n)' <=> Named({"install"}, n)
             /\ Named({"forget"}, n)' <=> Named({"forget"}, n)
             /\ Named({"remove", "forget"}, n)' <=> Named({"remove", "forget"}, n)
  BY <1>1
<1>5. \A n : (Awaited(n)' <=> Awaited(n)) /\ (Outgoing(n)' <=> Outgoing(n))
  BY <1>0, <1>2, <1>4 DEF Awaited, Outgoing
<1>6. \A i : (Registered(i)' <=> Registered(i)) /\ Staged(i)' = Staged(i)
  BY <1>0 DEF Registered, Staged
<1>7. (\E b \in Todo' : b.do \in {"adopt", "derive"}) <=> (\E b \in Todo : b.do \in {"adopt", "derive"})
  BY DEF SameBlocks, EndBlock
<1>8. (\E b \in Todo' : b.do = "adopt") <=> (\E b \in Todo : b.do = "adopt")
  BY DEF SameBlocks, EndBlock
<1>9. BlocksSound'
  BY <1>0, <1>7 DEF BlockInv, BlocksSound, SameBlocks, NameBlock, EndBlock
<1>10. ClosingSound'
  <2>. SUFFICES ASSUME NEW b \in Todo', IdBlock(b)
                PROVE  /\ b.id \in DOMAIN prog
                       /\ \/ Registered(b.id) /\ Outgoing(owner[b.id])
                          \/ owner[b.id] \notin DOMAIN programs /\ Named({"forget"}, owner[b.id])
    BY <1>0, <1>4, <1>5, <1>6 DEF ClosingSound
  <2>1. Closing(b.id)
    BY <1>3 DEF Closing
  <2>2. PICK c \in Todo : IdBlock(c) /\ c.id = b.id
    BY <2>1 DEF Closing
  <2>. QED  BY <2>2 DEF BlockInv, ClosingSound
<1>11. StagedSound'
  <2>. SUFFICES ASSUME NEW n \in DOMAIN pending_configs, Awaited(n)
                PROVE  /\ Staged(n) \in DOMAIN prog /\ owner[Staged(n)] = n
                       /\ \A j \in DOMAIN owner : owner[j] = n => j <= Staged(n)
                       /\ ~Registered(Staged(n)) /\ ~Closing(Staged(n))
                       /\ Live(prog'[Staged(n)])
                       /\ Named({"install"}, n) \/ Dormant(prog'[Staged(n)])
    BY <1>0, <1>3, <1>4, <1>5, <1>6 DEF StagedSound
  <2>1. /\ Staged(n) \in DOMAIN prog /\ owner[Staged(n)] = n
        /\ \A j \in DOMAIN owner : owner[j] = n => j <= Staged(n)
        /\ ~Registered(Staged(n)) /\ ~Closing(Staged(n))
        /\ Live(prog[Staged(n)])
        /\ Named({"install"}, n) \/ Dormant(prog[Staged(n)])
    BY DEF BlockInv, StagedSound
  <2>. QED  BY <2>1 DEF ProgramsMove
<1>12. Accounted'
  BY <1>0, <1>3, <1>5, <1>6 DEF BlockInv, Accounted, ProgramsMove
<1>13. RegisteredSound'
  <2>. SUFFICES ASSUME NEW n \in DOMAIN programs
                PROVE  /\ Live(prog'[programs[n]]) \/ Outgoing(n)
                       /\ Outgoing(n) => prog'[programs[n]].ended \/ Closing(programs[n])
    BY <1>0, <1>3, <1>5 DEF RegisteredSound
  <2>1. programs[n] \in DOMAIN prog /\ owner[programs[n]] = n
    BY DEF MapsSound
  <2>2. /\ Live(prog[programs[n]]) \/ Outgoing(n)
        /\ Outgoing(n) => prog[programs[n]].ended \/ Closing(programs[n])
    BY DEF BlockInv, RegisteredSound
  <2>3. Closing(programs[n]) => Outgoing(n)
    BY <2>1 DEF Closing, BlockInv, ClosingSound
  <2>. QED  BY <2>1, <2>2, <2>3 DEF ProgramsMove
<1>14. Exclusive'
  BY <1>0 DEF BlockInv, Exclusive, ProgramsMove
<1>15. Tracked'
  BY <1>0, <1>4, <1>7 DEF BlockInv, Tracked, Agreed
<1>16. ReloadTracked'
  BY <1>0, <1>4, <1>8 DEF BlockInv, ReloadTracked
<1>. QED  BY <1>9, <1>10, <1>11, <1>12, <1>13, <1>14, <1>15, <1>16 DEF BlockInv

-----------------------------------------------------------------------------
(* Programs are commanded, cancelled or go on.                             *)

LEMMA ProgSeq ==
    ASSUME prog \in Seq(ProgramType), NEW f, f = [i \in DOMAIN prog |-> f[i]],
           \A i \in DOMAIN prog : f[i] \in ProgramType
    PROVE  f \in Seq(ProgramType) /\ Len(f) = Len(prog) /\ DOMAIN f = DOMAIN prog
<1>1. Len(prog) \in Nat /\ DOMAIN prog = 1 .. Len(prog)
  BY LenProperties
<1>2. f \in [1 .. Len(prog) -> ProgramType]
  BY <1>1
<1>3. f \in Seq(ProgramType)
  BY <1>1, <1>2, SeqDef
<1>. QED  BY <1>1, <1>2, <1>3, LenProperties

\* The programs in prog' are well formed, and none that had ended has begun
\* again.
ProgramsKept ==
    /\ prog' \in Seq(ProgramType) /\ Len(prog') = Len(prog) /\ DOMAIN prog' = DOMAIN prog
    /\ RecordsSound'
    /\ \A i \in DOMAIN prog : prog[i].ended => prog'[i].ended

\* Sending an order to a set of handles touches those records only, and ends none.
LEMMA SendToFacts ==
    ASSUME prog \in Seq(ProgramType), RecordsSound, NEW ids, NEW op \in Ops, SendTo(ids, op)
    PROVE  /\ ProgramsKept
           /\ \A i \in DOMAIN prog :
                 /\ i \notin ids => prog'[i] = prog[i]
                 /\ op # "Shutdown" /\ Live(prog[i]) => Live(prog'[i])
                 /\ prog'[i].ended = prog[i].ended
<1>1. prog' = [i \in DOMAIN prog |-> IF i \in ids THEN Send(prog[i], op) ELSE prog[i]]
  BY DEF SendTo
<1>2. DOMAIN prog' = DOMAIN prog /\ prog' = [i \in DOMAIN prog |-> prog'[i]]
  BY <1>1
<1>3. \A i \in DOMAIN prog : prog[i] \in ProgramType /\ Sane(prog[i])
  BY ElementOfSeq, LenProperties DEF RecordsSound
<1>4. \A i \in DOMAIN prog :
         /\ prog'[i] \in ProgramType /\ Sane(prog'[i]) /\ prog'[i].ended = prog[i].ended
         /\ op # "Shutdown" /\ Live(prog[i]) => Live(prog'[i])
  <2>. TAKE i \in DOMAIN prog
  <2>1. prog[i] \in ProgramType /\ Sane(prog[i])
    BY <1>3
  <2>2. /\ Send(prog[i], op) \in ProgramType /\ Sane(Send(prog[i], op))
        /\ Send(prog[i], op).ended = prog[i].ended
        /\ op # "Shutdown" /\ Live(prog[i]) => Live(Send(prog[i], op))
    BY <2>1, SendFacts
  <2>3. prog'[i] = Send(prog[i], op) \/ prog'[i] = prog[i]
    BY <1>1
  <2>. QED  BY <2>1, <2>2, <2>3
<1>5. \A i \in DOMAIN prog : i \notin ids => prog'[i] = prog[i]
  BY <1>1
<1>. QED  BY <1>2, <1>4, <1>5, ProgSeq DEF ProgramsKept, RecordsSound

\* Some programs evolve, hang up or are cancelled: nobody is woken.
LEMMA CalmFacts ==
    ASSUME prog \in Seq(ProgramType), RecordsSound,
           prog' = [i \in DOMAIN prog |-> prog'[i]],
           \A i \in DOMAIN prog :
               \/ prog'[i] = prog[i] \/ Evolves(prog[i], prog'[i])
               \/ prog'[i] = CancelIt(prog[i])
    PROVE  /\ ProgramsKept
           /\ \A i \in DOMAIN prog :
                 /\ Dormant(prog[i]) => Dormant(prog'[i])
                 /\ prog'[i] # CancelIt(prog[i]) /\ Live(prog[i]) => Live(prog'[i])
<1>1. DOMAIN prog' = DOMAIN prog
  OBVIOUS
<1>2. \A i \in DOMAIN prog : prog[i] \in ProgramType /\ Sane(prog[i])
  BY ElementOfSeq, LenProperties DEF RecordsSound
<1>3. \A i \in DOMAIN prog :
         /\ prog'[i] \in ProgramType /\ Sane(prog'[i])
         /\ prog[i].ended => prog'[i].ended
         /\ Dormant(prog[i]) => Dormant(prog'[i])
         /\ prog'[i] # CancelIt(prog[i]) /\ Live(prog[i]) => Live(prog'[i])
  <2>. TAKE i \in DOMAIN prog
  <2>1. prog[i] \in ProgramType /\ Sane(prog[i])
    BY <1>2
  <2>2. /\ CancelIt(prog[i]) \in ProgramType /\ Sane(CancelIt(prog[i]))
        /\ Dormant(prog[i]) => Dormant(CancelIt(prog[i]))
        /\ CancelIt(prog[i]).ended = prog[i].ended
    BY <2>1, HangupFacts
  <2>. QED  BY <2>1, <2>2 DEF Evolves
<1>. QED  BY <1>1, <1>3, ProgSeq DEF ProgramsKept, RecordsSound

-----------------------------------------------------------------------------
(* Who else of a name may be awake.                                        *)

Sole(i) == \A j \in DOMAIN prog : j # i /\ owner[j] = owner[i] => Dormant(prog[j])

\* A registered instance is the only one of its program that can be doing anything, unless
\* an install of that program is pending.
LEMMA SoleRegistered ==
    ASSUME BlockInv, Up, NEW i, Registered(i), ~Named({"install"}, owner[i])
    PROVE  Sole(i)
<1>. SUFFICES ASSUME NEW j \in DOMAIN prog, j # i, owner[j] = owner[i]
              PROVE  Dormant(prog[j])
  BY DEF Sole
<1>1. ~Registered(j) /\ owner[j] \in DOMAIN programs
  BY DEF Registered
<1>2. ~Closing(j)
  BY <1>1 DEF Closing, BlockInv, ClosingSound
<1>3. CASE prog[j].ended
  BY <1>3 DEF Dormant
<1>4. CASE /\ Awaited(owner[j]) /\ owner[j] \in DOMAIN pending_configs /\ j = Staged(owner[j])
  BY <1>4 DEF BlockInv, StagedSound
<1>. QED  BY <1>1, <1>2, <1>3, <1>4 DEF BlockInv, Accounted

\* So is an instance whose shutdown or await heads the agenda.
LEMMA SoleClosing ==
    ASSUME BlockInv, AgendaSound, Up, agenda # <<>>, NEW i, IdBlock(Head(agenda)),
           Head(agenda).id = i
    PROVE  Sole(i)
<1>. SUFFICES ASSUME NEW j \in DOMAIN prog, j # i, owner[j] = owner[i]
              PROVE  Dormant(prog[j])
  BY DEF Sole
<1>. DEFINE h == Head(agenda)
            T == SetOf(Tail(agenda))
<1>0. Todo = {h} \cup T /\ \A c \in T : Follows(owner, h, c)
  BY HeadFacts
<1>. HIDE DEF h, T
<1>1. ~Closing(j)
  BY <1>0 DEF Closing, Follows, h
<1>2. Registered(i) \/ owner[i] \notin DOMAIN programs
  BY <1>0 DEF BlockInv, ClosingSound, h
<1>3. ~Registered(j)
  BY <1>2 DEF Registered
<1>4. ~Named({"install"}, owner[j])
  BY <1>0 DEF Named, Follows, IdBlock, h
<1>5. CASE prog[j].ended
  BY <1>5 DEF Dormant
<1>6. CASE /\ Awaited(owner[j]) /\ owner[j] \in DOMAIN pending_configs /\ j = Staged(owner[j])
  BY <1>4, <1>6 DEF BlockInv, StagedSound
<1>. QED  BY <1>1, <1>3, <1>5, <1>6 DEF BlockInv, Accounted

-----------------------------------------------------------------------------
(* The agenda after a block that concerns no registry.                     *)

LEMMA AwaitNext ==
    ASSUME AgendaSound, BlocksSound, agenda # <<>>, UNCHANGED owner,
           FreeBlock(Head(agenda)) \/ Head(agenda).do = "await",
           NEW ids, NEW st \in BOOLEAN, st <=> StrictBlock(Head(agenda)),
           Continue(<<Await(ids, st)>>)
    PROVE  AgendaSound' /\ SameBlocks
<1>. DEFINE h == Head(agenda)
            T == SetOf(Tail(agenda))
            a == Await(ids, st)
<1>0. Todo = {h} \cup T /\ \A c \in T : Follows(owner, h, c)
  BY HeadFacts
<1>1. a.do = "await" /\ a.strict = st
  BY DEF Await
<1>2. IsSeq(<<a>>) /\ SetOf(<<a>>) = {a} /\ Ordered(owner, <<a>>)
  BY ShortPlans
<1>. HIDE DEF a
<1>3. StrictBlock(a) <=> StrictBlock(h)
  BY <1>1 DEF StrictBlock
<1>4. \A c \in T : Follows(owner, a, c)
  BY <1>0, <1>1, <1>3 DEF Follows, EndBlock, NameBlock, FreeBlock, IdBlock
<1>5. AgendaSound' /\ Todo' = {a} \cup T
  <2>1. Continue(<<a>>)
    BY DEF a
  <2>. QED  BY <1>2, <1>4, <2>1, ContinueFacts
<1>6. ~NameBlock(h) /\ ~EndBlock(h) /\ ~IdBlock(h) /\ ~NameBlock(a) /\ ~EndBlock(a) /\ ~IdBlock(a)
  BY <1>1 DEF NameBlock, EndBlock, IdBlock, FreeBlock
<1>. HIDE DEF h, T
<1>7. \A i : Closing(i)' <=> Closing(i)
  BY <1>0, <1>5, <1>6 DEF Closing
<1>8. \A b \in Todo' : b.do = "await" => b.strict \in BOOLEAN
  BY <1>0, <1>1, <1>5 DEF BlocksSound
<1>9. \A b \in Todo' : NameBlock(b) \/ EndBlock(b) \/ b.do = "call" => b \in Todo
  BY <1>0, <1>1, <1>5, <1>6
<1>10. \A b \in Todo : NameBlock(b) \/ EndBlock(b) => b \in Todo'
  BY <1>0, <1>5, <1>6
<1>. QED  BY <1>5, <1>7, <1>8, <1>9, <1>10 DEF SameBlocks

\* Finishing a block that names no instance leaves the instance blocks as they were.
LEMMA DropNext ==
    ASSUME AgendaSound, BlocksSound, agenda # <<>>, UNCHANGED owner,
           FreeBlock(Head(agenda)) \/ Head(agenda).do = "await", Continue(<<>>)
    PROVE  AgendaSound' /\ SameBlocks
<1>. DEFINE h == Head(agenda)
            T == SetOf(Tail(agenda))
<1>0. Todo = {h} \cup T
  BY HeadFacts
<1>5. AgendaSound' /\ Todo' = T
  BY EmptyPlan, ContinueFacts
<1>6. ~NameBlock(h) /\ ~EndBlock(h) /\ ~IdBlock(h)
  BY DEF NameBlock, EndBlock, IdBlock, FreeBlock
<1>. HIDE DEF h, T
<1>7. \A i : Closing(i)' <=> Closing(i)
  BY <1>0, <1>5, <1>6 DEF Closing
<1>. QED  BY <1>0, <1>5, <1>6, <1>7 DEF SameBlocks, BlocksSound

\* An error ends a handler of strict calls: it had nothing else to do.
LEMMA StrictEnds ==
    ASSUME AgendaSound, agenda # <<>>, StrictBlock(Head(agenda)), agenda' = <<>>
    PROVE  AgendaSound' /\ SameBlocks
<1>. DEFINE h == Head(agenda)
            T == SetOf(Tail(agenda))
<1>0. Todo = {h} \cup T /\ \A c \in T : Follows(owner, h, c)
  BY HeadFacts
<1>. HIDE DEF h, T
<1>1. \A b \in Todo : StrictBlock(b)
  BY <1>0 DEF Follows, h
<1>2. \A b \in Todo : ~NameBlock(b) /\ ~EndBlock(b) /\ ~IdBlock(b)
  BY <1>1 DEF StrictBlock, NameBlock, EndBlock, IdBlock
<1>3. Todo' = {}
  BY EmptyPlan DEF Todo
<1>4. AgendaSound'
  BY <1>3, EmptyPlan DEF AgendaSound, Ordered
<1>. QED  BY <1>2, <1>3, <1>4 DEF SameBlocks, Closing

-----------------------------------------------------------------------------
(* The steps that are neutral.                                             *)

LEMMA NeutralInv ==
    ASSUME IInv, UNCHANGED <<registryVars, owner>>, AgendaSound', SameBlocks,
           ProgramsKept, ProgramsMove, Up, Up', Leaving' <=> Leaving,
           cancel_token' \in BOOLEAN, cmd' = cmd, served' = served,
           result' \in {"none", "ok", "err"}, pc' # "exec" => agenda' = <<>>
    PROVE  IInv'
<1>0. /\ programs' = programs /\ configs' = configs /\ pending_configs' = pending_configs
      /\ shared_configs' = shared_configs /\ dag' = dag /\ cron_table' = cron_table
      /\ owner' = owner
  BY DEF registryVars
<1>1. BlockInv'
  BY Neutral DEF IInv, BlockInv, TypeOK
<1>2. TypeOK'
  BY <1>0 DEF IInv, TypeOK, ProgramsKept, Up
<1>3. DoneMeansGone'
  BY DEF DoneMeansGone, Up
<1>4. MapsSound'
  BY <1>0 DEF IInv, MapsSound, ProgramsKept
<1>. QED  BY <1>1, <1>2, <1>3, <1>4 DEF IInv, BlockInv, ProgramsKept

\* Orders sent to registered programs are moves the bookkeeping allows.
LEMMA SendMoves ==
    ASSUME IInv, Up, NEW ids, NEW op \in Ops \ {"Shutdown"}, SendTo(ids, op),
           \A i \in ids : Registered(i) /\ ~Named({"install"}, owner[i])
    PROVE  ProgramsKept /\ ProgramsMove
<1>1. /\ ProgramsKept
      /\ \A i \in DOMAIN prog :
            /\ i \notin ids => prog'[i] = prog[i]
            /\ Live(prog[i]) => Live(prog'[i])
            /\ prog'[i].ended = prog[i].ended
  BY SendToFacts DEF IInv, TypeOK
<1>2. ASSUME NEW i \in DOMAIN prog, Dormant(prog[i]), ~Dormant(prog'[i])
      PROVE  /\ Registered(i)
             /\ \A j \in DOMAIN prog : j # i /\ owner[j] = owner[i] => Dormant(prog'[j])
  <2>1. i \in ids
    BY <1>1, <1>2
  <2>2. Registered(i) /\ Sole(i)
    BY <2>1, SoleRegistered DEF IInv, BlockInv
  <2>3. \A j \in DOMAIN prog : j # i /\ owner[j] = owner[i] => j \notin ids
    BY <2>2 DEF Registered
  <2>. QED  BY <1>1, <2>2, <2>3 DEF Sole
<1>. QED  BY <1>1, <1>2 DEF ProgramsMove, ProgramsKept

\* While a start, stop or call block heads the agenda no install is pending.
LEMMA FreeHead ==
    ASSUME IInv, agenda # <<>>, FreeBlock(Head(agenda))
    PROVE  \A n : ~Named({"install"}, n)
<1>. DEFINE h == Head(agenda)
            T == SetOf(Tail(agenda))
<1>0. Todo = {h} \cup T /\ \A c \in T : Follows(owner, h, c)
  BY HeadFacts DEF IInv
<1>. HIDE DEF h, T
<1>. QED  BY <1>0 DEF Follows, FreeBlock, NameBlock, Named, h

\* A free block sends a command to registered programs and awaits the answers.
LEMMA CommandInv ==
    ASSUME IInv, pc = "exec", agenda # <<>>, FreeBlock(Head(agenda)),
           NEW ids, NEW op \in Ops \ {"Shutdown"}, \A i \in ids : Registered(i),
           NEW st \in BOOLEAN, st <=> StrictBlock(Head(agenda)),
           SendTo(ids, op), Continue(<<Await(ids, st)>>),
           UNCHANGED <<registryVars, controlVars, owner>>
    PROVE  IInv'
<1>0. Up /\ Up' /\ (Leaving' <=> Leaving) /\ pc' = "exec"
  BY DEF Up, Leaving, controlVars
<1>1. \A n : ~Named({"install"}, n)
  BY FreeHead
<1>2. ProgramsKept /\ ProgramsMove
  BY <1>0, <1>1, SendMoves
<1>3. AgendaSound' /\ SameBlocks
  BY AwaitNext DEF IInv
<1>4. /\ cancel_token' \in BOOLEAN /\ cmd' = cmd /\ served' = served
      /\ result' \in {"none", "ok", "err"}
  BY DEF IInv, TypeOK, controlVars
<1>. QED  BY <1>0, <1>2, <1>3, <1>4, NeutralInv

\* A name of the program map leads to a registered instance.
LEMMA RegisteredFacts ==
    ASSUME MapsSound, NEW n \in DOMAIN programs
    PROVE  Registered(programs[n])
BY DEF MapsSound, Registered

\* Starting one layer of the start order keeps the invariant.
LEMMA StartLayerInv == IInv /\ DoStartLayer => IInv'
<1>. SUFFICES ASSUME IInv, DoStartLayer PROVE IInv'
  OBVIOUS
<1>. DEFINE names == {n \in Head(agenda).names \cap DOMAIN configs \cap DOMAIN programs :
                         /\ configs[n].autostart
                         /\ prog[programs[n]].state \in {"Stopped", "Exited", "Fatal"}}
            ids   == {programs[n] : n \in names}
<1>1. SendTo(ids, "Start") /\ Continue(<<Await(ids, FALSE)>>)
  BY DEF DoStartLayer
<1>2. /\ pc = "exec" /\ agenda # <<>> /\ Head(agenda).do = "start_layer"
      /\ UNCHANGED <<registryVars, controlVars, owner>>
  BY DEF DoStartLayer, At
<1>3. \A i \in ids : Registered(i)
  BY RegisteredFacts DEF IInv
<1>4. FreeBlock(Head(agenda)) /\ ~StrictBlock(Head(agenda))
  BY <1>2 DEF FreeBlock, StrictBlock
<1>. HIDE DEF ids
<1>. QED  BY <1>1, <1>2, <1>3, <1>4, CommandInv DEF Ops

\* Stopping one layer of the stop order keeps the invariant.
LEMMA StopLayerInv == IInv /\ DoStopLayer => IInv'
<1>. SUFFICES ASSUME IInv, DoStopLayer PROVE IInv'
  OBVIOUS
<1>. DEFINE names == {n \in Head(agenda).names \cap DOMAIN programs :
                         prog[programs[n]].state # "Stopped"}
            ids   == {programs[n] : n \in names}
<1>1. SendTo(ids, "Stop") /\ Continue(<<Await(ids, FALSE)>>)
  BY DEF DoStopLayer
<1>2. /\ pc = "exec" /\ agenda # <<>> /\ Head(agenda).do = "stop_layer"
      /\ UNCHANGED <<registryVars, controlVars, owner>>
  BY DEF DoStopLayer, At
<1>3. \A i \in ids : Registered(i)
  BY RegisteredFacts DEF IInv
<1>4. FreeBlock(Head(agenda)) /\ ~StrictBlock(Head(agenda))
  BY <1>2 DEF FreeBlock, StrictBlock
<1>. HIDE DEF ids
<1>. QED  BY <1>1, <1>2, <1>3, <1>4, CommandInv DEF Ops

\* Ordering one named program keeps the invariant.
LEMMA CallBlockInv == IInv /\ DoCall => IInv'
<1>. SUFFICES ASSUME IInv, DoCall PROVE IInv'
  OBVIOUS
<1>. DEFINE i == programs[Head(agenda).name]
<1>1. /\ SendTo({i}, Head(agenda).op) /\ Continue(<<Await({i}, TRUE)>>)
  BY DEF DoCall
<1>2. /\ pc = "exec" /\ agenda # <<>> /\ Head(agenda).do = "call"
      /\ UNCHANGED <<registryVars, controlVars, owner>>
  BY DEF DoCall, At
<1>3. Head(agenda) \in Todo
  BY <1>2, HeadFacts DEF IInv
<1>4. Head(agenda).name \in DOMAIN programs /\ Head(agenda).op \in Ops \ {"Shutdown"}
  BY <1>2, <1>3 DEF IInv, BlocksSound
<1>5. Registered(i)
  BY <1>4, RegisteredFacts DEF IInv
<1>6. FreeBlock(Head(agenda)) /\ StrictBlock(Head(agenda))
  BY <1>2 DEF FreeBlock, StrictBlock
<1>. HIDE DEF i
<1>7. \A x \in {i} : Registered(x)
  BY <1>5
<1>. QED  BY <1>1, <1>2, <1>4, <1>6, <1>7, CommandInv

\* A cron tick, which starts or stops its program, keeps the invariant.
LEMMA CronInv == IInv /\ DoCron => IInv'
<1>. SUFFICES ASSUME IInv, DoCron PROVE IInv'
  OBVIOUS
<1>. DEFINE i == programs[Head(agenda).name]
<1>2. /\ pc = "exec" /\ agenda # <<>> /\ Head(agenda).do = "cron"
      /\ UNCHANGED <<registryVars, controlVars, owner>>
  BY DEF DoCron, At
<1>6. FreeBlock(Head(agenda)) /\ ~StrictBlock(Head(agenda))
  BY <1>2 DEF FreeBlock, StrictBlock
<1>7. CASE Continue(<<>>) /\ UNCHANGED prog
  <2>1. AgendaSound' /\ SameBlocks
    BY <1>2, <1>6, <1>7, DropNext DEF IInv
  <2>2. ProgramsKept /\ ProgramsMove
    BY <1>7, <1>2 DEF ProgramsKept, ProgramsMove, IInv, TypeOK, RecordsSound
  <2>3. Up /\ Up' /\ (Leaving' <=> Leaving) /\ pc' = "exec"
    BY <1>2 DEF Up, Leaving, controlVars
  <2>4. /\ cancel_token' \in BOOLEAN /\ cmd' = cmd /\ served' = served
        /\ result' \in {"none", "ok", "err"}
    BY <1>2 DEF IInv, TypeOK, controlVars
  <2>. QED  BY <1>2, <2>1, <2>2, <2>3, <2>4, NeutralInv
<1>8. CASE /\ Head(agenda).name \in DOMAIN programs
           /\ SendTo({i}, "Start") \/ SendTo({i}, "Stop")
           /\ Continue(<<Await({i}, FALSE)>>)
  <2>1. Registered(i)
    BY <1>8, RegisteredFacts DEF IInv
  <2>. HIDE DEF i
  <2>2. \A x \in {i} : Registered(x)
    BY <2>1
  <2>3. PICK op \in {"Start", "Stop"} : SendTo({i}, op)
    BY <1>8
  <2>. QED  BY <1>2, <1>6, <1>8, <2>2, <2>3, CommandInv DEF Ops
<1>. QED  BY <1>7, <1>8 DEF DoCron

-----------------------------------------------------------------------------
(* The plans of the handlers.                                              *)

\* s goes through S, each element once.
Lists(s, S) ==
    /\ IsSeq(s) /\ SetOf(s) = S
    /\ \A k, l \in DOMAIN s : s[k] = s[l] => k = l

\* An order of a finite set lists each of its elements once.
LEMMA OrdersList ==
    ASSUME NEW S, IsFiniteSet(S), NEW s \in Orders(S)
    PROVE  Lists(s, S)
<1>1. /\ s \in [1 .. Cardinality(S) -> S]
      /\ \A i, j \in DOMAIN s : s[i] = s[j] => i = j
  BY DEF Orders
<1>2. Cardinality(S) \in Nat
  BY FS_CardinalityType
<1>3. s \in Injection(1 .. Cardinality(S), S)
  BY <1>1 DEF Injection, IsInjective
<1>4. /\ IsFiniteSet(1 .. Cardinality(S))
      /\ Cardinality(1 .. Cardinality(S)) = Cardinality(S)
  BY <1>2, FS_Interval
<1>5. s \in Surjection(1 .. Cardinality(S), S)
  BY <1>3, <1>4, FS_Injection
<1>6. SetOf(s) = S
  BY <1>1, <1>5 DEF Surjection, SetOf
<1>7. s = [k \in 1 .. Cardinality(S) |-> s[k]]
  BY <1>1
<1>8. IsSeq(s)
  BY <1>2, <1>7, FunctionIsSeq
<1>. QED  BY <1>1, <1>6, <1>8 DEF Lists

\* Two lists of disjoint sets, one after the other, list their union.
LEMMA ListsJoin ==
    ASSUME NEW s, NEW S, Lists(s, S), NEW t, NEW T, Lists(t, T), S \cap T = {}
    PROVE  Lists(s \o t, S \cup T)
<1>. DEFINE u == s \o t
<1>1. /\ IsSeq(u) /\ SetOf(u) = S \cup T
      /\ \A k \in DOMAIN u :
            \/ k \in DOMAIN s /\ u[k] = s[k]
            \/ k > Len(s) /\ k - Len(s) \in DOMAIN t /\ u[k] = t[k - Len(s)]
  BY JoinFacts DEF Lists
<1>2. /\ Len(s) \in Nat /\ DOMAIN s = 1 .. Len(s) /\ DOMAIN t = 1 .. Len(t) /\ Len(t) \in Nat
      /\ DOMAIN u = 1 .. Len(u) /\ Len(u) \in Nat
  BY <1>1, SeqFacts DEF Lists
<1>3. (\A k \in DOMAIN s : s[k] \in S) /\ (\A k \in DOMAIN t : t[k] \in T)
  BY DEF Lists, SetOf
<1>. HIDE DEF u
<1>4. ASSUME NEW k \in DOMAIN u, NEW l \in DOMAIN u, u[k] = u[l] PROVE k = l
  <2>1. CASE k \in DOMAIN s /\ u[k] = s[k] /\ l \in DOMAIN s /\ u[l] = s[l]
    BY <1>4, <2>1 DEF Lists
  <2>2. CASE /\ k - Len(s) \in DOMAIN t /\ u[k] = t[k - Len(s)]
             /\ l - Len(s) \in DOMAIN t /\ u[l] = t[l - Len(s)]
    <3>1. k - Len(s) = l - Len(s)
      BY <1>4, <2>2 DEF Lists
    <3>. QED  BY <1>2, <3>1
  <2>. QED  BY <1>1, <1>3, <1>4, <2>1, <2>2
<1>. QED  BY <1>1, <1>4 DEF Lists, u

\* Only its domain makes a plan a sequence.
LEMMA MapIsSeq ==
    ASSUME NEW s, IsSeq(s), NEW plan, plan = [k \in DOMAIN s |-> plan[k]]
    PROVE  IsSeq(plan) /\ DOMAIN plan = DOMAIN s
<1>1. Len(s) \in Nat /\ DOMAIN s = 1 .. Len(s)
  BY SeqFacts
<1>2. plan = [k \in 1 .. Len(s) |-> plan[k]]
  BY <1>1
<1>. QED  BY <1>1, <1>2, FunctionIsSeq

\* Blocks that concern no registry may come in any order, if all of them or
\* none may end the handler.
LEMMA FreeOrdered ==
    ASSUME NEW own, NEW plan, \A b \in SetOf(plan) : FreeBlock(b),
           \A b, c \in SetOf(plan) : b.do = "call" <=> c.do = "call"
    PROVE  Ordered(own, plan)
<1>. SUFFICES ASSUME NEW k \in DOMAIN plan, NEW l \in DOMAIN plan
              PROVE  Follows(own, plan[k], plan[l])
  BY DEF Ordered
<1>. DEFINE b == plan[k]
            c == plan[l]
<1>1. /\ b.do \in {"start_layer", "stop_layer", "call", "cron"}
      /\ c.do \in {"start_layer", "stop_layer", "call", "cron"}
      /\ b.do = "call" <=> c.do = "call"
  BY DEF SetOf, FreeBlock
<1>. HIDE DEF b, c
<1>2. Follows(own, b, c)
  BY <1>1 DEF Follows, EndBlock, NameBlock, FreeBlock, IdBlock, StrictBlock
<1>. QED  BY <1>2 DEF b, c

\* A function with a finite domain has finitely many values.
LEMMA ImageFinite ==
    ASSUME NEW f, IsFiniteSet(DOMAIN f)
    PROVE  IsFiniteSet({f[x] : x \in DOMAIN f})
<1>. DEFINE T == {f[x] : x \in DOMAIN f}
            g == [x \in DOMAIN f |-> f[x]]
<1>1. g \in Surjection(DOMAIN f, T)
  BY DEF Surjection
<1>. QED  BY <1>1, FS_Surjection

\* The layers are a sequence.
LEMMA DagFacts ==
    ASSUME NEW c, IsFiniteSet(DOMAIN c)
    PROVE  IsSeq(Dag(c).start) /\ IsSeq(Dag(c).stop)
<1>. DEFINE f == Layering(c)
            g == [p \in DOMAIN c |-> f[p]]
<1>1. IsFiniteSet({g[p] : p \in DOMAIN g})
  BY ImageFinite
<1>2. {g[p] : p \in DOMAIN g} = {f[p] : p \in DOMAIN c}
  OBVIOUS
<1>3. Depth(c, f) \in Nat
  BY <1>1, <1>2, FS_CardinalityType DEF Depth
<1>4. PICK s : s = StartLayers(c)
  OBVIOUS
<1>5. PICK t : t = StopLayers(c)
  OBVIOUS
<1>6. /\ s = [i \in 1 .. Depth(c, f) |-> s[i]]
      /\ t = [i \in 1 .. Depth(c, f) |-> t[i]]
  BY <1>4, <1>5 DEF StartLayers, StopLayers
<1>7. IsSeq(s) /\ IsSeq(t)
  BY <1>3, <1>6, FunctionIsSeq
<1>. QED  BY <1>4, <1>5, <1>7 DEF Dag

\* start_all and stop_all.
LEMMA LayerPlans ==
    ASSUME NEW d, IsSeq(d.start), IsSeq(d.stop), NEW own
    PROVE  /\ IsSeq(StartAllPlan(d)) /\ Ordered(own, StartAllPlan(d))
           /\ \A b \in SetOf(StartAllPlan(d)) : b.do = "start_layer"
           /\ IsSeq(StopAllPlan(d)) /\ Ordered(own, StopAllPlan(d))
           /\ \A b \in SetOf(StopAllPlan(d)) : b.do = "stop_layer"
<1>1. PICK s : s = StartAllPlan(d)
  OBVIOUS
<1>2. PICK t : t = StopAllPlan(d)
  OBVIOUS
<1>3. /\ s = [k \in DOMAIN d.start |-> s[k]]
      /\ \A k \in DOMAIN d.start : s[k].do = "start_layer"
  BY <1>1 DEF StartAllPlan, Each, StartLayer
<1>4. /\ t = [k \in DOMAIN d.stop |-> t[k]]
      /\ \A k \in DOMAIN d.stop : t[k].do = "stop_layer"
  BY <1>2 DEF StopAllPlan, Each, StopLayer
<1>5. IsSeq(s) /\ DOMAIN s = DOMAIN d.start /\ IsSeq(t) /\ DOMAIN t = DOMAIN d.stop
  BY <1>3, <1>4, MapIsSeq
<1>6. /\ \A b \in SetOf(s) : b.do = "start_layer"
      /\ \A b \in SetOf(t) : b.do = "stop_layer"
  BY <1>3, <1>4, <1>5 DEF SetOf
<1>7. Ordered(own, s) /\ Ordered(own, t)
  BY <1>6, FreeOrdered DEF FreeBlock
<1>. QED  BY <1>1, <1>2, <1>5, <1>6, <1>7

\* One call per program of a list.
LEMMA CallPlans ==
    ASSUME NEW s, IsSeq(s), NEW op, NEW own
    PROVE  /\ IsSeq(CallPlan(s, op)) /\ Ordered(own, CallPlan(s, op))
           /\ \A b \in SetOf(CallPlan(s, op)) :
                 b.do = "call" /\ b.name \in SetOf(s) /\ b.op = op
           /\ \A n \in SetOf(s) : \E b \in SetOf(CallPlan(s, op)) : b.do = "call" /\ b.name = n
<1>1. PICK p : p = CallPlan(s, op)
  OBVIOUS
<1>2. /\ p = [k \in DOMAIN s |-> p[k]]
      /\ \A k \in DOMAIN s : p[k].do = "call" /\ p[k].name = s[k] /\ p[k].op = op
  BY <1>1 DEF CallPlan, Call
<1>3. IsSeq(p) /\ DOMAIN p = DOMAIN s
  BY <1>2, MapIsSeq
<1>4. \A b \in SetOf(p) : b.do = "call" /\ b.name \in SetOf(s) /\ b.op = op
  BY <1>2, <1>3 DEF SetOf
<1>5. Ordered(own, p)
  BY <1>4, FreeOrdered DEF FreeBlock
<1>6. \A n \in SetOf(s) : \E b \in SetOf(p) : b.do = "call" /\ b.name = n
  BY <1>2, <1>3 DEF SetOf
<1>. QED  BY <1>1, <1>3, <1>4, <1>5, <1>6

\* A list read backwards (the stop order) has the same elements.
LEMMA BackwardsFacts ==
    ASSUME NEW s, IsSeq(s)
    PROVE  /\ IsSeq(Backwards(s)) /\ SetOf(Backwards(s)) \subseteq SetOf(s)
           /\ SetOf(s) \subseteq SetOf(Backwards(s))
<1>1. PICK t : t = Backwards(s)
  OBVIOUS
<1>2. t = [k \in DOMAIN s |-> t[k]] /\ \A k \in DOMAIN s : t[k] = s[Len(s) + 1 - k]
  BY <1>1 DEF Backwards
<1>3. IsSeq(t) /\ DOMAIN t = DOMAIN s
  BY <1>2, MapIsSeq
<1>4. Len(s) \in Nat /\ DOMAIN s = 1 .. Len(s)
  BY SeqFacts
<1>5. \A k \in DOMAIN s : Len(s) + 1 - k \in DOMAIN s
  BY <1>4
<1>6. SetOf(t) \subseteq SetOf(s)
  BY <1>2, <1>3, <1>5 DEF SetOf
<1>7. \A k \in DOMAIN s : Len(s) + 1 - (Len(s) + 1 - k) = k
  BY <1>4
<1>8. \A k \in DOMAIN s : s[k] = t[Len(s) + 1 - k]
  BY <1>2, <1>5, <1>7
<1>9. SetOf(s) \subseteq SetOf(t)
  BY <1>3, <1>5, <1>8 DEF SetOf
<1>. QED  BY <1>1, <1>3, <1>6, <1>9

\* One block per program of a diff.
EachNamed(plan, s, d) ==
    /\ plan = [k \in DOMAIN s |-> plan[k]]
    /\ \A k \in DOMAIN s : plan[k].do = d /\ plan[k].name = s[k]

\* A plan of one block per listed name is ordered and has a block for every name.
LEMMA NamePlan ==
    ASSUME NEW s, NEW S, Lists(s, S), NEW d \in {"remove", "replace", "add"}, NEW own,
           NEW plan, EachNamed(plan, s, d)
    PROVE  /\ IsSeq(plan) /\ Ordered(own, plan)
           /\ \A b \in SetOf(plan) : b.do = d /\ b.name \in S
           /\ \A n \in S : \E b \in SetOf(plan) : b.do = d /\ b.name = n
<1>1. /\ plan = [k \in DOMAIN s |-> plan[k]]
      /\ \A k \in DOMAIN s : plan[k].do = d /\ plan[k].name = s[k]
  BY DEF EachNamed
<1>2. IsSeq(s) /\ SetOf(s) = S
  BY DEF Lists
<1>3. IsSeq(plan) /\ DOMAIN plan = DOMAIN s
  BY <1>1, <1>2, MapIsSeq
<1>4. /\ \A b \in SetOf(plan) : b.do = d /\ b.name \in S
      /\ \A n \in S : \E b \in SetOf(plan) : b.do = d /\ b.name = n
  BY <1>1, <1>2, <1>3 DEF SetOf
<1>5. Len(s) \in Nat /\ DOMAIN s = 1 .. Len(s)
  BY <1>2, SeqFacts
<1>6. \A k, l \in DOMAIN s : k < l => s[k] # s[l]
  BY <1>5 DEF Lists
<1>7. ASSUME NEW b, NEW c, b.do = d, c.do = d, b.name # c.name
      PROVE  Follows(own, b, c)
  BY <1>7 DEF Follows, EndBlock, NameBlock, FreeBlock, IdBlock, StrictBlock
<1>8. Ordered(own, plan)
  BY <1>1, <1>3, <1>6, <1>7 DEF Ordered
<1>. QED  BY <1>3, <1>4, <1>8

\* Every registered program is shut down.
LEMMA ShutPlan ==
    ASSUME MapsSound, NEW s \in Orders({programs[n] : n \in DOMAIN programs}), NEW own,
           \A i \in DOMAIN prog : own[i] = owner[i]
    PROVE  /\ IsSeq(Each(Shutdown, s)) /\ Ordered(own, Each(Shutdown, s))
           /\ \A b \in SetOf(Each(Shutdown, s)) :
                 b.do = "shutdown" /\ \E n \in DOMAIN programs : b.id = programs[n]
           /\ \A n \in DOMAIN programs : \E b \in SetOf(Each(Shutdown, s)) :
                 b.do = "shutdown" /\ b.id = programs[n]
<1>. DEFINE S == {programs[n] : n \in DOMAIN programs}
<1>1. IsFiniteSet(S)
  BY ImageFinite DEF MapsSound
<1>2. Lists(s, S)
  BY <1>1, OrdersList
<1>3. PICK p : p = Each(Shutdown, s)
  OBVIOUS
<1>4. /\ p = [k \in DOMAIN s |-> p[k]]
      /\ \A k \in DOMAIN s : p[k].do = "shutdown" /\ p[k].id = s[k]
  BY <1>3 DEF Each, Shutdown
<1>5. IsSeq(s) /\ SetOf(s) = S
  BY <1>2 DEF Lists
<1>6. IsSeq(p) /\ DOMAIN p = DOMAIN s
  BY <1>4, <1>5, MapIsSeq
<1>. HIDE DEF S
<1>7. /\ \A b \in SetOf(p) : b.do = "shutdown" /\ b.id \in S
      /\ \A i \in S : \E b \in SetOf(p) : b.do = "shutdown" /\ b.id = i
  BY <1>4, <1>5, <1>6 DEF SetOf
<1>8. \A i, j \in S : i # j => own[i] # own[j]
  BY DEF MapsSound, S
<1>9. Len(s) \in Nat /\ DOMAIN s = 1 .. Len(s)
  BY <1>5, SeqFacts
<1>10. \A k, l \in DOMAIN s : k < l => s[k] # s[l]
  BY <1>2, <1>9 DEF Lists
<1>11. \A k \in DOMAIN s : s[k] \in S
  BY <1>5 DEF SetOf
<1>12. ASSUME NEW b, NEW c, b.do = "shutdown", c.do = "shutdown", own[b.id] # own[c.id]
       PROVE  Follows(own, b, c)
  BY <1>12 DEF Follows, EndBlock, NameBlock, FreeBlock, IdBlock, StrictBlock
<1>13. Ordered(own, p)
  BY <1>4, <1>6, <1>8, <1>10, <1>11, <1>12 DEF Ordered
<1>. QED  BY <1>3, <1>6, <1>7, <1>13 DEF S

-----------------------------------------------------------------------------
(* New instances.                                                          *)

\* There is one new instance for every name of S, and it is the staged one.
Extended(S) ==
    /\ prog' \in Seq(ProgramType) /\ Len(prog') <= MaxInstances
    /\ owner' \in Seq(Int) /\ DOMAIN owner' = DOMAIN prog'
    /\ DOMAIN prog \subseteq DOMAIN prog'
    /\ \A j \in DOMAIN prog : prog'[j] = prog[j] /\ owner'[j] = owner[j]
    /\ \A j \in DOMAIN prog' \ DOMAIN prog : prog'[j] = Fresh /\ owner'[j] \in S
    /\ \A n \in S :
          /\ Staged(n)' \in DOMAIN prog' \ DOMAIN prog
          /\ owner'[Staged(n)'] = n
          /\ \A j \in DOMAIN owner' : owner'[j] = n => j <= Staged(n)'
          /\ \A j \in DOMAIN prog' \ DOMAIN prog : owner'[j] = n => j = Staged(n)'

\* A sequence over A is a sequence whose elements are in A.
LEMMA SeqIsSeq ==
    ASSUME NEW A, NEW s
    PROVE  s \in Seq(A) <=> IsSeq(s) /\ SetOf(s) \subseteq A
<1>1. ASSUME s \in Seq(A) PROVE IsSeq(s) /\ SetOf(s) \subseteq A
  <2>1. /\ Len(s) \in Nat /\ DOMAIN s = 1 .. Len(s) /\ s = [k \in 1 .. Len(s) |-> s[k]]
        /\ \A k \in DOMAIN s : s[k] \in A
    BY <1>1, LenProperties, ElementOfSeq
  <2>. QED  BY <2>1, FunctionIsSeq DEF SetOf
<1>2. ASSUME IsSeq(s), SetOf(s) \subseteq A PROVE s \in Seq(A)
  <2>1. /\ Len(s) \in Nat /\ DOMAIN s = 1 .. Len(s) /\ s = [k \in 1 .. Len(s) |-> s[k]]
    BY <1>2, LenProperties DEF IsSeq
  <2>2. \A k \in 1 .. Len(s) : s[k] \in A
    BY <1>2, <2>1 DEF SetOf
  <2>3. s \in [1 .. Len(s) -> A]
    BY <2>1, <2>2
  <2>. QED  BY <2>1, <2>3, SeqDef
<1>. QED  BY <1>1, <1>2

\* Instantiating a list of programs appends one fresh, dormant instance for each.
LEMMA ExtendFacts ==
    ASSUME prog \in Seq(ProgramType), owner \in Seq(Int), DOMAIN owner = DOMAIN prog,
           NEW S, S \subseteq Int, NEW s, Lists(s, S), Instantiate(s)
    PROVE  Extended(S)
<1>. DEFINE F == [k \in DOMAIN s |-> Fresh]
            L == Len(prog)
<1>1. /\ L + Len(s) <= MaxInstances /\ prog' = prog \o F /\ owner' = owner \o s
  BY DEF Instantiate
<1>2. /\ IsSeq(prog) /\ SetOf(prog) \subseteq ProgramType
      /\ IsSeq(owner) /\ SetOf(owner) \subseteq Int
      /\ IsSeq(s) /\ SetOf(s) = S
  BY SeqIsSeq DEF Lists
<1>3. F = [k \in DOMAIN s |-> F[k]] /\ \A k \in DOMAIN s : F[k] = Fresh
  OBVIOUS
<1>. HIDE DEF F
<1>4. IsSeq(F) /\ DOMAIN F = DOMAIN s
  BY <1>2, <1>3, MapIsSeq
<1>5. SetOf(F) \subseteq ProgramType
  BY <1>3, <1>4, FreshFacts DEF SetOf
<1>6. /\ Len(s) \in Nat /\ DOMAIN s = 1 .. Len(s) /\ Len(F) \in Nat /\ DOMAIN F = 1 .. Len(F)
      /\ L \in Nat /\ DOMAIN prog = 1 .. L /\ Len(owner) \in Nat /\ DOMAIN owner = 1 .. Len(owner)
  BY <1>2, <1>4, SeqFacts
<1>7. Len(F) = Len(s) /\ Len(owner) = L
  BY <1>4, <1>6
<1>8. /\ IsSeq(prog') /\ SetOf(prog') \subseteq ProgramType /\ Len(prog') = L + Len(s)
      /\ \A k \in DOMAIN prog' :
            \/ k \in DOMAIN prog /\ prog'[k] = prog[k]
            \/ k > L /\ k - L \in DOMAIN F /\ prog'[k] = F[k - L]
  BY <1>1, <1>2, <1>4, <1>5, <1>7, JoinFacts
<1>9. /\ IsSeq(owner') /\ SetOf(owner') \subseteq Int /\ Len(owner') = L + Len(s)
      /\ \A k \in DOMAIN owner' :
            \/ k \in DOMAIN owner /\ owner'[k] = owner[k]
            \/ k > L /\ k - L \in DOMAIN s /\ owner'[k] = s[k - L]
  <2>1. /\ IsSeq(owner \o s) /\ SetOf(owner \o s) = SetOf(owner) \cup SetOf(s)
        /\ Len(owner \o s) = Len(owner) + Len(s)
        /\ \A k \in DOMAIN (owner \o s) :
              \/ k \in DOMAIN owner /\ (owner \o s)[k] = owner[k]
              \/ /\ k > Len(owner) /\ k - Len(owner) \in DOMAIN s
                 /\ (owner \o s)[k] = s[k - Len(owner)]
    BY <1>2, JoinFacts
  <2>2. SetOf(owner) \cup SetOf(s) \subseteq Int
    BY <1>2
  <2>. HIDE DEF L
  <2>. QED  BY <1>1, <1>7, <2>1, <2>2
<1>10. DOMAIN prog' = 1 .. L + Len(s) /\ DOMAIN owner' = 1 .. L + Len(s)
  BY <1>8, <1>9, SeqFacts
<1>11. prog' \in Seq(ProgramType) /\ owner' \in Seq(Int)
  BY <1>8, <1>9, SeqIsSeq
<1>. HIDE DEF L
<1>12. DOMAIN prog \subseteq DOMAIN prog'
  BY <1>6, <1>10
<1>13. \A j \in DOMAIN prog : prog'[j] = prog[j] /\ owner'[j] = owner[j]
  BY <1>6, <1>7, <1>8, <1>9, <1>10
<1>14. \A j \in DOMAIN prog' \ DOMAIN prog : j > L /\ j - L \in DOMAIN s
                                            /\ prog'[j] = Fresh /\ owner'[j] = s[j - L]
  BY <1>3, <1>4, <1>6, <1>7, <1>8, <1>9, <1>10
<1>15. ASSUME NEW n \in S
       PROVE  /\ Staged(n)' \in DOMAIN prog' \ DOMAIN prog
              /\ owner'[Staged(n)'] = n
              /\ \A j \in DOMAIN owner' : owner'[j] = n => j <= Staged(n)'
              /\ \A j \in DOMAIN prog' \ DOMAIN prog : owner'[j] = n => j = Staged(n)'
  <2>1. PICK k \in DOMAIN s : s[k] = n
    BY <1>2 DEF SetOf
  <2>2. PICK i : i = L + k
    OBVIOUS
  <2>3. i \in DOMAIN prog' \ DOMAIN prog /\ i \in Nat /\ i - L = k
    BY <1>6, <1>10, <2>2
  <2>4. owner'[i] = n
    BY <1>14, <2>1, <2>3
  <2>5. \A j \in DOMAIN prog' \ DOMAIN prog : owner'[j] = n => j = i
    <3>. TAKE j \in DOMAIN prog' \ DOMAIN prog
    <3>. HAVE owner'[j] = n
    <3>1. j - L \in DOMAIN s /\ s[j - L] = n
      BY <1>14
    <3>2. j - L = k
      BY <2>1, <3>1 DEF Lists
    <3>. QED  BY <1>6, <1>10, <2>2, <3>2
  <2>6. \A j \in DOMAIN owner' : owner'[j] = n => j <= i
    BY <1>6, <1>10, <2>2, <2>5
  <2>7. i \in DOMAIN owner' /\ \A j \in DOMAIN owner' : j \in Nat
    BY <1>6, <1>10, <2>3
  <2>8. \A x \in DOMAIN owner' :
           owner'[x] = n /\ (\A j \in DOMAIN owner' : owner'[j] = n => j <= x) => x = i
    BY <2>4, <2>6, <2>7
  <2>9. Staged(n)' = i
    BY <2>4, <2>6, <2>7, <2>8 DEF Staged
  <2>. QED  BY <2>3, <2>4, <2>5, <2>6, <2>9
<1>16. \A j \in DOMAIN prog' \ DOMAIN prog : prog'[j] = Fresh /\ owner'[j] \in S
  BY <1>2, <1>14 DEF SetOf
<1>17. Len(prog') <= MaxInstances
  BY <1>1, <1>8 DEF L
<1>. QED  BY <1>10, <1>11, <1>12, <1>13, <1>15, <1>16, <1>17 DEF Extended

-----------------------------------------------------------------------------
(* Waiting for programs, and their own steps.                              *)

LEMMA CalmMoves ==
    ASSUME IInv, prog' = [i \in DOMAIN prog |-> prog'[i]],
           \A i \in DOMAIN prog :
               \/ prog'[i] = prog[i] \/ Evolves(prog[i], prog'[i])
               \/ prog'[i] = CancelIt(prog[i]) /\ Closing(i)
    PROVE  ProgramsKept /\ ProgramsMove
<1>1. /\ ProgramsKept
      /\ \A i \in DOMAIN prog :
            /\ Dormant(prog[i]) => Dormant(prog'[i])
            /\ prog'[i] # CancelIt(prog[i]) /\ Live(prog[i]) => Live(prog'[i])
  BY CalmFacts DEF IInv, TypeOK
<1>2. \A i \in DOMAIN prog : Live(prog[i]) => Live(prog'[i]) \/ Closing(i)
  BY DEF Evolves
<1>. QED  BY <1>1, <1>2 DEF ProgramsMove, ProgramsKept

\* A handle that is dropped (its cancellation token fires) only makes its actor stop.
LEMMA HangupEvolves ==
    ASSUME IInv, NEW i \in DOMAIN prog
    PROVE  Evolves(prog[i], Hangup(prog[i]))
<1>1. prog[i] \in ProgramType /\ Sane(prog[i])
  BY ElementOfSeq, LenProperties DEF IInv, TypeOK, RecordsSound
<1>. QED  BY <1>1, HangupFacts

\* A wait is over, or given up: the handler goes on, or ends at a strict one.
LEMMA WaitInv ==
    ASSUME IInv, At("await"),
           prog' = [i \in DOMAIN prog |-> prog'[i]],
           \A i \in DOMAIN prog : prog'[i] = prog[i] \/ prog'[i] = Hangup(prog[i]),
           \/ Continue(<<>>) /\ UNCHANGED result
           \/ Head(agenda).strict /\ agenda' = <<>> /\ result' = "err"
           \/ ~Head(agenda).strict /\ UNCHANGED result
              /\ \E ids : Continue(<<Await(ids, FALSE)>>),
           UNCHANGED <<registryVars, cancel_token, pc, cmd, served, owner>>
    PROVE  IInv'
<1>1. pc = "exec" /\ agenda # <<>> /\ Head(agenda).do = "await"
  BY DEF At
<1>2. Head(agenda) \in Todo
  BY <1>1, HeadFacts DEF IInv
<1>3. Head(agenda).strict \in BOOLEAN
  BY <1>1, <1>2 DEF IInv, BlocksSound
<1>4. AgendaSound' /\ SameBlocks
  <2>1. CASE Continue(<<>>)
    BY <1>1, <2>1, DropNext DEF IInv
  <2>2. CASE Head(agenda).strict /\ agenda' = <<>>
    <3>1. StrictBlock(Head(agenda))
      BY <1>1, <2>2 DEF StrictBlock
    <3>. QED  BY <1>1, <2>2, <3>1, StrictEnds DEF IInv
  <2>3. CASE ~Head(agenda).strict /\ \E ids : Continue(<<Await(ids, FALSE)>>)
    <3>1. PICK ids : Continue(<<Await(ids, FALSE)>>)
      BY <2>3
    <3>2. ~StrictBlock(Head(agenda))
      BY <1>1, <2>3 DEF StrictBlock
    <3>. QED  BY <1>1, <3>1, <3>2, AwaitNext DEF IInv
  <2>. QED  BY <2>1, <2>2, <2>3
<1>5. ProgramsKept /\ ProgramsMove
  BY HangupEvolves, CalmMoves
<1>6. Up /\ Up' /\ (Leaving' <=> Leaving) /\ pc' = "exec"
  BY <1>1 DEF Up, Leaving
<1>7. /\ cancel_token' \in BOOLEAN /\ cmd' = cmd /\ served' = served
      /\ result' \in {"none", "ok", "err"}
  BY DEF IInv, TypeOK
<1>. QED  BY <1>4, <1>5, <1>6, <1>7, NeutralInv

\* Waiting for an instance to end, and seeing it end, keeps the invariant.
LEMMA AwaitInv == IInv /\ DoAwait => IInv'
<1>. SUFFICES ASSUME IInv, DoAwait PROVE IInv'
  OBVIOUS
<1>1. /\ At("await") /\ UNCHANGED <<registryVars, cancel_token, pc, cmd, served, owner>>
      /\ prog' = [i \in DOMAIN prog |-> IF i \in Head(agenda).ids THEN Hangup(prog[i]) ELSE prog[i]]
  BY DEF DoAwait
<1>2. \/ Continue(<<>>) /\ UNCHANGED result
      \/ Head(agenda).strict /\ agenda' = <<>> /\ result' = "err"
  BY DEF DoAwait
<1>3. /\ prog' = [i \in DOMAIN prog |-> prog'[i]]
      /\ \A i \in DOMAIN prog : prog'[i] = prog[i] \/ prog'[i] = Hangup(prog[i])
  BY <1>1
<1>. QED  BY <1>1, <1>2, <1>3, WaitInv

\* The wait giving up after the deadline keeps it too: the instance stays accounted for.
LEMMA TimeoutInv == IInv /\ AwaitTimesOut => IInv'
<1>. SUFFICES ASSUME IInv, AwaitTimesOut PROVE IInv'
  OBVIOUS
<1>1. /\ At("await") /\ UNCHANGED <<registryVars, cancel_token, pc, cmd, served, owner>>
  BY DEF AwaitTimesOut
<1>2. PICK i \in Head(agenda).ids :
        /\ prog' = [prog EXCEPT ![i] = Hangup(@)]
        /\ \/ Head(agenda).strict /\ agenda' = <<>> /\ result' = "err"
           \/ /\ ~Head(agenda).strict /\ UNCHANGED result
              /\ Continue(<<Await(Head(agenda).ids \ {i}, FALSE)>>)
  BY DEF AwaitTimesOut
<1>3. /\ prog' = [x \in DOMAIN prog |-> prog'[x]]
      /\ \A x \in DOMAIN prog : prog'[x] = prog[x] \/ prog'[x] = Hangup(prog[x])
  BY <1>2
<1>4. \/ Head(agenda).strict /\ agenda' = <<>> /\ result' = "err"
      \/ ~Head(agenda).strict /\ UNCHANGED result
              /\ \E ids : Continue(<<Await(ids, FALSE)>>)
  BY <1>2
<1>. QED  BY <1>1, <1>3, <1>4, WaitInv

\* A program serves its mailbox, its process ends or its probe complains.
LEMMA ProgramInv ==
    ASSUME IInv, NEW i \in DOMAIN prog, Serve(i) \/ ByItself(i) \/ Unhealthy(i)
    PROVE  IInv'
<1>1. prog[i] \in ProgramType /\ Sane(prog[i])
  BY ElementOfSeq, LenProperties DEF IInv, TypeOK, RecordsSound
<1>2. PICK r : /\ prog' = [prog EXCEPT ![i] = r]
               /\ \/ r \in ServeSteps(prog[i])
                  \/ ~prog[i].ended /\ r \in OwnSteps(prog[i]) \cup HealthSteps(prog[i])
  BY DEF Serve, ByItself, Unhealthy, ProgramMoves
<1>3. Evolves(prog[i], r)
  BY <1>1, <1>2, ServeEvolves, OwnEvolves
<1>4. /\ prog' = [x \in DOMAIN prog |-> prog'[x]]
      /\ \A x \in DOMAIN prog : prog'[x] = prog[x] \/ Evolves(prog[x], prog'[x])
  BY <1>2, <1>3
<1>5. ProgramsKept /\ ProgramsMove
  BY <1>4, CalmMoves
<1>6. UNCHANGED <<registryVars, controlVars, agenda, owner>>
  BY DEF Serve, ByItself, Unhealthy, ProgramMoves
<1>7. /\ programs' = programs /\ configs' = configs /\ pending_configs' = pending_configs
      /\ shared_configs' = shared_configs /\ dag' = dag /\ cron_table' = cron_table
      /\ owner' = owner /\ agenda' = agenda /\ cancel_token' = cancel_token /\ pc' = pc
      /\ cmd' = cmd /\ result' = result /\ served' = served /\ DOMAIN prog' = DOMAIN prog
  BY <1>4, <1>6 DEF registryVars, controlVars
<1>8. AgendaSound' /\ Todo' = Todo
  BY <1>7 DEF IInv, AgendaSound, Todo
<1>9. SameBlocks
  BY <1>8 DEF SameBlocks, Closing, IInv, BlocksSound
<1>10. CASE Up
  <2>1. Up' /\ (Leaving' <=> Leaving) /\ (pc' # "exec" => agenda' = <<>>)
    BY <1>7, <1>10 DEF Up, Leaving, IInv, TypeOK
  <2>2. cancel_token' \in BOOLEAN /\ result' \in {"none", "ok", "err"}
    BY <1>7 DEF IInv, TypeOK
  <2>. QED  BY <1>5, <1>6, <1>7, <1>8, <1>9, <1>10, <2>1, <2>2, NeutralInv
<1>11. CASE ~Up
  <2>0. ~Up' /\ agenda = <<>> /\ ~Leaving /\ ~Leaving'
    BY <1>7, <1>11 DEF Up, Leaving, IInv, TypeOK
  <2>1. Todo = {} /\ Todo' = {}
    BY <1>8, <2>0, EmptyPlan DEF Todo
  <2>2. BlocksSound' /\ ClosingSound' /\ ReloadTracked'
    BY <2>1 DEF BlocksSound, ClosingSound, ReloadTracked
  <2>3. StagedSound'
    BY <2>1 DEF StagedSound, Awaited, Named, Swapping
  <2>4. Accounted' /\ RegisteredSound' /\ Tracked'
    BY <2>0 DEF Accounted, RegisteredSound, Tracked
  <2>5. Exclusive'
    BY <1>7, <2>1, <1>5 DEF Exclusive, IInv, ProgramsMove
  <2>6. MapsSound'
    BY <1>7 DEF MapsSound, IInv
  <2>7. TypeOK'
    BY <1>7, <1>5 DEF TypeOK, IInv, ProgramsKept
  <2>8. DoneMeansGone'
    BY <1>7, <1>5 DEF DoneMeansGone, IInv, ProgramsKept
  <2>. QED  BY <1>5, <1>8, <2>2, <2>3, <2>4, <2>5, <2>6, <2>7, <2>8 DEF IInv, ProgramsKept
<1>. QED  BY <1>10, <1>11

-----------------------------------------------------------------------------
(* Shutting an instance down.                                              *)

\* A block that closes an instance gives way to another one, after a wait.
LEMMA CloseNext ==
    ASSUME IInv, agenda # <<>>, IdBlock(Head(agenda)), UNCHANGED owner,
           NEW a, a.do = "await" /\ ~a.strict /\ a.strict \in BOOLEAN,
           NEW c, IdBlock(c) /\ c.id = Head(agenda).id,
           Continue(<<a, c>>) \/ Continue(<<c>>)
    PROVE  AgendaSound' /\ SameBlocks
<1>. DEFINE h == Head(agenda)
            T == SetOf(Tail(agenda))
<1>0. Todo = {h} \cup T /\ \A d \in T : Follows(owner, h, d)
  BY HeadFacts DEF IInv
<1>1. /\ IsSeq(<<c>>) /\ SetOf(<<c>>) = {c} /\ Ordered(owner, <<c>>)
      /\ IsSeq(<<a, c>>) /\ SetOf(<<a, c>>) = {a, c}
      /\ Follows(owner, a, c) => Ordered(owner, <<a, c>>)
  BY ShortPlans
<1>2. ~StrictBlock(a) /\ ~StrictBlock(c) /\ ~StrictBlock(h)
  BY DEF StrictBlock, IdBlock
<1>3. Follows(owner, a, c)
  BY <1>2 DEF Follows, EndBlock, NameBlock, FreeBlock, IdBlock
<1>4. \A d \in T : Follows(owner, a, d) /\ Follows(owner, c, d)
  BY <1>0, <1>2 DEF Follows, EndBlock, NameBlock, FreeBlock, IdBlock
<1>5. AgendaSound' /\ (Todo' = {a, c} \cup T \/ Todo' = {c} \cup T)
  <2>1. CASE Continue(<<a, c>>)
    <3>1. \A b \in SetOf(<<a, c>>), d \in SetOf(Tail(agenda)) : Follows(owner, b, d)
      BY <1>1, <1>4
    <3>. QED  BY <1>1, <1>3, <2>1, <3>1, ContinueFacts DEF IInv
  <2>2. CASE Continue(<<c>>)
    <3>1. \A b \in SetOf(<<c>>), d \in SetOf(Tail(agenda)) : Follows(owner, b, d)
      BY <1>1, <1>4
    <3>. QED  BY <1>1, <2>2, <3>1, ContinueFacts DEF IInv
  <2>. QED  BY <2>1, <2>2
<1>6. /\ ~NameBlock(h) /\ ~EndBlock(h) /\ ~NameBlock(a) /\ ~EndBlock(a) /\ ~IdBlock(a)
      /\ ~NameBlock(c) /\ ~EndBlock(c) /\ c.do # "call" /\ c.do # "await" /\ IdBlock(h)
  BY DEF NameBlock, EndBlock, IdBlock
<1>7. c.id = h.id
  OBVIOUS
<1>. HIDE DEF h, T
<1>8. \A i : Closing(i)' <=> Closing(i)
  BY <1>0, <1>5, <1>6, <1>7 DEF Closing
<1>9. \A b \in Todo' : b.do = "await" => b.strict \in BOOLEAN
  BY <1>0, <1>5, <1>6 DEF BlocksSound, IInv
<1>10. \A b \in Todo' : NameBlock(b) \/ EndBlock(b) \/ b.do = "call" => b \in Todo
  BY <1>0, <1>5, <1>6
<1>11. \A b \in Todo : NameBlock(b) \/ EndBlock(b) => b \in Todo'
  BY <1>0, <1>5, <1>6
<1>. QED  BY <1>5, <1>8, <1>9, <1>10, <1>11 DEF SameBlocks

\* Ordering an instance to shut down before it is awaited keeps the invariant.
LEMMA ShutdownInv == IInv /\ DoShutdown => IInv'
<1>. SUFFICES ASSUME IInv, DoShutdown PROVE IInv'
  OBVIOUS
<1>0. PICK i : i = Head(agenda).id
  OBVIOUS
<1>1. /\ pc = "exec" /\ agenda # <<>> /\ Head(agenda).do = "shutdown"
      /\ SendTo({i}, "Shutdown") /\ Continue(<<Await({i}, FALSE), Cancel(i)>>)
      /\ UNCHANGED <<registryVars, controlVars, owner>>
  BY <1>0 DEF DoShutdown, At
<1>2. IdBlock(Head(agenda))
  BY <1>1 DEF IdBlock
<1>3. /\ Await({i}, FALSE).do = "await" /\ Await({i}, FALSE).strict = FALSE
      /\ IdBlock(Cancel(i)) /\ Cancel(i).id = i
  BY DEF Await, Cancel, IdBlock
<1>4. AgendaSound' /\ SameBlocks
  BY <1>0, <1>1, <1>2, <1>3, CloseNext
<1>5. Up /\ Up' /\ (Leaving' <=> Leaving) /\ pc' = "exec"
  BY <1>1 DEF Up, Leaving, controlVars
<1>6. Closing(i) /\ Sole(i)
  <2>1. Head(agenda) \in Todo
    BY <1>1, HeadFacts DEF IInv
  <2>2. Sole(i)
    BY <1>0, <1>1, <1>2, <1>5, SoleClosing DEF IInv, BlockInv
  <2>. QED  BY <1>0, <1>2, <2>1, <2>2 DEF Closing
<1>7. /\ ProgramsKept
      /\ \A x \in DOMAIN prog :
            /\ x # i => prog'[x] = prog[x]
            /\ prog'[x].ended = prog[x].ended
  BY <1>1, SendToFacts DEF IInv, TypeOK, Ops
<1>8. ProgramsMove
  BY <1>6, <1>7 DEF ProgramsMove, ProgramsKept, Sole
<1>9. /\ cancel_token' \in BOOLEAN /\ cmd' = cmd /\ served' = served
      /\ result' \in {"none", "ok", "err"}
  BY <1>1 DEF IInv, TypeOK, controlVars
<1>. QED  BY <1>1, <1>4, <1>5, <1>7, <1>8, <1>9, NeutralInv

\* Cancelling the token of an instance after its shutdown was answered keeps the invariant.
LEMMA CancelBlockInv == IInv /\ DoCancel => IInv'
<1>. SUFFICES ASSUME IInv, DoCancel PROVE IInv'
  OBVIOUS
<1>0. PICK i : i = Head(agenda).id
  OBVIOUS
<1>1. /\ pc = "exec" /\ agenda # <<>> /\ Head(agenda).do = "cancel"
      /\ prog' = [prog EXCEPT ![i] = CancelIt(@)] /\ Continue(<<Join(i)>>)
      /\ UNCHANGED <<registryVars, controlVars, owner>>
  BY <1>0 DEF DoCancel, At
<1>2. IdBlock(Head(agenda))
  BY <1>1 DEF IdBlock
<1>3. /\ Await({i}, FALSE).do = "await" /\ Await({i}, FALSE).strict = FALSE
      /\ IdBlock(Join(i)) /\ Join(i).id = i
  BY DEF Await, Join, IdBlock
<1>4. AgendaSound' /\ SameBlocks
  BY <1>0, <1>1, <1>2, <1>3, CloseNext
<1>5. Up /\ Up' /\ (Leaving' <=> Leaving) /\ pc' = "exec"
  BY <1>1 DEF Up, Leaving, controlVars
<1>6. Closing(i)
  <2>1. Head(agenda) \in Todo
    BY <1>1, HeadFacts DEF IInv
  <2>. QED  BY <1>0, <1>2, <2>1 DEF Closing
<1>7. /\ prog' = [x \in DOMAIN prog |-> prog'[x]]
      /\ \A x \in DOMAIN prog : prog'[x] = prog[x] \/ (prog'[x] = CancelIt(prog[x]) /\ Closing(x))
  BY <1>1, <1>6
<1>8. ProgramsKept /\ ProgramsMove
  BY <1>7, CalmMoves
<1>9. /\ cancel_token' \in BOOLEAN /\ cmd' = cmd /\ served' = served
      /\ result' \in {"none", "ok", "err"}
  BY <1>1 DEF IInv, TypeOK, controlVars
<1>. QED  BY <1>1, <1>4, <1>5, <1>8, <1>9, NeutralInv

-----------------------------------------------------------------------------
(* The handler ends, the manager is cancelled or aborted.                  *)

\* Only the token changes, or nothing.
LEMMA TokenInv ==
    ASSUME IInv, cancel_token' \in BOOLEAN,
           UNCHANGED <<registryVars, pc, cmd, result, served, agenda, prog, owner>>
    PROVE  IInv'
<1>1. /\ programs' = programs /\ configs' = configs /\ pending_configs' = pending_configs
      /\ shared_configs' = shared_configs /\ dag' = dag /\ cron_table' = cron_table
      /\ owner' = owner /\ agenda' = agenda /\ pc' = pc
      /\ cmd' = cmd /\ result' = result /\ served' = served /\ prog' = prog
  BY DEF registryVars
<1>2. TypeOK'
  BY <1>1 DEF IInv, TypeOK
<1>3. Todo' = Todo /\ (Up' <=> Up) /\ (Leaving' <=> Leaving)
  BY <1>1 DEF Todo, Up, Leaving
<1>4. \A n, dos : Named(dos, n)' <=> Named(dos, n)
  BY <1>3 DEF Named
<1>5. \A i : (Closing(i)' <=> Closing(i)) /\ (Registered(i)' <=> Registered(i)) /\ Staged(i)' = Staged(i)
  BY <1>1, <1>3 DEF Closing, Registered, Staged
<1>6. Swapping' <=> Swapping
  BY <1>3 DEF Swapping
<1>7. \A n : (Awaited(n)' <=> Awaited(n)) /\ (Outgoing(n)' <=> Outgoing(n))
  BY <1>1, <1>3, <1>4, <1>6 DEF Awaited, Outgoing
<1>8. DoneMeansGone' /\ RecordsSound' /\ MapsSound' /\ Exclusive'
  BY <1>1 DEF IInv, DoneMeansGone, RecordsSound, MapsSound, Exclusive
<1>9. AgendaSound' /\ BlocksSound'
  BY <1>1, <1>3 DEF IInv, AgendaSound, BlocksSound
<1>10. ClosingSound'
  BY <1>1, <1>3, <1>4, <1>5, <1>7 DEF IInv, ClosingSound
<1>11. StagedSound'
  BY <1>1, <1>4, <1>5, <1>7 DEF IInv, StagedSound
<1>12. Accounted' /\ RegisteredSound'
  BY <1>1, <1>3, <1>5, <1>7 DEF IInv, Accounted, RegisteredSound
<1>13. Tracked' /\ ReloadTracked'
  BY <1>1, <1>3, <1>4 DEF IInv, Tracked, ReloadTracked, Agreed
<1>. QED  BY <1>2, <1>8, <1>9, <1>10, <1>11, <1>12, <1>13 DEF IInv

\* Once the manager is gone nothing is left to do.
LEMMA GoneInv ==
    ASSUME IInv, UNCHANGED <<registryVars, owner>>, ProgramsKept,
           \A i \in DOMAIN prog : Dormant(prog[i]) => Dormant(prog'[i]),
           pc' \in {"done", "aborted"}, agenda' = <<>>,
           pc' = "done" => \A i \in DOMAIN prog : prog'[i].ended,
           UNCHANGED <<cancel_token, cmd, result, served>>
    PROVE  IInv'
<1>1. /\ programs' = programs /\ configs' = configs /\ pending_configs' = pending_configs
      /\ shared_configs' = shared_configs /\ dag' = dag /\ cron_table' = cron_table
      /\ owner' = owner /\ DOMAIN prog' = DOMAIN prog
  BY DEF registryVars, ProgramsKept
<1>2. Todo' = {} /\ ~Up' /\ ~Leaving'
  BY EmptyPlan DEF Todo, Up, Leaving
<1>3. AgendaSound'
  BY <1>2, EmptyPlan DEF AgendaSound, Ordered
<1>4. BlocksSound' /\ ClosingSound' /\ ReloadTracked'
  BY <1>2 DEF BlocksSound, ClosingSound, ReloadTracked
<1>5. StagedSound'
  BY <1>2 DEF StagedSound, Awaited, Named, Swapping
<1>6. Accounted' /\ RegisteredSound' /\ Tracked'
  BY <1>2 DEF Accounted, RegisteredSound, Tracked
<1>7. Exclusive'
  BY <1>1 DEF Exclusive, IInv
<1>8. MapsSound'
  BY <1>1 DEF MapsSound, IInv
<1>9. TypeOK'
  BY <1>1 DEF TypeOK, IInv, ProgramsKept
<1>10. DoneMeansGone'
  BY <1>1 DEF DoneMeansGone
<1>. QED  BY <1>3, <1>4, <1>5, <1>6, <1>7, <1>8, <1>9, <1>10 DEF IInv, ProgramsKept

\* A command that fails half way drops the rest of its blocks and keeps the invariant.
LEMMA AbortInv == IInv /\ Abort => IInv'
<1>. SUFFICES ASSUME IInv, Abort PROVE IInv'
  OBVIOUS
<1>1. /\ pc' = "aborted" /\ agenda' = <<>>
      /\ prog' = [i \in DOMAIN prog |-> CancelIt(prog[i])]
      /\ UNCHANGED <<registryVars, cancel_token, cmd, result, served, owner>>
  BY DEF Abort
<1>2. /\ prog' = [i \in DOMAIN prog |-> prog'[i]]
      /\ \A i \in DOMAIN prog : prog'[i] = CancelIt(prog[i])
  BY <1>1
<1>3. ProgramsKept /\ \A i \in DOMAIN prog : Dormant(prog[i]) => Dormant(prog'[i])
  BY <1>2, CalmFacts DEF IInv, TypeOK
<1>. QED  BY <1>1, <1>3, GoneInv

\* A command that ends with nothing left to do keeps the invariant.
LEMMA CompleteInv == IInv /\ Complete => IInv'
<1>. SUFFICES ASSUME IInv, Complete PROVE IInv'
  OBVIOUS
<1>1. /\ pc = "exec" /\ agenda = <<>> /\ agenda' = <<>> /\ prog' = prog
      /\ UNCHANGED <<registryVars, cancel_token, cmd, result, served, owner>>
      /\ pc' = IF cmd.op \in {"Shutdown", "Cancel"} THEN "done" ELSE "select"
  BY DEF Complete
<1>2. Todo = {}
  BY <1>1, EmptyPlan DEF Todo
<1>3. ProgramsKept
  BY <1>1 DEF ProgramsKept, IInv, TypeOK, RecordsSound
<1>4. CASE cmd.op \in {"Shutdown", "Cancel"}
  <2>1. Leaving /\ Up
    BY <1>1, <1>4 DEF Leaving, Up
  <2>2. \A i \in DOMAIN prog : prog[i].ended
    <3>. TAKE i \in DOMAIN prog
    <3>1. ~Closing(i) /\ ~Awaited(owner[i])
      BY <1>2 DEF Closing, Awaited, Named, Swapping
    <3>2. prog[i].ended \/ Registered(i)
      BY <2>1, <3>1 DEF IInv, Accounted
    <3>3. Registered(i) => prog[i].ended
      BY <2>1, <3>1 DEF IInv, Registered, RegisteredSound, Outgoing
    <3>. QED  BY <3>2, <3>3
  <2>3. pc' = "done" /\ \A i \in DOMAIN prog : prog'[i].ended
    BY <1>1, <1>4, <2>2
  <2>. QED  BY <1>1, <1>3, <2>3, GoneInv
<1>5. CASE cmd.op \notin {"Shutdown", "Cancel"}
  <2>1. Up /\ Up' /\ ~Leaving /\ ~Leaving' /\ pc' = "select"
    BY <1>1, <1>5 DEF Up, Leaving
  <2>2. AgendaSound' /\ Todo' = {}
    BY <1>1, <1>2, EmptyPlan DEF IInv, AgendaSound, Todo, Ordered
  <2>3. SameBlocks
    BY <1>2, <2>2 DEF SameBlocks, Closing
  <2>4. ProgramsMove
    BY <1>1 DEF ProgramsMove
  <2>5. /\ cancel_token' \in BOOLEAN /\ cmd' = cmd /\ served' = served
        /\ result' \in {"none", "ok", "err"}
    BY <1>1 DEF IInv, TypeOK
  <2>. QED  BY <1>1, <1>3, <2>1, <2>2, <2>3, <2>4, <2>5, NeutralInv
<1>. QED  BY <1>4, <1>5

-----------------------------------------------------------------------------
(* Blocks that change a registry.                                          *)

\* An instance has ended: there is one block less to wait for.
LEMMA JoinInv == IInv /\ DoJoin => IInv'
<1>. SUFFICES ASSUME IInv, DoJoin PROVE IInv'
  OBVIOUS
<1>. DEFINE h == Head(agenda)
            T == SetOf(Tail(agenda))
<1>1. PICK i : i = h.id
  OBVIOUS
<1>2. /\ pc = "exec" /\ agenda # <<>> /\ h.do = "join" /\ prog[i].ended
      /\ Continue(<<>>)
      /\ UNCHANGED <<registryVars, controlVars, prog, owner>>
  BY <1>1 DEF DoJoin, At
<1>3. Todo = {h} \cup T /\ \A c \in T : Follows(owner, h, c)
  BY <1>2, HeadFacts DEF IInv
<1>4. AgendaSound' /\ Todo' = T
  BY <1>2, EmptyPlan, ContinueFacts DEF IInv
<1>5. IdBlock(h) /\ ~NameBlock(h) /\ ~EndBlock(h)
  BY <1>2 DEF IdBlock, NameBlock, EndBlock
<1>6. \A c \in T : IdBlock(c) => c.id # i
  BY <1>1, <1>3, <1>5 DEF Follows
<1>. HIDE DEF h, T
<1>7. /\ programs' = programs /\ configs' = configs /\ pending_configs' = pending_configs
      /\ shared_configs' = shared_configs /\ dag' = dag /\ cron_table' = cron_table
      /\ owner' = owner /\ cancel_token' = cancel_token /\ pc' = pc
      /\ cmd' = cmd /\ result' = result /\ served' = served /\ prog' = prog
  BY <1>2 DEF registryVars, controlVars
<1>8. \A j : Closing(j)' <=> Closing(j) /\ j # i
  BY <1>1, <1>3, <1>4, <1>5, <1>6 DEF Closing
<1>9. ASSUME NEW n, NEW dos \in SUBSET {"remove", "forget", "replace", "add", "install"}
      PROVE  Named(dos, n)' <=> Named(dos, n)
  BY <1>3, <1>4, <1>5, <1>9 DEF Named, NameBlock
<1>10. Swapping' <=> Swapping
  BY <1>2, <1>3, <1>4 DEF Swapping
<1>11. (Up' <=> Up) /\ (Leaving' <=> Leaving)
  BY <1>7 DEF Up, Leaving
<1>12. \A n : /\ Named({"replace", "add", "install"}, n)' <=> Named({"replace", "add", "install"}, n)
              /\ Named({"add", "install"}, n)' <=> Named({"add", "install"}, n)
              /\ Named({"install"}, n)' <=> Named({"install"}, n)
              /\ Named({"forget"}, n)' <=> Named({"forget"}, n)
              /\ Named({"remove", "forget"}, n)' <=> Named({"remove", "forget"}, n)
  BY <1>9
<1>13. \A n : (Awaited(n)' <=> Awaited(n)) /\ (Outgoing(n)' <=> Outgoing(n))
  BY <1>7, <1>10, <1>11, <1>12 DEF Awaited, Outgoing
<1>14. \A j : (Registered(j)' <=> Registered(j)) /\ Staged(j)' = Staged(j)
  BY <1>7 DEF Registered, Staged
<1>15. TypeOK' /\ DoneMeansGone' /\ RecordsSound' /\ MapsSound' /\ Exclusive'
  BY <1>2, <1>7 DEF IInv, TypeOK, DoneMeansGone, RecordsSound, MapsSound, Exclusive
<1>16. BlocksSound'
  BY <1>3, <1>4, <1>5, <1>7, <1>11 DEF IInv, BlocksSound, EndBlock
<1>17. ClosingSound'
  BY <1>3, <1>4, <1>7, <1>12, <1>13, <1>14 DEF IInv, ClosingSound
<1>18. StagedSound'
  BY <1>7, <1>8, <1>12, <1>13, <1>14 DEF IInv, StagedSound
<1>19. Accounted'
  BY <1>2, <1>7, <1>8, <1>11, <1>13, <1>14 DEF IInv, Accounted
<1>20. RegisteredSound'
  BY <1>2, <1>7, <1>8, <1>11, <1>13 DEF IInv, RegisteredSound
<1>21. Tracked' /\ ReloadTracked'
  BY <1>2, <1>3, <1>4, <1>7, <1>11, <1>12 DEF IInv, Tracked, ReloadTracked, Agreed
<1>. QED  BY <1>4, <1>15, <1>16, <1>17, <1>18, <1>19, <1>20, <1>21 DEF IInv

\* While the programs of a diff are gone through, nothing else is in the agenda.
LEMMA NameHead ==
    ASSUME IInv, agenda # <<>>, NameBlock(Head(agenda))
    PROVE  /\ Todo = {Head(agenda)} \cup SetOf(Tail(agenda))
           /\ \A c \in SetOf(Tail(agenda)) :
                 /\ ~IdBlock(c) /\ ~FreeBlock(c) /\ c.do # "swap" /\ ~StrictBlock(c)
                 /\ NameBlock(c) => c.name # Head(agenda).name
                 /\ c.do # "install"
           /\ \E c \in SetOf(Tail(agenda)) : c.do \in {"adopt", "derive"}
           /\ ~Leaving /\ ~Swapping /\ \A i : ~Closing(i)
<1>. DEFINE h == Head(agenda)
            T == SetOf(Tail(agenda))
<1>1. Todo = {h} \cup T /\ \A c \in T : Follows(owner, h, c)
  BY HeadFacts DEF IInv
<1>. HIDE DEF T
<1>2. ~StrictBlock(h) /\ h.do # "await" /\ ~IdBlock(h) /\ h.do \notin {"adopt", "derive", "swap"}
  BY DEF NameBlock, StrictBlock, IdBlock
<1>3. /\ \E c \in Todo : c.do \in {"adopt", "derive"}
      /\ ~Leaving
  BY <1>1 DEF IInv, BlocksSound
<1>. HIDE DEF h
<1>4. \A c \in T :
         /\ ~IdBlock(c) /\ ~FreeBlock(c) /\ c.do # "swap" /\ ~StrictBlock(c)
         /\ NameBlock(c) => c.name # h.name
         /\ c.do # "install"
  BY <1>1, <1>2 DEF Follows, h
<1>5. ~Swapping /\ \A i : ~Closing(i)
  BY <1>1, <1>2, <1>4 DEF Swapping, Closing
<1>. QED  BY <1>1, <1>2, <1>3, <1>4, <1>5 DEF h, T

\* A block about one program may be replaced by the blocks it unfolds to.
LEMMA NameNext ==
    ASSUME IInv, agenda # <<>>, NameBlock(Head(agenda)), UNCHANGED owner,
           NEW plan, IsSeq(plan), Ordered(owner, plan), Continue(plan),
           \A b \in SetOf(plan) :
               /\ b.do = "await" \/ IdBlock(b) \/ (NameBlock(b) /\ b.name = Head(agenda).name)
               /\ ~StrictBlock(b)
    PROVE  AgendaSound' /\ Todo' = SetOf(plan) \cup SetOf(Tail(agenda))
<1>1. \A c \in SetOf(Tail(agenda)) :
         /\ ~IdBlock(c) /\ ~FreeBlock(c) /\ c.do # "swap" /\ ~StrictBlock(c)
         /\ NameBlock(c) => c.name # Head(agenda).name
         /\ c.do # "install"
  BY NameHead
<1>2. \A b \in SetOf(plan), c \in SetOf(Tail(agenda)) : Follows(owner, b, c)
  BY <1>1 DEF Follows, EndBlock, NameBlock, IdBlock, FreeBlock
<1>. QED  BY <1>2, ContinueFacts DEF IInv

\* A removed program leaves the registry and is on its way out.
LEMMA RemoveInv == IInv /\ DoRemove => IInv'
<1>. SUFFICES ASSUME IInv, DoRemove PROVE IInv'
  OBVIOUS
<1>. DEFINE h == Head(agenda)
            T == SetOf(Tail(agenda))
            n == h.name
            i == programs[n]
            a == Await({i}, FALSE)
            d == Shutdown(i)
            f == Forget(n)
<1>1. /\ pc = "exec" /\ agenda # <<>> /\ h.do = "remove"
      /\ programs' = Without(programs, n) /\ SendTo({i}, "Stop")
      /\ Continue(<<a, d, f>>)
      /\ UNCHANGED <<configs, shared_configs, pending_configs, dag, cron_table, controlVars, owner>>
  BY DEF DoRemove, At
<1>2. NameBlock(h)
  BY <1>1 DEF NameBlock
<1>3. /\ Todo = {h} \cup T
      /\ \A c \in T : /\ ~IdBlock(c) /\ ~FreeBlock(c) /\ c.do # "swap" /\ ~StrictBlock(c)
                      /\ NameBlock(c) => c.name # n
                      /\ c.do # "install"
      /\ \E c \in T : c.do \in {"adopt", "derive"}
      /\ ~Leaving /\ ~Swapping /\ \A j : ~Closing(j)
  BY <1>1, <1>2, NameHead
<1>4. /\ a.do = "await" /\ a.strict = FALSE
      /\ d.do = "shutdown" /\ d.id = i /\ f.do = "forget" /\ f.name = n
  BY DEF Await, Shutdown, Forget
<1>. HIDE DEF a, d, f
<1>5. Follows(owner, a, d) /\ Follows(owner, a, f) /\ Follows(owner, d, f)
  BY <1>4 DEF Follows, EndBlock, NameBlock, FreeBlock, IdBlock, StrictBlock
<1>6. /\ IsSeq(<<a, d, f>>) /\ SetOf(<<a, d, f>>) = {a, d, f}
      /\ Ordered(owner, <<a, d, f>>)
  BY <1>5, ThreePlan
<1>7. \A b \in {a, d, f} : /\ b.do = "await" \/ IdBlock(b) \/ (NameBlock(b) /\ b.name = n)
                           /\ ~StrictBlock(b)
  BY <1>4 DEF NameBlock, IdBlock, StrictBlock
<1>8. AgendaSound' /\ Todo' = {a, d, f} \cup T
  BY <1>1, <1>2, <1>5, <1>6, <1>7, NameNext
<1>9. n \in DOMAIN programs /\ i \in DOMAIN prog /\ owner[i] = n /\ Registered(i)
  BY <1>1, <1>3 DEF IInv, BlocksSound, MapsSound, Registered
<1>. HIDE DEF h, T, n, i
<1>10. /\ configs' = configs /\ pending_configs' = pending_configs
       /\ shared_configs' = shared_configs /\ dag' = dag /\ cron_table' = cron_table
       /\ owner' = owner /\ cancel_token' = cancel_token /\ pc' = pc
       /\ cmd' = cmd /\ result' = result /\ served' = served
       /\ DOMAIN programs' = DOMAIN programs \ {n}
       /\ \A m \in DOMAIN programs' : programs'[m] = programs[m]
  BY <1>1 DEF controlVars, Without
<1>11. /\ ProgramsKept
       /\ \A j \in DOMAIN prog :
             /\ j # i => prog'[j] = prog[j]
             /\ Live(prog[j]) => Live(prog'[j])
             /\ prog'[j].ended = prog[j].ended
  BY <1>1, SendToFacts DEF IInv, TypeOK, Ops
<1>12. DOMAIN prog' = DOMAIN prog /\ DOMAIN owner = DOMAIN prog
  BY <1>11 DEF ProgramsKept, IInv, TypeOK
<1>13. ~Swapping' /\ ~Leaving' /\ Up /\ Up' /\ \A j : Closing(j)' <=> j = i
  BY <1>1, <1>3, <1>4, <1>8, <1>10 DEF Swapping, Leaving, Up, Closing, IdBlock
<1>14. \A m : /\ Named({"replace", "add", "install"}, m)' <=> Named({"replace", "add", "install"}, m)
              /\ Named({"add", "install"}, m)' <=> Named({"add", "install"}, m)
              /\ Named({"install"}, m)' <=> Named({"install"}, m)
              /\ Named({"forget"}, m)' <=> Named({"forget"}, m) \/ m = n
              /\ Named({"remove", "forget"}, m)' <=> Named({"remove", "forget"}, m)
  BY <1>1, <1>3, <1>4, <1>8 DEF Named, n
<1>15. ~Named({"replace", "add", "install"}, n) /\ \A m : ~Named({"install"}, m)
  BY <1>1, <1>3 DEF Named, NameBlock
<1>16. /\ \A m : (Awaited(m)' <=> Awaited(m)) /\ (Outgoing(m)' <=> Outgoing(m))
       /\ ~Awaited(n)
  BY <1>3, <1>10, <1>13, <1>14, <1>15 DEF Awaited, Outgoing
<1>17. \A j : (Registered(j)' <=> Registered(j) /\ owner[j] # n) /\ Staged(j)' = Staged(j)
  BY <1>10 DEF Registered, Staged
<1>18. Sole(i)
  BY <1>9, <1>13, <1>15, SoleRegistered DEF IInv, BlockInv
<1>19. TypeOK'
  BY <1>1, <1>10, <1>11 DEF IInv, TypeOK, ProgramsKept
<1>20. DoneMeansGone' /\ RecordsSound'
  BY <1>11, <1>13 DEF DoneMeansGone, Up, ProgramsKept
<1>21. MapsSound'
  <2>0. IsFiniteSet(DOMAIN programs)
    BY DEF IInv, MapsSound
  <2>1. IsFiniteSet(DOMAIN programs')
    BY <1>10, <2>0, FS_RemoveElement
  <2>. QED  BY <1>10, <1>12, <2>1 DEF IInv, MapsSound
<1>22. BlocksSound'
  <2>1. \E c \in Todo' : c.do \in {"adopt", "derive"}
    BY <1>3, <1>8
  <2>. SUFFICES ASSUME NEW b \in Todo'
                PROVE  /\ b.do # "call"
                       /\ b.do = "await" => b.strict \in BOOLEAN
                       /\ b.do \in {"remove", "replace"} => b.name \in DOMAIN programs'
                       /\ b.do = "forget" => b.name \notin DOMAIN programs'
                       /\ b.do \in {"replace", "add", "install"} => b.name \in DOMAIN pending_configs
    BY <1>10, <1>13, <2>1 DEF BlocksSound
  <2>2. CASE b \in {a, d, f}
    BY <1>4, <1>10, <2>2
  <2>3. CASE b \in T
    <3>1. b.do # "call" /\ (b.do \in {"remove", "replace"} => b.name # n)
      BY <1>3, <2>3 DEF FreeBlock, NameBlock
    <3>. QED  BY <1>3, <1>10, <2>3, <3>1 DEF IInv, BlocksSound
  <2>. QED  BY <1>8, <2>2, <2>3
<1>23. ClosingSound'
  <2>1. \A b \in Todo' : IdBlock(b) => b.id = i
    BY <1>13 DEF Closing
  <2>. QED  BY <1>9, <1>10, <1>12, <1>14, <2>1 DEF ClosingSound
<1>24. StagedSound'
  BY <1>9, <1>10, <1>11, <1>12, <1>13, <1>14, <1>16, <1>17 DEF IInv, StagedSound
<1>25. Accounted'
  BY <1>3, <1>9, <1>10, <1>11, <1>12, <1>13, <1>16, <1>17 DEF IInv, Accounted, Registered
<1>26. RegisteredSound'
  BY <1>3, <1>9, <1>10, <1>11, <1>12, <1>13, <1>16 DEF IInv, RegisteredSound, MapsSound
<1>27. Exclusive'
  BY <1>10, <1>11, <1>12, <1>18 DEF IInv, Exclusive, Sole
<1>28. Tracked'
  <2>1. \E c \in Todo' : c.do \in {"adopt", "derive"}
    BY <1>3, <1>8
  <2>. QED  BY <1>9, <1>10, <1>13, <1>14, <2>1 DEF IInv, Tracked
<1>29. ReloadTracked'
  <2>1. (\E b \in Todo' : b.do = "adopt") <=> (\E b \in Todo : b.do = "adopt")
    BY <1>1, <1>3, <1>4, <1>8
  <2>. QED  BY <1>10, <1>14, <2>1 DEF IInv, ReloadTracked
<1>. QED  BY <1>8, <1>19, <1>20, <1>21, <1>22, <1>23, <1>24, <1>25, <1>26, <1>27, <1>28, <1>29 DEF IInv

\* Its configuration goes last.
LEMMA ForgetInv == IInv /\ DoForget => IInv'
<1>. SUFFICES ASSUME IInv, DoForget PROVE IInv'
  OBVIOUS
<1>. DEFINE h == Head(agenda)
            T == SetOf(Tail(agenda))
            n == h.name
<1>1. /\ pc = "exec" /\ agenda # <<>> /\ h.do = "forget"
      /\ configs' = Without(configs, n) /\ Continue(<<>>)
      /\ UNCHANGED <<programs, shared_configs, pending_configs, dag, cron_table,
                     controlVars, prog, owner>>
  BY DEF DoForget, At
<1>2. NameBlock(h)
  BY <1>1 DEF NameBlock
<1>3. /\ Todo = {h} \cup T
      /\ \A c \in T : /\ ~IdBlock(c) /\ ~FreeBlock(c) /\ c.do # "swap" /\ ~StrictBlock(c)
                      /\ NameBlock(c) => c.name # n
                      /\ c.do # "install"
      /\ \E c \in T : c.do \in {"adopt", "derive"}
      /\ ~Leaving /\ ~Swapping /\ \A j : ~Closing(j)
  BY <1>1, <1>2, NameHead
<1>8. AgendaSound' /\ Todo' = T
  BY <1>1, <1>2, EmptyPlan, NameNext
<1>9. n \notin DOMAIN programs
  BY <1>1, <1>3 DEF IInv, BlocksSound
<1>. HIDE DEF h, T, n
<1>10. /\ programs' = programs /\ pending_configs' = pending_configs
       /\ shared_configs' = shared_configs /\ dag' = dag /\ cron_table' = cron_table
       /\ owner' = owner /\ cancel_token' = cancel_token /\ pc' = pc /\ prog' = prog
       /\ cmd' = cmd /\ result' = result /\ served' = served
       /\ DOMAIN configs' = DOMAIN configs \ {n}
       /\ \A m \in DOMAIN configs' : configs'[m] = configs[m]
       /\ configs' = [m \in DOMAIN configs' |-> configs'[m]]
  BY <1>1 DEF controlVars, Without
<1>13. ~Swapping' /\ ~Leaving' /\ Up /\ Up' /\ \A j : ~Closing(j)'
  BY <1>1, <1>3, <1>8, <1>10 DEF Swapping, Leaving, Up, Closing
<1>14. \A m : /\ Named({"replace", "add", "install"}, m)' <=> Named({"replace", "add", "install"}, m)
              /\ Named({"add", "install"}, m)' <=> Named({"add", "install"}, m)
              /\ Named({"install"}, m)' <=> Named({"install"}, m)
              /\ Named({"forget"}, m)' <=> Named({"forget"}, m) /\ m # n
              /\ Named({"remove", "forget"}, m)' <=> Named({"remove", "forget"}, m) /\ m # n
  BY <1>1, <1>3, <1>8 DEF Named, n, NameBlock
<1>15. Named({"remove", "forget"}, n) /\ ~Named({"replace", "add", "install"}, n)
  BY <1>1, <1>3 DEF Named, NameBlock, n
<1>16. \A m : (Awaited(m)' <=> Awaited(m)) /\ (Outgoing(m)' <=> Outgoing(m))
  BY <1>3, <1>10, <1>13, <1>14, <1>15 DEF Awaited, Outgoing
<1>17. \A j : (Registered(j)' <=> Registered(j)) /\ Staged(j)' = Staged(j)
  BY <1>10 DEF Registered, Staged
<1>19. TypeOK' /\ DoneMeansGone' /\ RecordsSound' /\ Exclusive'
  BY <1>1, <1>10 DEF IInv, TypeOK, DoneMeansGone, RecordsSound, Exclusive
<1>21. MapsSound'
  <2>0. IsFiniteSet(DOMAIN configs)
    BY DEF IInv, MapsSound
  <2>1. IsFiniteSet(DOMAIN configs')
    BY <1>10, <2>0, FS_RemoveElement
  <2>. QED  BY <1>10, <2>1 DEF IInv, MapsSound
<1>22. BlocksSound'
  BY <1>3, <1>8, <1>10, <1>13 DEF IInv, BlocksSound
<1>23. ClosingSound'
  BY <1>13 DEF ClosingSound, Closing
<1>24. StagedSound'
  BY <1>3, <1>10, <1>13, <1>14, <1>16, <1>17 DEF IInv, StagedSound
<1>25. Accounted' /\ RegisteredSound'
  BY <1>3, <1>10, <1>13, <1>16, <1>17 DEF IInv, Accounted, RegisteredSound
<1>28. Tracked'
  BY <1>3, <1>8, <1>9, <1>10, <1>13, <1>14 DEF IInv, Tracked
<1>29. ReloadTracked'
  <2>1. (\E b \in Todo' : b.do = "adopt") <=> (\E b \in Todo : b.do = "adopt")
    BY <1>1, <1>3, <1>8
  <2>. QED  BY <1>10, <1>14, <1>15, <2>1 DEF IInv, ReloadTracked
<1>. QED  BY <1>8, <1>19, <1>21, <1>22, <1>23, <1>24, <1>25, <1>28, <1>29 DEF IInv

\* The old instance of a modified program is told to end; its successor waits.
LEMMA ReplaceInv == IInv /\ DoReplace => IInv'
<1>. SUFFICES ASSUME IInv, DoReplace PROVE IInv'
  OBVIOUS
<1>. DEFINE h == Head(agenda)
            T == SetOf(Tail(agenda))
            n == h.name
            i == programs[n]
            a == Await({i}, FALSE)
            d == Shutdown(i)
            f == Add(n)
<1>1. /\ pc = "exec" /\ agenda # <<>> /\ h.do = "replace"
      /\ SendTo({i}, "Stop")
      /\ Continue(<<a, d, f>>)
      /\ UNCHANGED <<registryVars, controlVars, owner>>
  BY DEF DoReplace, At
<1>2. NameBlock(h)
  BY <1>1 DEF NameBlock
<1>3. /\ Todo = {h} \cup T
      /\ \A c \in T : /\ ~IdBlock(c) /\ ~FreeBlock(c) /\ c.do # "swap" /\ ~StrictBlock(c)
                      /\ NameBlock(c) => c.name # n
                      /\ c.do # "install"
      /\ \E c \in T : c.do \in {"adopt", "derive"}
      /\ ~Leaving /\ ~Swapping /\ \A j : ~Closing(j)
  BY <1>1, <1>2, NameHead
<1>4. /\ a.do = "await" /\ a.strict = FALSE
      /\ d.do = "shutdown" /\ d.id = i /\ f.do = "add" /\ f.name = n
  BY DEF Await, Shutdown, Add
<1>. HIDE DEF a, d, f
<1>5. Follows(owner, a, d) /\ Follows(owner, a, f) /\ Follows(owner, d, f)
  BY <1>4 DEF Follows, EndBlock, NameBlock, FreeBlock, IdBlock, StrictBlock
<1>6. /\ IsSeq(<<a, d, f>>) /\ SetOf(<<a, d, f>>) = {a, d, f}
      /\ Ordered(owner, <<a, d, f>>)
  BY <1>5, ThreePlan
<1>7. \A b \in {a, d, f} : /\ b.do = "await" \/ IdBlock(b) \/ (NameBlock(b) /\ b.name = n)
                           /\ ~StrictBlock(b)
  BY <1>4 DEF NameBlock, IdBlock, StrictBlock
<1>8. AgendaSound' /\ Todo' = {a, d, f} \cup T
  BY <1>1, <1>2, <1>6, <1>7, NameNext
<1>9. /\ n \in DOMAIN programs /\ i \in DOMAIN prog /\ owner[i] = n /\ Registered(i)
      /\ n \in DOMAIN pending_configs
  BY <1>1, <1>3 DEF IInv, BlocksSound, MapsSound, Registered
<1>. HIDE DEF h, T, n
<1>9a. \A m \in DOMAIN programs : m # n => programs[m] # i
  BY <1>9 DEF IInv, MapsSound
<1>9b. programs[n] = i
  OBVIOUS
<1>. HIDE DEF i
<1>10. /\ programs' = programs /\ configs' = configs /\ pending_configs' = pending_configs
       /\ shared_configs' = shared_configs /\ dag' = dag /\ cron_table' = cron_table
       /\ owner' = owner /\ cancel_token' = cancel_token /\ pc' = pc
       /\ cmd' = cmd /\ result' = result /\ served' = served
  BY <1>1 DEF controlVars, registryVars
<1>11. /\ ProgramsKept
       /\ \A j \in DOMAIN prog :
             /\ j # i => prog'[j] = prog[j]
             /\ Live(prog[j]) => Live(prog'[j])
             /\ prog'[j].ended = prog[j].ended
  BY <1>1, SendToFacts DEF IInv, TypeOK, Ops
<1>12. DOMAIN prog' = DOMAIN prog /\ DOMAIN owner = DOMAIN prog
  BY <1>11 DEF ProgramsKept, IInv, TypeOK
<1>13. ~Swapping' /\ ~Leaving' /\ Up /\ Up' /\ \A j : Closing(j)' <=> j = i
  BY <1>1, <1>3, <1>4, <1>8, <1>10 DEF Swapping, Leaving, Up, Closing, IdBlock
<1>14. \A m : /\ Named({"replace", "add", "install"}, m)' <=> Named({"replace", "add", "install"}, m)
              /\ Named({"add", "install"}, m)' <=> Named({"add", "install"}, m) \/ m = n
              /\ Named({"install"}, m)' <=> Named({"install"}, m)
              /\ Named({"forget"}, m)' <=> Named({"forget"}, m)
              /\ Named({"remove", "forget"}, m)' <=> Named({"remove", "forget"}, m)
  BY <1>1, <1>3, <1>4, <1>8 DEF Named, n
<1>15. \A m : ~Named({"install"}, m)
  BY <1>1, <1>3 DEF Named
<1>16. \A m : (Awaited(m)' <=> Awaited(m)) /\ (Outgoing(m)' <=> Outgoing(m) \/ m = n)
  BY <1>3, <1>10, <1>13, <1>14 DEF Awaited, Outgoing
<1>17. \A j : (Registered(j)' <=> Registered(j)) /\ Staged(j)' = Staged(j)
  BY <1>10 DEF Registered, Staged
<1>18. Sole(i)
  BY <1>9, <1>13, <1>15, SoleRegistered DEF IInv, BlockInv
<1>19. TypeOK'
  BY <1>1, <1>10, <1>11 DEF IInv, TypeOK, ProgramsKept
<1>20. DoneMeansGone' /\ RecordsSound'
  BY <1>11, <1>13 DEF DoneMeansGone, Up, ProgramsKept
<1>21. MapsSound'
  BY <1>10, <1>12 DEF IInv, MapsSound
<1>22. BlocksSound'
  <2>1. \E c \in Todo' : c.do \in {"adopt", "derive"}
    BY <1>3, <1>8
  <2>. SUFFICES ASSUME NEW b \in Todo'
                PROVE  /\ b.do # "call"
                       /\ b.do = "await" => b.strict \in BOOLEAN
                       /\ b.do \in {"remove", "replace"} => b.name \in DOMAIN programs
                       /\ b.do = "forget" => b.name \notin DOMAIN programs
                       /\ b.do \in {"replace", "add", "install"} => b.name \in DOMAIN pending_configs
    BY <1>10, <1>13, <2>1 DEF BlocksSound
  <2>2. CASE b \in {a, d, f}
    BY <1>4, <1>9, <2>2
  <2>3. CASE b \in T
    BY <1>3, <2>3 DEF IInv, BlocksSound, FreeBlock
  <2>. QED  BY <1>8, <2>2, <2>3
<1>23. ClosingSound'
  <2>1. \A b \in Todo' : IdBlock(b) => b.id = i
    BY <1>13 DEF Closing
  <2>. QED  BY <1>9, <1>10, <1>12, <1>16, <1>17, <2>1 DEF ClosingSound
<1>24. StagedSound'
  BY <1>9, <1>10, <1>11, <1>12, <1>13, <1>14, <1>16, <1>17 DEF IInv, StagedSound
<1>25. Accounted'
  BY <1>3, <1>10, <1>11, <1>12, <1>13, <1>16, <1>17 DEF IInv, Accounted
<1>26. RegisteredSound'
  <2>. SUFFICES ASSUME NEW m \in DOMAIN programs
                PROVE  /\ Live(prog'[programs[m]]) \/ Outgoing(m) \/ m = n
                       /\ Outgoing(m) \/ m = n => prog'[programs[m]].ended \/ programs[m] = i
    BY <1>10, <1>13, <1>16 DEF RegisteredSound
  <2>1. CASE m = n
    BY <1>9b, <2>1
  <2>2. CASE m # n
    <3>1. /\ Live(prog[programs[m]]) \/ Outgoing(m)
          /\ Outgoing(m) => prog[programs[m]].ended \/ Closing(programs[m])
      BY <1>13 DEF IInv, RegisteredSound
    <3>2. programs[m] \in DOMAIN prog
      BY DEF IInv, MapsSound
    <3>. QED  BY <1>3, <1>11, <2>2, <3>1, <3>2
  <2>. QED  BY <2>1, <2>2
<1>27. Exclusive'
  BY <1>10, <1>11, <1>12, <1>18 DEF IInv, Exclusive, Sole
<1>28. Tracked'
  <2>1. \E c \in Todo' : c.do \in {"adopt", "derive"}
    BY <1>3, <1>8
  <2>. QED  BY <1>10, <1>13, <1>14, <2>1 DEF IInv, Tracked
<1>29. ReloadTracked'
  <2>1. (\E b \in Todo' : b.do = "adopt") <=> (\E b \in Todo : b.do = "adopt")
    BY <1>1, <1>3, <1>4, <1>8
  <2>. QED  BY <1>10, <1>14, <2>1 DEF IInv, ReloadTracked
<1>. QED  BY <1>8, <1>19, <1>20, <1>21, <1>22, <1>23, <1>24, <1>25, <1>26, <1>27, <1>28, <1>29 DEF IInv

\* The staged instance may be started: every other one of its name has ended.
LEMMA AddInv == IInv /\ DoAdd => IInv'
<1>. SUFFICES ASSUME IInv, DoAdd PROVE IInv'
  OBVIOUS
<1>. DEFINE h == Head(agenda)
            T == SetOf(Tail(agenda))
            n == h.name
            i == Staged(n)
            a == Await({i}, FALSE)
            f == Install(n)
<1>1. /\ pc = "exec" /\ agenda # <<>> /\ h.do = "add"
      /\ \/ SendTo({i}, "Start") /\ Continue(<<a, f>>)
         \/ UNCHANGED prog /\ Continue(<<f>>)
      /\ UNCHANGED <<registryVars, controlVars, owner>>
  BY DEF DoAdd, At
<1>2. NameBlock(h)
  BY <1>1 DEF NameBlock
<1>3. /\ Todo = {h} \cup T
      /\ \A c \in T : /\ ~IdBlock(c) /\ ~FreeBlock(c) /\ c.do # "swap" /\ ~StrictBlock(c)
                      /\ NameBlock(c) => c.name # n
                      /\ c.do # "install"
      /\ \E c \in T : c.do \in {"adopt", "derive"}
      /\ ~Leaving /\ ~Swapping /\ \A j : ~Closing(j)
  BY <1>1, <1>2, NameHead
<1>4. /\ a.do = "await" /\ a.strict = FALSE
      /\ f.do = "install" /\ f.name = n
  BY DEF Await, Install
<1>. HIDE DEF a, f
<1>5. Follows(owner, a, f)
  BY <1>4 DEF Follows, EndBlock, NameBlock, FreeBlock, IdBlock, StrictBlock
<1>6. /\ IsSeq(<<a, f>>) /\ SetOf(<<a, f>>) = {a, f} /\ Ordered(owner, <<a, f>>)
      /\ IsSeq(<<f>>) /\ SetOf(<<f>>) = {f} /\ Ordered(owner, <<f>>)
  BY <1>5, ShortPlans
<1>7. \A b \in {a, f} : /\ b.do = "await" \/ IdBlock(b) \/ (NameBlock(b) /\ b.name = n)
                        /\ ~StrictBlock(b)
  BY <1>4 DEF NameBlock, IdBlock, StrictBlock
<1>8. AgendaSound' /\ (Todo' = {a, f} \cup T \/ Todo' = {f} \cup T)
  <2>1. CASE Continue(<<a, f>>)
    BY <1>1, <1>2, <1>6, <1>7, <2>1, NameNext
  <2>2. CASE Continue(<<f>>)
    BY <1>1, <1>2, <1>6, <1>7, <2>2, NameNext
  <2>. QED  BY <1>1, <2>1, <2>2
<1>9. n \in DOMAIN pending_configs /\ Awaited(n) /\ Outgoing(n)
  BY <1>1, <1>3 DEF IInv, BlocksSound, Awaited, Outgoing, Named
<1>9a. /\ i \in DOMAIN prog /\ owner[i] = n
       /\ \A j \in DOMAIN owner : owner[j] = n => j <= i
       /\ ~Registered(i) /\ Live(prog[i])
  BY <1>9 DEF IInv, StagedSound
<1>9b. i = Staged(n)
  OBVIOUS
<1>. HIDE DEF h, T, n, i
<1>10. /\ programs' = programs /\ configs' = configs /\ pending_configs' = pending_configs
       /\ shared_configs' = shared_configs /\ dag' = dag /\ cron_table' = cron_table
       /\ owner' = owner /\ cancel_token' = cancel_token /\ pc' = pc
       /\ cmd' = cmd /\ result' = result /\ served' = served
  BY <1>1 DEF controlVars, registryVars
<1>11. /\ ProgramsKept
       /\ \A j \in DOMAIN prog :
             /\ j # i => prog'[j] = prog[j]
             /\ Live(prog[j]) => Live(prog'[j])
             /\ prog'[j].ended = prog[j].ended
  <2>1. CASE SendTo({i}, "Start")
    BY <2>1, SendToFacts DEF IInv, TypeOK, Ops
  <2>2. CASE UNCHANGED prog
    BY <2>2 DEF IInv, TypeOK, ProgramsKept, RecordsSound
  <2>. QED  BY <1>1, <2>1, <2>2
<1>12. DOMAIN prog' = DOMAIN prog /\ DOMAIN owner = DOMAIN prog
  BY <1>11 DEF ProgramsKept, IInv, TypeOK
<1>13. ~Swapping' /\ ~Leaving' /\ Up /\ Up' /\ \A j : ~Closing(j)'
  BY <1>1, <1>3, <1>4, <1>8, <1>10 DEF Swapping, Leaving, Up, Closing, IdBlock
<1>14. \A m : /\ Named({"replace", "add", "install"}, m)' <=> Named({"replace", "add", "install"}, m)
              /\ Named({"add", "install"}, m)' <=> Named({"add", "install"}, m)
              /\ Named({"install"}, m)' <=> m = n
              /\ Named({"forget"}, m)' <=> Named({"forget"}, m)
              /\ Named({"remove", "forget"}, m)' <=> Named({"remove", "forget"}, m)
  BY <1>1, <1>3, <1>4, <1>8 DEF Named, n
<1>15. \A m : ~Named({"install"}, m)
  BY <1>1, <1>3 DEF Named
<1>16. \A m : (Awaited(m)' <=> Awaited(m)) /\ (Outgoing(m)' <=> Outgoing(m))
  BY <1>3, <1>10, <1>13, <1>14 DEF Awaited, Outgoing
<1>17. \A j : (Registered(j)' <=> Registered(j)) /\ Staged(j)' = Staged(j)
  BY <1>10 DEF Registered, Staged
<1>18. Sole(i)
  <2>. SUFFICES ASSUME NEW j \in DOMAIN prog, j # i, owner[j] = owner[i]
                PROVE  prog[j].ended
    BY DEF Sole, Dormant
  <2>1. CASE Registered(j)
    BY <1>3, <1>9, <1>9a, <1>13, <2>1 DEF IInv, RegisteredSound, Registered
  <2>. QED  BY <1>3, <1>9a, <1>9b, <1>13, <2>1 DEF IInv, Accounted
<1>19. TypeOK'
  BY <1>1, <1>10, <1>11 DEF IInv, TypeOK, ProgramsKept
<1>20. DoneMeansGone' /\ RecordsSound'
  BY <1>11, <1>13 DEF DoneMeansGone, Up, ProgramsKept
<1>21. MapsSound'
  BY <1>10, <1>12 DEF IInv, MapsSound
<1>22. BlocksSound'
  <2>1. \E c \in Todo' : c.do \in {"adopt", "derive"}
    BY <1>3, <1>8
  <2>. SUFFICES ASSUME NEW b \in Todo'
                PROVE  /\ b.do # "call"
                       /\ b.do = "await" => b.strict \in BOOLEAN
                       /\ b.do \in {"remove", "replace"} => b.name \in DOMAIN programs
                       /\ b.do = "forget" => b.name \notin DOMAIN programs
                       /\ b.do \in {"replace", "add", "install"} => b.name \in DOMAIN pending_configs
    BY <1>10, <1>13, <2>1 DEF BlocksSound
  <2>2. CASE b \in {a, f}
    BY <1>4, <1>9, <2>2
  <2>3. CASE b \in T
    BY <1>3, <2>3 DEF IInv, BlocksSound, FreeBlock
  <2>. QED  BY <1>8, <2>2, <2>3
<1>23. ClosingSound'
  BY <1>13 DEF ClosingSound, Closing
<1>24. StagedSound'
  <2>. SUFFICES ASSUME NEW m \in DOMAIN pending_configs, Awaited(m)
                PROVE  /\ Staged(m) \in DOMAIN prog /\ owner[Staged(m)] = m
                       /\ \A j \in DOMAIN owner : owner[j] = m => j <= Staged(m)
                       /\ ~Registered(Staged(m)) /\ Live(prog'[Staged(m)])
                       /\ m = n \/ Dormant(prog'[Staged(m)])
    BY <1>10, <1>12, <1>13, <1>14, <1>16, <1>17 DEF StagedSound
  <2>1. /\ Staged(m) \in DOMAIN prog /\ owner[Staged(m)] = m
        /\ \A j \in DOMAIN owner : owner[j] = m => j <= Staged(m)
        /\ ~Registered(Staged(m)) /\ Live(prog[Staged(m)])
        /\ Dormant(prog[Staged(m)])
    BY <1>15 DEF IInv, StagedSound
  <2>. QED  BY <1>9a, <1>11, <2>1
<1>25. Accounted' /\ RegisteredSound'
  <2>1. \A m \in DOMAIN programs : programs[m] \in DOMAIN prog
    BY DEF IInv, MapsSound
  <2>. QED  BY <1>3, <1>10, <1>11, <1>12, <1>13, <1>16, <1>17, <2>1 DEF IInv, Accounted, RegisteredSound
<1>27. Exclusive'
  BY <1>10, <1>11, <1>12, <1>18 DEF IInv, Exclusive, Sole
<1>28. Tracked'
  <2>1. \E c \in Todo' : c.do \in {"adopt", "derive"}
    BY <1>3, <1>8
  <2>. QED  BY <1>10, <1>13, <1>14, <2>1 DEF IInv, Tracked
<1>29. ReloadTracked'
  <2>1. (\E b \in Todo' : b.do = "adopt") <=> (\E b \in Todo : b.do = "adopt")
    BY <1>1, <1>3, <1>4, <1>8
  <2>. QED  BY <1>10, <1>14, <2>1 DEF IInv, ReloadTracked
<1>. QED  BY <1>8, <1>19, <1>20, <1>21, <1>22, <1>23, <1>24, <1>25, <1>27, <1>28, <1>29 DEF IInv

\* The staged instance becomes the registered one; what it replaces has ended.
LEMMA InstallInv == IInv /\ DoInstall => IInv'
<1>. SUFFICES ASSUME IInv, DoInstall PROVE IInv'
  OBVIOUS
<1>. DEFINE h == Head(agenda)
            T == SetOf(Tail(agenda))
            n == h.name
            i == Staged(n)
            D == {programs[m] : m \in DOMAIN programs \cap {n}}
<1>1. /\ pc = "exec" /\ agenda # <<>> /\ h.do = "install"
      /\ programs' = With(programs, n, i)
      /\ configs' = With(configs, n, pending_configs[n])
      /\ prog' = [j \in DOMAIN prog |-> IF j \in D THEN CancelIt(prog[j]) ELSE prog[j]]
      /\ Continue(<<>>)
      /\ UNCHANGED <<shared_configs, pending_configs, dag, cron_table, controlVars, owner>>
  BY DEF DoInstall, At
<1>2. NameBlock(h)
  BY <1>1 DEF NameBlock
<1>3. /\ Todo = {h} \cup T
      /\ \A c \in T : /\ ~IdBlock(c) /\ ~FreeBlock(c) /\ c.do # "swap" /\ ~StrictBlock(c)
                      /\ NameBlock(c) => c.name # n
                      /\ c.do # "install"
      /\ \E c \in T : c.do \in {"adopt", "derive"}
      /\ ~Leaving /\ ~Swapping /\ \A j : ~Closing(j)
  BY <1>1, <1>2, NameHead
<1>8. AgendaSound' /\ Todo' = T
  BY <1>1, <1>2, EmptyPlan, NameNext
<1>9. n \in DOMAIN pending_configs /\ Awaited(n) /\ Outgoing(n) /\ Up
  BY <1>1, <1>3 DEF IInv, BlocksSound, Awaited, Outgoing, Named, Up
<1>9a. /\ i \in DOMAIN prog /\ owner[i] = n
       /\ ~Registered(i) /\ Live(prog[i])
  BY <1>9 DEF IInv, StagedSound
<1>9b. i = Staged(n)
  OBVIOUS
<1>9c. n \in DOMAIN programs =>
          /\ programs[n] \in DOMAIN prog /\ owner[programs[n]] = n
          /\ prog[programs[n]].ended /\ programs[n] # i
  BY <1>3, <1>9, <1>9a DEF IInv, RegisteredSound, MapsSound, Registered
<1>9d. \A j : j \in D <=> n \in DOMAIN programs /\ j = programs[n]
  OBVIOUS
<1>. HIDE DEF h, T, n, i, D
<1>10. /\ pending_configs' = pending_configs
       /\ shared_configs' = shared_configs /\ dag' = dag /\ cron_table' = cron_table
       /\ owner' = owner /\ cancel_token' = cancel_token /\ pc' = pc
       /\ cmd' = cmd /\ result' = result /\ served' = served
       /\ DOMAIN programs' = DOMAIN programs \cup {n}
       /\ programs'[n] = i
       /\ \A m \in DOMAIN programs : m # n => programs'[m] = programs[m]
       /\ DOMAIN configs' = DOMAIN configs \cup {n}
       /\ configs'[n] = pending_configs[n]
       /\ \A m \in DOMAIN configs : m # n => configs'[m] = configs[m]
       /\ configs' = [m \in DOMAIN configs' |-> configs'[m]]
  BY <1>1 DEF controlVars, With
<1>11. /\ ProgramsKept
       /\ \A j \in DOMAIN prog :
             /\ Dormant(prog[j]) => Dormant(prog'[j])
             /\ ~prog[j].ended => prog'[j] = prog[j]
             /\ prog[j].ended => prog'[j].ended
  <2>1. /\ prog' = [j \in DOMAIN prog |-> prog'[j]]
        /\ \A j \in DOMAIN prog : prog'[j] = prog[j] \/ prog'[j] = CancelIt(prog[j])
        /\ \A j \in DOMAIN prog : j \notin D => prog'[j] = prog[j]
    BY <1>1
  <2>2. ProgramsKept /\ \A j \in DOMAIN prog : Dormant(prog[j]) => Dormant(prog'[j])
    BY <2>1, CalmFacts DEF IInv, TypeOK
  <2>. QED  BY <1>9c, <1>9d, <2>1, <2>2 DEF ProgramsKept
<1>12. DOMAIN prog' = DOMAIN prog /\ DOMAIN owner = DOMAIN prog
  BY <1>11 DEF ProgramsKept, IInv, TypeOK
<1>12a. \A j \in DOMAIN prog : Live(prog[j]) => Live(prog'[j])
  BY <1>11 DEF Live
<1>13. ~Swapping' /\ ~Leaving' /\ Up' /\ \A j : ~Closing(j)'
  BY <1>1, <1>3, <1>8, <1>10 DEF Swapping, Leaving, Up, Closing
<1>14. \A m : /\ Named({"replace", "add", "install"}, m)' <=>
                     Named({"replace", "add", "install"}, m) /\ m # n
              /\ Named({"add", "install"}, m)' <=> Named({"add", "install"}, m) /\ m # n
              /\ ~Named({"install"}, m)'
              /\ Named({"forget"}, m)' <=> Named({"forget"}, m)
              /\ Named({"remove", "forget"}, m)' <=> Named({"remove", "forget"}, m)
  BY <1>1, <1>3, <1>8 DEF Named, n, NameBlock
<1>15. /\ \A m : Named({"install"}, m) => m = n
       /\ ~Named({"remove", "forget"}, n)
  BY <1>1, <1>3 DEF Named, n, NameBlock
<1>16. \A m : (Awaited(m)' <=> Awaited(m) /\ m # n) /\ (Outgoing(m)' <=> Outgoing(m) /\ m # n)
  BY <1>3, <1>10, <1>13, <1>14 DEF Awaited, Outgoing
<1>17. /\ \A j : Staged(j)' = Staged(j)
       /\ \A j : Registered(j)' <=> (IF owner[j] = n THEN j = i ELSE Registered(j))
  BY <1>10 DEF Registered, Staged
<1>19. TypeOK'
  BY <1>1, <1>9a, <1>10, <1>11, <1>12 DEF IInv, TypeOK, ProgramsKept
<1>20. DoneMeansGone' /\ RecordsSound'
  BY <1>11, <1>13 DEF DoneMeansGone, Up, ProgramsKept
<1>21. MapsSound'
  <2>0. IsFiniteSet(DOMAIN configs) /\ IsFiniteSet(DOMAIN programs)
    BY DEF IInv, MapsSound
  <2>1. IsFiniteSet(DOMAIN configs') /\ IsFiniteSet(DOMAIN programs')
    BY <1>10, <2>0, FS_AddElement
  <2>2. \A m \in DOMAIN programs' : programs'[m] \in DOMAIN prog /\ owner[programs'[m]] = m
    BY <1>9a, <1>10 DEF IInv, MapsSound
  <2>3. \A m \in DOMAIN configs' : \E g \in DOMAIN Gens :
           m \in DOMAIN Gens[g] /\ configs'[m] = Gens[g][m]
    <3>1. PICK g \in DOMAIN Gens : pending_configs = Gens[g]
      BY DEF IInv, MapsSound
    <3>. TAKE m \in DOMAIN configs'
    <3>2. CASE m = n
      BY <1>9, <1>10, <3>1, <3>2
    <3>3. CASE m # n
      BY <1>10, <3>3 DEF IInv, MapsSound
    <3>. QED  BY <3>2, <3>3
  <2>. QED  BY <1>10, <1>12, <2>1, <2>2, <2>3 DEF IInv, MapsSound
<1>22. BlocksSound'
  <2>1. \E c \in Todo' : c.do \in {"adopt", "derive"}
    BY <1>3, <1>8
  <2>. SUFFICES ASSUME NEW b \in T
                PROVE  /\ b.do # "call"
                       /\ b.do = "await" => b.strict \in BOOLEAN
                       /\ b.do \in {"remove", "replace"} => b.name \in DOMAIN programs'
                       /\ b.do = "forget" => b.name \notin DOMAIN programs'
                       /\ b.do \in {"replace", "add", "install"} => b.name \in DOMAIN pending_configs
    BY <1>8, <1>10, <1>13, <2>1 DEF BlocksSound
  <2>2. NameBlock(b) => b.name # n
    BY <1>3
  <2>. QED  BY <1>3, <1>10, <2>2 DEF IInv, BlocksSound, FreeBlock, NameBlock
<1>23. ClosingSound'
  BY <1>13 DEF ClosingSound, Closing
<1>24. StagedSound'
  <2>. SUFFICES ASSUME NEW m \in DOMAIN pending_configs, Awaited(m), m # n
                PROVE  /\ Staged(m) \in DOMAIN prog /\ owner[Staged(m)] = m
                       /\ \A j \in DOMAIN owner : owner[j] = m => j <= Staged(m)
                       /\ ~Registered(Staged(m)) /\ Live(prog'[Staged(m)])
                       /\ Dormant(prog'[Staged(m)])
    BY <1>10, <1>12, <1>13, <1>14, <1>16, <1>17 DEF StagedSound
  <2>1. /\ Staged(m) \in DOMAIN prog /\ owner[Staged(m)] = m
        /\ \A j \in DOMAIN owner : owner[j] = m => j <= Staged(m)
        /\ ~Registered(Staged(m)) /\ Live(prog[Staged(m)])
        /\ Dormant(prog[Staged(m)])
    BY <1>15 DEF IInv, StagedSound
  <2>. QED  BY <1>11, <1>12a, <2>1
<1>25. Accounted'
  <2>. SUFFICES ASSUME NEW j \in DOMAIN prog, ~prog'[j].ended
                PROVE  \/ IF owner[j] = n THEN j = i ELSE Registered(j)
                       \/ /\ Awaited(owner[j]) /\ owner[j] # n
                          /\ owner[j] \in DOMAIN pending_configs /\ j = Staged(owner[j])
    BY <1>10, <1>12, <1>16, <1>17 DEF Accounted
  <2>1. \/ Registered(j)
        \/ Awaited(owner[j]) /\ owner[j] \in DOMAIN pending_configs /\ j = Staged(owner[j])
    BY <1>3, <1>9, <1>11 DEF IInv, Accounted
  <2>2. Registered(j) => owner[j] # n
    BY <1>9c, <1>11 DEF Registered
  <2>. QED  BY <1>9b, <2>1, <2>2
<1>26. RegisteredSound'
  <2>. SUFFICES ASSUME NEW m \in DOMAIN programs'
                PROVE  /\ Live(prog'[programs'[m]]) \/ (Outgoing(m) /\ m # n)
                       /\ Outgoing(m) /\ m # n => prog'[programs'[m]].ended
    BY <1>13, <1>16 DEF RegisteredSound
  <2>1. CASE m = n
    BY <1>9a, <1>10, <1>12a, <2>1
  <2>2. CASE m # n
    <3>1. m \in DOMAIN programs /\ programs'[m] = programs[m]
      BY <1>10, <2>2
    <3>2. /\ programs[m] \in DOMAIN prog
          /\ Live(prog[programs[m]]) \/ Outgoing(m)
          /\ Outgoing(m) => prog[programs[m]].ended
      BY <1>3, <1>9, <3>1 DEF IInv, RegisteredSound, MapsSound
    <3>. QED  BY <1>11, <1>12a, <2>2, <3>1, <3>2
  <2>. QED  BY <2>1, <2>2
<1>27. Exclusive'
  BY <1>10, <1>11, <1>12 DEF IInv, Exclusive
<1>28. Tracked'
  <2>1. \E c \in Todo' : c.do \in {"adopt", "derive"}
    BY <1>3, <1>8
  <2>. QED  BY <1>9, <1>10, <1>14, <2>1 DEF IInv, Tracked
<1>29. ReloadTracked'
  <2>1. (\E b \in Todo' : b.do = "adopt") => (\E b \in Todo : b.do = "adopt")
    BY <1>3, <1>8
  <2>. QED  BY <1>9, <1>10, <1>14, <1>15, <2>1 DEF IInv, ReloadTracked
<1>. QED  BY <1>8, <1>19, <1>20, <1>21, <1>22, <1>23, <1>24, <1>25, <1>26, <1>27, <1>28, <1>29 DEF IInv

\* The block that ends a change of the configuration is the last one.
LEMMA EndHead ==
    ASSUME IInv, agenda # <<>>, EndBlock(Head(agenda))
    PROVE  /\ Todo = {Head(agenda)} /\ SetOf(Tail(agenda)) = {}
           /\ ~Leaving
           /\ \A j : ~Closing(j)
           /\ \A dos, n : Named(dos, n) => Head(agenda).do \in dos
<1>. DEFINE h == Head(agenda)
            T == SetOf(Tail(agenda))
<1>1. Todo = {h} \cup T /\ \A c \in T : Follows(owner, h, c)
  BY HeadFacts DEF IInv
<1>2. T = {}
  BY <1>1 DEF Follows
<1>3. Todo = {h}
  BY <1>1, <1>2
<1>. HIDE DEF h, T
<1>4. EndBlock(h)
  BY DEF h
<1>5. ~Leaving
  BY <1>3, <1>4 DEF IInv, BlocksSound
<1>6. \A j : ~Closing(j)
  BY <1>3, <1>4 DEF Closing, IdBlock, EndBlock
<1>7. \A dos, n : Named(dos, n) => h.do \in dos
  BY <1>3 DEF Named
<1>. QED  BY <1>2, <1>3, <1>5, <1>6, <1>7 DEF h, T

\* The derived state is that of the configurations again.
LEMMA EndInv ==
    ASSUME IInv, pc = "exec", agenda # <<>>, Head(agenda).do \in {"adopt", "derive"},
           Continue(<<>>), IsSeq(dag'.start), IsSeq(dag'.stop),
           shared_configs' = configs, cron_table' = CronTable(configs),
           Buildable(configs) => dag' = Dag(configs),
           UNCHANGED <<programs, configs, pending_configs, controlVars, prog, owner>>
    PROVE  IInv'
<1>1. EndBlock(Head(agenda))
  BY DEF EndBlock
<1>2. /\ Todo = {Head(agenda)} /\ SetOf(Tail(agenda)) = {} /\ ~Leaving
      /\ \A j : ~Closing(j)
      /\ \A dos, n : Named(dos, n) => Head(agenda).do \in dos
  BY <1>1, EndHead
<1>3. AgendaSound' /\ Todo' = {}
  BY <1>2, EmptyPlan, ContinueFacts DEF IInv
<1>4. /\ programs' = programs /\ configs' = configs /\ pending_configs' = pending_configs
      /\ owner' = owner /\ cancel_token' = cancel_token /\ pc' = pc
      /\ cmd' = cmd /\ result' = result /\ served' = served /\ prog' = prog
  BY DEF controlVars
<1>5. ~Swapping /\ \A n : /\ ~Named({"replace", "add", "install"}, n)
                          /\ ~Named({"add", "install"}, n) /\ ~Named({"forget"}, n)
  BY <1>2 DEF Swapping
<1>6. /\ ~Swapping' /\ \A j : ~Closing(j)'
      /\ \A n : /\ ~Named({"replace", "add", "install"}, n)'
                /\ ~Named({"add", "install"}, n)' /\ ~Named({"forget"}, n)'
  BY <1>3 DEF Swapping, Closing, Named
<1>7. Up /\ Up' /\ ~Leaving'
  BY <1>2, <1>4 DEF Up, Leaving
<1>8. \A n : ~Awaited(n) /\ ~Awaited(n)' /\ ~Outgoing(n) /\ ~Outgoing(n)'
  BY <1>2, <1>5, <1>6, <1>7 DEF Awaited, Outgoing
<1>9. \A j : Registered(j)' <=> Registered(j)
  BY <1>4 DEF Registered
<1>10. TypeOK' /\ DoneMeansGone' /\ RecordsSound' /\ Exclusive'
  BY <1>4 DEF IInv, TypeOK, DoneMeansGone, RecordsSound, Exclusive
<1>11. MapsSound'
  BY <1>4 DEF IInv, MapsSound, IsSeq
<1>12. BlocksSound' /\ ClosingSound' /\ ReloadTracked'
  BY <1>3 DEF BlocksSound, ClosingSound, ReloadTracked
<1>13. StagedSound'
  BY <1>8 DEF StagedSound
<1>14. Accounted' /\ RegisteredSound'
  BY <1>2, <1>4, <1>7, <1>8, <1>9 DEF IInv, Accounted, RegisteredSound
<1>15. Tracked'
  BY <1>4, <1>5, <1>7 DEF IInv, Tracked, Agreed
<1>. QED  BY <1>3, <1>10, <1>11, <1>12, <1>13, <1>14, <1>15 DEF IInv

\* A map of configurations has a finite domain.
LEMMA PendingFacts ==
    ASSUME IInv
    PROVE  /\ IsFiniteSet(DOMAIN configs) /\ IsFiniteSet(DOMAIN pending_configs)
           /\ pending_configs = [n \in DOMAIN pending_configs |-> pending_configs[n]]
           /\ \A n \in DOMAIN pending_configs : n \in Int
<1>1. PICK g \in DOMAIN Gens : pending_configs = Gens[g]
  BY DEF IInv, MapsSound
<1>2. /\ IsFiniteSet(DOMAIN Gens[g]) /\ Gens[g] = [n \in DOMAIN Gens[g] |-> Gens[g][n]]
      /\ \A n \in DOMAIN Gens[g] : n \in Int
  BY GensAssumption
<1>. QED  BY <1>1, <1>2 DEF IInv, MapsSound

\* A reload that is through has made the new configuration the active one.
LEMMA AdoptInv == IInv /\ DoAdopt => IInv'
<1>. SUFFICES ASSUME IInv, DoAdopt PROVE IInv'
  OBVIOUS
<1>1. /\ pc = "exec" /\ agenda # <<>> /\ Head(agenda).do = "adopt" /\ Continue(<<>>)
      /\ dag' = Dag(pending_configs) /\ cron_table' = CronTable(configs)
      /\ shared_configs' = configs
      /\ UNCHANGED <<programs, configs, pending_configs, controlVars, prog, owner>>
  BY DEF DoAdopt, At
<1>2. EndBlock(Head(agenda))
  BY <1>1 DEF EndBlock
<1>3. /\ Todo = {Head(agenda)}
      /\ \A dos, n : Named(dos, n) => Head(agenda).do \in dos
  BY <1>1, <1>2, EndHead
<1>4. \A n : ~Named({"remove", "forget"}, n) /\ ~Named({"replace", "add", "install"}, n)
  BY <1>1, <1>3
<1>5. \A n \in DOMAIN configs \cup DOMAIN pending_configs :
         n \in DOMAIN configs \cap DOMAIN pending_configs /\ configs[n] = pending_configs[n]
  BY <1>1, <1>3, <1>4 DEF IInv, ReloadTracked
<1>6. DOMAIN configs = DOMAIN pending_configs
  BY <1>5
<1>7. /\ pending_configs = [n \in DOMAIN pending_configs |-> pending_configs[n]]
      /\ configs = [n \in DOMAIN configs |-> configs[n]]
  BY PendingFacts DEF IInv, MapsSound
<1>8. configs = pending_configs
  BY <1>5, <1>6, <1>7
<1>9. IsSeq(dag'.start) /\ IsSeq(dag'.stop)
  BY <1>1, PendingFacts, DagFacts
<1>. QED  BY <1>1, <1>8, <1>9, EndInv

\* Recomputing the start order from the adopted configuration keeps the invariant.
LEMMA DeriveInv == IInv /\ DoDerive => IInv'
<1>. SUFFICES ASSUME IInv, DoDerive PROVE IInv'
  OBVIOUS
<1>1. /\ pc = "exec" /\ agenda # <<>> /\ Head(agenda).do = "derive" /\ Continue(<<>>)
      /\ dag' = (IF Buildable(configs) THEN Dag(configs) ELSE dag)
      /\ cron_table' = CronTable(configs)
      /\ shared_configs' = configs
      /\ UNCHANGED <<programs, configs, pending_configs, controlVars, prog, owner>>
  BY DEF DoDerive, At
<1>2. /\ IsSeq(dag.start) /\ IsSeq(dag.stop)
      /\ IsSeq(Dag(configs).start) /\ IsSeq(Dag(configs).stop)
  BY PendingFacts, DagFacts DEF IInv, MapsSound, IsSeq
<1>3. IsSeq(dag'.start) /\ IsSeq(dag'.stop)
  BY <1>1, <1>2
<1>. QED  BY <1>1, <1>3, EndInv

\* Once all is down the staged instances are the registered ones.
LEMMA SwapInv == IInv /\ DoSwap => IInv'
<1>. SUFFICES ASSUME IInv, DoSwap PROVE IInv'
  OBVIOUS
<1>1. /\ pc = "exec" /\ agenda # <<>> /\ Head(agenda).do = "swap"
      /\ programs' = [n \in DOMAIN pending_configs |-> Staged(n)]
      /\ configs' = pending_configs /\ shared_configs' = pending_configs
      /\ dag' = Dag(pending_configs) /\ cron_table' = CronTable(pending_configs)
      /\ Continue(StartAllPlan(dag'))
      /\ UNCHANGED <<pending_configs, controlVars, prog, owner>>
  BY DEF DoSwap, At
<1>2. EndBlock(Head(agenda))
  BY <1>1 DEF EndBlock
<1>3. /\ Todo = {Head(agenda)} /\ SetOf(Tail(agenda)) = {} /\ ~Leaving
      /\ \A j : ~Closing(j)
      /\ \A dos, n : Named(dos, n) => Head(agenda).do \in dos
  BY <1>1, <1>2, EndHead
<1>4. IsSeq(dag'.start) /\ IsSeq(dag'.stop)
  BY <1>1, PendingFacts, DagFacts
<1>5. PICK p : p = StartAllPlan(dag')
  OBVIOUS
<1>6. IsSeq(p) /\ Ordered(owner, p) /\ \A b \in SetOf(p) : b.do = "start_layer"
  BY <1>4, <1>5, LayerPlans
<1>7. AgendaSound' /\ Todo' = SetOf(p)
  BY <1>1, <1>3, <1>5, <1>6, ContinueFacts DEF IInv
<1>8. /\ pending_configs' = pending_configs /\ DOMAIN programs' = DOMAIN pending_configs
      /\ \A n \in DOMAIN pending_configs : programs'[n] = Staged(n)
      /\ owner' = owner /\ cancel_token' = cancel_token /\ pc' = pc
      /\ cmd' = cmd /\ result' = result /\ served' = served /\ prog' = prog
  BY <1>1 DEF controlVars
<1>9. /\ Swapping /\ \A n : ~Named({"install"}, n)
  BY <1>1, <1>3 DEF Swapping
<1>10. /\ ~Swapping' /\ \A j : ~Closing(j)'
       /\ \A n : ~Named({"replace", "add", "install"}, n)' /\ ~Named({"add", "install"}, n)'
  BY <1>6, <1>7 DEF Swapping, Closing, Named, IdBlock
<1>11. Up /\ Up' /\ ~Leaving'
  BY <1>1, <1>3, <1>8 DEF Up, Leaving
<1>12. \A n \in DOMAIN pending_configs :
          /\ Staged(n) \in DOMAIN prog /\ owner[Staged(n)] = n /\ Live(prog[Staged(n)])
  BY <1>9 DEF IInv, StagedSound, Awaited
<1>13. \A n : ~Awaited(n)' /\ ~Outgoing(n)'
  BY <1>10, <1>11 DEF Awaited, Outgoing
<1>14. TypeOK' /\ DoneMeansGone' /\ RecordsSound' /\ Exclusive'
  BY <1>1, <1>8, <1>12 DEF IInv, TypeOK, DoneMeansGone, RecordsSound, Exclusive
<1>15. MapsSound'
  <2>1. PICK g \in DOMAIN Gens : pending_configs = Gens[g]
    BY DEF IInv, MapsSound
  <2>2. owner' \in Seq(Int)
    BY <1>8 DEF IInv, MapsSound
  <2>3. /\ IsFiniteSet(DOMAIN programs') /\ IsFiniteSet(DOMAIN configs')
        /\ configs' = [n \in DOMAIN configs' |-> configs'[n]]
    BY <1>1, <1>8, PendingFacts
  <2>4. \A n \in DOMAIN programs' : programs'[n] \in DOMAIN prog' /\ owner'[programs'[n]] = n
    BY <1>8, <1>12
  <2>. QED  BY <1>1, <1>4, <1>8, <2>1, <2>2, <2>3, <2>4 DEF MapsSound, IsSeq
<1>16. BlocksSound' /\ ClosingSound' /\ ReloadTracked'
  BY <1>6, <1>7 DEF BlocksSound, ClosingSound, ReloadTracked, IdBlock, NameBlock, EndBlock
<1>17. StagedSound'
  BY <1>13 DEF StagedSound
<1>18. Accounted'
  <2>. SUFFICES ASSUME NEW j \in DOMAIN prog, ~prog[j].ended
                PROVE  owner[j] \in DOMAIN programs' /\ programs'[owner[j]] = j
    BY <1>8 DEF Accounted, Registered
  <2>1. ~Registered(j)
    BY <1>3, <1>9, <1>11 DEF IInv, RegisteredSound, Registered, Outgoing
  <2>2. owner[j] \in DOMAIN pending_configs /\ j = Staged(owner[j])
    BY <1>3, <1>11, <2>1 DEF IInv, Accounted
  <2>. QED  BY <1>8, <2>2
<1>19. RegisteredSound'
  BY <1>8, <1>12, <1>13 DEF RegisteredSound
<1>20. Tracked'
  BY <1>1, <1>8 DEF Tracked, Agreed
<1>. QED  BY <1>7, <1>14, <1>15, <1>16, <1>17, <1>18, <1>19, <1>20 DEF IInv

-----------------------------------------------------------------------------
(* A branch of the select loop is taken.                                   *)

\* Between two commands every instance that has not ended is registered.
LEMMA SelectFacts ==
    ASSUME IInv, pc = "select"
    PROVE  /\ agenda = <<>> /\ Todo = {} /\ Up
           /\ \A j \in DOMAIN prog : prog[j].ended \/ Registered(j)
           /\ \A n \in DOMAIN programs : Live(prog[programs[n]])
           /\ DOMAIN programs = DOMAIN configs /\ Agreed
<1>1. agenda = <<>>
  BY DEF IInv, TypeOK
<1>2. Todo = {}
  BY <1>1, EmptyPlan DEF Todo
<1>3. Up /\ ~Leaving /\ ~Swapping /\ \A j : ~Closing(j)
  BY <1>2 DEF Up, Leaving, Swapping, Closing
<1>4. \A n : ~Awaited(n) /\ ~Outgoing(n) /\ ~Named({"forget"}, n)
  BY <1>2, <1>3 DEF Awaited, Outgoing, Named
<1>5. \A j \in DOMAIN prog : prog[j].ended \/ Registered(j)
  BY <1>3, <1>4 DEF IInv, Accounted
<1>6. \A n \in DOMAIN programs : Live(prog[programs[n]])
  BY <1>3, <1>4 DEF IInv, RegisteredSound
<1>7. DOMAIN programs = DOMAIN configs /\ Agreed
  BY <1>2, <1>3, <1>4 DEF IInv, Tracked
<1>. QED  BY <1>1, <1>2, <1>3, <1>5, <1>6, <1>7

\* A handler begins: it has staged one instance for each name in S, and its
\* plan tells what becomes of them and of the registered ones.
LEMMA BeginInv ==
    ASSUME IInv, pc = "select", pc' = "exec",
           UNCHANGED <<programs, configs, shared_configs, dag, cron_table>>,
           \E g \in DOMAIN Gens : pending_configs' = Gens[g],
           cancel_token' \in BOOLEAN, served' \in 0 .. MaxCommands,
           cmd'.op \in CommandOps \cup {"None", "Cron", "Cancel"},
           result' \in {"none", "ok", "err"},
           NEW S, Extended(S), S \subseteq DOMAIN pending_configs',
           AgendaSound', BlocksSound', ReloadTracked',
           \A j : Closing(j)' => /\ \E n \in DOMAIN programs : j = programs[n]
                                 /\ Swapping' \/ Leaving',
           Swapping' \/ Leaving' => \A n \in DOMAIN programs : Closing(programs[n])',
           \A n : ~Named({"forget", "install"}, n)',
           \A n : Named({"add"}, n)' => n \notin DOMAIN programs,
           \A n \in DOMAIN pending_configs' : Awaited(n)' <=> n \in S
    PROVE  IInv'
<1>1. /\ \A j \in DOMAIN prog : prog[j].ended \/ Registered(j)
      /\ \A n \in DOMAIN programs : Live(prog[programs[n]])
      /\ DOMAIN programs = DOMAIN configs /\ Agreed
  BY SelectFacts
<1>2. /\ programs' = programs /\ configs' = configs
      /\ shared_configs' = shared_configs /\ dag' = dag /\ cron_table' = cron_table
  OBVIOUS
<1>3. /\ prog' \in Seq(ProgramType) /\ Len(prog') <= MaxInstances
      /\ owner' \in Seq(Int) /\ DOMAIN owner' = DOMAIN prog'
      /\ DOMAIN prog \subseteq DOMAIN prog'
      /\ \A j \in DOMAIN prog : prog'[j] = prog[j] /\ owner'[j] = owner[j]
      /\ \A j \in DOMAIN prog' \ DOMAIN prog : prog'[j] = Fresh /\ owner'[j] \in S
  BY DEF Extended
<1>4. \A n \in S :
         /\ Staged(n)' \in DOMAIN prog' \ DOMAIN prog
         /\ owner'[Staged(n)'] = n
         /\ \A j \in DOMAIN owner' : owner'[j] = n => j <= Staged(n)'
         /\ \A j \in DOMAIN prog' \ DOMAIN prog : owner'[j] = n => j = Staged(n)'
  BY DEF Extended
<1>5. \A n \in DOMAIN programs : programs[n] \in DOMAIN prog /\ owner[programs[n]] = n
  BY DEF IInv, MapsSound
<1>6. /\ \A j \in DOMAIN prog : Registered(j)' <=> Registered(j)
      /\ \A j \in DOMAIN prog' \ DOMAIN prog : ~Registered(j)'
  BY <1>2, <1>3, <1>5 DEF Registered
<1>7. Up'
  BY DEF Up
<1>8. \A n \in DOMAIN programs : Outgoing(n)' <=> Swapping' \/ Leaving'
  <2>1. \A n : Named({"add", "install"}, n)' =>
               Named({"add"}, n)' \/ Named({"forget", "install"}, n)'
    BY DEF Named
  <2>. QED  BY <2>1 DEF Outgoing
<1>9. TypeOK'
  BY <1>2, <1>3, <1>5 DEF TypeOK
<1>10. DoneMeansGone'
  BY DEF DoneMeansGone
<1>11. RecordsSound'
  BY <1>3, FreshFacts DEF IInv, RecordsSound
<1>12. MapsSound'
  <2>1. \A n \in DOMAIN programs' : programs'[n] \in DOMAIN prog' /\ owner'[programs'[n]] = n
    BY <1>2, <1>3, <1>5
  <2>. QED  BY <1>2, <1>3, <2>1 DEF IInv, MapsSound
<1>13. ClosingSound'
  <2>. SUFFICES ASSUME NEW b \in Todo', IdBlock(b)
                PROVE  /\ b.id \in DOMAIN prog'
                       /\ owner'[b.id] \in DOMAIN programs' /\ programs'[owner'[b.id]] = b.id
                       /\ Outgoing(owner[b.id])'
    BY DEF ClosingSound, Registered
  <2>1. Closing(b.id)'
    BY DEF Closing
  <2>2. PICK n \in DOMAIN programs : b.id = programs[n]
    BY <2>1
  <2>3. b.id \in DOMAIN prog' /\ owner'[b.id] = n
    BY <1>3, <1>5, <2>2
  <2>4. Outgoing(n)'
    BY <1>8, <2>1
  <2>5. (Named({"add", "install"}, n) \/ Swapping \/ Leaving)'
    BY <2>4 DEF Outgoing
  <2>6. Swapping' \/ Leaving'
    BY <2>1
  <2>7. Outgoing(owner[b.id])'
    BY <2>6 DEF Outgoing
  <2>. QED  BY <1>2, <2>2, <2>3, <2>7
<1>14. StagedSound'
  <2>. SUFFICES ASSUME NEW n \in DOMAIN pending_configs', n \in S
                PROVE  /\ Staged(n)' \in DOMAIN prog' /\ owner'[Staged(n)'] = n
                       /\ \A j \in DOMAIN owner' : owner'[j] = n => j <= Staged(n)'
                       /\ ~Registered(Staged(n))' /\ ~Closing(Staged(n))'
                       /\ Live(prog'[Staged(n)']) /\ Dormant(prog'[Staged(n)'])
    BY DEF StagedSound
  <2>1. PICK i : i = Staged(n)'
    OBVIOUS
  <2>2. i \in DOMAIN prog' \ DOMAIN prog /\ owner'[i] = n
    BY <1>4, <2>1
  <2>3. ~Registered(i)' /\ ~Closing(i)'
    BY <1>5, <1>6, <2>2
  <2>4. ~Registered(Staged(n))' /\ ~Closing(Staged(n))'
    BY <2>1, <2>3 DEF Registered, Closing
  <2>5. Live(prog'[i]) /\ Dormant(prog'[i])
    BY <1>3, <2>2, FreshFacts
  <2>. QED  BY <1>4, <2>1, <2>2, <2>4, <2>5
<1>15. Accounted'
  <2>. SUFFICES ASSUME NEW j \in DOMAIN prog'
                PROVE  (\/ prog[j].ended \/ Registered(j)
                        \/ /\ Awaited(owner[j]) /\ owner[j] \in DOMAIN pending_configs
                           /\ j = Staged(owner[j]))'
    BY DEF Accounted
  <2>1. CASE j \in DOMAIN prog
    BY <1>1, <1>3, <1>6, <2>1
  <2>2. CASE j \notin DOMAIN prog
    <3>1. PICK n : n = owner'[j]
      OBVIOUS
    <3>2. n \in S /\ j = Staged(n)'
      BY <1>3, <1>4, <2>2, <3>1
    <3>3. Awaited(n)' /\ n \in DOMAIN pending_configs'
      BY <3>2
    <3>. QED  BY <3>1, <3>2, <3>3 DEF Awaited, Named, Staged
  <2>. QED  BY <2>1, <2>2
<1>16. RegisteredSound'
  <2>. SUFFICES ASSUME NEW n \in DOMAIN programs
                PROVE  /\ Live(prog'[programs[n]])
                       /\ Outgoing(n)' => Closing(programs[n])'
    BY <1>2 DEF RegisteredSound, Closing
  <2>. QED  BY <1>1, <1>3, <1>5, <1>8
<1>17. Exclusive'
  BY <1>3, FreshFacts DEF IInv, Exclusive
<1>18. Tracked'
  BY <1>1, <1>2 DEF Tracked, Agreed
<1>. QED  BY <1>9, <1>10, <1>11, <1>12, <1>13, <1>14, <1>15, <1>16, <1>17, <1>18 DEF IInv

\* Taking a command off the channel: what the next command and agenda are.
LEMMA TakeFacts ==
    ASSUME IInv, NEW op, NEW c \in Received(op), NEW plan, NEW res \in {"ok", "err"},
           TakeCommand(c, plan, res)
    PROVE  /\ pc = "select" /\ pc' = "exec" /\ agenda' = plan
           /\ cmd'.op = op /\ op \in CommandOps /\ c \in Commands
           /\ result' \in {"none", "ok", "err"}
           /\ served' \in 0 .. MaxCommands /\ cancel_token' \in BOOLEAN
<1>1. c \in Commands /\ c.op = op /\ pc = "select" /\ served < MaxCommands
  BY DEF Received
<1>2. c.op \in CommandOps
  BY <1>1, CommandsAssumption
<1>3. served \in 0 .. MaxCommands /\ MaxCommands \in Nat /\ cancel_token \in BOOLEAN
  BY ManagerBounds DEF IInv, TypeOK
<1>4. served + 1 \in 0 .. MaxCommands
  BY <1>1, <1>3
<1>. QED  BY <1>1, <1>2, <1>3, <1>4 DEF TakeCommand, Begin

\* No new instance is the extension by no program.
LEMMA SameExtended ==
    ASSUME IInv, UNCHANGED <<prog, owner>>
    PROVE  Extended({})
BY DEF IInv, TypeOK, MapsSound, Extended

\* A handler that only commands programs, or one that is refused.
LEMMA FreeBegin ==
    ASSUME IInv, pc = "select", pc' = "exec",
           UNCHANGED <<programs, configs, shared_configs, dag, cron_table, prog, owner>>,
           \E g \in DOMAIN Gens : pending_configs' = Gens[g],
           cancel_token' \in BOOLEAN, served' \in 0 .. MaxCommands,
           cmd'.op \in (CommandOps \cup {"Cron"}) \ {"Shutdown", "Cancel"},
           result' \in {"none", "ok", "err"},
           NEW plan, agenda' = plan, IsSeq(plan), Ordered(owner, plan),
           \A b \in SetOf(plan) :
               /\ FreeBlock(b)
               /\ b.do = "call" => b.name \in DOMAIN programs /\ b.op \in Ops \ {"Shutdown"}
    PROVE  IInv'
<1>1. Extended({})
  BY SameExtended
<1>2. Todo' = SetOf(plan)
  BY DEF Todo
<1>3. AgendaSound'
  BY <1>2 DEF AgendaSound, IsSeq
<1>4. \A b \in Todo' : ~NameBlock(b) /\ ~IdBlock(b) /\ ~EndBlock(b) /\ b.do # "await"
  BY <1>2 DEF FreeBlock, NameBlock, IdBlock, EndBlock
<1>5. BlocksSound'
  BY <1>2, <1>4 DEF BlocksSound, NameBlock
<1>6. ~Swapping' /\ ~Leaving' /\ \A j : ~Closing(j)'
  BY <1>4 DEF Swapping, Leaving, Closing, EndBlock
<1>7. \A n : /\ ~Named({"forget", "install"}, n)' /\ ~Named({"add"}, n)'
             /\ ~Named({"replace", "add", "install"}, n)'
  BY <1>4 DEF Named, NameBlock
<1>8. \A n : ~Awaited(n)'
  BY <1>6, <1>7 DEF Awaited
<1>9. ReloadTracked'
  BY <1>4 DEF ReloadTracked, EndBlock
<1>. QED  BY <1>1, <1>3, <1>5, <1>6, <1>7, <1>8, <1>9, BeginInv

\* The targets of a command are registered programs.
LEMMA TargetFacts ==
    ASSUME IInv, pc = "select", NEW x, NEW t \in FindMatch(x) \cup GroupTargets(x)
    PROVE  IsSeq(t) /\ SetOf(t) \subseteq DOMAIN programs
<1>1. DOMAIN programs = DOMAIN configs /\ IsFiniteSet(DOMAIN configs)
  BY SelectFacts DEF IInv, MapsSound
<1>2. Members(configs, x) \subseteq DOMAIN configs
  BY DEF Members
<1>3. IsFiniteSet(Members(configs, x))
  BY <1>1, <1>2, FS_Subset
<1>4. CASE x \in DOMAIN programs /\ t = <<x>>
  <2>1. IsSeq(<<x>>) /\ SetOf(<<x>>) = {x}
    BY ShortPlans
  <2>2. IsSeq(t) /\ SetOf(t) = {x}
    BY <1>4, <2>1
  <2>. QED  BY <1>4, <2>2
<1>5. CASE t \in Orders(Members(configs, x))
  BY <1>1, <1>2, <1>3, <1>5, OrdersList DEF Lists
<1>6. \A y \in Sorted(Members(configs, x)) : y \in Orders(Members(configs, x))
  BY DEF Sorted
<1>7. t \in FindMatch(x) => (x \in DOMAIN programs /\ t = <<x>>) \/ t \in Orders(Members(configs, x))
  BY <1>6 DEF FindMatch
<1>8. t \in GroupTargets(x) => t \in FindMatch(x) \/ t \in Orders(Members(configs, x))
  BY DEF GroupTargets
<1>. QED  BY <1>4, <1>5, <1>7, <1>8

\* The pending configuration is one of the files.
LEMMA PendingIsFile == IInv => \E g \in DOMAIN Gens : pending_configs = Gens[g]
BY DEF IInv, MapsSound

\* A command that only starts, stops or calls registered programs keeps the invariant.
LEMMA FreeCommand ==
    ASSUME IInv, NEW op \in CommandOps \ {"Shutdown"}, NEW c \in Received(op), NEW plan,
           NEW res \in {"ok", "err"}, TakeCommand(c, plan, res),
           UNCHANGED <<registryVars, prog, owner>>, IsSeq(plan), Ordered(owner, plan),
           \A b \in SetOf(plan) :
               /\ FreeBlock(b)
               /\ b.do = "call" => b.name \in DOMAIN programs /\ b.op \in Ops \ {"Shutdown"}
    PROVE  IInv'
<1>1. /\ pc = "select" /\ pc' = "exec" /\ agenda' = plan
      /\ cmd'.op = op /\ result' \in {"none", "ok", "err"}
      /\ served' \in 0 .. MaxCommands /\ cancel_token' \in BOOLEAN
  BY TakeFacts
<1>2. /\ UNCHANGED <<programs, configs, shared_configs, dag, cron_table, prog, owner>>
      /\ pending_configs' = pending_configs
  BY DEF registryVars
<1>3. \E g \in DOMAIN Gens : pending_configs' = Gens[g]
  BY <1>2, PendingIsFile
<1>4. op # "Cancel"
  BY DEF CommandOps
<1>. QED  BY <1>1, <1>2, <1>3, <1>4, FreeBegin

\* start, stop, restart and signal on programs.
LEMMA OnProgramsInv ==
    ASSUME IInv, NEW op \in CommandOps \ {"Shutdown"}, NEW verb \in Ops \ {"Shutdown"},
           NEW bw \in BOOLEAN, OnPrograms(op, verb, bw)
    PROVE  IInv'
<1>0. PICK c \in Received(op) : \E t \in FindMatch(c.arg) :
         /\ TakeCommand(c, CallPlan(IF bw THEN Backwards(t) ELSE t, verb),
                        IF t = <<>> THEN "err" ELSE "ok")
         /\ UNCHANGED <<registryVars, prog, owner>>
  BY DEF OnPrograms
<1>1. PICK t \in FindMatch(c.arg) :
         /\ TakeCommand(c, CallPlan(IF bw THEN Backwards(t) ELSE t, verb),
                        IF t = <<>> THEN "err" ELSE "ok")
         /\ UNCHANGED <<registryVars, prog, owner>>
  BY <1>0
<1>2. pc = "select"
  BY DEF Received
<1>3. IsSeq(t) /\ SetOf(t) \subseteq DOMAIN programs
  BY <1>2, TargetFacts
<1>4. PICK u : u = IF bw THEN Backwards(t) ELSE t
  OBVIOUS
<1>5. IsSeq(u) /\ SetOf(u) \subseteq DOMAIN programs
  BY <1>3, <1>4, BackwardsFacts
<1>6. PICK p : p = CallPlan(u, verb)
  OBVIOUS
<1>7. /\ IsSeq(p) /\ Ordered(owner, p)
      /\ \A b \in SetOf(p) : b.do = "call" /\ b.name \in SetOf(u) /\ b.op = verb
  BY <1>5, <1>6, CallPlans
<1>8. \A b \in SetOf(p) : FreeBlock(b) /\ b.name \in DOMAIN programs /\ b.op \in Ops \ {"Shutdown"}
  BY <1>5, <1>7 DEF FreeBlock
<1>9. PICK res \in {"ok", "err"} : res = IF t = <<>> THEN "err" ELSE "ok"
  OBVIOUS
<1>10. TakeCommand(c, p, res)
  BY <1>1, <1>4, <1>6, <1>9
<1>. QED  BY <1>1, <1>7, <1>8, <1>10, FreeCommand

\* The same on groups; a restart is a stop and a start.
LEMMA OnGroupInv ==
    ASSUME IInv, StartGroup \/ StopGroup \/ RestartGroup
    PROVE  IInv'
<1>1. ASSUME NEW op \in CommandOps \ {"Shutdown"}, NEW c \in Received(op), NEW p, OnGroup(c, p),
             IsSeq(p), Ordered(owner, p),
             \A b \in SetOf(p) : /\ b.do = "call" /\ b.name \in DOMAIN programs
                                 /\ b.op \in {"Start", "Stop"}
      PROVE  IInv'
  <2>1. PICK res \in {"ok", "err"} : res = IF p = <<>> THEN "err" ELSE "ok"
    OBVIOUS
  <2>2. TakeCommand(c, p, res) /\ UNCHANGED <<registryVars, prog, owner>>
    BY <1>1, <2>1 DEF OnGroup
  <2>3. \A b \in SetOf(p) : FreeBlock(b) /\ b.name \in DOMAIN programs /\ b.op \in Ops \ {"Shutdown"}
    BY <1>1 DEF FreeBlock, Ops
  <2>. QED  BY <1>1, <2>2, <2>3, FreeCommand
<1>2. ASSUME NEW op \in {"Start", "Stop"}, NEW t, IsSeq(t), SetOf(t) \subseteq DOMAIN programs
      PROVE  /\ IsSeq(CallPlan(t, op)) /\ Ordered(owner, CallPlan(t, op))
             /\ \A b \in SetOf(CallPlan(t, op)) : /\ b.do = "call" /\ b.name \in DOMAIN programs
                                                  /\ b.op \in {"Start", "Stop"}
  <2>1. PICK p : p = CallPlan(t, op)
    OBVIOUS
  <2>2. /\ IsSeq(p) /\ Ordered(owner, p)
        /\ \A b \in SetOf(p) : b.do = "call" /\ b.name \in SetOf(t) /\ b.op = op
    BY <1>2, <2>1, CallPlans
  <2>3. \A b \in SetOf(p) : b.name \in DOMAIN programs
    BY <1>2, <2>2
  <2>. QED  BY <2>1, <2>2, <2>3
<1>3. pc = "select"
  BY DEF StartGroup, StopGroup, RestartGroup, Received
<1>4. ASSUME NEW x, NEW t \in GroupTargets(x)
      PROVE  /\ IsSeq(t) /\ SetOf(t) \subseteq DOMAIN programs
             /\ IsSeq(Backwards(t)) /\ SetOf(Backwards(t)) \subseteq DOMAIN programs
  <2>1. IsSeq(t) /\ SetOf(t) \subseteq DOMAIN programs
    BY <1>3, <1>4, TargetFacts
  <2>. QED  BY <2>1, BackwardsFacts
<1>5. /\ "StartGroup" \in CommandOps \ {"Shutdown"} /\ "StopGroup" \in CommandOps \ {"Shutdown"}
      /\ "RestartGroup" \in CommandOps \ {"Shutdown"}
  BY DEF CommandOps
<1>6. CASE StartGroup
  <2>0. PICK c \in Received("StartGroup") : \E t \in GroupTargets(c.arg) :
           OnGroup(c, CallPlan(t, "Start"))
    BY <1>6 DEF StartGroup
  <2>1. PICK t \in GroupTargets(c.arg) : OnGroup(c, CallPlan(t, "Start"))
    BY <2>0
  <2>2. PICK p : p = CallPlan(t, "Start")
    OBVIOUS
  <2>3. /\ IsSeq(p) /\ Ordered(owner, p)
        /\ \A b \in SetOf(p) : /\ b.do = "call" /\ b.name \in DOMAIN programs
                               /\ b.op \in {"Start", "Stop"}
    BY <1>2, <1>4, <2>2
  <2>. QED  BY <1>1, <1>5, <2>1, <2>2, <2>3
<1>7. CASE StopGroup
  <2>0. PICK c \in Received("StopGroup") : \E t \in GroupTargets(c.arg) :
           OnGroup(c, CallPlan(Backwards(t), "Stop"))
    BY <1>7 DEF StopGroup
  <2>1. PICK t \in GroupTargets(c.arg) : OnGroup(c, CallPlan(Backwards(t), "Stop"))
    BY <2>0
  <2>2. PICK p : p = CallPlan(Backwards(t), "Stop")
    OBVIOUS
  <2>3. /\ IsSeq(p) /\ Ordered(owner, p)
        /\ \A b \in SetOf(p) : /\ b.do = "call" /\ b.name \in DOMAIN programs
                               /\ b.op \in {"Start", "Stop"}
    BY <1>2, <1>4, <2>2
  <2>. QED  BY <1>1, <1>5, <2>1, <2>2, <2>3
<1>8. CASE RestartGroup
  <2>0. PICK c \in Received("RestartGroup") : \E t, u \in GroupTargets(c.arg) :
           OnGroup(c, CallPlan(Backwards(t), "Stop") \o CallPlan(u, "Start"))
    BY <1>8 DEF RestartGroup
  <2>1. PICK t \in GroupTargets(c.arg), u \in GroupTargets(c.arg) :
           OnGroup(c, CallPlan(Backwards(t), "Stop") \o CallPlan(u, "Start"))
    BY <2>0
  <2>2. PICK p : p = CallPlan(Backwards(t), "Stop")
    OBVIOUS
  <2>3. PICK q : q = CallPlan(u, "Start")
    OBVIOUS
  <2>4. /\ IsSeq(p)
        /\ \A b \in SetOf(p) : /\ b.do = "call" /\ b.name \in DOMAIN programs
                               /\ b.op \in {"Start", "Stop"}
    BY <1>2, <1>4, <2>2
  <2>5. /\ IsSeq(q)
        /\ \A b \in SetOf(q) : /\ b.do = "call" /\ b.name \in DOMAIN programs
                               /\ b.op \in {"Start", "Stop"}
    BY <1>2, <1>4, <2>3
  <2>6. PICK r : r = p \o q
    OBVIOUS
  <2>7. IsSeq(r) /\ SetOf(r) = SetOf(p) \cup SetOf(q)
    BY <2>4, <2>5, <2>6, JoinFacts
  <2>8. \A b \in SetOf(r) : /\ b.do = "call" /\ b.name \in DOMAIN programs
                            /\ b.op \in {"Start", "Stop"}
    BY <2>4, <2>5, <2>7
  <2>9. Ordered(owner, r)
    BY <2>8, FreeOrdered DEF FreeBlock
  <2>. QED  BY <1>1, <1>5, <2>1, <2>2, <2>3, <2>6, <2>7, <2>8, <2>9
<1>. QED  BY <1>6, <1>7, <1>8

\* start_all and stop_all go through the layers.
LEMMA BulkInv ==
    ASSUME IInv, StartAll \/ StopAll
    PROVE  IInv'
<1>1. UNCHANGED <<registryVars, prog, owner>>
  BY DEF StartAll, StopAll
<1>2. IsSeq(dag.start) /\ IsSeq(dag.stop)
  BY DEF IInv, MapsSound, IsSeq
<1>3. PICK op, c, p :
         /\ op \in {"StartAll", "StopAll"} /\ c \in Received(op) /\ TakeCommand(c, p, "ok")
         /\ p = StartAllPlan(dag) \/ p = StopAllPlan(dag)
  BY DEF StartAll, StopAll
<1>4. /\ IsSeq(p) /\ Ordered(owner, p)
      /\ \A b \in SetOf(p) : b.do \in {"start_layer", "stop_layer"}
  BY <1>2, <1>3, LayerPlans
<1>5. \A b \in SetOf(p) : FreeBlock(b) /\ b.do # "call"
  BY <1>4 DEF FreeBlock
<1>6. op \in CommandOps \ {"Shutdown"}
  BY <1>3 DEF CommandOps
<1>. QED  BY <1>1, <1>3, <1>4, <1>5, <1>6, FreeCommand

\* The jobs that are due, in some order.
LEMMA CronDueInv == IInv /\ CronDue => IInv'
<1>. SUFFICES ASSUME IInv, CronDue PROVE IInv'
  OBVIOUS
<1>1. /\ pc = "select" /\ served < MaxCommands /\ served' = served + 1
      /\ UNCHANGED <<registryVars, cancel_token, prog, owner>>
  BY DEF CronDue
<1>2. PICK due : /\ due \in SUBSET cron_table
                 /\ \E s \in Orders(due) :
                       Begin([op |-> "Cron", arg |-> 0], Each(CronJob, s), "ok")
  BY DEF CronDue
<1>3. PICK s : /\ s \in Orders(due)
               /\ Begin([op |-> "Cron", arg |-> 0], Each(CronJob, s), "ok")
  BY <1>2
<1>4. IsFiniteSet(due)
  <2>1. cron_table = CronTable(configs) /\ IsFiniteSet(DOMAIN configs)
    BY <1>1, SelectFacts, PendingFacts DEF Agreed
  <2>. DEFINE f == [m \in {m \in DOMAIN configs : configs[m].cron} |-> <<m, "start">>]
              g == [m \in {m \in DOMAIN configs : configs[m].cron_stop} |-> <<m, "stop">>]
  <2>2. IsFiniteSet(DOMAIN f) /\ IsFiniteSet(DOMAIN g)
    BY <2>1, FS_Subset
  <2>3. IsFiniteSet({f[x] : x \in DOMAIN f}) /\ IsFiniteSet({g[x] : x \in DOMAIN g})
    BY <2>2, ImageFinite
  <2>4. CronTable(configs) = {f[x] : x \in DOMAIN f} \cup {g[x] : x \in DOMAIN g}
    BY DEF CronTable
  <2>. HIDE DEF f, g
  <2>5. PICK F, G : F = {f[x] : x \in DOMAIN f} /\ G = {g[x] : x \in DOMAIN g}
    OBVIOUS
  <2>6. IsFiniteSet(F) /\ IsFiniteSet(G) /\ cron_table = F \cup G
    BY <2>1, <2>3, <2>4, <2>5
  <2>7. IsFiniteSet(cron_table)
    BY <2>6, FS_Union
  <2>. QED  BY <1>2, <2>7, FS_Subset
<1>5. IsSeq(s)
  BY <1>3, <1>4, OrdersList DEF Lists
<1>6. PICK p : p = Each(CronJob, s)
  OBVIOUS
<1>7. /\ p = [k \in DOMAIN s |-> p[k]]
      /\ \A k \in DOMAIN s : p[k].do = "cron"
  BY <1>6 DEF Each, CronJob
<1>8. IsSeq(p) /\ DOMAIN p = DOMAIN s
  BY <1>5, <1>7, MapIsSeq
<1>9. \A b \in SetOf(p) : FreeBlock(b) /\ b.do = "cron"
  BY <1>7, <1>8 DEF SetOf, FreeBlock
<1>10. Ordered(owner, p)
  BY <1>9, FreeOrdered
<1>11. /\ pc' = "exec" /\ agenda' = p /\ cmd'.op = "Cron" /\ result' = "ok"
  BY <1>3, <1>6 DEF Begin
<1>12. served' \in 0 .. MaxCommands /\ cancel_token' \in BOOLEAN
  BY <1>1, ManagerBounds DEF IInv, TypeOK
<1>13. /\ UNCHANGED <<programs, configs, shared_configs, dag, cron_table, prog, owner>>
       /\ pending_configs' = pending_configs
  BY <1>1 DEF registryVars
<1>14. \E g \in DOMAIN Gens : pending_configs' = Gens[g]
  BY <1>13, PendingIsFile
<1>. QED  BY <1>1, <1>8, <1>9, <1>10, <1>11, <1>12, <1>13, <1>14, FreeBegin

\* A configuration that is rejected may become the pending one.
LEMMA RejectInv ==
    ASSUME IInv, NEW op \in {"Reload", "RestartDaemon"}, NEW c \in Received(op),
           Reject(c, Gens[c.arg])
    PROVE  IInv'
<1>1. TakeCommand(c, <<>>, "err")
  BY DEF Reject
<1>2. /\ pc = "select" /\ pc' = "exec" /\ agenda' = <<>>
      /\ cmd'.op = op /\ c \in Commands /\ result' \in {"none", "ok", "err"}
      /\ served' \in 0 .. MaxCommands /\ cancel_token' \in BOOLEAN
  BY <1>1, TakeFacts
<1>3. c.arg \in DOMAIN Gens
  BY <1>2, CommandsAssumption DEF Received
<1>4. /\ pending_configs' = Gens[c.arg] \/ pending_configs' = pending_configs
      /\ UNCHANGED <<programs, configs, shared_configs, dag, cron_table, prog, owner>>
  BY DEF Reject
<1>5. \E g \in DOMAIN Gens : pending_configs' = Gens[g]
  BY <1>3, <1>4, PendingIsFile
<1>6. cmd'.op \in (CommandOps \cup {"Cron"}) \ {"Shutdown", "Cancel"}
  BY <1>2 DEF CommandOps
<1>. QED  BY <1>2, <1>4, <1>5, <1>6, EmptyPlan, FreeBegin

\* The orders of blocks that the reload and group commands use are allowed ones.
LEMMA FollowFacts ==
    ASSUME NEW own, NEW b, NEW c
    PROVE  /\ /\ b.do \in {"remove", "replace", "add"} /\ c.do \in {"remove", "replace", "add"}
              /\ b.name # c.name
              => Follows(own, b, c)
           /\ b.do \in {"remove", "replace", "add"} /\ c.do \in {"adopt", "derive"}
              => Follows(own, b, c)
           /\ b.do = "stop_layer" /\ c.do \in {"shutdown", "swap"} => Follows(own, b, c)
           /\ b.do = "shutdown" /\ c.do = "swap" => Follows(own, b, c)
BY DEF Follows, EndBlock, NameBlock, FreeBlock, IdBlock, StrictBlock

\* A change of the configuration begins: one block per program, then the end.
LEMMA ChangeBegin ==
    ASSUME IInv, pc = "select", pc' = "exec",
           UNCHANGED <<programs, configs, shared_configs, dag, cron_table>>,
           \E g \in DOMAIN Gens : pending_configs' = Gens[g],
           cancel_token' \in BOOLEAN, served' \in 0 .. MaxCommands,
           cmd'.op \in CommandOps \ {"Shutdown", "Cancel"},
           result' \in {"none", "ok", "err"},
           NEW S, Extended(S),
           NEW q, IsSeq(q), Ordered(owner', q),
           NEW e, e.do \in {"adopt", "derive"}, agenda' = q \o <<e>>,
           \A b \in SetOf(q) :
               \/ b.do = "remove" /\ b.name \in DOMAIN programs
               \/ b.do = "replace" /\ b.name \in DOMAIN programs /\ b.name \in S
               \/ b.do = "add" /\ b.name \notin DOMAIN programs /\ b.name \in S,
           S \subseteq DOMAIN pending_configs',
           \A n \in S : \E b \in SetOf(q) : b.do \in {"replace", "add"} /\ b.name = n,
           e.do = "adopt" =>
               \A n \in DOMAIN configs \cup DOMAIN pending_configs' :
                  \/ /\ n \in DOMAIN configs \cap DOMAIN pending_configs'
                     /\ configs[n] = pending_configs'[n]
                     /\ \A b \in SetOf(q) : b.name # n
                  \/ /\ n \notin DOMAIN pending_configs'
                     /\ \E b \in SetOf(q) : b.do = "remove" /\ b.name = n
                  \/ n \in S
    PROVE  IInv'
<1>0. PICK x : x = <<e>>
  OBVIOUS
<1>1. IsSeq(x) /\ SetOf(x) = {e} /\ Ordered(owner', x)
  BY <1>0, ShortPlans
<1>2. \A b \in SetOf(q) : Follows(owner', b, e)
  BY FollowFacts
<1>3. IsSeq(q \o x) /\ SetOf(q \o x) = SetOf(q) \cup {e}
  BY <1>1, JoinFacts
<1>4. Ordered(owner', q \o x)
  BY <1>1, <1>2, OrderedJoin
<1>5. Todo' = SetOf(q) \cup {e}
  BY <1>0, <1>3 DEF Todo
<1>6. AgendaSound'
  BY <1>0, <1>3, <1>4, <1>5 DEF AgendaSound, IsSeq
<1>7. ~Swapping' /\ ~Leaving' /\ \A j : ~Closing(j)'
  BY <1>5 DEF Swapping, Leaving, Closing, IdBlock
<1>8. BlocksSound'
  BY <1>5, <1>7 DEF BlocksSound, NameBlock, EndBlock
<1>9. \A n : /\ ~Named({"forget", "install"}, n)'
             /\ Named({"add"}, n)' => n \notin DOMAIN programs
             /\ Named({"replace", "add", "install"}, n)' <=> n \in S
             /\ Named({"remove", "forget"}, n)' <=> \E b \in SetOf(q) : b.do = "remove" /\ b.name = n
  BY <1>5 DEF Named
<1>10. \A n : Awaited(n)' <=> n \in S
  BY <1>7, <1>9 DEF Awaited
<1>11. ReloadTracked'
  <2>1. (\E b \in Todo' : b.do = "adopt") => e.do = "adopt"
    BY <1>5
  <2>. QED  BY <1>9, <2>1 DEF ReloadTracked
<1>12. cmd'.op \in CommandOps \cup {"None", "Cron", "Cancel"}
  OBVIOUS
<1>. QED  BY <1>6, <1>7, <1>8, <1>9, <1>10, <1>11, <1>12, BeginInv

\* A new configuration is accepted: its programs are staged.
LEMMA AcceptFacts ==
    ASSUME IInv, NEW op \in CommandOps, NEW c \in Received(op), NEW new, NEW staged, NEW plan,
           Accept(c, new, staged, plan), NEW S, S \subseteq Int, Lists(staged, S)
    PROVE  /\ pc = "select" /\ pc' = "exec" /\ agenda' = plan /\ pending_configs' = new
           /\ cmd'.op = op /\ result' \in {"none", "ok", "err"}
           /\ served' \in 0 .. MaxCommands /\ cancel_token' \in BOOLEAN
           /\ UNCHANGED <<programs, configs, shared_configs, dag, cron_table>>
           /\ Extended(S)
<1>1. /\ pending_configs' = new /\ Instantiate(staged) /\ TakeCommand(c, plan, "ok")
      /\ UNCHANGED <<programs, configs, shared_configs, dag, cron_table>>
  BY DEF Accept
<1>2. Extended(S)
  BY <1>1, ExtendFacts DEF IInv, TypeOK, MapsSound
<1>. QED  BY <1>1, <1>2, TakeFacts

\* Taking a reload, accepted or rejected while staging, keeps the invariant.
LEMMA ReloadInv == IInv /\ Reload => IInv'
<1>. SUFFICES ASSUME IInv, Reload PROVE IInv'
  OBVIOUS
<1>1. PICK c \in Received("Reload") :
         \/ Reject(c, Gens[c.arg])
         \/ \E r \in Sorted(Removed(configs, Gens[c.arg])) :
            \E m \in Sorted(Modified(configs, Gens[c.arg])) :
            \E a \in Sorted(Added(configs, Gens[c.arg])) :
               Accept(c, Gens[c.arg], m \o a,
                      Each(Remove, r) \o Each(Replace, m) \o Each(Add, a) \o <<Adopt>>)
  BY DEF Reload
<1>2. CASE Reject(c, Gens[c.arg])
  BY <1>2, RejectInv
<1>3. ASSUME NEW r \in Sorted(Removed(configs, Gens[c.arg])),
             NEW m \in Sorted(Modified(configs, Gens[c.arg])),
             NEW a \in Sorted(Added(configs, Gens[c.arg])),
             Accept(c, Gens[c.arg], m \o a,
                    Each(Remove, r) \o Each(Replace, m) \o Each(Add, a) \o <<Adopt>>)
      PROVE  IInv'
  <2>1. c \in Commands /\ c.op = "Reload" /\ pc = "select"
    BY DEF Received
  <2>2. c.arg \in DOMAIN Gens
    BY <2>1, CommandsAssumption
  <2>3. PICK new : new = Gens[c.arg]
    OBVIOUS
  <2>4. PICK R, M, A : /\ R = Removed(configs, new) /\ M = Modified(configs, new)
                       /\ A = Added(configs, new)
    OBVIOUS
  <2>5. /\ IsFiniteSet(DOMAIN new) /\ (\A n \in DOMAIN new : n \in Int)
        /\ IsFiniteSet(DOMAIN configs)
    BY <2>2, <2>3, GensAssumption, PendingFacts
  <2>6. /\ R \subseteq DOMAIN configs /\ R \cap DOMAIN new = {}
        /\ M \subseteq DOMAIN configs /\ M \subseteq DOMAIN new
        /\ A \subseteq DOMAIN new /\ A \cap DOMAIN configs = {}
        /\ \A n \in DOMAIN configs \cup DOMAIN new :
              n \in R \/ n \in M \cup A
              \/ (n \in DOMAIN configs \cap DOMAIN new /\ configs[n] = new[n])
        /\ \A n \in M : configs[n] # new[n]
    BY <2>4 DEF Removed, Modified, Added
  <2>7. IsFiniteSet(R) /\ IsFiniteSet(M) /\ IsFiniteSet(A)
    BY <2>5, <2>6, FS_Subset
  <2>8. r \in Orders(R) /\ m \in Orders(M) /\ a \in Orders(A)
    BY <2>3, <2>4 DEF Sorted
  <2>9. Lists(r, R) /\ Lists(m, M) /\ Lists(a, A)
    BY <2>7, <2>8, OrdersList
  <2>10. M \cap A = {} /\ M \cup A \subseteq Int /\ M \cup A \subseteq DOMAIN new
    BY <2>5, <2>6
  <2>11. Lists(m \o a, M \cup A)
    BY <2>9, <2>10, ListsJoin
  <2>12. PICK p1, p2, p3 : p1 = Each(Remove, r) /\ p2 = Each(Replace, m) /\ p3 = Each(Add, a)
    OBVIOUS
  <2>13. EachNamed(p1, r, "remove") /\ EachNamed(p2, m, "replace") /\ EachNamed(p3, a, "add")
    BY <2>12 DEF EachNamed, Each, Remove, Replace, Add
  <2>14. /\ IsSeq(p1) /\ Ordered(owner', p1)
         /\ \A b \in SetOf(p1) : b.do = "remove" /\ b.name \in R
         /\ \A n \in R : \E b \in SetOf(p1) : b.do = "remove" /\ b.name = n
    <3>1. Lists(r, R) /\ EachNamed(p1, r, "remove")
      BY <2>9, <2>13
    <3>. QED  BY <3>1, NamePlan, ZenonT(60)
  <2>15. /\ IsSeq(p2) /\ Ordered(owner', p2)
         /\ \A b \in SetOf(p2) : b.do = "replace" /\ b.name \in M
         /\ \A n \in M : \E b \in SetOf(p2) : b.do = "replace" /\ b.name = n
    <3>1. Lists(m, M) /\ EachNamed(p2, m, "replace")
      BY <2>9, <2>13
    <3>. QED  BY <3>1, NamePlan, SMTT(30)
  <2>16. /\ IsSeq(p3) /\ Ordered(owner', p3)
         /\ \A b \in SetOf(p3) : b.do = "add" /\ b.name \in A
         /\ \A n \in A : \E b \in SetOf(p3) : b.do = "add" /\ b.name = n
    <3>1. Lists(a, A) /\ EachNamed(p3, a, "add")
      BY <2>9, <2>13
    <3>. QED  BY <3>1, NamePlan, ZenonT(60)
  <2>17. /\ \A b \in SetOf(p1), d \in SetOf(p2) : Follows(owner', b, d)
         /\ \A b \in SetOf(p1), d \in SetOf(p3) : Follows(owner', b, d)
         /\ \A b \in SetOf(p2), d \in SetOf(p3) : Follows(owner', b, d)
    BY <2>6, <2>14, <2>15, <2>16, FollowFacts
  <2>18. PICK p12 : p12 = p1 \o p2
    OBVIOUS
  <2>19. IsSeq(p12) /\ SetOf(p12) = SetOf(p1) \cup SetOf(p2) /\ Ordered(owner', p12)
    BY <2>14, <2>15, <2>17, <2>18, JoinFacts, OrderedJoin
  <2>20. PICK q : q = p12 \o p3
    OBVIOUS
  <2>21. IsSeq(q) /\ SetOf(q) = SetOf(p12) \cup SetOf(p3)
    BY <2>16, <2>19, <2>20, JoinFacts
  <2>22. Ordered(owner', q)
    BY <2>16, <2>17, <2>19, <2>20, OrderedJoin
  <2>23. PICK e : e = Adopt
    OBVIOUS
  <2>24. Accept(c, new, m \o a, q \o <<e>>)
    BY <1>3, <2>3, <2>12, <2>18, <2>20, <2>23
  <2>25. "Reload" \in CommandOps
    BY DEF CommandOps
  <2>26. /\ pc = "select" /\ pc' = "exec" /\ agenda' = q \o <<e>> /\ pending_configs' = new
         /\ cmd'.op = "Reload" /\ result' \in {"none", "ok", "err"}
         /\ served' \in 0 .. MaxCommands /\ cancel_token' \in BOOLEAN
         /\ UNCHANGED <<programs, configs, shared_configs, dag, cron_table>>
         /\ Extended(M \cup A)
    BY <2>10, <2>11, <2>24, <2>25, AcceptFacts
  <2>27. DOMAIN programs = DOMAIN configs
    BY <2>1, SelectFacts
  <2>28. e.do = "adopt"
    BY <2>23 DEF Adopt
  <2>29. \A b \in SetOf(q) :
            \/ b.do = "remove" /\ b.name \in DOMAIN programs
            \/ b.do = "replace" /\ b.name \in DOMAIN programs /\ b.name \in M \cup A
            \/ b.do = "add" /\ b.name \notin DOMAIN programs /\ b.name \in M \cup A
    BY <2>6, <2>14, <2>15, <2>16, <2>19, <2>21, <2>27
  <2>30. \A n \in M \cup A : \E b \in SetOf(q) : b.do \in {"replace", "add"} /\ b.name = n
    BY <2>15, <2>16, <2>19, <2>21
  <2>31. \A b \in SetOf(q) : b.name \in R \cup M \cup A
    BY <2>14, <2>15, <2>16, <2>19, <2>21
  <2>32. \A n \in DOMAIN configs \cup DOMAIN new :
            \/ /\ n \in DOMAIN configs \cap DOMAIN new
               /\ configs[n] = new[n]
               /\ \A b \in SetOf(q) : b.name # n
            \/ /\ n \notin DOMAIN new
               /\ \E b \in SetOf(q) : b.do = "remove" /\ b.name = n
            \/ n \in M \cup A
    <3>. TAKE n \in DOMAIN configs \cup DOMAIN new
    <3>1. CASE n \in R
      BY <2>6, <2>14, <2>19, <2>21, <3>1
    <3>2. CASE n \notin R /\ n \notin M \cup A
      BY <2>6, <2>31, <3>2
    <3>. QED  BY <3>1, <3>2
  <2>33. \E g \in DOMAIN Gens : pending_configs' = Gens[g]
    BY <2>2, <2>3, <2>26
  <2>34. cmd'.op \in CommandOps \ {"Shutdown", "Cancel"}
    BY <2>25, <2>26
  <2>. QED  BY <2>10, <2>21, <2>22, <2>26, <2>28, <2>29, <2>30, <2>32, <2>33, <2>34, ChangeBegin
<1>. QED  BY <1>1, <1>2, <1>3

\* The members of a group that is not active are not registered: here every
\* file must put a program into the same group.
LEMMA AddGroupInv ==
    ASSUME StableGroups, IInv, AddGroup
    PROVE  IInv'
<1>1. PICK c \in Received("AddGroup") :
         \/ /\ TakeCommand(c, <<>>, IF Members(configs, c.arg) # {} THEN "ok" ELSE "err")
            /\ UNCHANGED <<registryVars, prog, owner>>
         \/ /\ Members(configs, c.arg) = {}
            /\ \E s \in Orders(Members(pending_configs, c.arg)) :
                  Instantiate(s) /\ TakeCommand(c, Each(Add, s) \o <<Derive>>, "ok")
            /\ UNCHANGED registryVars
  BY DEF AddGroup
<1>2. "AddGroup" \in CommandOps \ {"Shutdown", "Cancel"}
  BY DEF CommandOps
<1>3. CASE /\ TakeCommand(c, <<>>, IF Members(configs, c.arg) # {} THEN "ok" ELSE "err")
           /\ UNCHANGED <<registryVars, prog, owner>>
  <2>1. PICK res \in {"ok", "err"} : res = IF Members(configs, c.arg) # {} THEN "ok" ELSE "err"
    OBVIOUS
  <2>. QED  BY <1>2, <1>3, <2>1, EmptyPlan, FreeCommand
<1>4. ASSUME Members(configs, c.arg) = {}, UNCHANGED registryVars,
             NEW s \in Orders(Members(pending_configs, c.arg)),
             Instantiate(s), TakeCommand(c, Each(Add, s) \o <<Derive>>, "ok")
      PROVE  IInv'
  <2>1. PICK S : S = Members(pending_configs, c.arg)
    OBVIOUS
  <2>2. PICK q : q = Each(Add, s)
    OBVIOUS
  <2>3. PICK e : e = Derive
    OBVIOUS
  <2>4. e.do = "derive"
    BY <2>3 DEF Derive
  <2>5. /\ pc = "select" /\ pc' = "exec" /\ agenda' = q \o <<e>>
        /\ cmd'.op = "AddGroup" /\ result' \in {"none", "ok", "err"}
        /\ served' \in 0 .. MaxCommands /\ cancel_token' \in BOOLEAN
    BY <1>4, <2>2, <2>3, TakeFacts
  <2>6. /\ UNCHANGED <<programs, configs, shared_configs, dag, cron_table>>
        /\ pending_configs' = pending_configs
    BY <1>4 DEF registryVars
  <2>7. S \subseteq DOMAIN pending_configs /\ S \subseteq Int /\ IsFiniteSet(S)
    <3>1. S \subseteq DOMAIN pending_configs
      BY <2>1 DEF Members
    <3>. QED  BY <3>1, PendingFacts, FS_Subset
  <2>8. Lists(s, S)
    BY <1>4, <2>1, <2>7, OrdersList
  <2>9. Extended(S)
    BY <1>4, <2>7, <2>8, ExtendFacts DEF IInv, TypeOK, MapsSound
  <2>10. EachNamed(q, s, "add")
    BY <2>2 DEF EachNamed, Each, Add
  <2>11. /\ IsSeq(q) /\ Ordered(owner', q)
         /\ \A b \in SetOf(q) : b.do = "add" /\ b.name \in S
         /\ \A n \in S : \E b \in SetOf(q) : b.do = "add" /\ b.name = n
    BY <2>8, <2>10, NamePlan
  <2>12. \A n \in S : n \notin DOMAIN programs
    <3>. SUFFICES ASSUME NEW n \in S, n \in DOMAIN configs PROVE FALSE
      BY <2>5, SelectFacts
    <3>1. PICK g \in DOMAIN Gens : pending_configs = Gens[g]
      BY PendingIsFile
    <3>2. PICK h \in DOMAIN Gens : n \in DOMAIN Gens[h] /\ configs[n] = Gens[h][n]
      BY DEF IInv, MapsSound
    <3>3. n \in DOMAIN Gens[g] /\ Gens[g][n].group = c.arg
      BY <2>1, <3>1 DEF Members
    <3>4. Gens[h][n].group = Gens[g][n].group
      BY <3>2, <3>3 DEF StableGroups
    <3>5. n \in Members(configs, c.arg)
      BY <3>2, <3>3, <3>4 DEF Members
    <3>. QED  BY <1>4, <3>5
  <2>13. \E g \in DOMAIN Gens : pending_configs' = Gens[g]
    BY <2>6, PendingIsFile
  <2>14. \A b \in SetOf(q) : b.do = "add" /\ b.name \notin DOMAIN programs /\ b.name \in S
    BY <2>11, <2>12
  <2>15. \A n \in S : \E b \in SetOf(q) : b.do \in {"replace", "add"} /\ b.name = n
    BY <2>11
  <2>16. S \subseteq DOMAIN pending_configs'
    BY <2>6, <2>7
  <2>. QED  BY <1>2, <2>4, <2>5, <2>6, <2>9, <2>11, <2>13, <2>14, <2>15, <2>16, ChangeBegin
<1>. QED  BY <1>1, <1>3, <1>4

\* Taking the removal of a group keeps the invariant.
LEMMA RemoveGroupInv == IInv /\ RemoveGroup => IInv'
<1>. SUFFICES ASSUME IInv, RemoveGroup PROVE IInv'
  OBVIOUS
<1>1. /\ UNCHANGED <<registryVars, prog, owner>>
      /\ \E c \in Received("RemoveGroup") :
            \/ \E res \in {"ok", "err"} : TakeCommand(c, <<>>, res)
            \/ \E s \in Orders(Members(configs, c.arg)) :
                  TakeCommand(c, Each(Remove, s) \o <<Derive>>, "ok")
  BY DEF RemoveGroup
<1>2. PICK c \in Received("RemoveGroup") :
         \/ \E res \in {"ok", "err"} : TakeCommand(c, <<>>, res)
         \/ \E s \in Orders(Members(configs, c.arg)) :
               TakeCommand(c, Each(Remove, s) \o <<Derive>>, "ok")
  BY <1>1
<1>3. "RemoveGroup" \in CommandOps \ {"Shutdown", "Cancel"}
  BY DEF CommandOps
<1>4. CASE \E res \in {"ok", "err"} : TakeCommand(c, <<>>, res)
  BY <1>1, <1>3, <1>4, EmptyPlan, FreeCommand
<1>5. ASSUME NEW s \in Orders(Members(configs, c.arg)),
             TakeCommand(c, Each(Remove, s) \o <<Derive>>, "ok")
      PROVE  IInv'
  <2>1. PICK R : R = Members(configs, c.arg)
    OBVIOUS
  <2>2. PICK q : q = Each(Remove, s)
    OBVIOUS
  <2>3. PICK e : e = Derive
    OBVIOUS
  <2>4. e.do = "derive"
    BY <2>3 DEF Derive
  <2>5. /\ pc = "select" /\ pc' = "exec" /\ agenda' = q \o <<e>>
        /\ cmd'.op = "RemoveGroup" /\ result' \in {"none", "ok", "err"}
        /\ served' \in 0 .. MaxCommands /\ cancel_token' \in BOOLEAN
    BY <1>5, <2>2, <2>3, TakeFacts
  <2>6. /\ UNCHANGED <<programs, configs, shared_configs, dag, cron_table>>
        /\ pending_configs' = pending_configs
    BY <1>1 DEF registryVars
  <2>7. R \subseteq DOMAIN configs /\ IsFiniteSet(R) /\ DOMAIN configs = DOMAIN programs
    <3>1. R \subseteq DOMAIN configs
      BY <2>1 DEF Members
    <3>. QED  BY <2>5, <3>1, SelectFacts, PendingFacts, FS_Subset
  <2>8. Lists(s, R)
    BY <1>5, <2>1, <2>7, OrdersList
  <2>9. Extended({})
    BY <1>1, SameExtended
  <2>10. EachNamed(q, s, "remove")
    BY <2>2 DEF EachNamed, Each, Remove
  <2>11. /\ IsSeq(q) /\ Ordered(owner', q)
         /\ \A b \in SetOf(q) : b.do = "remove" /\ b.name \in R
    BY <2>8, <2>10, NamePlan
  <2>12. \A b \in SetOf(q) : b.do = "remove" /\ b.name \in DOMAIN programs
    BY <2>7, <2>11
  <2>13. \E g \in DOMAIN Gens : pending_configs' = Gens[g]
    BY <2>6, PendingIsFile
  <2>. QED  BY <1>3, <2>4, <2>5, <2>6, <2>9, <2>11, <2>12, <2>13, ChangeBegin
<1>. QED  BY <1>2, <1>4, <1>5

\* stop_all, then every registered program is shut down.
LEMMA LeavePlanFacts ==
    ASSUME IInv, NEW s \in Orders({programs[n] : n \in DOMAIN programs}), NEW own,
           \A i \in DOMAIN prog : own[i] = owner[i], NEW p, p = LeavePlan(s)
    PROVE  /\ IsSeq(p) /\ Ordered(own, p)
           /\ \A b \in SetOf(p) :
                 \/ b.do = "stop_layer"
                 \/ b.do = "shutdown" /\ \E n \in DOMAIN programs : b.id = programs[n]
           /\ \A n \in DOMAIN programs : \E b \in SetOf(p) :
                 b.do = "shutdown" /\ b.id = programs[n]
<1>1. PICK t : t = StopAllPlan(dag)
  OBVIOUS
<1>2. PICK u : u = Each(Shutdown, s)
  OBVIOUS
<1>3. p = t \o u
  BY <1>1, <1>2 DEF LeavePlan
<1>4. IsSeq(t) /\ Ordered(own, t) /\ \A b \in SetOf(t) : b.do = "stop_layer"
  BY <1>1, LayerPlans DEF IInv, MapsSound, IsSeq
<1>5. /\ IsSeq(u) /\ Ordered(own, u)
      /\ \A b \in SetOf(u) : b.do = "shutdown" /\ \E n \in DOMAIN programs : b.id = programs[n]
      /\ \A n \in DOMAIN programs : \E b \in SetOf(u) : b.do = "shutdown" /\ b.id = programs[n]
  BY <1>2, ShutPlan DEF IInv
<1>6. \A b \in SetOf(t), c \in SetOf(u) : Follows(own, b, c)
  BY <1>4, <1>5, FollowFacts
<1>7. IsSeq(p) /\ SetOf(p) = SetOf(t) \cup SetOf(u)
  BY <1>3, <1>4, <1>5, JoinFacts
<1>8. Ordered(own, p)
  BY <1>3, <1>4, <1>5, <1>6, OrderedJoin
<1>. QED  BY <1>4, <1>5, <1>7, <1>8

\* Leaving the loop, by the shutdown command or by cancellation, keeps the invariant.
LEMMA LeaveInv == IInv /\ (ShutdownCommand \/ Cancelled) => IInv'
<1>. SUFFICES ASSUME IInv, ShutdownCommand \/ Cancelled PROVE IInv'
  OBVIOUS
<1>1. PICK s : /\ s \in Orders({programs[n] : n \in DOMAIN programs})
               /\ \/ \E c \in Received("Shutdown") : TakeCommand(c, LeavePlan(s), "ok")
                  \/ /\ pc = "select"
                     /\ Begin([op |-> "Cancel", arg |-> 0], LeavePlan(s), "ok")
                     /\ UNCHANGED <<cancel_token, served>>
  BY DEF ShutdownCommand, Cancelled
<1>2. UNCHANGED <<registryVars, prog, owner>>
  BY DEF ShutdownCommand, Cancelled
<1>3. PICK p : p = LeavePlan(s)
  OBVIOUS
<1>4. /\ pc = "select" /\ pc' = "exec" /\ agenda' = p /\ cmd'.op \in {"Shutdown", "Cancel"}
      /\ result' \in {"none", "ok", "err"}
      /\ served' \in 0 .. MaxCommands /\ cancel_token' \in BOOLEAN
  <2>1. CASE \E c \in Received("Shutdown") : TakeCommand(c, LeavePlan(s), "ok")
    BY <1>3, <2>1, TakeFacts
  <2>2. CASE /\ pc = "select" /\ Begin([op |-> "Cancel", arg |-> 0], LeavePlan(s), "ok")
             /\ UNCHANGED <<cancel_token, served>>
    BY <1>3, <2>2 DEF Begin, IInv, TypeOK
  <2>. QED  BY <1>1, <2>1, <2>2
<1>5. owner' = owner /\ prog' = prog /\ programs' = programs /\ pending_configs' = pending_configs
      /\ UNCHANGED <<programs, configs, shared_configs, dag, cron_table>>
  BY <1>2 DEF registryVars
<1>6. /\ IsSeq(p) /\ Ordered(owner, p)
      /\ \A b \in SetOf(p) :
            \/ b.do = "stop_layer"
            \/ b.do = "shutdown" /\ \E n \in DOMAIN programs : b.id = programs[n]
      /\ \A n \in DOMAIN programs : \E b \in SetOf(p) :
            b.do = "shutdown" /\ b.id = programs[n]
  BY <1>1, <1>3, LeavePlanFacts
<1>7. Todo' = SetOf(p)
  BY <1>4 DEF Todo
<1>8. AgendaSound'
  BY <1>4, <1>5, <1>6, <1>7 DEF AgendaSound, IsSeq
<1>9. Leaving' /\ ~Swapping'
  BY <1>4, <1>6, <1>7 DEF Leaving, Swapping
<1>10. BlocksSound' /\ ReloadTracked'
  BY <1>6, <1>7 DEF BlocksSound, ReloadTracked, NameBlock, EndBlock
<1>11. \A j : Closing(j)' => \E n \in DOMAIN programs : j = programs[n]
  BY <1>6, <1>7 DEF Closing, IdBlock
<1>12. \A n \in DOMAIN programs : Closing(programs[n])'
  BY <1>5, <1>6, <1>7 DEF Closing, IdBlock
<1>13. \A n : /\ ~Named({"forget", "install"}, n)' /\ ~Named({"add"}, n)'
              /\ ~Named({"replace", "add", "install"}, n)'
  BY <1>6, <1>7 DEF Named
<1>14. \A n : ~Awaited(n)'
  BY <1>9, <1>13 DEF Awaited
<1>15. Extended({}) /\ \E g \in DOMAIN Gens : pending_configs' = Gens[g]
  BY <1>5, SameExtended, PendingIsFile
<1>16. cmd'.op \in CommandOps \cup {"None", "Cron", "Cancel"}
  BY <1>4 DEF CommandOps
<1>. QED  BY <1>4, <1>5, <1>8, <1>9, <1>10, <1>11, <1>12, <1>13, <1>14, <1>15, <1>16, BeginInv

\* A restart of the daemon is a leave that ends with the staged programs.
LEMMA RestartDaemonInv == IInv /\ RestartDaemon => IInv'
<1>. SUFFICES ASSUME IInv, RestartDaemon PROVE IInv'
  OBVIOUS
<1>1. PICK c \in Received("RestartDaemon") :
         \/ Reject(c, Gens[c.arg])
         \/ \E s \in Orders({programs[n] : n \in DOMAIN programs}) :
            \E staged \in Sorted(DOMAIN Gens[c.arg]) :
               Accept(c, Gens[c.arg], staged, StopAllPlan(dag) \o Each(Shutdown, s) \o <<Swap>>)
  BY DEF RestartDaemon
<1>2. CASE Reject(c, Gens[c.arg])
  BY <1>2, RejectInv
<1>3. ASSUME NEW s \in Orders({programs[n] : n \in DOMAIN programs}),
             NEW staged \in Sorted(DOMAIN Gens[c.arg]),
             Accept(c, Gens[c.arg], staged, StopAllPlan(dag) \o Each(Shutdown, s) \o <<Swap>>)
      PROVE  IInv'
  <2>1. c \in Commands /\ c.op = "RestartDaemon" /\ pc = "select"
    BY DEF Received
  <2>2. c.arg \in DOMAIN Gens
    BY <2>1, CommandsAssumption
  <2>3. PICK new : new = Gens[c.arg]
    OBVIOUS
  <2>4. IsFiniteSet(DOMAIN new) /\ DOMAIN new \subseteq Int
    BY <2>2, <2>3, GensAssumption
  <2>5. staged \in Orders(DOMAIN new)
    BY <2>3 DEF Sorted
  <2>6. Lists(staged, DOMAIN new)
    BY <2>4, <2>5, OrdersList
  <2>7. PICK e : e = Swap
    OBVIOUS
  <2>8. PICK x : x = <<e>>
    OBVIOUS
  <2>9. e.do = "swap" /\ IsSeq(x) /\ SetOf(x) = {e} /\ Ordered(owner', x)
    BY <2>7, <2>8, ShortPlans DEF Swap
  <2>10. PICK p : p = LeavePlan(s)
    OBVIOUS
  <2>11. PICK q : q = p \o x
    OBVIOUS
  <2>12. Accept(c, new, staged, q)
    BY <1>3, <2>3, <2>7, <2>8, <2>10, <2>11 DEF LeavePlan
  <2>13. "RestartDaemon" \in CommandOps
    BY DEF CommandOps
  <2>14. /\ pc = "select" /\ pc' = "exec" /\ agenda' = q /\ pending_configs' = new
         /\ cmd'.op = "RestartDaemon" /\ result' \in {"none", "ok", "err"}
         /\ served' \in 0 .. MaxCommands /\ cancel_token' \in BOOLEAN
         /\ UNCHANGED <<programs, configs, shared_configs, dag, cron_table>>
         /\ Extended(DOMAIN new)
    BY <2>4, <2>6, <2>12, <2>13, AcceptFacts
  <2>15. \A i \in DOMAIN prog : owner'[i] = owner[i]
    BY <2>14 DEF Extended
  <2>16. /\ IsSeq(p) /\ Ordered(owner', p)
         /\ \A b \in SetOf(p) :
               \/ b.do = "stop_layer"
               \/ b.do = "shutdown" /\ \E n \in DOMAIN programs : b.id = programs[n]
         /\ \A n \in DOMAIN programs : \E b \in SetOf(p) :
               b.do = "shutdown" /\ b.id = programs[n]
    BY <2>10, <2>15, LeavePlanFacts
  <2>17. \A b \in SetOf(p) : Follows(owner', b, e)
    BY <2>9, <2>16, FollowFacts
  <2>18. IsSeq(q) /\ SetOf(q) = SetOf(p) \cup {e}
    BY <2>9, <2>11, <2>16, JoinFacts
  <2>19. Ordered(owner', q)
    BY <2>9, <2>11, <2>16, <2>17, OrderedJoin
  <2>20. Todo' = SetOf(p) \cup {e}
    BY <2>14, <2>18 DEF Todo
  <2>21. AgendaSound'
    BY <2>14, <2>18, <2>19, <2>20 DEF AgendaSound, IsSeq
  <2>22. Swapping' /\ ~Leaving'
    BY <2>9, <2>14, <2>20 DEF Leaving, Swapping
  <2>23. BlocksSound' /\ ReloadTracked'
    BY <2>9, <2>16, <2>20, <2>22 DEF BlocksSound, ReloadTracked, NameBlock, EndBlock
  <2>24. \A j : Closing(j)' => \E n \in DOMAIN programs : j = programs[n]
    BY <2>9, <2>16, <2>20 DEF Closing, IdBlock
  <2>25. \A n \in DOMAIN programs : Closing(programs[n])'
    BY <2>14, <2>16, <2>20 DEF Closing, IdBlock
  <2>26. \A n : ~Named({"forget", "install"}, n)' /\ ~Named({"add"}, n)'
    BY <2>9, <2>16, <2>20 DEF Named
  <2>27. \A n \in DOMAIN pending_configs' : Awaited(n)'
    BY <2>22 DEF Awaited
  <2>28. \E g \in DOMAIN Gens : pending_configs' = Gens[g]
    BY <2>2, <2>3, <2>14
  <2>. QED  BY <2>13, <2>14, <2>21, <2>22, <2>23, <2>24, <2>25, <2>26, <2>27, <2>28, BeginInv
<1>. QED  BY <1>1, <1>2, <1>3

-----------------------------------------------------------------------------
(* The theorems.                                                           *)

\* The invariant holds when the daemon has loaded its first configuration.
LEMMA InitInv == Init => IInv
<1>. SUFFICES ASSUME Init PROVE IInv
  OBVIOUS
<1>1. /\ configs = Gens[1] /\ owner \in Sorted(DOMAIN Gens[1])
      /\ prog = [i \in DOMAIN owner |-> Fresh]
      /\ programs = [n \in DOMAIN Gens[1] |-> Staged(n)]
      /\ shared_configs = Gens[1] /\ pending_configs = Gens[1]
      /\ dag = Dag(Gens[1]) /\ cron_table = CronTable(Gens[1])
      /\ cancel_token = FALSE
      /\ pc = "select" /\ cmd = [op |-> "None", arg |-> 0] /\ result = "none"
      /\ agenda = <<>> /\ served = 0
  BY DEF Init
<1>2. PICK D : D = DOMAIN Gens[1]
  OBVIOUS
<1>3. /\ IsFiniteSet(D) /\ D \subseteq Int /\ 1 \in DOMAIN Gens
      /\ Gens[1] = [n \in D |-> Gens[1][n]]
  BY <1>2, GensAssumption
<1>4. owner \in Orders(D)
  BY <1>1, <1>2 DEF Sorted
<1>5. Lists(owner, D)
  BY <1>3, <1>4, OrdersList
<1>6. /\ IsSeq(owner) /\ SetOf(owner) = D
      /\ \A k, l \in DOMAIN owner : owner[k] = owner[l] => k = l
  BY <1>5 DEF Lists
<1>7. owner \in Seq(Int)
  BY <1>3, <1>6, SeqIsSeq
<1>8. /\ DOMAIN owner = 1 .. Len(owner) /\ Len(owner) \in Nat
  BY <1>6, SeqFacts
<1>9. Len(owner) = Cardinality(D)
  <2>1. DOMAIN owner = 1 .. Cardinality(D) /\ Cardinality(D) \in Nat
    BY <1>3, <1>4, FS_CardinalityType DEF Orders
  <2>. QED  BY <1>8, <2>1
<1>10. /\ prog = [i \in DOMAIN owner |-> prog[i]] /\ DOMAIN prog = DOMAIN owner
       /\ \A i \in DOMAIN prog : prog[i] = Fresh
  BY <1>1
<1>11. IsSeq(prog)
  BY <1>6, <1>10, MapIsSeq
<1>12. SetOf(prog) \subseteq ProgramType
  BY <1>10, FreshFacts DEF SetOf
<1>13. prog \in Seq(ProgramType)
  BY <1>11, <1>12, SeqIsSeq
<1>14. Len(prog) <= MaxInstances
  <2>1. Len(prog) = Len(owner)
    BY <1>8, <1>10, <1>11, SeqFacts
  <2>. QED  BY <1>2, <1>9, <2>1, ManagerBounds
<1>15. \A n \in D : Staged(n) \in DOMAIN owner /\ owner[Staged(n)] = n
  <2>. TAKE n \in D
  <2>1. PICK i \in DOMAIN owner : owner[i] = n
    BY <1>6 DEF SetOf
  <2>2. \A j \in DOMAIN owner : owner[j] = n => j <= i
    BY <1>6, <1>8, <2>1
  <2>. QED  BY <2>1, <2>2 DEF Staged
<1>16. DOMAIN programs = D /\ \A n \in D : programs[n] = Staged(n)
  BY <1>1, <1>2
<1>17. \A i \in DOMAIN prog : Registered(i)
  <2>. TAKE i \in DOMAIN prog
  <2>1. owner[i] \in D
    BY <1>6, <1>10 DEF SetOf
  <2>2. Staged(owner[i]) = i
    BY <1>6, <1>10, <1>15, <2>1
  <2>. QED  BY <1>16, <2>1, <2>2 DEF Registered
<1>18. Todo = {} /\ AgendaSound
  BY <1>1, EmptyPlan DEF Todo, AgendaSound, IsSeq
<1>19. ~Leaving /\ ~Swapping /\ \A j : ~Closing(j)
  BY <1>1, <1>18 DEF Leaving, Swapping, Closing
<1>20. \A n : ~Awaited(n) /\ ~Outgoing(n)
  BY <1>18, <1>19 DEF Awaited, Outgoing, Named
<1>21. TypeOK
  <2>1. \A n \in DOMAIN programs : programs[n] \in DOMAIN prog
    BY <1>10, <1>15, <1>16
  <2>2. cmd.op = "None" /\ cancel_token \in BOOLEAN /\ pc = "select" /\ result = "none"
        /\ agenda = <<>>
    BY <1>1
  <2>3. served \in 0 .. MaxCommands
    BY <1>1, ManagerBounds
  <2>. QED  BY <1>10, <1>13, <1>14, <2>1, <2>2, <2>3 DEF TypeOK
<1>22. DoneMeansGone
  BY <1>1 DEF DoneMeansGone
<1>23. RecordsSound /\ Exclusive
  BY <1>10, FreshFacts DEF RecordsSound, Exclusive
<1>24. MapsSound
  <2>1. \A n \in DOMAIN programs : programs[n] \in DOMAIN prog /\ owner[programs[n]] = n
    BY <1>10, <1>15, <1>16
  <2>2. IsSeq(dag.start) /\ IsSeq(dag.stop)
    BY <1>1, <1>2, <1>3, DagFacts
  <2>. QED  BY <1>1, <1>2, <1>3, <1>7, <1>16, <2>1, <2>2 DEF MapsSound, IsSeq
<1>25. BlocksSound /\ ClosingSound /\ ReloadTracked
  BY <1>18 DEF BlocksSound, ClosingSound, ReloadTracked
<1>26. StagedSound
  BY <1>20 DEF StagedSound
<1>27. Accounted
  BY <1>17 DEF Accounted
<1>28. RegisteredSound
  BY <1>10, <1>15, <1>16, <1>20, FreshFacts DEF RegisteredSound
<1>29. Tracked
  BY <1>1, <1>2, <1>16 DEF Tracked, Agreed
<1>. QED  BY <1>18, <1>21, <1>22, <1>23, <1>24, <1>25, <1>26, <1>27, <1>28, <1>29 DEF IInv

\* Every step keeps it.
LEMMA NextInv ==
    ASSUME StableGroups, IInv, [Next]_vars
    PROVE  IInv'
<1>1. CASE Select
  <2>1. /\ {"StartProgram", "StopProgram", "RestartProgram", "SignalProgram"}
              \subseteq CommandOps \ {"Shutdown"}
        /\ {"Start", "Stop", "Restart", "Signal"} \subseteq Ops \ {"Shutdown"}
    BY DEF CommandOps, Ops
  <2>2. CASE StartProgram
    BY <2>1, <2>2, OnProgramsInv DEF StartProgram
  <2>3. CASE StopProgram
    BY <2>1, <2>3, OnProgramsInv DEF StopProgram
  <2>4. CASE RestartProgram
    BY <2>1, <2>4, OnProgramsInv DEF RestartProgram
  <2>5. CASE SignalProgram
    BY <2>1, <2>5, OnProgramsInv DEF SignalProgram
  <2>. QED  BY <1>1, <2>2, <2>3, <2>4, <2>5, OnGroupInv, BulkInv, ReloadInv, RestartDaemonInv,
               AddGroupInv, RemoveGroupInv, CronDueInv, LeaveInv DEF Select
<1>2. CASE Block
  BY <1>2, StartLayerInv, StopLayerInv, CallBlockInv, CronInv, AwaitInv, ShutdownInv,
     CancelBlockInv, JoinInv, RemoveInv, ForgetInv, ReplaceInv, AddInv, InstallInv,
     AdoptInv, DeriveInv, SwapInv, CompleteInv DEF Block
<1>3. CASE CancelManager
  BY <1>3, TokenInv DEF CancelManager
<1>4. CASE Terminated \/ UNCHANGED vars
  <2>1. cancel_token' = cancel_token
        /\ UNCHANGED <<registryVars, pc, cmd, result, served, agenda, prog, owner>>
    BY <1>4 DEF Terminated, vars, controlVars
  <2>. QED  BY <2>1, TokenInv DEF IInv, TypeOK
<1>5. CASE \E i \in DOMAIN prog : Serve(i) \/ ByItself(i) \/ Unhealthy(i)
  BY <1>5, ProgramInv
<1>. QED  BY <1>1, <1>2, <1>3, <1>4, <1>5, LeaveInv, TimeoutInv, AbortInv DEF Next

\* Whatever is reloaded, removed, added, restarted or timed out, the blocks a
\* handler still has to execute account for every instance.
THEOREM ManagerInvariance == ASSUME StableGroups PROVE Spec => []IInv
<1>1. Init => IInv
  BY InitInv
<1>2. IInv /\ [Next]_vars => IInv'
  BY NextInv
<1>. QED  BY <1>1, <1>2, PTL DEF Spec

\* No two instances of one program may have a process at the same time, none is
\* lost while the manager is in its loop, and none survives it.
THEOREM ProgramsOwned == ASSUME StableGroups PROVE Spec => []InstancesOwned
<1>1. IInv => InstancesOwned
  <2>. SUFFICES ASSUME IInv PROVE InstancesOwned
    OBVIOUS
  <2>1. TypeOK /\ DoneMeansGone
    BY DEF IInv
  <2>2. NoOrphan
    BY SelectFacts DEF NoOrphan, Registered
  <2>3. \A i \in DOMAIN prog : prog[i] \in ProgramType /\ Sane(prog[i])
    BY ElementOfSeq, LenProperties DEF IInv, TypeOK, RecordsSound
  <2>4. \A i \in DOMAIN prog : Dormant(prog[i]) => ~MayHaveProcess(i)
    BY <2>3, DormantFacts DEF MayHaveProcess
  <2>5. OnePerName
    BY <2>4 DEF OnePerName, IInv, Exclusive
  <2>. QED  BY <2>1, <2>2, <2>5 DEF InstancesOwned
<1>. QED  BY <1>1, ManagerInvariance, PTL

\* Between two commands the registries are about the same programs, all of
\* which can be commanded.
THEOREM RegistriesKept == ASSUME StableGroups PROVE Spec => []RegistriesAgree
<1>1. IInv => RegistriesAgree
  <2>. SUFFICES ASSUME IInv, pc = "select"
                PROVE  /\ DOMAIN programs = DOMAIN configs
                       /\ shared_configs = configs
                       /\ cron_table = CronTable(configs)
                       /\ \A n \in DOMAIN programs :
                             /\ owner[programs[n]] = n
                             /\ ~prog[programs[n]].ended /\ ~prog[programs[n]].cancel
                       /\ Buildable(configs) => dag = Dag(configs)
    BY DEF RegistriesAgree
  <2>1. /\ \A n \in DOMAIN programs : Live(prog[programs[n]])
        /\ DOMAIN programs = DOMAIN configs /\ Agreed
    BY SelectFacts
  <2>2. \A n \in DOMAIN programs : owner[programs[n]] = n
    BY DEF IInv, MapsSound
  <2>. QED  BY <2>1, <2>2 DEF Agreed, Live
<1>. QED  BY <1>1, ManagerInvariance, PTL

-----------------------------------------------------------------------------
(* A reload touches only what it changes.                                  *)

\* A mailbox with one more command is another mailbox.
LEMMA AppendGrows ==
    ASSUME NEW s \in Seq(Ops), NEW op \in Ops
    PROVE  /\ Append(s, op) # s /\ Append(s, op) # <<>>
           /\ s # <<>> => Append(s, op) # Tail(s)
<1>1. Len(Append(s, op)) = Len(s) + 1 /\ Len(s) \in Nat
  BY AppendProperties, LenProperties
<1>2. Len(<<>>) = 0
  BY EmptySeq
<1>3. s # <<>> => Len(Tail(s)) = Len(s) - 1
  BY HeadTailProperties
<1>. QED  BY <1>1, <1>2, <1>3

\* A program does not write to its own mailbox.
LEMMA ServeMail ==
    ASSUME NEW r \in ProgramType, NEW s \in ServeSteps(r) \cup OwnSteps(r) \cup HealthSteps(r),
           NEW op \in Ops
    PROVE  s.inbox # Append(r.inbox, op)
<1>0. r.inbox \in Seq(Ops)
  BY DEF ProgramType
<1>1. CASE s \in OwnSteps(r) \cup HealthSteps(r)
  <2>1. s.inbox = r.inbox
    BY <1>1 DEF OwnSteps, HealthSteps, ProgramType
  <2>. QED  BY <1>0, <2>1, AppendGrows
<1>2. CASE s \in TakeSteps(r)
  <2>. DEFINE rest == [r EXCEPT !.inbox = Tail(@)]
  <2>1. r.inbox # <<>>
    BY <1>2 DEF TakeSteps
  <2>2. Tail(r.inbox) \in Seq(Ops)
    BY <1>0, <2>1, HeadTailProperties
  <2>3. rest \in ProgramType /\ rest.inbox = Tail(r.inbox)
    BY <2>2 DEF ProgramType
  <2>. HIDE DEF rest
  <2>4. /\ Reply(rest, "ok").inbox = rest.inbox /\ Reply(rest, "err").inbox = rest.inbox
    BY <2>3, ReplyFacts
  <2>5. \/ s = [rest EXCEPT !.doing = "Start"]
        \/ s \in {Reply(rest, "ok"), Reply(rest, "err")}
        \/ s \in BeginStop(rest, Head(r.inbox))
    BY <1>2 DEF TakeSteps, rest
  <2>6. s \in BeginStop(rest, Head(r.inbox)) => s.inbox = rest.inbox
    BY <2>3 DEF BeginStop, ProgramType
  <2>7. s.inbox = Tail(r.inbox)
    BY <2>3, <2>4, <2>5, <2>6 DEF ProgramType
  <2>. QED  BY <1>0, <2>1, <2>7, AppendGrows
<1>3. CASE s \in CancelSteps(r) \cup StopSteps(r)
  <2>1. s.inbox = r.inbox
    BY <1>3 DEF CancelSteps, StopSteps, BeginStop, ProgramType
  <2>. QED  BY <1>0, <2>1, AppendGrows
<1>4. CASE s \in SecondHalfSteps(r)
  <2>1. PICK T : T = Spawned(r) \cup {r, [r EXCEPT !.state = "Fatal"]}
    OBVIOUS
  <2>2. \A t \in T : t \in ProgramType /\ t.inbox = r.inbox
    BY <2>1 DEF Spawned, ProgramType
  <2>3. \A t \in T, res \in {"ok", "err"} : Finish(t, res).inbox = r.inbox
    <3>. TAKE t \in T, res \in {"ok", "err"}
    <3>1. t \in ProgramType /\ t.inbox = r.inbox
      BY <2>2
    <3>. QED  BY <3>1, FinishFacts
  <2>4. CASE r.doing = "Start" \/ (r.doing = "Restart" /\ r.half)
    <3>1. \E t \in T, res \in {"ok", "err"} : s = Finish(t, res)
      BY <1>4, <2>1, <2>4 DEF SecondHalfSteps
    <3>2. s.inbox = r.inbox
      BY <2>3, <3>1
    <3>. QED  BY <1>0, <3>2, AppendGrows
  <2>5. CASE r.doing = "Health" /\ r.half
    <3>1. PICK t \in T : s = [t EXCEPT !.doing = "idle", !.half = FALSE]
      BY <1>4, <2>1, <2>5 DEF SecondHalfSteps
    <3>2. s.inbox = r.inbox
      BY <2>2, <3>1 DEF ProgramType
    <3>. QED  BY <1>0, <3>2, AppendGrows
  <2>6. CASE r.doing \in {"Stop", "Shutdown"} /\ r.half
    <3>1. PICK f : f = Finish(r, "ok")
      OBVIOUS
    <3>2. f \in ProgramType /\ f.inbox = r.inbox
      BY <3>1, FinishFacts
    <3>3. s = f \/ s = [f EXCEPT !.cancel = TRUE]
      BY <1>4, <2>6, <3>1 DEF SecondHalfSteps
    <3>4. s.inbox = r.inbox
      BY <3>2, <3>3 DEF ProgramType
    <3>. QED  BY <1>0, <3>4, AppendGrows
  <2>7. CASE r.doing = "Cancel" /\ r.half
    <3>1. PICK e : e = [r EXCEPT !.inbox = <<>>]
      OBVIOUS
    <3>2. e \in ProgramType /\ e.inbox = <<>>
      BY <3>1, EmptySeq DEF ProgramType
    <3>3. PICK f : f = Finish(e, "err")
      OBVIOUS
    <3>4. f \in ProgramType /\ f.inbox = <<>>
      BY <3>2, <3>3, FinishFacts
    <3>5. s = [f EXCEPT !.ended = TRUE]
      BY <1>4, <2>7, <3>1, <3>3 DEF SecondHalfSteps
    <3>6. s.inbox = <<>>
      BY <3>4, <3>5 DEF ProgramType
    <3>. QED  BY <1>0, <3>6, AppendGrows
  <2>8. \/ r.doing = "Start" \/ (r.doing = "Restart" /\ r.half) \/ (r.doing = "Health" /\ r.half)
        \/ (r.doing \in {"Stop", "Shutdown"} /\ r.half) \/ (r.doing = "Cancel" /\ r.half)
    BY <1>4 DEF SecondHalfSteps
  <2>. QED  BY <2>4, <2>5, <2>6, <2>7, <2>8
<1>. QED  BY <1>1, <1>2, <1>3, <1>4 DEF ServeSteps

\* Instance i is neither sent a command nor cancelled.
LeftAlone(i) ==
    /\ \A op \in Ops : ~Sends(i, op)
    /\ prog'[i].cancel = prog[i].cancel

\* An instance whose record stays as it is, or whose caller hangs up.
LEMMA StillAlone ==
    ASSUME IInv, NEW i \in DOMAIN prog, prog'[i] = prog[i] \/ prog'[i] = Hangup(prog[i])
    PROVE  LeftAlone(i)
<1>1. prog[i] \in ProgramType
  BY ElementOfSeq, LenProperties DEF IInv, TypeOK
<1>2. Hangup(prog[i]).inbox = prog[i].inbox /\ Hangup(prog[i]).cancel = prog[i].cancel
  BY <1>1 DEF Hangup, ProgramType
<1>3. prog[i].inbox \in Seq(Ops)
  BY <1>1 DEF ProgramType
<1>4. \A op \in Ops : prog[i].inbox # Append(prog[i].inbox, op)
  BY <1>3, AppendGrows
<1>. QED  BY <1>2, <1>4 DEF LeftAlone, Sends

\* A live program that goes on by itself.
LEMMA MovesAlone ==
    ASSUME IInv, NEW j \in DOMAIN prog, Serve(j) \/ ByItself(j) \/ Unhealthy(j),
           NEW i \in DOMAIN prog, Live(prog[i])
    PROVE  LeftAlone(i)
<1>1. prog[i] \in ProgramType /\ Sane(prog[i])
  BY ElementOfSeq, LenProperties DEF IInv, TypeOK, RecordsSound
<1>2. PICK s \in ServeSteps(prog[j]) \cup OwnSteps(prog[j]) \cup HealthSteps(prog[j]) :
         prog' = [prog EXCEPT ![j] = s]
  BY DEF Serve, ByItself, Unhealthy, ProgramMoves
<1>3. CASE i # j
  <2>1. prog'[i] = prog[i]
    BY <1>2, <1>3
  <2>. QED  BY <2>1, StillAlone
<1>4. CASE i = j
  <2>1. prog'[i] = s
    BY <1>2, <1>4
  <2>2. \A op \in Ops : s.inbox # Append(prog[i].inbox, op)
    BY <1>1, <1>2, <1>4, ServeMail
  <2>3. ~prog[i].ended /\ ~prog[i].cancel
    BY DEF Live
  <2>4. Evolves(prog[i], s)
    BY <1>1, <1>2, <1>4, <2>3, ServeEvolves, OwnEvolves
  <2>5. s \in ProgramType /\ prog[i].cancel = FALSE /\ s.cancel = FALSE
    BY <1>1, <2>4 DEF Evolves, Live, ProgramType
  <2>. QED  BY <2>1, <2>2, <2>5 DEF LeftAlone, Sends
<1>. QED  BY <1>3, <1>4

\* During a reload, a program that the file does not change is registered, can
\* be commanded, and is not on its way out.
LEMMA SparedFacts ==
    ASSUME IInv, Spared, pc = "exec", cmd.op = "Reload", NEW n, AsPending(n)
    PROVE  /\ n \in DOMAIN programs /\ programs[n] \in DOMAIN prog
           /\ owner[programs[n]] = n /\ Live(prog[programs[n]])
           /\ ~Closing(programs[n])
           /\ \A b \in Todo : NameBlock(b) => b.name # n
<1>1. \A b \in Todo : NameBlock(b) => b.name # n
  BY DEF Spared
<1>2. \A dos : dos \subseteq {"remove", "forget", "replace", "add", "install"} => ~Named(dos, n)
  BY <1>1 DEF Named, NameBlock
<1>3. ~Named({"forget"}, n) /\ ~Named({"add", "install"}, n)
  BY <1>2
<1>4. ~Swapping /\ ~Leaving
  BY DEF Swapping, Leaving, Spared
<1>5. n \in DOMAIN programs
  BY <1>3 DEF IInv, Tracked, Up, AsPending
<1>6. programs[n] \in DOMAIN prog /\ owner[programs[n]] = n
  BY <1>5 DEF IInv, MapsSound
<1>7. ~Outgoing(n)
  BY <1>3, <1>4 DEF Outgoing
<1>8. Live(prog[programs[n]])
  BY <1>5, <1>7 DEF IInv, RegisteredSound, Up
<1>9. ~Closing(programs[n])
  BY <1>5, <1>6, <1>7 DEF Closing, IInv, ClosingSound
<1>. QED  BY <1>1, <1>5, <1>6, <1>8, <1>9

\* The block in hand is one of the blocks to do.
LEMMA HeadIsTodo ==
    ASSUME IInv, agenda # <<>>
    PROVE  Head(agenda) \in Todo
BY HeadFacts DEF IInv

\* Sending to other instances.
LEMMA SendAlone ==
    ASSUME IInv, NEW i \in DOMAIN prog, NEW ids, NEW op, SendTo(ids, op), i \notin ids
    PROVE  LeftAlone(i)
<1>1. prog'[i] = prog[i]
  BY DEF SendTo
<1>. QED  BY <1>1, StillAlone

\* What one step of a reload does to a program it does not change.
SparesStep(n) ==
    /\ n \in DOMAIN programs' /\ programs'[n] = programs[n]
    /\ LeftAlone(programs[n])

\* The blocks about programs of the diff.
LEMMA SparesNamed ==
    ASSUME IInv, Spared, pc = "exec", cmd.op = "Reload", NEW n, AsPending(n),
           DoRemove \/ DoForget \/ DoReplace \/ DoAdd \/ DoInstall
    PROVE  SparesStep(n)
<1>. DEFINE h == Head(agenda)
            i == programs[n]
<1>1. /\ n \in DOMAIN programs /\ i \in DOMAIN prog /\ owner[i] = n
      /\ \A b \in Todo : NameBlock(b) => b.name # n
  BY SparedFacts
<1>2. agenda # <<>> /\ h \in Todo /\ NameBlock(h)
  BY HeadIsTodo DEF DoRemove, DoForget, DoReplace, DoAdd, DoInstall, At, NameBlock
<1>3. h.name # n
  BY <1>1, <1>2
<1>4. \A m \in DOMAIN programs : owner[programs[m]] = m
  BY DEF IInv, MapsSound
<1>5. h.name \in DOMAIN programs => programs[h.name] # i
  BY <1>1, <1>3, <1>4
<1>. HIDE DEF h
<1>6. CASE DoRemove
  <2>1. h.do = "remove" /\ SendTo({programs[h.name]}, "Stop")
        /\ programs' = Without(programs, h.name)
    BY <1>6 DEF DoRemove, At, h
  <2>2. h.name \in DOMAIN programs
    BY <1>2, <2>1 DEF IInv, BlocksSound
  <2>3. LeftAlone(i)
    BY <1>1, <1>5, <2>1, <2>2, SendAlone
  <2>. QED  BY <1>1, <1>3, <2>1, <2>3 DEF SparesStep, Without
<1>7. CASE DoForget
  <2>1. programs' = programs /\ prog' = prog
    BY <1>7 DEF DoForget
  <2>. QED  BY <1>1, <2>1, StillAlone DEF SparesStep
<1>8. CASE DoReplace
  <2>1. h.do = "replace" /\ SendTo({programs[h.name]}, "Stop") /\ programs' = programs
    BY <1>8 DEF DoReplace, At, h, registryVars
  <2>2. h.name \in DOMAIN programs
    BY <1>2, <2>1 DEF IInv, BlocksSound
  <2>3. LeftAlone(i)
    BY <1>1, <1>5, <2>1, <2>2, SendAlone
  <2>. QED  BY <1>1, <2>1, <2>3 DEF SparesStep
<1>9. CASE DoAdd
  <2>1. /\ h.do = "add" /\ programs' = programs
        /\ SendTo({Staged(h.name)}, "Start") \/ prog' = prog
    BY <1>9 DEF DoAdd, At, h, registryVars
  <2>2. h.name \in DOMAIN pending_configs /\ Awaited(h.name)
    BY <1>2, <2>1 DEF IInv, BlocksSound, Awaited, Named
  <2>3. owner[Staged(h.name)] = h.name
    BY <2>2 DEF IInv, StagedSound
  <2>4. Staged(h.name) # i
    BY <1>1, <1>3, <2>3
  <2>5. LeftAlone(i)
    BY <1>1, <2>1, <2>4, SendAlone, StillAlone
  <2>. QED  BY <1>1, <2>1, <2>5 DEF SparesStep
<1>10. CASE DoInstall
  <2>1. /\ programs' = With(programs, h.name, Staged(h.name))
        /\ prog' = [k \in DOMAIN prog |->
                      IF k \in {programs[m] : m \in DOMAIN programs \cap {h.name}}
                      THEN CancelIt(prog[k]) ELSE prog[k]]
    BY <1>10 DEF DoInstall, h
  <2>2. i \notin {programs[m] : m \in DOMAIN programs \cap {h.name}}
    BY <1>5
  <2>3. prog'[i] = prog[i]
    BY <1>1, <2>1, <2>2
  <2>4. LeftAlone(i)
    BY <1>1, <2>3, StillAlone
  <2>. QED  BY <1>1, <1>3, <2>1, <2>4 DEF SparesStep, With
<1>. QED  BY <1>6, <1>7, <1>8, <1>9, <1>10

\* The other blocks, and what happens meanwhile.
LEMMA SparesOther ==
    ASSUME IInv, Spared, pc = "exec", cmd.op = "Reload", pc' = "exec", NEW n, AsPending(n),
           [Next]_vars, ~(DoRemove \/ DoForget \/ DoReplace \/ DoAdd \/ DoInstall)
    PROVE  SparesStep(n)
<1>. DEFINE h == Head(agenda)
            i == programs[n]
<1>1. /\ n \in DOMAIN programs /\ i \in DOMAIN prog /\ Live(prog[i]) /\ ~Closing(i)
  BY SparedFacts
<1>2. CASE UNCHANGED vars \/ DoAwait \/ AwaitTimesOut \/ DoJoin \/ DoAdopt \/ Complete
           \/ CancelManager \/ Terminated
  <2>1. programs' = programs
    BY <1>2 DEF vars, registryVars, DoAwait, AwaitTimesOut, DoJoin, DoAdopt, Complete,
                CancelManager, Terminated
  <2>2. prog'[i] = prog[i] \/ prog'[i] = Hangup(prog[i])
    BY <1>1, <1>2 DEF vars, DoAwait, AwaitTimesOut, DoJoin, DoAdopt, Complete,
                      CancelManager, Terminated
  <2>. QED  BY <1>1, <2>1, <2>2, StillAlone DEF SparesStep
<1>3. CASE DoShutdown \/ DoCancel
  <2>1. agenda # <<>> /\ h \in Todo /\ IdBlock(h) /\ programs' = programs
    BY <1>3, HeadIsTodo DEF DoShutdown, DoCancel, At, IdBlock, registryVars
  <2>2. h.id # i
    BY <1>1, <2>1 DEF Closing
  <2>3. SendTo({h.id}, "Shutdown") \/ prog' = [prog EXCEPT ![h.id] = CancelIt(@)]
    BY <1>3 DEF DoShutdown, DoCancel
  <2>4. LeftAlone(i)
    <3>1. CASE SendTo({h.id}, "Shutdown")
      BY <1>1, <2>2, <3>1, SendAlone
    <3>2. CASE prog' = [prog EXCEPT ![h.id] = CancelIt(@)]
      <4>1. prog'[i] = prog[i]
        BY <1>1, <2>2, <3>2
      <4>. QED  BY <1>1, <4>1, StillAlone
    <3>. QED  BY <2>3, <3>1, <3>2
  <2>. QED  BY <1>1, <2>1, <2>4 DEF SparesStep
<1>4. ASSUME NEW j \in DOMAIN prog, Serve(j) \/ ByItself(j) \/ Unhealthy(j)
      PROVE  SparesStep(n)
  <2>1. programs' = programs
    BY <1>4 DEF Serve, ByItself, Unhealthy, ProgramMoves, registryVars
  <2>2. LeftAlone(i)
    BY <1>1, <1>4, MovesAlone
  <2>. QED  BY <1>1, <2>1, <2>2 DEF SparesStep
<1>5. ~(DoStartLayer \/ DoStopLayer \/ DoCall \/ DoCron \/ DoDerive \/ DoSwap)
  <2>. SUFFICES ASSUME DoStartLayer \/ DoStopLayer \/ DoCall \/ DoCron \/ DoDerive \/ DoSwap
                PROVE  FALSE
    OBVIOUS
  <2>1. agenda # <<>> /\ h \in Todo
        /\ h.do \in {"start_layer", "stop_layer", "call", "cron", "derive", "swap"}
    BY HeadIsTodo DEF DoStartLayer, DoStopLayer, DoCall, DoCron, DoDerive, DoSwap, At
  <2>. QED  BY <2>1 DEF Spared, FreeBlock
<1>6. ~Select /\ ~Cancelled /\ ~Abort
  BY DEF Select, Cancelled, Abort, StartProgram, StopProgram, RestartProgram, SignalProgram,
         OnPrograms, StartGroup, StopGroup, RestartGroup, StartAll, StopAll, Reload,
         RestartDaemon, AddGroup, RemoveGroup, CronDue, ShutdownCommand, Received
<1>. QED  BY <1>2, <1>3, <1>4, <1>5, <1>6 DEF Next, Block
\* One block gives way to blocks about programs that the file changes.
LEMMA SparedContinue ==
    ASSUME IInv, Spared, pc = "exec", cmd.op = "Reload", agenda # <<>>,
           NEW plan, IsSeq(plan), Continue(plan),
           \A b \in SetOf(plan) :
               /\ ~FreeBlock(b) /\ b.do \notin {"derive", "swap"}
               /\ NameBlock(b) => ~AsPending(b.name)',
           \A c \in SetOf(Tail(agenda)) :
               NameBlock(c) /\ ~AsPending(c.name) => ~AsPending(c.name)'
    PROVE  Spared'
<1>1. IsSeq(agenda)
  BY DEF IInv, AgendaSound, IsSeq, Todo
<1>2. IsSeq(Tail(agenda)) /\ Todo = {Head(agenda)} \cup SetOf(Tail(agenda))
  BY <1>1, PopFacts DEF Todo
<1>3. Todo' = SetOf(plan) \cup SetOf(Tail(agenda))
  BY <1>2, JoinFacts DEF Continue, Todo
<1>4. \A c \in SetOf(Tail(agenda)) :
         /\ ~FreeBlock(c) /\ c.do \notin {"derive", "swap"}
         /\ NameBlock(c) => ~AsPending(c.name)'
  BY <1>2 DEF Spared
<1>. QED  BY <1>3, <1>4 DEF Spared

\* Blocks that change no configuration and are not about a program's name.
LEMMA SparedQuiet ==
    ASSUME IInv, Spared, pc = "exec", cmd.op = "Reload", agenda # <<>>,
           UNCHANGED <<configs, pending_configs>>,
           NEW plan, IsSeq(plan), Continue(plan),
           \A b \in SetOf(plan) : b.do = "await" \/ IdBlock(b)
    PROVE  Spared'
<1>1. \A n : AsPending(n)' <=> AsPending(n)
  BY DEF AsPending
<1>2. \A b \in SetOf(plan) :
         ~FreeBlock(b) /\ b.do \notin {"derive", "swap"} /\ ~NameBlock(b)
  BY DEF FreeBlock, NameBlock, IdBlock
<1>. QED  BY <1>1, <1>2, SparedContinue

\* The blocks that wait for an instance or end one.
LEMMA SparedWait ==
    ASSUME IInv, Spared, pc = "exec", cmd.op = "Reload",
           DoAwait \/ AwaitTimesOut \/ DoShutdown \/ DoCancel \/ DoJoin \/ DoAdopt
    PROVE  Spared'
<1>. DEFINE h == Head(agenda)
<1>1. agenda # <<>> /\ UNCHANGED <<configs, pending_configs>>
  BY DEF DoAwait, AwaitTimesOut, DoShutdown, DoCancel, DoJoin, DoAdopt, At, registryVars
<1>2. \/ agenda' = <<>> \/ Continue(<<>>)
      \/ \E ids : Continue(<<Await(ids, FALSE)>>)
      \/ \E i : Continue(<<Await({i}, FALSE), Cancel(i)>>)
      \/ \E i : Continue(<<Join(i)>>)
  BY DEF DoAwait, AwaitTimesOut, DoShutdown, DoCancel, DoJoin, DoAdopt
<1>3. CASE agenda' = <<>>
  <2>1. Todo' = {}
    BY <1>3, EmptyPlan DEF Todo
  <2>. QED  BY <2>1 DEF Spared
<1>4. CASE Continue(<<>>)
  BY <1>1, <1>4, EmptyPlan, SparedQuiet
<1>5. ASSUME NEW ids, Continue(<<Await(ids, FALSE)>>) PROVE Spared'
  <2>1. PICK a : a = Await(ids, FALSE)
    OBVIOUS
  <2>2. a.do = "await"
    BY <2>1 DEF Await
  <2>3. IsSeq(<<a>>) /\ SetOf(<<a>>) = {a} /\ Continue(<<a>>)
    BY <1>5, <2>1, ShortPlans
  <2>. QED  BY <1>1, <2>2, <2>3, SparedQuiet
<1>6. ASSUME NEW i, Continue(<<Await({i}, FALSE), Cancel(i)>>) PROVE Spared'
  <2>1. PICK a, b : a = Await({i}, FALSE) /\ b = Cancel(i)
    OBVIOUS
  <2>2. a.do = "await" /\ IdBlock(b)
    BY <2>1 DEF Await, Cancel, IdBlock
  <2>3. IsSeq(<<a, b>>) /\ SetOf(<<a, b>>) = {a, b} /\ Continue(<<a, b>>)
    BY <1>6, <2>1, ShortPlans
  <2>. QED  BY <1>1, <2>2, <2>3, SparedQuiet
<1>7. ASSUME NEW i, Continue(<<Join(i)>>) PROVE Spared'
  <2>1. PICK a : a = Join(i)
    OBVIOUS
  <2>2. IdBlock(a)
    BY <2>1 DEF Join, IdBlock
  <2>3. IsSeq(<<a>>) /\ SetOf(<<a>>) = {a} /\ Continue(<<a>>)
    BY <1>7, <2>1, ShortPlans
  <2>. QED  BY <1>1, <2>2, <2>3, SparedQuiet
<1>. QED  BY <1>2, <1>3, <1>4, <1>5, <1>6, <1>7

\* The blocks about programs of the diff: what one unfolds to is about the same
\* program, and the configuration of that program changes only with its last.
LEMMA SparedNamed ==
    ASSUME IInv, Spared, pc = "exec", cmd.op = "Reload",
           DoRemove \/ DoForget \/ DoReplace \/ DoAdd \/ DoInstall
    PROVE  Spared'
<1>. DEFINE h == Head(agenda)
            n == h.name
            i == programs[n]
<1>1. agenda # <<>> /\ NameBlock(h) /\ pending_configs' = pending_configs
  BY DEF DoRemove, DoForget, DoReplace, DoAdd, DoInstall, At, NameBlock, registryVars
<1>2. h \in Todo /\ ~AsPending(n)
  BY <1>1, HeadIsTodo DEF Spared
<1>3. \A c \in SetOf(Tail(agenda)) : NameBlock(c) => c.name # n
  BY <1>1, NameHead
<1>. HIDE DEF h
<1>4. CASE DoForget \/ DoInstall
  <2>1. /\ Continue(<<>>)
        /\ configs' = Without(configs, n) \/ configs' = With(configs, n, pending_configs[n])
    BY <1>4 DEF DoForget, DoInstall, h
  <2>2. \A m : m # n /\ AsPending(m)' => AsPending(m)
    BY <1>1, <2>1 DEF AsPending, Without, With
  <2>. QED  BY <1>1, <1>3, <2>1, <2>2, EmptyPlan, SparedContinue
<1>5. CASE DoRemove \/ DoReplace \/ DoAdd
  <2>1. configs' = configs
    BY <1>5 DEF DoRemove, DoReplace, DoAdd, registryVars
  <2>2. \A m : AsPending(m)' <=> AsPending(m)
    BY <1>1, <2>1 DEF AsPending
  <2>3. PICK a, x, s, b : /\ a = Await({i}, FALSE) /\ x = Await({Staged(n)}, FALSE)
                          /\ s = Shutdown(i) /\ b \in {Forget(n), Add(n), Install(n)}
                          /\ \/ Continue(<<a, s, b>>)
                             \/ Continue(<<x, b>>)
                             \/ Continue(<<b>>)
    BY <1>5 DEF DoRemove, DoReplace, DoAdd, h
  <2>4. /\ a.do = "await" /\ x.do = "await" /\ s.do = "shutdown"
        /\ b.do \in {"forget", "add", "install"} /\ b.name = n
    BY <2>3 DEF Await, Shutdown, Forget, Add, Install
  <2>5. \A d \in {a, x, s, b} :
           /\ ~FreeBlock(d) /\ d.do \notin {"derive", "swap"}
           /\ NameBlock(d) => ~AsPending(d.name)'
    BY <1>2, <2>2, <2>4 DEF FreeBlock, NameBlock
  <2>6. PICK plan : IsSeq(plan) /\ SetOf(plan) \subseteq {a, x, s, b} /\ Continue(plan)
    <3>1. /\ IsSeq(<<b>>) /\ SetOf(<<b>>) = {b}
          /\ IsSeq(<<x, b>>) /\ SetOf(<<x, b>>) = {x, b}
      BY ShortPlans
    <3>2. IsSeq(<<a, s, b>>) /\ SetOf(<<a, s, b>>) = {a, s, b}
      BY ThreeBlocks
    <3>3. CASE Continue(<<a, s, b>>)
      BY <3>2, <3>3
    <3>4. CASE Continue(<<x, b>>)
      BY <3>1, <3>4
    <3>5. CASE Continue(<<b>>)
      BY <3>1, <3>5
    <3>. QED  BY <2>3, <3>3, <3>4, <3>5
  <2>. QED  BY <1>1, <2>2, <2>5, <2>6, SparedContinue
<1>. QED  BY <1>4, <1>5
\* A reload starts with blocks about the programs of the diff, or with none.
LEMMA SparedReload == IInv /\ Reload => Spared'
<1>. SUFFICES ASSUME IInv, Reload PROVE Spared'
  OBVIOUS
<1>1. PICK c \in Received("Reload") :
         \/ Reject(c, Gens[c.arg])
         \/ \E r \in Sorted(Removed(configs, Gens[c.arg])) :
            \E m \in Sorted(Modified(configs, Gens[c.arg])) :
            \E a \in Sorted(Added(configs, Gens[c.arg])) :
               Accept(c, Gens[c.arg], m \o a,
                      Each(Remove, r) \o Each(Replace, m) \o Each(Add, a) \o <<Adopt>>)
  BY DEF Reload
<1>2. CASE Reject(c, Gens[c.arg])
  <2>1. agenda' = <<>>
    BY <1>2 DEF Reject, TakeCommand, Begin
  <2>2. Todo' = {}
    BY <2>1, EmptyPlan DEF Todo
  <2>. QED  BY <2>2 DEF Spared
<1>3. ASSUME NEW r \in Sorted(Removed(configs, Gens[c.arg])),
             NEW m \in Sorted(Modified(configs, Gens[c.arg])),
             NEW a \in Sorted(Added(configs, Gens[c.arg])),
             Accept(c, Gens[c.arg], m \o a,
                    Each(Remove, r) \o Each(Replace, m) \o Each(Add, a) \o <<Adopt>>)
      PROVE  Spared'
  <2>1. c.arg \in DOMAIN Gens
    BY CommandsAssumption DEF Received
  <2>2. PICK new : new = Gens[c.arg]
    OBVIOUS
  <2>3. PICK R, M, A : /\ R = Removed(configs, new) /\ M = Modified(configs, new)
                       /\ A = Added(configs, new)
    OBVIOUS
  <2>4. /\ R \subseteq DOMAIN configs /\ M \subseteq DOMAIN configs /\ A \subseteq DOMAIN new
        /\ \A n \in R \cup M \cup A :
              ~(n \in DOMAIN configs \cap DOMAIN new /\ configs[n] = new[n])
    BY <2>3 DEF Removed, Modified, Added
  <2>5. IsFiniteSet(R) /\ IsFiniteSet(M) /\ IsFiniteSet(A)
    BY <2>1, <2>2, <2>4, GensAssumption, PendingFacts, FS_Subset
  <2>6. Lists(r, R) /\ Lists(m, M) /\ Lists(a, A)
    BY <2>2, <2>3, <2>5, OrdersList DEF Sorted
  <2>7. PICK p1, p2, p3, e : /\ p1 = Each(Remove, r) /\ p2 = Each(Replace, m)
                             /\ p3 = Each(Add, a) /\ e = Adopt
    OBVIOUS
  <2>8. EachNamed(p1, r, "remove") /\ EachNamed(p2, m, "replace") /\ EachNamed(p3, a, "add")
    BY <2>7 DEF EachNamed, Each, Remove, Replace, Add
  <2>9. IsSeq(p1) /\ \A b \in SetOf(p1) : b.do = "remove" /\ b.name \in R
    BY <2>6, <2>8, NamePlan
  <2>10. IsSeq(p2) /\ \A b \in SetOf(p2) : b.do = "replace" /\ b.name \in M
    BY <2>6, <2>8, NamePlan
  <2>11. IsSeq(p3) /\ \A b \in SetOf(p3) : b.do = "add" /\ b.name \in A
    BY <2>6, <2>8, NamePlan
  <2>12. PICK p12 : p12 = p1 \o p2
    OBVIOUS
  <2>13. IsSeq(p12) /\ SetOf(p12) = SetOf(p1) \cup SetOf(p2)
    BY <2>9, <2>10, <2>12, JoinFacts
  <2>14. PICK q : q = p12 \o p3
    OBVIOUS
  <2>15. IsSeq(q) /\ SetOf(q) = SetOf(p12) \cup SetOf(p3)
    BY <2>11, <2>13, <2>14, JoinFacts
  <2>16. agenda' = q \o <<e>> /\ pending_configs' = new /\ configs' = configs
    BY <1>3, <2>2, <2>7, <2>12, <2>14 DEF Accept, TakeCommand, Begin
  <2>17. IsSeq(<<e>>) /\ SetOf(<<e>>) = {e} /\ e.do = "adopt"
    BY <2>7, ShortPlans DEF Adopt
  <2>18. Todo' = SetOf(p1) \cup SetOf(p2) \cup SetOf(p3) \cup {e}
    <3>1. SetOf(q \o <<e>>) = SetOf(q) \cup SetOf(<<e>>)
      BY <2>15, <2>17, JoinFacts
    <3>. QED  BY <2>13, <2>15, <2>16, <2>17, <3>1 DEF Todo
  <2>19. \A n \in R \cup M \cup A : ~AsPending(n)'
    BY <2>4, <2>16 DEF AsPending
  <2>20. \A b \in Todo' :
            \/ b.do \in {"remove", "replace", "add"} /\ b.name \in R \cup M \cup A
            \/ b.do = "adopt"
    BY <2>9, <2>10, <2>11, <2>17, <2>18
  <2>. QED  BY <2>19, <2>20 DEF Spared, FreeBlock, NameBlock
<1>. QED  BY <1>1, <1>2, <1>3

\* Every step keeps it.
LEMMA SparedStep ==
    ASSUME IInv, Spared, [Next]_vars
    PROVE  Spared'
<1>1. CASE (Select /\ ~Reload) \/ Cancelled
  <2>. SUFFICES cmd'.op # "Reload"
    BY DEF Spared
  <2>1. ASSUME NEW op, op # "Reload", NEW c \in Received(op), NEW plan, NEW res,
               TakeCommand(c, plan, res)
        PROVE  cmd'.op # "Reload"
    BY <2>1 DEF Received, TakeCommand, Begin
  <2>2. CASE StartProgram \/ StopProgram \/ RestartProgram \/ SignalProgram
    BY <2>1, <2>2 DEF StartProgram, StopProgram, RestartProgram, SignalProgram, OnPrograms
  <2>3. CASE StartGroup \/ StopGroup \/ RestartGroup
    BY <2>1, <2>3 DEF StartGroup, StopGroup, RestartGroup, OnGroup
  <2>4. CASE StartAll \/ StopAll \/ ShutdownCommand
    BY <2>1, <2>4 DEF StartAll, StopAll, ShutdownCommand
  <2>5. CASE RestartDaemon
    BY <2>1, <2>5 DEF RestartDaemon, Reject, Accept
  <2>6. CASE AddGroup \/ RemoveGroup
    BY <2>1, <2>6 DEF AddGroup, RemoveGroup
  <2>7. CASE CronDue \/ Cancelled
    <3>1. \E op \in {"Cron", "Cancel"} : \E plan : Begin([op |-> op, arg |-> 0], plan, "ok")
      BY <2>7 DEF CronDue, Cancelled
    <3>. QED  BY <3>1 DEF Begin
  <2>. QED  BY <1>1, <2>2, <2>3, <2>4, <2>5, <2>6, <2>7 DEF Select
<1>2. CASE Complete \/ Abort
  <2>1. pc' # "exec"
    BY <1>2 DEF Complete, Abort
  <2>. QED  BY <2>1 DEF Spared
<1>3. CASE UNCHANGED <<pc, cmd, agenda, configs, pending_configs>>
  BY <1>3 DEF Spared, Todo, AsPending
<1>4. CASE \/ UNCHANGED vars \/ Terminated \/ CancelManager
           \/ \E i \in DOMAIN prog : Serve(i) \/ ByItself(i) \/ Unhealthy(i)
  <2>1. UNCHANGED <<pc, cmd, agenda, configs, pending_configs>>
    BY <1>4 DEF vars, Terminated, CancelManager, Serve, ByItself, Unhealthy, ProgramMoves,
                registryVars, controlVars
  <2>. QED  BY <1>3, <2>1
<1>5. CASE AwaitTimesOut \/ (Block /\ ~Complete)
  <2>1. pc = "exec" /\ cmd' = cmd /\ agenda # <<>>
    BY <1>5 DEF AwaitTimesOut, Block, DoStartLayer, DoStopLayer, DoCall, DoCron, DoAwait,
                DoShutdown, DoCancel, DoJoin, DoRemove, DoForget, DoReplace, DoAdd, DoInstall,
                DoAdopt, DoDerive, DoSwap, At, controlVars
  <2>2. CASE cmd.op # "Reload"
    BY <2>1, <2>2 DEF Spared
  <2>3. CASE cmd.op = "Reload"
    <3>1. Head(agenda) \in Todo
      BY <2>1, HeadIsTodo
    <3>2. Head(agenda).do \notin {"start_layer", "stop_layer", "call", "cron", "derive", "swap"}
      BY <2>1, <2>3, <3>1 DEF Spared, FreeBlock
    <3>3. ~(DoStartLayer \/ DoStopLayer \/ DoCall \/ DoCron \/ DoDerive \/ DoSwap)
      BY <3>2 DEF DoStartLayer, DoStopLayer, DoCall, DoCron, DoDerive, DoSwap, At
    <3>. QED  BY <1>5, <2>1, <2>3, <3>3, SparedWait, SparedNamed DEF Block
  <2>. QED  BY <2>2, <2>3
<1>. QED  BY <1>1, <1>2, <1>4, <1>5, SparedReload DEF Next, Block

\* A reload neither commands, cancels nor replaces a program whose
\* configuration the new file leaves as it is, whatever times out on the way.
THEOREM ReloadSpares == ASSUME StableGroups PROVE Spec => ReloadSparesUnchanged
<1>1. Init => Spared
  BY DEF Init, Spared
<1>2. IInv /\ Spared /\ [Next]_vars => Spared'
  BY SparedStep
<1>. DEFINE Step ==
       pc = "exec" /\ pc' = "exec" /\ cmd.op = "Reload" =>
         \A n \in DOMAIN configs \cap DOMAIN pending_configs :
             configs[n] = pending_configs[n] =>
                 /\ n \in DOMAIN programs' /\ programs'[n] = programs[n]
                 /\ \A op \in Ops : ~Sends(programs[n], op)
                 /\ prog'[programs[n]].cancel = prog[programs[n]].cancel
<1>3. IInv /\ Spared /\ [Next]_vars => Step
  <2>. SUFFICES ASSUME IInv, Spared, [Next]_vars, pc = "exec", pc' = "exec", cmd.op = "Reload",
                       NEW n, AsPending(n)
                PROVE  SparesStep(n)
    BY DEF AsPending, SparesStep, LeftAlone
  <2>. QED  BY SparesNamed, SparesOther
<1>. HIDE DEF Step
<1>4. Spec => [](IInv)
  BY ManagerInvariance
<1>5. Spec => [][Step]_vars
  BY <1>1, <1>2, <1>3, <1>4, PTL DEF Spec
<1>. QED  BY <1>5 DEF ReloadSparesUnchanged, Step
-----------------------------------------------------------------------------
(* A stop that is reported as successful.                                  *)

\* A reply reaches the caller only if no command is queued behind it.
LEMMA ReplyOutcome ==
    ASSUME NEW r \in ProgramType, NEW res \in {"ok", "err"}
    PROVE  /\ r.inbox = <<>> /\ r.outcome = "wait" =>
                 Reply(r, res).outcome = res /\ Finish(r, res).outcome = res
           /\ ~(r.inbox = <<>> /\ r.outcome = "wait") =>
                 Reply(r, res).outcome = r.outcome /\ Finish(r, res).outcome = r.outcome
<1>. DEFINE q == [r EXCEPT !.doing = "idle", !.half = FALSE]
<1>1. q \in ProgramType /\ q.inbox = r.inbox /\ q.outcome = r.outcome
  BY DEF ProgramType
<1>2. Finish(r, res) = Reply(q, res)
  BY DEF Finish
<1>. HIDE DEF q
<1>3. \A x \in ProgramType :
         Reply(x, res).outcome =
             IF x.inbox = <<>> /\ x.outcome = "wait" THEN res ELSE x.outcome
  BY DEF Reply, ProgramType
<1>. QED  BY <1>1, <1>2, <1>3

\* The last command of a mailbox is the last of what is left of it.
LEMMA LastOfTail ==
    ASSUME NEW s \in Seq(Ops), s # <<>>
    PROVE  /\ Tail(s) \in Seq(Ops)
           /\ Tail(s) = <<>> => Head(s) = s[Len(s)]
           /\ Tail(s) # <<>> => Tail(s)[Len(Tail(s))] = s[Len(s)]
<1>1. PICK t : t = Tail(s)
  OBVIOUS
<1>2. /\ t \in Seq(Ops) /\ Len(t) = Len(s) - 1 /\ Head(s) = s[1]
      /\ \A k \in 1 .. Len(t) : t[k] = s[k + 1]
      /\ Len(s) \in Nat /\ Len(t) \in Nat
  BY <1>1, HeadTailProperties, LenProperties
<1>3. CASE t = <<>>
  <2>1. Len(s) = 1
    BY <1>2, <1>3, EmptySeq
  <2>. QED  BY <1>1, <1>2, <1>3, <2>1
<1>4. CASE t # <<>>
  <2>1. Len(t) \in 1 .. Len(t) /\ Len(t) + 1 = Len(s)
    BY <1>2, <1>4, EmptySeq
  <2>. QED  BY <1>1, <1>2, <1>4, <2>1
<1>. QED  BY <1>3, <1>4

\* A program that is down stays as it is until it is called.
LEMMA DownStays ==
    ASSUME NEW r \in ProgramType, Live(r), Dormant(r)
    PROVE  /\ r.state = "Stopped" /\ r.inbox = <<>> /\ r.doing = "idle"
           /\ ServeSteps(r) \cup OwnSteps(r) \cup HealthSteps(r) = {}
<1>1. r.state = "Stopped" /\ r.inbox = <<>> /\ r.doing = "idle" /\ ~r.cancel /\ ~r.ended
  BY DEF Live, Dormant
<1>2. TakeSteps(r) = {} /\ CancelSteps(r) = {} /\ StopSteps(r) = {}
  BY <1>1 DEF TakeSteps, CancelSteps, StopSteps
<1>3. SecondHalfSteps(r) = {}
  BY <1>1 DEF SecondHalfSteps
<1>4. OwnSteps(r) = {} /\ HealthSteps(r) = {}
  BY <1>1 DEF OwnSteps, HealthSteps
<1>. QED  BY <1>1, <1>2, <1>3, <1>4 DEF ServeSteps

\* Whatever a live program does, a stop at the end of its mailbox stays the
\* newest call until the program is down.
LEMMA PendingStays ==
    ASSUME NEW r \in ProgramType, Sane(r), Live(r), StopPending(r),
           NEW s \in ServeSteps(r) \cup OwnSteps(r) \cup HealthSteps(r)
    PROVE  StopPending(s)
<1>0. /\ ~r.ended /\ ~r.cancel /\ r.doing \notin {"Shutdown", "Cancel"} /\ r.inbox \in Seq(Ops)
  BY DEF Live, ProgramType
<1>. DEFINE Last(x) == x.inbox # <<>> /\ x.inbox[Len(x.inbox)] = "Stop"
<1>2. \/ r.outcome = "wait" /\ Last(r)
      \/ r.outcome = "wait" /\ r.inbox = <<>> /\ r.doing = "Stop"
      \/ r.outcome = "err"
  <2>1. ~(r.outcome = "ok" /\ Dormant(r))
    BY DownStays
  <2>. QED  BY <2>1 DEF StopPending
<1>3. CASE s \in OwnSteps(r) \cup HealthSteps(r) \cup StopSteps(r)
  <2>1. s.inbox = r.inbox /\ s.outcome = r.outcome
    BY <1>3 DEF OwnSteps, HealthSteps, StopSteps, ProgramType
  <2>2. r.doing = "Stop" => s.doing = "Stop"
    BY <1>3 DEF OwnSteps, HealthSteps, StopSteps, ProgramType
  <2>. QED  BY <1>2, <2>1, <2>2 DEF StopPending
<1>4. CASE s \in TakeSteps(r)
  <2>. DEFINE rest == [r EXCEPT !.inbox = Tail(@)]
  <2>1. r.inbox # <<>> /\ r.doing = "idle"
    BY <1>4 DEF TakeSteps
  <2>2. /\ Tail(r.inbox) \in Seq(Ops)
        /\ Tail(r.inbox) = <<>> => Head(r.inbox) = r.inbox[Len(r.inbox)]
        /\ Tail(r.inbox) # <<>> =>
              Tail(r.inbox)[Len(Tail(r.inbox))] = r.inbox[Len(r.inbox)]
    BY <1>0, <2>1, LastOfTail
  <2>3. rest \in ProgramType /\ rest.inbox = Tail(r.inbox) /\ rest.outcome = r.outcome
    BY <2>2 DEF ProgramType
  <2>4. \/ s = [rest EXCEPT !.doing = "Start"] /\ Head(r.inbox) = "Start"
        \/ s \in {Reply(rest, "ok"), Reply(rest, "err")} /\ Head(r.inbox) = "Signal"
        \/ s \in BeginStop(rest, Head(r.inbox))
    BY <1>4 DEF TakeSteps
  <2>. HIDE DEF rest
  <2>5. CASE s = [rest EXCEPT !.doing = "Start"] /\ Head(r.inbox) = "Start"
    <3>1. s.inbox = rest.inbox /\ s.outcome = rest.outcome
      BY <2>3, <2>5 DEF ProgramType
    <3>. QED  BY <1>2, <2>1, <2>2, <2>3, <2>5, <3>1 DEF StopPending
  <2>6. CASE s \in {Reply(rest, "ok"), Reply(rest, "err")} /\ Head(r.inbox) = "Signal"
    <3>1. s.inbox = rest.inbox
      BY <2>3, <2>6, ReplyFacts
    <3>2. rest.inbox # <<>> \/ r.outcome = "err"
      BY <1>2, <2>1, <2>2, <2>3, <2>6
    <3>3. s.outcome = rest.outcome
      BY <2>3, <2>6, <3>2, ReplyOutcome
    <3>. QED  BY <1>2, <2>1, <2>2, <2>3, <3>1, <3>2, <3>3 DEF StopPending
  <2>7. CASE s \in BeginStop(rest, Head(r.inbox))
    <3>1. s.inbox = rest.inbox /\ s.outcome = rest.outcome /\ s.doing = Head(r.inbox)
      BY <2>3, <2>7 DEF BeginStop, ProgramType
    <3>. QED  BY <1>2, <2>1, <2>2, <2>3, <3>1 DEF StopPending
  <2>. QED  BY <2>4, <2>5, <2>6, <2>7
<1>5. s \notin CancelSteps(r)
  BY <1>0 DEF CancelSteps
<1>6. CASE s \in SecondHalfSteps(r)
  <2>1. PICK T : T = Spawned(r) \cup {r, [r EXCEPT !.state = "Fatal"]}
    OBVIOUS
  <2>2. \A t \in T : t \in ProgramType /\ t.inbox = r.inbox /\ t.outcome = r.outcome
    BY <2>1 DEF Spawned, ProgramType
  <2>3. CASE r.doing = "Start" \/ (r.doing = "Restart" /\ r.half)
    <3>1. PICK t \in T, res \in {"ok", "err"} : s = Finish(t, res)
      BY <1>6, <2>1, <2>3 DEF SecondHalfSteps
    <3>2. t \in ProgramType /\ t.inbox = r.inbox /\ t.outcome = r.outcome
      BY <2>2
    <3>3. s.inbox = r.inbox
      BY <3>1, <3>2, FinishFacts
    <3>4. ~(t.inbox = <<>> /\ t.outcome = "wait")
      BY <1>2, <2>3, <3>2
    <3>5. s.outcome = r.outcome
      BY <3>1, <3>2, <3>4, ReplyOutcome
    <3>. QED  BY <1>2, <2>3, <3>3, <3>5 DEF StopPending
  <2>4. CASE r.doing = "Health" /\ r.half
    <3>1. PICK t \in T : s = [t EXCEPT !.doing = "idle", !.half = FALSE]
      BY <1>6, <2>1, <2>4 DEF SecondHalfSteps
    <3>2. s.inbox = r.inbox /\ s.outcome = r.outcome
      BY <2>2, <3>1 DEF ProgramType
    <3>. QED  BY <1>2, <2>4, <3>2 DEF StopPending
  <2>5. CASE r.doing = "Stop" /\ r.half
    <3>1. s = Finish(r, "ok")
      BY <1>6, <2>5 DEF SecondHalfSteps
    <3>2. s.inbox = r.inbox /\ s.state = r.state /\ s.doing = "idle"
      BY <3>1, FinishFacts
    <3>3. CASE r.inbox = <<>> /\ r.outcome = "wait"
      <4>1. s.outcome = "ok" /\ s.state = "Stopped"
        BY <2>5, <3>1, <3>2, <3>3, ReplyOutcome DEF Sane
      <4>. QED  BY <3>2, <3>3, <4>1 DEF StopPending, Dormant
    <3>4. CASE ~(r.inbox = <<>> /\ r.outcome = "wait")
      <4>1. s.outcome = r.outcome
        BY <3>1, <3>4, ReplyOutcome
      <4>. QED  BY <1>2, <3>2, <3>4, <4>1 DEF StopPending
    <3>. QED  BY <3>3, <3>4
  <2>6. r.doing = "Start" \/ (r.doing \in {"Restart", "Health", "Stop"} /\ r.half)
    BY <1>0, <1>6 DEF SecondHalfSteps
  <2>. QED  BY <2>3, <2>4, <2>5, <2>6
<1>. QED  BY <1>0, <1>3, <1>4, <1>5, <1>6 DEF ServeSteps
\* All lists of targets that a look-up may return have the same programs.
LEMMA SameTargets ==
    ASSUME IInv, NEW x, NEW t, NEW u,
           (t \in FindMatch(x) /\ u \in FindMatch(x)) \/ (t \in GroupTargets(x) /\ u \in GroupTargets(x))
    PROVE  SetOf(t) = SetOf(u)
<1>1. IsFiniteSet(DOMAIN configs) /\ Members(configs, x) \subseteq DOMAIN configs
  BY DEF IInv, MapsSound, Members
<1>2. \A s \in Orders(Members(configs, x)) : SetOf(s) = Members(configs, x)
  BY <1>1, FS_Subset, OrdersList DEF Lists
<1>3. \A s \in Sorted(Members(configs, x)) : s \in Orders(Members(configs, x))
  BY DEF Sorted
<1>4. t \in FindMatch(x) /\ u \in FindMatch(x) => SetOf(t) = SetOf(u)
  BY <1>2, <1>3 DEF FindMatch
<1>5. t \in GroupTargets(x) /\ u \in GroupTargets(x) => SetOf(t) = SetOf(u)
  BY <1>2, <1>4 DEF GroupTargets
<1>. QED  BY <1>4, <1>5

\* The targets change only with the maps or the command.
LEMMA TargetsKept ==
    ASSUME UNCHANGED <<programs, configs>>
    PROVE  /\ \A x : FindMatch(x)' = FindMatch(x) /\ GroupTargets(x)' = GroupTargets(x)
           /\ cmd' = cmd => StopTargets' = StopTargets
<1>1. \A x : FindMatch(x)' = FindMatch(x)
  BY DEF FindMatch
<1>2. \A x : GroupTargets(x)' = GroupTargets(x)
  BY <1>1 DEF GroupTargets
<1>. QED  BY <1>1, <1>2 DEF StopTargets

\* A stop command begins with a call for every target.
LEMMA StopBegins ==
    ASSUME IInv, pc = "select", NEW c, c.op \in {"StopProgram", "StopGroup"}, cmd' = c,
           NEW t, t \in IF c.op = "StopProgram" THEN FindMatch(c.arg) ELSE GroupTargets(c.arg),
           agenda' = CallPlan(Backwards(t), "Stop"), UNCHANGED <<programs, configs>>
    PROVE  StopsTracked'
<1>1. IsSeq(t) /\ SetOf(t) \subseteq DOMAIN programs
  BY TargetFacts
<1>2. PICK u : u = Backwards(t)
  OBVIOUS
<1>3. IsSeq(u) /\ SetOf(t) \subseteq SetOf(u)
  BY <1>1, <1>2, BackwardsFacts
<1>4. PICK p : p = CallPlan(u, "Stop")
  OBVIOUS
<1>5. /\ \A b \in SetOf(p) : b.do = "call" /\ b.op = "Stop"
      /\ \A n \in SetOf(u) : \E b \in SetOf(p) : b.do = "call" /\ b.name = n
  BY <1>3, <1>4, CallPlans
<1>6. Todo' = SetOf(p)
  BY <1>2, <1>4 DEF Todo
<1>7. \A n \in StopTargets' : n \in SetOf(t)
  <2>. SUFFICES ASSUME NEW s, NEW n \in SetOf(s),
                       s \in IF c.op = "StopProgram" THEN FindMatch(c.arg) ELSE GroupTargets(c.arg)
                PROVE  n \in SetOf(t)
    BY TargetsKept DEF StopTargets
  <2>. QED  BY SameTargets
<1>. QED  BY <1>1, <1>3, <1>5, <1>6, <1>7 DEF StopsTracked

\* While a stop command is served, its targets can be commanded.
LEMMA TargetsLive ==
    ASSUME IInv, StopsTracked, Up, cmd.op \in {"StopProgram", "StopGroup"}, result = "ok",
           NEW n \in StopTargets
    PROVE  /\ n \in DOMAIN programs /\ programs[n] \in DOMAIN prog
           /\ prog[programs[n]] \in ProgramType /\ Sane(prog[programs[n]])
           /\ Live(prog[programs[n]]) /\ owner[programs[n]] = n
<1>1. n \in DOMAIN programs /\ \A b \in Todo : b.do \in {"call", "await"}
  BY DEF StopsTracked
<1>2. programs[n] \in DOMAIN prog /\ owner[programs[n]] = n
  BY <1>1 DEF IInv, MapsSound
<1>3. prog[programs[n]] \in ProgramType /\ Sane(prog[programs[n]])
  BY <1>2, ElementOfSeq, LenProperties DEF IInv, TypeOK, RecordsSound
<1>4. ~Outgoing(n)
  BY <1>1 DEF Outgoing, Named, Swapping, Leaving
<1>. QED  BY <1>1, <1>2, <1>3, <1>4 DEF IInv, RegisteredSound
\* What has become of the target n of a stop command.
Handled(n) ==
    \/ \E b \in Todo : b.do = "call" /\ b.name = n
    \/ /\ \E b \in Todo : b.do = "await" /\ programs[n] \in b.ids
       /\ StopPending(prog[programs[n]])
    \/ Dormant(prog[programs[n]])

\* The stop command in hand has not failed.
StopUnderWay == Up /\ cmd.op \in {"StopProgram", "StopGroup"} /\ result = "ok"

\* It is enough to follow the targets of the stop command in hand.
LEMMA StopsFollow ==
    ASSUME IInv, StopsTracked, UNCHANGED <<programs, configs, cmd>>,
           StopUnderWay' => StopUnderWay,
           StopUnderWay' =>
               /\ \A b \in Todo' : \/ b.do = "call" /\ b.op = "Stop"
                                   \/ b.do = "await" /\ b.strict
               /\ \A n \in StopTargets : Handled(n)'
    PROVE  StopsTracked'
<1>1. StopTargets' = StopTargets
  BY TargetsKept
<1>2. StopUnderWay => \A n \in StopTargets : n \in DOMAIN programs
  BY DEF StopsTracked, StopUnderWay
<1>. QED  BY <1>1, <1>2 DEF StopsTracked, StopUnderWay, Handled

\* The programs go on by themselves.
LEMMA StopsMove ==
    ASSUME IInv, StopsTracked, NEW j \in DOMAIN prog, Serve(j) \/ ByItself(j) \/ Unhealthy(j)
    PROVE  StopsTracked'
<1>1. UNCHANGED <<programs, configs, cmd, pc, result, agenda>>
  BY DEF Serve, ByItself, Unhealthy, ProgramMoves, registryVars, controlVars
<1>2. PICK s \in ServeSteps(prog[j]) \cup OwnSteps(prog[j]) \cup HealthSteps(prog[j]) :
         prog' = [prog EXCEPT ![j] = s]
  BY DEF Serve, ByItself, Unhealthy, ProgramMoves
<1>3. Todo' = Todo /\ (StopUnderWay' <=> StopUnderWay)
  BY <1>1 DEF Todo, StopUnderWay, Up
<1>4. ASSUME StopUnderWay, NEW n \in StopTargets PROVE Handled(n)'
  <2>1. PICK i : i = programs[n]
    OBVIOUS
  <2>2. /\ i \in DOMAIN prog /\ prog[i] \in ProgramType /\ Sane(prog[i]) /\ Live(prog[i])
    BY <1>4, <2>1, TargetsLive DEF StopUnderWay
  <2>3. Handled(n)
    BY <1>4 DEF StopsTracked, StopUnderWay, Handled
  <2>4. prog'[i] = IF i = j THEN s ELSE prog[i]
    BY <1>2, <2>2
  <2>5. StopPending(prog[i]) => StopPending(prog'[i])
    BY <1>2, <2>2, <2>4, PendingStays
  <2>6. Dormant(prog[i]) => Dormant(prog'[i])
    BY <1>2, <2>2, <2>4, DownStays
  <2>. QED  BY <1>1, <1>3, <2>1, <2>3, <2>5, <2>6 DEF Handled
<1>5. StopUnderWay => \A b \in Todo : \/ b.do = "call" /\ b.op = "Stop"
                                      \/ b.do = "await" /\ b.strict
  BY DEF StopsTracked, StopUnderWay
<1>. QED  BY <1>1, <1>3, <1>4, <1>5, StopsFollow

\* One target is called.
LEMMA StopsCall ==
    ASSUME IInv, StopsTracked, DoCall
    PROVE  StopsTracked'
<1>. DEFINE h == Head(agenda)
            T == SetOf(Tail(agenda))
<1>1. PICK i : i = programs[h.name]
  OBVIOUS
<1>2. /\ pc = "exec" /\ agenda # <<>> /\ h.do = "call" /\ SendTo({i}, h.op)
      /\ UNCHANGED <<programs, configs, cmd, pc, result>>
  BY <1>1 DEF DoCall, At, registryVars, controlVars
<1>3. PICK a : a = Await({i}, TRUE)
  OBVIOUS
<1>4. a.do = "await" /\ a.ids = {i} /\ a.strict = TRUE
  BY <1>3 DEF Await
<1>5. agenda' = <<a>> \o Tail(agenda)
  BY <1>1, <1>3 DEF DoCall, Continue
<1>6. IsSeq(agenda)
  BY DEF IInv, AgendaSound, IsSeq, Todo
<1>7. IsSeq(Tail(agenda)) /\ Todo = {h} \cup T
  BY <1>2, <1>6, PopFacts DEF Todo
<1>8. Todo' = {a} \cup T
  <2>1. PICK p, rest : p = <<a>> /\ rest = Tail(agenda)
    OBVIOUS
  <2>2. IsSeq(p) /\ SetOf(p) = {a} /\ IsSeq(rest)
    BY <1>7, <2>1, ShortPlans
  <2>3. SetOf(p \o rest) = {a} \cup SetOf(rest)
    BY <2>2, JoinFacts
  <2>. QED  BY <1>5, <2>1, <2>3 DEF Todo
<1>. HIDE DEF h, T
<1>9. StopUnderWay' <=> StopUnderWay
  BY <1>2 DEF StopUnderWay, Up
<1>10. StopUnderWay => \A b \in Todo : \/ b.do = "call" /\ b.op = "Stop"
                                       \/ b.do = "await" /\ b.strict
  BY DEF StopsTracked, StopUnderWay
<1>11. ASSUME StopUnderWay, NEW n \in StopTargets PROVE Handled(n)'
  <2>1. /\ n \in DOMAIN programs /\ programs[n] \in DOMAIN prog /\ owner[programs[n]] = n
        /\ prog[programs[n]] \in ProgramType /\ Live(prog[programs[n]])
    BY <1>11, TargetsLive DEF StopUnderWay
  <2>2. Handled(n)
    BY <1>11 DEF StopsTracked, StopUnderWay, Handled
  <2>3. h.op = "Stop" /\ h.name \in DOMAIN programs
    BY <1>2, <1>7, <1>10, <1>11 DEF IInv, BlocksSound
  <2>4. CASE h.name = n
    <3>1. PICK r : r = prog[i]
      OBVIOUS
    <3>2. prog'[i] = Send(r, "Stop") /\ i \in DOMAIN prog /\ r \in ProgramType /\ Live(r)
      BY <1>1, <1>2, <2>1, <2>3, <2>4, <3>1 DEF SendTo
    <3>3. r.inbox \in Seq(Ops) /\ "Stop" \in Ops /\ ~r.ended
      BY <3>2 DEF ProgramType, Live, Ops
    <3>4. Send(r, "Stop").inbox = Append(r.inbox, "Stop") /\ Send(r, "Stop").outcome = "wait"
      BY <3>2, <3>3 DEF Send, ProgramType
    <3>5. /\ Append(r.inbox, "Stop") # <<>>
          /\ Append(r.inbox, "Stop")[Len(Append(r.inbox, "Stop"))] = "Stop"
      BY <3>3, AppendGrows, AppendProperties
    <3>6. StopPending(prog'[i])
      BY <3>2, <3>4, <3>5 DEF StopPending
    <3>7. a \in Todo' /\ programs'[n] = i /\ programs'[n] \in a.ids
      BY <1>1, <1>2, <1>4, <1>8, <2>4
    <3>. QED  BY <1>4, <3>6, <3>7 DEF Handled
  <2>5. CASE h.name # n
    <3>1. programs[n] # i
      BY <1>1, <2>1, <2>3, <2>5 DEF IInv, MapsSound
    <3>2. prog'[programs[n]] = prog[programs[n]] /\ programs' = programs
      BY <1>2, <2>1, <3>1 DEF SendTo
    <3>3. \A b \in Todo : (b.do = "call" /\ b.name = n) \/ b.do = "await" => b \in Todo'
      BY <1>2, <1>7, <1>8, <2>5
    <3>. QED  BY <2>2, <3>2, <3>3 DEF Handled
  <2>. QED  BY <2>4, <2>5
<1>12. StopUnderWay => \A b \in Todo' : \/ b.do = "call" /\ b.op = "Stop"
                                        \/ b.do = "await" /\ b.strict
  BY <1>4, <1>7, <1>8, <1>10
<1>. QED  BY <1>2, <1>9, <1>11, <1>12, StopsFollow

\* The replies are in, or one does not come.
LEMMA StopsAwait ==
    ASSUME IInv, StopsTracked, DoAwait \/ AwaitTimesOut
    PROVE  StopsTracked'
<1>. DEFINE h == Head(agenda)
            T == SetOf(Tail(agenda))
<1>1. /\ pc = "exec" /\ agenda # <<>> /\ h.do = "await"
      /\ UNCHANGED <<programs, configs, cmd, pc>>
      /\ result' = result \/ result' = "err"
  BY DEF DoAwait, AwaitTimesOut, At, registryVars
<1>2. StopUnderWay' => StopUnderWay
  BY <1>1 DEF StopUnderWay, Up
<1>3. IsSeq(agenda)
  BY DEF IInv, AgendaSound, IsSeq, Todo
<1>4. IsSeq(Tail(agenda)) /\ Todo = {h} \cup T
  BY <1>1, <1>3, PopFacts DEF Todo
<1>5. StopUnderWay => \A b \in Todo : \/ b.do = "call" /\ b.op = "Stop"
                                      \/ b.do = "await" /\ b.strict
  BY DEF StopsTracked, StopUnderWay
<1>6. ASSUME StopUnderWay, StopUnderWay'
      PROVE  /\ \A i \in h.ids : prog[i].outcome \notin {"wait", "err"}
             /\ prog' = [i \in DOMAIN prog |-> IF i \in h.ids THEN Hangup(prog[i]) ELSE prog[i]]
             /\ agenda' = <<>> \o Tail(agenda)
  <2>1. h.strict /\ result' # "err"
    BY <1>1, <1>4, <1>5, <1>6 DEF StopUnderWay
  <2>2. DoAwait
    BY <2>1 DEF AwaitTimesOut
  <2>. QED  BY <2>1, <2>2 DEF DoAwait, IsAnswered, IsRefused, Continue
<1>. HIDE DEF h, T
<1>7. ASSUME StopUnderWay, StopUnderWay'
      PROVE  Todo' = T
  <2>1. PICK p, rest : p = <<>> /\ rest = Tail(agenda)
    OBVIOUS
  <2>2. IsSeq(p) /\ SetOf(p) = {} /\ IsSeq(rest)
    BY <1>4, <2>1, EmptyPlan
  <2>3. SetOf(p \o rest) = {} \cup SetOf(rest)
    BY <2>2, JoinFacts
  <2>. QED  BY <1>6, <1>7, <2>1, <2>3 DEF Todo, T
<1>8. ASSUME StopUnderWay, StopUnderWay', NEW n \in StopTargets PROVE Handled(n)'
  <2>1. PICK i : i = programs[n]
    OBVIOUS
  <2>2. i \in DOMAIN prog /\ prog[i] \in ProgramType
    BY <1>8, <2>1, TargetsLive DEF StopUnderWay
  <2>3. Handled(n)
    BY <1>8 DEF StopsTracked, StopUnderWay, Handled
  <2>4. prog'[i] = IF i \in h.ids THEN Hangup(prog[i]) ELSE prog[i]
    BY <1>6, <1>8, <2>2
  <2>5. Dormant(prog[i]) => Dormant(prog'[i])
    BY <2>2, <2>4 DEF Dormant, Hangup, ProgramType
  <2>6. i \in h.ids /\ StopPending(prog[i]) => Dormant(prog[i])
    BY <1>6, <1>8 DEF StopPending
  <2>7. i \notin h.ids => prog'[i] = prog[i]
    BY <2>4
  <2>8. \A b \in Todo : b # h => b \in Todo'
    BY <1>4, <1>7, <1>8
  <2>9. CASE \E b \in Todo : b.do = "call" /\ b.name = n
    BY <1>1, <2>8, <2>9 DEF Handled
  <2>10. CASE Dormant(prog[i])
    BY <1>1, <2>1, <2>5, <2>10 DEF Handled
  <2>11. CASE /\ \E b \in Todo : b.do = "await" /\ i \in b.ids
              /\ StopPending(prog[i]) /\ i \notin h.ids
    BY <1>1, <2>1, <2>7, <2>8, <2>11 DEF Handled
  <2>. QED  BY <2>1, <2>3, <2>6, <2>9, <2>10, <2>11 DEF Handled
<1>9. StopUnderWay' => \A b \in Todo' : \/ b.do = "call" /\ b.op = "Stop"
                                        \/ b.do = "await" /\ b.strict
  BY <1>2, <1>4, <1>5, <1>7
<1>. QED  BY <1>1, <1>2, <1>8, <1>9, StopsFollow

\* Every step keeps it.
LEMMA StopsStep ==
    ASSUME IInv, StopsTracked, [Next]_vars
    PROVE  StopsTracked'
<1>1. CASE StopProgram \/ StopGroup
  <2>1. PICK c, t : /\ c.op \in {"StopProgram", "StopGroup"} /\ pc = "select" /\ cmd' = c
                    /\ t \in IF c.op = "StopProgram" THEN FindMatch(c.arg) ELSE GroupTargets(c.arg)
                    /\ agenda' = CallPlan(Backwards(t), "Stop")
                    /\ UNCHANGED <<programs, configs>>
    <3>1. CASE StopProgram
      BY <3>1 DEF StopProgram, OnPrograms, Received, TakeCommand, Begin, registryVars
    <3>2. CASE StopGroup
      BY <3>2 DEF StopGroup, OnGroup, Received, TakeCommand, Begin, registryVars
    <3>. QED  BY <1>1, <3>1, <3>2
  <2>. QED  BY <2>1, StopBegins
<1>2. CASE (Select /\ ~StopProgram /\ ~StopGroup) \/ Cancelled
  <2>. DEFINE StopOps == {"StopProgram", "StopGroup"}
  <2>. SUFFICES cmd'.op \notin StopOps
    BY DEF StopsTracked
  <2>1. ASSUME NEW op, op \notin StopOps, NEW c \in Received(op), NEW plan, NEW res,
               TakeCommand(c, plan, res)
        PROVE  cmd'.op \notin StopOps
    BY <2>1 DEF Received, TakeCommand, Begin
  <2>2. CASE StartProgram \/ RestartProgram \/ SignalProgram
    BY <2>1, <2>2 DEF StartProgram, RestartProgram, SignalProgram, OnPrograms
  <2>3. CASE StartGroup \/ RestartGroup
    BY <2>1, <2>3 DEF StartGroup, RestartGroup, OnGroup
  <2>4. CASE StartAll \/ StopAll \/ ShutdownCommand
    BY <2>1, <2>4 DEF StartAll, StopAll, ShutdownCommand
  <2>5. CASE RestartDaemon \/ Reload
    BY <2>1, <2>5 DEF RestartDaemon, Reload, Reject, Accept
  <2>6. CASE AddGroup \/ RemoveGroup
    BY <2>1, <2>6 DEF AddGroup, RemoveGroup
  <2>7. CASE CronDue \/ Cancelled
    <3>1. \E op \in {"Cron", "Cancel"} : \E plan : Begin([op |-> op, arg |-> 0], plan, "ok")
      BY <2>7 DEF CronDue, Cancelled
    <3>. QED  BY <3>1 DEF Begin
  <2>. QED  BY <1>2, <2>2, <2>3, <2>4, <2>5, <2>6, <2>7 DEF Select
<1>3. CASE UNCHANGED vars \/ Terminated \/ CancelManager \/ Complete
  <2>1. UNCHANGED <<programs, configs, cmd, result, agenda, prog>> /\ (Up' => Up)
    BY <1>3 DEF vars, Terminated, CancelManager, Complete, registryVars, controlVars, Up
  <2>2. Todo' = Todo /\ (StopUnderWay' => StopUnderWay)
    BY <2>1 DEF Todo, StopUnderWay
  <2>3. StopUnderWay => /\ \A b \in Todo : \/ b.do = "call" /\ b.op = "Stop"
                                           \/ b.do = "await" /\ b.strict
                        /\ \A n \in StopTargets : Handled(n)
    BY DEF StopsTracked, StopUnderWay, Handled
  <2>4. \A n : Handled(n) => Handled(n)'
    BY <2>1, <2>2 DEF Handled
  <2>. QED  BY <2>1, <2>2, <2>3, <2>4, StopsFollow
<1>4. CASE Abort
  BY <1>4 DEF Abort, StopsTracked, Up
<1>5. CASE Block /\ ~Complete /\ ~DoCall /\ ~DoAwait
  <2>. DEFINE h == Head(agenda)
  <2>1. /\ pc = "exec" /\ pc' = pc /\ cmd' = cmd /\ result' = result
        /\ agenda # <<>> /\ h.do \notin {"call", "await"}
    BY <1>5 DEF Block, DoStartLayer, DoStopLayer, DoCron, DoShutdown, DoCancel, DoJoin,
                DoRemove, DoForget, DoReplace, DoAdd, DoInstall, DoAdopt, DoDerive, DoSwap,
                At, controlVars
  <2>2. h \in Todo
    BY <2>1, HeadIsTodo
  <2>3. ~StopUnderWay
    BY <2>1, <2>2 DEF StopsTracked, StopUnderWay
  <2>4. ~StopUnderWay'
    BY <2>1, <2>3 DEF StopUnderWay, Up
  <2>. QED  BY <2>4 DEF StopsTracked, StopUnderWay
<1>. QED  BY <1>1, <1>2, <1>3, <1>4, <1>5, StopsMove, StopsCall, StopsAwait DEF Next, Block

\* A stop that is answered Ok has stopped its targets, also if commands that
\* had timed out were still in their mailboxes, and they stay down until the
\* next command.
THEOREM StopsAsReported == ASSUME StableGroups PROVE Spec => []StopReported
<1>1. Init => StopsTracked
  BY DEF Init, StopsTracked
<1>2. IInv /\ StopsTracked /\ [Next]_vars => StopsTracked'
  BY StopsStep
<1>3. IInv /\ StopsTracked => StopReported
  <2>. SUFFICES ASSUME IInv, StopsTracked, pc = "select",
                       cmd.op \in {"StopProgram", "StopGroup"}, result = "ok",
                       NEW t \in IF cmd.op = "StopProgram" THEN FindMatch(cmd.arg)
                                 ELSE GroupTargets(cmd.arg),
                       NEW k \in DOMAIN t
                PROVE  prog[programs[t[k]]].state = "Stopped"
    BY DEF StopReported
  <2>1. t[k] \in StopTargets /\ Up
    BY DEF StopTargets, SetOf, Up
  <2>2. Todo = {}
    BY EmptyPlan DEF Todo, IInv, TypeOK
  <2>3. Dormant(prog[programs[t[k]]])
    BY <2>1, <2>2 DEF StopsTracked
  <2>4. Live(prog[programs[t[k]]]) /\ prog[programs[t[k]]] \in ProgramType
    BY <2>1, TargetsLive
  <2>. QED  BY <2>3, <2>4, DownStays
<1>4. Spec => []IInv
  BY ManagerInvariance
<1>. QED  BY <1>1, <1>2, <1>3, <1>4, PTL DEF Spec

-----------------------------------------------------------------------------
(* The layers of stop_all.                                                 *)

\* A mailbox with one command, before and after it is taken.
LEMMA OneCommand ==
    /\ \A s \in Seq(Ops) : Len(s) = 1 => s # <<>> /\ Tail(s) = <<>> /\ s = <<s[1]>> /\ Head(s) = s[1]
    /\ \A op \in Ops : Append(<<>>, op) = <<op>> /\ Len(<<op>>) = 1
    /\ Len(<<>>) = 0
<1>1. Len(<<>>) = 0
  BY EmptySeq
<1>2. ASSUME NEW s \in Seq(Ops), Len(s) = 1
      PROVE  s # <<>> /\ Tail(s) = <<>> /\ s = <<s[1]>> /\ Head(s) = s[1]
  <2>1. s # <<>>
    BY <1>1, <1>2
  <2>2. Tail(s) \in Seq(Ops) /\ Len(Tail(s)) = 0 /\ Head(s) = s[1]
    BY <1>2, <2>1, HeadTailProperties
  <2>3. Tail(s) = <<>>
    BY <2>2, EmptySeq
  <2>4. s = <<s[1]>>
    BY <1>2
  <2>. QED  BY <2>1, <2>2, <2>3, <2>4
<1>3. ASSUME NEW op \in Ops PROVE Append(<<>>, op) = <<op>> /\ Len(<<op>>) = 1
  OBVIOUS
<1>. QED  BY <1>1, <1>2, <1>3

\* The token stays set, and a program that is waited for was waited for.
LEMMA ServeAttended ==
    ASSUME NEW r \in ProgramType, Attended(r), ~r.ended, NEW s \in ServeSteps(r) \cup OwnSteps(r)
    PROVE  Attended(s) /\ (s.outcome = "wait" => r.outcome = "wait")
<1>0. r.inbox \in Seq(Ops) /\ r.cancel \in BOOLEAN
  BY DEF ProgramType
<1>1. CASE s \in OwnSteps(r) \cup StopSteps(r)
  <2>1. /\ s.inbox = r.inbox /\ s.outcome = r.outcome /\ s.doing = r.doing /\ s.cancel = r.cancel
        /\ s.ended = r.ended
    BY <1>1 DEF OwnSteps, StopSteps, ProgramType
  <2>. QED  BY <2>1 DEF Attended
<1>2. CASE s \in TakeSteps(r)
  <2>. DEFINE rest == [r EXCEPT !.inbox = Tail(@)]
  <2>1. r.inbox # <<>> /\ r.doing = "idle" /\ ~r.cancel
    BY <1>2 DEF TakeSteps
  <2>2. r.outcome = "wait" /\ Len(r.inbox) = 1
    BY <2>1 DEF Attended
  <2>3. Tail(r.inbox) = <<>> /\ Head(r.inbox) \in Ops
    BY <1>0, <2>1, <2>2, OneCommand, HeadTailProperties
  <2>4. /\ rest \in ProgramType /\ rest.inbox = <<>> /\ rest.outcome = "wait"
        /\ rest.doing = "idle" /\ rest.cancel = r.cancel /\ rest.ended = r.ended
    BY <2>1, <2>2, <2>3, EmptySeq DEF ProgramType
  <2>5. \/ s = [rest EXCEPT !.doing = "Start"]
        \/ s \in {Reply(rest, "ok"), Reply(rest, "err")}
        \/ s \in BeginStop(rest, Head(r.inbox))
    BY <1>2 DEF TakeSteps
  <2>. HIDE DEF rest
  <2>6. CASE s = [rest EXCEPT !.doing = "Start"]
    <3>1. s.inbox = <<>> /\ s.outcome = "wait" /\ s.doing = "Start"
      BY <2>4, <2>6 DEF ProgramType
    <3>. QED  BY <2>2, <3>1 DEF Attended, Ops
  <2>7. CASE s \in {Reply(rest, "ok"), Reply(rest, "err")}
    <3>1. s.inbox = <<>> /\ s.doing = "idle" /\ s.outcome # "wait"
      BY <2>4, <2>7, ReplyFacts, ReplyOutcome
    <3>. QED  BY <3>1 DEF Attended
  <2>8. CASE s \in BeginStop(rest, Head(r.inbox))
    <3>1. s.inbox = <<>> /\ s.outcome = "wait" /\ s.doing = Head(r.inbox)
      BY <2>4, <2>8 DEF BeginStop, ProgramType
    <3>. QED  BY <2>2, <2>3, <3>1 DEF Attended, Ops
  <2>. QED  BY <2>5, <2>6, <2>7, <2>8
<1>3. CASE s \in CancelSteps(r)
  <2>1. r.cancel /\ s.cancel = r.cancel /\ s.outcome = r.outcome
    BY <1>3 DEF CancelSteps, BeginStop, ProgramType
  <2>. QED  BY <2>1 DEF Attended
<1>4. CASE s \in SecondHalfSteps(r)
  <2>1. PICK T : T = Spawned(r) \cup {r, [r EXCEPT !.state = "Fatal"]}
    OBVIOUS
  <2>2. \A t \in T : /\ t \in ProgramType /\ t.inbox = r.inbox /\ t.outcome = r.outcome
                     /\ t.cancel = r.cancel
    BY <2>1 DEF Spawned, ProgramType
  <2>3. ~r.cancel => r.outcome = "wait" /\ r.inbox = <<>> /\ r.doing \in Ops
    <3>1. r.doing # "idle"
      BY <1>4 DEF SecondHalfSteps
    <3>. QED  BY <3>1 DEF Attended
  <2>4. CASE r.doing = "Start" \/ (r.doing = "Restart" /\ r.half)
    <3>1. PICK t \in T, res \in {"ok", "err"} : s = Finish(t, res)
      BY <1>4, <2>1, <2>4 DEF SecondHalfSteps
    <3>2. /\ t \in ProgramType /\ t.inbox = r.inbox /\ t.outcome = r.outcome
          /\ t.cancel = r.cancel
      BY <2>2
    <3>3. s.inbox = r.inbox /\ s.cancel = r.cancel /\ s.doing = "idle"
      BY <3>1, <3>2, FinishFacts
    <3>4. s.outcome = res \/ s.outcome = r.outcome
      BY <3>1, <3>2, ReplyOutcome
    <3>5. ~r.cancel => s.outcome = res
      BY <2>3, <3>1, <3>2, ReplyOutcome
    <3>. QED  BY <2>3, <3>3, <3>4, <3>5 DEF Attended
  <2>5. CASE r.doing = "Health" /\ r.half
    <3>1. PICK t \in T : s = [t EXCEPT !.doing = "idle", !.half = FALSE]
      BY <1>4, <2>1, <2>5 DEF SecondHalfSteps
    <3>2. s.outcome = r.outcome /\ s.cancel = r.cancel
      BY <2>2, <3>1 DEF ProgramType
    <3>3. r.cancel
      BY <2>3, <2>5 DEF Ops
    <3>. QED  BY <3>2, <3>3 DEF Attended
  <2>6. CASE r.doing \in {"Stop", "Shutdown"} /\ r.half
    <3>1. PICK f : f = Finish(r, "ok")
      OBVIOUS
    <3>2. f \in ProgramType /\ f.inbox = r.inbox /\ f.cancel = r.cancel /\ f.doing = "idle"
      BY <3>1, FinishFacts
    <3>3. /\ f.outcome = "ok" \/ f.outcome = r.outcome
          /\ ~r.cancel => f.outcome = "ok"
      BY <2>3, <3>1, ReplyOutcome
    <3>4. s = f \/ s = [f EXCEPT !.cancel = TRUE]
      BY <1>4, <2>6, <3>1 DEF SecondHalfSteps
    <3>5. /\ s.inbox = f.inbox /\ s.doing = "idle" /\ s.outcome = f.outcome
          /\ s.cancel = f.cancel \/ s.cancel
      BY <3>2, <3>4 DEF ProgramType
    <3>. QED  BY <2>3, <3>2, <3>3, <3>5 DEF Attended
  <2>7. CASE r.doing = "Cancel" /\ r.half
    <3>1. PICK e : e = [r EXCEPT !.inbox = <<>>]
      OBVIOUS
    <3>2. e \in ProgramType /\ e.outcome = r.outcome
      BY <3>1, EmptySeq DEF ProgramType
    <3>3. PICK f : f = Finish(e, "err")
      OBVIOUS
    <3>4. f \in ProgramType /\ (f.outcome = "err" \/ f.outcome = r.outcome)
      BY <3>2, <3>3, FinishFacts, ReplyOutcome
    <3>5. s = [f EXCEPT !.ended = TRUE]
      BY <1>4, <2>7, <3>1, <3>3 DEF SecondHalfSteps
    <3>6. s.ended /\ s.outcome = f.outcome
      BY <3>4, <3>5 DEF ProgramType
    <3>. QED  BY <3>4, <3>6 DEF Attended
  <2>8. \/ r.doing = "Start" \/ (r.doing = "Restart" /\ r.half) \/ (r.doing = "Health" /\ r.half)
        \/ (r.doing \in {"Stop", "Shutdown"} /\ r.half) \/ (r.doing = "Cancel" /\ r.half)
    BY <1>4 DEF SecondHalfSteps
  <2>. QED  BY <2>4, <2>5, <2>6, <2>7, <2>8
<1>. QED  BY <1>1, <1>2, <1>3, <1>4 DEF ServeSteps

\* A stop that is waited for stays so until the program is down.
LEMMA InHandStays ==
    ASSUME NEW r \in ProgramType, Sane(r), Live(r), StopInHand(r),
           NEW s \in ServeSteps(r) \cup OwnSteps(r)
    PROVE  StopInHand(s)
<1>0. ~r.ended /\ ~r.cancel /\ r.inbox \in Seq(Ops)
  BY DEF Live, ProgramType
<1>1. /\ r.outcome = "wait"
      /\ \/ r.inbox = <<"Stop">> /\ r.doing = "idle"
         \/ r.inbox = <<>> /\ r.doing = "Stop"
  <2>1. ~(r.outcome = "ok" /\ Dormant(r))
    BY DownStays
  <2>. QED  BY <2>1 DEF StopInHand
<1>2. CASE s \in OwnSteps(r) \cup StopSteps(r)
  <2>1. s.inbox = r.inbox /\ s.outcome = r.outcome /\ s.doing = r.doing
    BY <1>2 DEF OwnSteps, StopSteps, ProgramType
  <2>. QED  BY <1>1, <2>1 DEF StopInHand
<1>3. CASE s \in TakeSteps(r)
  <2>. DEFINE rest == [r EXCEPT !.inbox = Tail(@)]
  <2>1. r.inbox = <<"Stop">> /\ r.doing = "idle"
    BY <1>1, <1>3 DEF TakeSteps
  <2>2. Tail(r.inbox) = <<>> /\ Head(r.inbox) = "Stop"
    BY <2>1
  <2>3. rest \in ProgramType /\ rest.inbox = <<>> /\ rest.outcome = "wait"
    BY <1>1, <2>2, EmptySeq DEF ProgramType
  <2>4. s \in BeginStop(rest, "Stop")
    BY <1>3, <2>2 DEF TakeSteps
  <2>. HIDE DEF rest
  <2>5. s.inbox = <<>> /\ s.outcome = "wait" /\ s.doing = "Stop"
    BY <2>3, <2>4 DEF BeginStop, ProgramType
  <2>. QED  BY <2>5 DEF StopInHand
<1>4. s \notin CancelSteps(r)
  BY <1>0 DEF CancelSteps
<1>5. CASE s \in SecondHalfSteps(r)
  <2>1. r.doing = "Stop" /\ r.half /\ s = Finish(r, "ok") /\ r.inbox = <<>>
    BY <1>1, <1>5 DEF SecondHalfSteps
  <2>2. s.inbox = <<>> /\ s.state = r.state /\ s.doing = "idle" /\ s.outcome = "ok"
    BY <1>1, <2>1, FinishFacts, ReplyOutcome
  <2>3. s.state = "Stopped"
    BY <2>1, <2>2 DEF Sane
  <2>. QED  BY <2>2, <2>3 DEF StopInHand, Dormant
<1>. QED  BY <1>0, <1>2, <1>3, <1>4, <1>5 DEF ServeSteps

\* A call to a program nobody waits for: the command is alone in the mailbox.
LEMMA SendAttended ==
    ASSUME NEW r \in ProgramType, Attended(r), r.outcome # "wait", NEW op \in Ops
    PROVE  /\ Attended(Send(r, op))
           /\ Live(r) => /\ Send(r, op).outcome = "wait" /\ Send(r, op).inbox = <<op>>
                         /\ Send(r, op).doing = "idle"
<1>1. CASE r.ended
  <2>1. Send(r, op).ended = r.ended
    BY <1>1 DEF Send, ProgramType
  <2>. QED  BY <1>1, <2>1 DEF Attended, Live
<1>2. CASE ~r.ended
  <2>1. PICK s : s = Send(r, op)
    OBVIOUS
  <2>2. /\ s.inbox = Append(r.inbox, op) /\ s.outcome = "wait" /\ s.doing = r.doing
        /\ s.cancel = r.cancel /\ s.ended = r.ended
    BY <1>2, <2>1 DEF Send, ProgramType
  <2>3. ~r.cancel => s.inbox = <<op>> /\ Len(s.inbox) = 1 /\ s.doing = "idle"
    BY <1>2, <2>2, OneCommand DEF Attended
  <2>4. Attended(s)
    BY <2>2, <2>3 DEF Attended
  <2>. QED  BY <2>1, <2>2, <2>3, <2>4 DEF Live
<1>. QED  BY <1>1, <1>2

\* Hanging up on a call that is answered, and cancelling.
LEMMA HangupAttended ==
    ASSUME NEW r \in ProgramType, Attended(r)
    PROVE  /\ r.outcome # "wait" => Attended(Hangup(r))
           /\ Hangup(r).outcome # "wait"
           /\ Attended(CancelIt(r)) /\ CancelIt(r).outcome # "wait"
<1>1. PICK h, c : h = Hangup(r) /\ c = CancelIt(r)
  OBVIOUS
<1>2. /\ h.inbox = r.inbox /\ h.doing = r.doing /\ h.cancel = r.cancel /\ h.ended = r.ended
      /\ h.outcome = "none" /\ c.cancel /\ c.outcome = "none"
  BY <1>1 DEF Hangup, CancelIt, ProgramType
<1>3. r.outcome # "wait" => Attended(h)
  BY <1>2 DEF Attended
<1>4. Attended(c)
  BY <1>2 DEF Attended
<1>. QED  BY <1>1, <1>2, <1>3, <1>4

\* What an answered call, or none, leaves behind.
LEMMA RecordsTyped ==
    ASSUME IInv
    PROVE  \A i \in DOMAIN prog : prog[i] \in ProgramType /\ Sane(prog[i])
BY ElementOfSeq, LenProperties DEF IInv, TypeOK, RecordsSound

\* Nobody waits while the first block is not an await.
LEMMA NobodyWaits ==
    ASSUME CallsAttended, Up, ~At("await")
    PROVE  \A i \in DOMAIN prog : Attended(prog[i]) /\ prog[i].outcome # "wait"
BY DEF CallsAttended

\* A step that calls nobody, while nobody is called.
LEMMA QuietAttended ==
    ASSUME IInv, CallsAttended, Up, ~At("await"),
           \A i \in DOMAIN prog' :
               \/ prog'[i] = Fresh
               \/ i \in DOMAIN prog /\ prog'[i] \in {prog[i], CancelIt(prog[i])}
    PROVE  CallsAttended'
<1>1. \A i \in DOMAIN prog : /\ prog[i] \in ProgramType /\ Attended(prog[i])
                             /\ prog[i].outcome # "wait"
  BY NobodyWaits, RecordsTyped
<1>2. Attended(Fresh) /\ Fresh.outcome # "wait"
  BY DEF Attended, Fresh
<1>3. ASSUME NEW i \in DOMAIN prog' PROVE Attended(prog'[i]) /\ prog'[i].outcome # "wait"
  <2>1. CASE prog'[i] = Fresh
    BY <1>2, <2>1
  <2>2. CASE i \in DOMAIN prog /\ prog'[i] = prog[i]
    BY <1>1, <2>2
  <2>3. CASE i \in DOMAIN prog /\ prog'[i] = CancelIt(prog[i])
    BY <1>1, <2>3, HangupAttended
  <2>. QED  BY <1>3, <2>1, <2>2, <2>3
<1>. QED  BY <1>3 DEF CallsAttended

\* Programs are called and the next block waits for them.
LEMMA CallAttended ==
    ASSUME IInv, CallsAttended, Up, ~At("await"), NEW ids, NEW op \in Ops, SendTo(ids, op),
           At("await")', Head(agenda').ids = ids
    PROVE  CallsAttended'
<1>1. \A i \in DOMAIN prog : /\ prog[i] \in ProgramType /\ Attended(prog[i])
                             /\ prog[i].outcome # "wait"
  BY NobodyWaits, RecordsTyped
<1>2. /\ DOMAIN prog' = DOMAIN prog
      /\ \A i \in DOMAIN prog : prog'[i] = IF i \in ids THEN Send(prog[i], op) ELSE prog[i]
  BY DEF SendTo
<1>3. ASSUME NEW i \in DOMAIN prog'
      PROVE  Attended(prog'[i]) /\ (prog'[i].outcome = "wait" => i \in ids)
  <2>1. i \in DOMAIN prog
    BY <1>2, <1>3
  <2>2. CASE i \in ids
    <3>1. prog'[i] = Send(prog[i], op)
      BY <1>2, <2>1, <2>2
    <3>2. Attended(Send(prog[i], op))
      BY <1>1, <2>1, SendAttended
    <3>. QED  BY <2>2, <3>1, <3>2
  <2>3. CASE i \notin ids
    BY <1>1, <1>2, <2>1, <2>3
  <2>. QED  BY <2>2, <2>3
<1>. QED  BY <1>3 DEF CallsAttended

\* All calls are answered.
LEMMA AwaitAttended ==
    ASSUME IInv, CallsAttended, DoAwait
    PROVE  CallsAttended'
<1>1. /\ At("await") /\ Up
      /\ \A i \in Head(agenda).ids : prog[i].outcome # "wait"
      /\ prog' = [i \in DOMAIN prog |-> IF i \in Head(agenda).ids THEN Hangup(prog[i]) ELSE prog[i]]
  BY DEF DoAwait, At, Up, IsAnswered
<1>2. \A i \in DOMAIN prog : /\ prog[i] \in ProgramType /\ Attended(prog[i])
                             /\ prog[i].outcome # "wait"
  BY <1>1, RecordsTyped DEF CallsAttended
<1>3. ASSUME NEW i \in DOMAIN prog PROVE Attended(prog'[i]) /\ prog'[i].outcome # "wait"
  <2>1. Attended(Hangup(prog[i])) /\ Hangup(prog[i]).outcome # "wait"
    BY <1>2, HangupAttended
  <2>. QED  BY <1>1, <1>2, <2>1
<1>4. DOMAIN prog' = DOMAIN prog
  BY <1>1
<1>. QED  BY <1>3, <1>4 DEF CallsAttended

\* A program goes on.
LEMMA MoveAttended ==
    ASSUME IInv, CallsAttended, NEW j \in DOMAIN prog, Serve(j) \/ ByItself(j)
    PROVE  CallsAttended'
<1>1. UNCHANGED <<pc, agenda>>
  BY DEF Serve, ByItself, ProgramMoves, controlVars
<1>2. PICK s \in ServeSteps(prog[j]) \cup OwnSteps(prog[j]) :
         ~prog[j].ended /\ prog' = [prog EXCEPT ![j] = s]
  BY DEF Serve, ByItself, ProgramMoves, ServeSteps
<1>3. ASSUME Up, NEW i \in DOMAIN prog
      PROVE  /\ Attended(prog'[i])
             /\ prog'[i].outcome = "wait" => At("await") /\ i \in Head(agenda).ids
  <2>1. /\ Attended(prog[i]) /\ prog[i] \in ProgramType
        /\ prog[i].outcome = "wait" => At("await") /\ i \in Head(agenda).ids
    BY <1>3, RecordsTyped DEF CallsAttended
  <2>2. CASE i = j
    <3>1. prog'[i] = s
      BY <1>2, <2>2
    <3>2. Attended(s) /\ (s.outcome = "wait" => prog[i].outcome = "wait")
      BY <1>2, <2>1, <2>2, ServeAttended
    <3>. QED  BY <2>1, <3>1, <3>2
  <2>3. CASE i # j
    BY <1>2, <2>1, <2>3
  <2>. QED  BY <2>2, <2>3
<1>4. DOMAIN prog' = DOMAIN prog /\ (Up' <=> Up)
  BY <1>1, <1>2 DEF Up
<1>. QED  BY <1>1, <1>3, <1>4 DEF CallsAttended, At

\* The first block of a plan that replaces the block in hand.
LEMMA HeadOfPlan ==
    ASSUME IInv, agenda # <<>>, NEW p, IsSeq(p), p # <<>>, Continue(p)
    PROVE  agenda' # <<>> /\ Head(agenda') = p[1]
<1>1. PICK t : t = Tail(agenda)
  OBVIOUS
<1>2. IsSeq(t)
  BY <1>1, PopFacts DEF IInv, AgendaSound, Todo, IsSeq
<1>3. PICK u : u = p \o t
  OBVIOUS
<1>4. /\ IsSeq(u) /\ SetOf(u) = SetOf(p) \cup SetOf(t)
      /\ \A k \in DOMAIN u : \/ k \in DOMAIN p /\ u[k] = p[k]
                             \/ /\ k > Len(p) /\ k - Len(p) \in DOMAIN t
                                /\ u[k] = t[k - Len(p)]
  BY <1>2, <1>3, JoinFacts
<1>5. SetOf(p) # {} /\ 1 \in DOMAIN p /\ Len(p) \in Nat /\ DOMAIN p = 1 .. Len(p)
  BY SeqFacts, PopFacts
<1>6. u # <<>>
  BY <1>4, <1>5, SeqFacts
<1>7. 1 \in DOMAIN u /\ Head(u) = u[1]
  BY <1>4, <1>6, PopFacts
<1>8. u[1] = p[1]
  BY <1>4, <1>5, <1>7
<1>. QED  BY <1>1, <1>3, <1>6, <1>7, <1>8 DEF Continue

\* The blocks that call programs.
LEMMA SendBlocks ==
    ASSUME IInv, pc = "exec", pc' = pc, agenda # <<>>, NEW ids, NEW st, NEW p, Continue(p),
           \/ p = <<Await(ids, st)>>
           \/ \E a : p = <<Await(ids, st), a>>
           \/ \E a, b : p = <<Await(ids, st), a, b>>
    PROVE  At("await")' /\ Head(agenda').ids = ids
<1>1. PICK w : w = Await(ids, st)
  OBVIOUS
<1>2. w.do = "await" /\ w.ids = ids
  BY <1>1 DEF Await
<1>3. IsSeq(p) /\ p # <<>> /\ p[1] = w
  <2>1. CASE p = <<w>>
    BY <2>1, ShortPlans
  <2>2. ASSUME NEW a, p = <<w, a>> PROVE IsSeq(p) /\ p # <<>> /\ p[1] = w
    BY <2>2, ShortPlans
  <2>3. ASSUME NEW a, NEW b, p = <<w, a, b>> PROVE IsSeq(p) /\ p # <<>> /\ p[1] = w
    BY <2>3, ThreeBlocks
  <2>. QED  BY <1>1, <2>1, <2>2, <2>3
<1>4. agenda' # <<>> /\ Head(agenda') = w
  BY <1>3, HeadOfPlan
<1>. QED  BY <1>2, <1>4 DEF At

\* A block answers or makes all calls of its await.
LEMMA CallsBlock ==
    ASSUME IInv, CallsAttended, Block
    PROVE  CallsAttended'
<1>0. Up
  BY DEF Block, DoStartLayer, DoStopLayer, DoCall, DoCron, DoAwait, DoShutdown, DoCancel, DoJoin,
         DoRemove, DoForget, DoReplace, DoAdd, DoInstall, DoAdopt, DoDerive, DoSwap, Complete,
         At, Up
<1>1. ASSUME NEW ids, NEW st, NEW op \in Ops, NEW p, pc = "exec", pc' = pc, agenda # <<>>,
             Head(agenda).do # "await", SendTo(ids, op), Continue(p),
             \/ p = <<Await(ids, st)>>
             \/ \E a : p = <<Await(ids, st), a>>
             \/ \E a, b : p = <<Await(ids, st), a, b>>
      PROVE  CallsAttended'
  <2>1. At("await")' /\ Head(agenda').ids = ids
    BY <1>1, SendBlocks
  <2>2. ~At("await")
    BY <1>1 DEF At
  <2>. QED  BY <1>0, <1>1, <2>1, <2>2, CallAttended
<1>2. CASE DoStartLayer
  <2>. DEFINE names == {n \in Head(agenda).names \cap DOMAIN configs \cap DOMAIN programs :
                         /\ configs[n].autostart
                         /\ prog[programs[n]].state \in {"Stopped", "Exited", "Fatal"}}
              ids   == {programs[n] : n \in names}
  <2>1. /\ pc = "exec" /\ pc' = pc /\ agenda # <<>> /\ Head(agenda).do # "await"
        /\ SendTo(ids, "Start") /\ Continue(<<Await(ids, FALSE)>>)
    BY <1>2 DEF DoStartLayer, At, controlVars
  <2>2. "Start" \in Ops
    BY DEF Ops
  <2>. HIDE DEF ids
  <2>. QED  BY <1>1, <2>1, <2>2
<1>3. CASE DoStopLayer
  <2>. DEFINE names == {n \in Head(agenda).names \cap DOMAIN programs :
                         prog[programs[n]].state # "Stopped"}
              ids   == {programs[n] : n \in names}
  <2>1. /\ pc = "exec" /\ pc' = pc /\ agenda # <<>> /\ Head(agenda).do # "await"
        /\ SendTo(ids, "Stop") /\ Continue(<<Await(ids, FALSE)>>)
    BY <1>3 DEF DoStopLayer, At, controlVars
  <2>2. "Stop" \in Ops
    BY DEF Ops
  <2>. HIDE DEF ids
  <2>. QED  BY <1>1, <2>1, <2>2
<1>4. CASE DoCall
  <2>. DEFINE i == programs[Head(agenda).name]
  <2>1. /\ pc = "exec" /\ pc' = pc /\ agenda # <<>> /\ Head(agenda).do = "call"
        /\ SendTo({i}, Head(agenda).op) /\ Continue(<<Await({i}, TRUE)>>)
    BY <1>4 DEF DoCall, At, controlVars
  <2>2. Head(agenda).op \in Ops
    BY <2>1, HeadIsTodo DEF IInv, BlocksSound
  <2>. HIDE DEF i
  <2>. QED  BY <1>1, <2>1, <2>2
<1>5. ASSUME NEW i, NEW op \in {"Start", "Stop", "Shutdown"}, NEW p, pc = "exec", pc' = pc,
             agenda # <<>>, Head(agenda).do # "await", SendTo({i}, op), Continue(p),
             \/ p = <<Await({i}, FALSE)>>
             \/ \E a : p = <<Await({i}, FALSE), a>>
             \/ \E a, b : p = <<Await({i}, FALSE), a, b>>
      PROVE  CallsAttended'
  <2>1. op \in Ops
    BY <1>5 DEF Ops
  <2>. QED  BY <1>1, <1>5, <2>1
<1>6. ASSUME pc = "exec", agenda # <<>>, Head(agenda).do # "await",
             \A i \in DOMAIN prog' :
                i \in DOMAIN prog /\ prog'[i] \in {prog[i], CancelIt(prog[i])}
      PROVE  CallsAttended'
  <2>1. ~At("await")
    BY <1>6 DEF At
  <2>. QED  BY <1>0, <1>6, <2>1, QuietAttended
<1>7. CASE DoCron
  <2>1. pc = "exec" /\ pc' = pc /\ agenda # <<>> /\ Head(agenda).do # "await"
    BY <1>7 DEF DoCron, At, controlVars
  <2>2. PICK i : i = programs[Head(agenda).name]
    OBVIOUS
  <2>3. CASE UNCHANGED prog
    BY <1>6, <2>1, <2>3
  <2>4. CASE \E op \in {"Start", "Stop"} : SendTo({i}, op) /\ Continue(<<Await({i}, FALSE)>>)
    BY <1>5, <2>1, <2>4
  <2>. QED  BY <1>7, <2>2, <2>3, <2>4 DEF DoCron
<1>8. CASE DoShutdown
  <2>1. PICK i : i = Head(agenda).id
    OBVIOUS
  <2>2. /\ pc = "exec" /\ pc' = pc /\ agenda # <<>> /\ Head(agenda).do # "await"
        /\ SendTo({i}, "Shutdown") /\ Continue(<<Await({i}, FALSE), Cancel(i)>>)
    BY <1>8, <2>1 DEF DoShutdown, At, controlVars
  <2>. QED  BY <1>5, <2>2
<1>9. CASE DoRemove
  <2>1. PICK n, i : n = Head(agenda).name /\ i = programs[n]
    OBVIOUS
  <2>2. /\ pc = "exec" /\ pc' = pc /\ agenda # <<>> /\ Head(agenda).do # "await"
        /\ SendTo({i}, "Stop") /\ Continue(<<Await({i}, FALSE), Shutdown(i), Forget(n)>>)
    BY <1>9, <2>1 DEF DoRemove, At, controlVars
  <2>. QED  BY <1>5, <2>2
<1>10. CASE DoReplace
  <2>1. PICK n, i : n = Head(agenda).name /\ i = programs[n]
    OBVIOUS
  <2>2. /\ pc = "exec" /\ pc' = pc /\ agenda # <<>> /\ Head(agenda).do # "await"
        /\ SendTo({i}, "Stop") /\ Continue(<<Await({i}, FALSE), Shutdown(i), Add(n)>>)
    BY <1>10, <2>1 DEF DoReplace, At, controlVars
  <2>. QED  BY <1>5, <2>2
<1>11. CASE DoAdd
  <2>1. PICK n, i : n = Head(agenda).name /\ i = Staged(n)
    OBVIOUS
  <2>2. pc = "exec" /\ pc' = pc /\ agenda # <<>> /\ Head(agenda).do # "await"
    BY <1>11 DEF DoAdd, At, controlVars
  <2>3. \/ UNCHANGED prog
        \/ SendTo({i}, "Start") /\ Continue(<<Await({i}, FALSE), Install(n)>>)
    BY <1>11, <2>1 DEF DoAdd
  <2>4. CASE UNCHANGED prog
    BY <1>6, <2>2, <2>4
  <2>5. CASE SendTo({i}, "Start") /\ Continue(<<Await({i}, FALSE), Install(n)>>)
    BY <1>5, <2>2, <2>5
  <2>. QED  BY <2>3, <2>4, <2>5
<1>12. CASE DoCancel
  <2>1. PICK i : i = Head(agenda).id
    OBVIOUS
  <2>2. /\ pc = "exec" /\ agenda # <<>> /\ Head(agenda).do # "await"
        /\ prog' = [prog EXCEPT ![i] = CancelIt(@)]
    BY <1>12, <2>1 DEF DoCancel, At
  <2>. QED  BY <1>6, <2>2
<1>13. CASE DoInstall
  <2>1. PICK dropped : prog' = [i \in DOMAIN prog |->
                                   IF i \in dropped THEN CancelIt(prog[i]) ELSE prog[i]]
    BY <1>13 DEF DoInstall
  <2>2. pc = "exec" /\ agenda # <<>> /\ Head(agenda).do # "await"
    BY <1>13 DEF DoInstall, At
  <2>. QED  BY <1>6, <2>1, <2>2
<1>14. CASE DoJoin \/ DoForget \/ DoAdopt \/ DoDerive \/ DoSwap
  <2>1. pc = "exec" /\ agenda # <<>> /\ Head(agenda).do # "await" /\ prog' = prog
    BY <1>14 DEF DoJoin, DoForget, DoAdopt, DoDerive, DoSwap, At
  <2>. QED  BY <1>6, <2>1
<1>15. CASE Complete
  <2>1. ~At("await") /\ prog' = prog
    BY <1>15 DEF Complete, At
  <2>. QED  BY <1>0, <2>1, QuietAttended
<1>. QED  BY <1>2, <1>3, <1>4, <1>7, <1>8, <1>9, <1>10, <1>11, <1>12, <1>13, <1>14, <1>15,
             AwaitAttended DEF Block

\* The programs that are there stay as they are, next to new ones.
OnlyFresh ==
    \A i \in DOMAIN prog' : prog'[i] = Fresh \/ (i \in DOMAIN prog /\ prog'[i] = prog[i])

\* Staging programs leaves the others alone.
LEMMA StagingIsFresh ==
    ASSUME IInv, NEW s, IsSeq(s), Instantiate(s)
    PROVE  OnlyFresh
<1>1. PICK F : F = [k \in DOMAIN s |-> Fresh]
  OBVIOUS
<1>2. F = [k \in DOMAIN s |-> F[k]] /\ \A k \in DOMAIN s : F[k] = Fresh
  BY <1>1
<1>3. IsSeq(F) /\ DOMAIN F = DOMAIN s
  BY <1>2, MapIsSeq
<1>4. IsSeq(prog)
  BY SeqIsSeq DEF IInv, TypeOK
<1>5. PICK u : u = prog \o F
  OBVIOUS
<1>6. \A k \in DOMAIN u : \/ k \in DOMAIN prog /\ u[k] = prog[k]
                          \/ /\ k > Len(prog) /\ k - Len(prog) \in DOMAIN F
                             /\ u[k] = F[k - Len(prog)]
  BY <1>3, <1>4, <1>5, JoinFacts
<1>7. prog' = u
  BY <1>1, <1>5 DEF Instantiate
<1>. QED  BY <1>2, <1>3, <1>6, <1>7 DEF OnlyFresh

\* A branch of the select loop sends nothing yet.
LEMMA SelectIsFresh ==
    ASSUME IInv, Select \/ Cancelled
    PROVE  pc = "select" /\ OnlyFresh
<1>1. pc = "select"
  BY DEF Select, Cancelled, StartProgram, StopProgram, RestartProgram, SignalProgram, OnPrograms,
         StartGroup, StopGroup, RestartGroup, StartAll, StopAll, Reload, RestartDaemon, AddGroup,
         RemoveGroup, CronDue, ShutdownCommand, Received
<1>2. CASE UNCHANGED prog
  BY <1>1, <1>2 DEF OnlyFresh
<1>3. CASE Reload
  <2>1. PICK c \in Received("Reload") :
           \/ UNCHANGED prog
           \/ \E m \in Sorted(Modified(configs, Gens[c.arg])) :
              \E a \in Sorted(Added(configs, Gens[c.arg])) : Instantiate(m \o a)
    BY <1>3 DEF Reload, Reject, Accept
  <2>2. ASSUME NEW m \in Sorted(Modified(configs, Gens[c.arg])),
               NEW a \in Sorted(Added(configs, Gens[c.arg])), Instantiate(m \o a)
        PROVE  OnlyFresh
    <3>1. c.arg \in DOMAIN Gens
      BY CommandsAssumption DEF Received
    <3>2. PICK M, A : M = Modified(configs, Gens[c.arg]) /\ A = Added(configs, Gens[c.arg])
      OBVIOUS
    <3>3. IsFiniteSet(DOMAIN Gens[c.arg])
      BY <3>1, GensAssumption
    <3>4. M \subseteq DOMAIN Gens[c.arg] /\ A \subseteq DOMAIN Gens[c.arg]
      BY <3>2 DEF Modified, Added
    <3>5. IsFiniteSet(M) /\ IsFiniteSet(A)
      BY <3>3, <3>4, FS_Subset
    <3>6. m \in Orders(M) /\ a \in Orders(A)
      BY <3>2 DEF Sorted
    <3>7. IsSeq(m) /\ IsSeq(a)
      BY <3>5, <3>6, OrdersList DEF Lists
    <3>8. IsSeq(m \o a)
      BY <3>7, JoinFacts
    <3>. QED  BY <2>2, <3>8, StagingIsFresh
  <2>. QED  BY <1>1, <1>2, <2>1, <2>2
<1>4. CASE RestartDaemon
  <2>1. PICK c \in Received("RestartDaemon") :
           UNCHANGED prog \/ \E s \in Sorted(DOMAIN Gens[c.arg]) : Instantiate(s)
    BY <1>4 DEF RestartDaemon, Reject, Accept
  <2>2. ASSUME NEW s \in Sorted(DOMAIN Gens[c.arg]), Instantiate(s) PROVE OnlyFresh
    <3>1. c.arg \in DOMAIN Gens
      BY CommandsAssumption DEF Received
    <3>2. IsFiniteSet(DOMAIN Gens[c.arg]) /\ s \in Orders(DOMAIN Gens[c.arg])
      BY <3>1, GensAssumption DEF Sorted
    <3>3. IsSeq(s)
      BY <3>2, OrdersList DEF Lists
    <3>. QED  BY <2>2, <3>3, StagingIsFresh
  <2>. QED  BY <1>1, <1>2, <2>1, <2>2
<1>5. CASE AddGroup
  <2>1. PICK c : UNCHANGED prog \/ \E s \in Orders(Members(pending_configs, c.arg)) : Instantiate(s)
    BY <1>5 DEF AddGroup
  <2>2. ASSUME NEW s \in Orders(Members(pending_configs, c.arg)), Instantiate(s) PROVE OnlyFresh
    <3>1. Members(pending_configs, c.arg) \subseteq DOMAIN pending_configs
      BY DEF Members
    <3>2. IsFiniteSet(Members(pending_configs, c.arg))
      BY <3>1, PendingFacts, FS_Subset
    <3>3. IsSeq(s)
      BY <3>2, OrdersList DEF Lists
    <3>. QED  BY <2>2, <3>3, StagingIsFresh
  <2>. QED  BY <1>1, <1>2, <2>1, <2>2
<1>6. (Select \/ Cancelled) /\ ~Reload /\ ~RestartDaemon /\ ~AddGroup => UNCHANGED prog
  BY DEF Select, Cancelled, StartProgram, StopProgram, RestartProgram, SignalProgram, OnPrograms,
         StartGroup, StopGroup, RestartGroup, OnGroup, StartAll, StopAll, RemoveGroup, CronDue,
         ShutdownCommand
<1>. QED  BY <1>1, <1>2, <1>3, <1>4, <1>5, <1>6

\* Every call is waited for until it is answered.
LEMMA CallsStep ==
    ASSUME ~Timeouts, Probed = {}, IInv, CallsAttended, [Next]_vars
    PROVE  CallsAttended'
<1>1. CASE Select \/ Cancelled
  <2>1. pc = "select" /\ OnlyFresh
    BY <1>1, SelectIsFresh
  <2>2. Up /\ ~At("await")
    BY <2>1 DEF Up, At
  <2>. QED  BY <2>1, <2>2, QuietAttended DEF OnlyFresh
<1>2. CASE UNCHANGED vars \/ Terminated \/ CancelManager
  <2>1. UNCHANGED <<pc, agenda, prog>>
    BY <1>2 DEF vars, Terminated, CancelManager, controlVars
  <2>. QED  BY <2>1 DEF CallsAttended, Up, At
<1>3. CASE Abort
  BY <1>3 DEF Abort, CallsAttended, Up
<1>4. ~AwaitTimesOut /\ \A i : ~Unhealthy(i)
  BY DEF AwaitTimesOut, Unhealthy
<1>. QED  BY <1>1, <1>2, <1>3, <1>4, CallsBlock, MoveAttended DEF Next

-----------------------------------------------------------------------------
(* A layer has its turn when the programs that depend on it are down.      *)

\* The registered programs of a configuration can be ordered.
LEMMA ConfigsComparable ==
    ASSUME IInv
    PROVE  IsFiniteSet(DOMAIN configs) /\ Comparable(configs)
<1>1. \A n \in DOMAIN configs : n \in Int /\ configs[n].priority \in Int
  <2>. SUFFICES ASSUME NEW n \in DOMAIN configs PROVE n \in Int /\ configs[n].priority \in Int
    OBVIOUS
  <2>1. PICK g \in DOMAIN Gens : n \in DOMAIN Gens[g] /\ configs[n] = Gens[g][n]
    BY DEF IInv, MapsSound
  <2>. QED  BY <2>1, GensAssumption
<1>. QED  BY <1>1 DEF IInv, MapsSound, Comparable

\* The plan of stop_all, layer by layer.
LEMMA StopPlanIs ==
    ASSUME NEW d, IsSeq(d.stop), NEW t, t = StopAllPlan(d)
    PROVE  /\ IsSeq(t) /\ DOMAIN t = DOMAIN d.stop
           /\ \A k \in DOMAIN t : t[k].do = "stop_layer" /\ t[k].names = SetOf(d.stop[k])
<1>1. /\ t = [k \in DOMAIN d.stop |-> t[k]]
      /\ \A k \in DOMAIN d.stop : t[k].do = "stop_layer" /\ t[k].names = SetOf(d.stop[k])
  BY DEF StopAllPlan, Each, StopLayer
<1>. QED  BY <1>1, MapIsSeq

\* It goes through all programs, those that depend on a program before it.
LEMMA StopPlanOrder ==
    ASSUME IInv, pc = "select", Buildable(configs), NEW t, t = StopAllPlan(dag),
           NEW m \in DOMAIN programs
    PROVE  \E l \in DOMAIN t :
              /\ m \in t[l].names
              /\ \A k \in DOMAIN t : \A n \in t[k].names : n \in Deps(configs, m) => l < k
<1>1. DOMAIN programs = DOMAIN configs /\ dag = Dag(configs)
  BY SelectFacts DEF Agreed
<1>2. PICK L : L = StopLayers(configs)
  OBVIOUS
<1>3. dag.stop = L
  BY <1>1, <1>2 DEF Dag
<1>4. /\ DOMAIN t = DOMAIN L
      /\ \A k \in DOMAIN t : t[k].names = SetOf(L[k])
  <2>1. IsSeq(dag.stop)
    BY DEF IInv, MapsSound, IsSeq
  <2>. QED  BY <1>3, <2>1, StopPlanIs
<1>5. InStopOrder(configs, L, m)
  BY <1>1, <1>2, ConfigsComparable, AllInStopOrder
<1>6. PICK l \in DOMAIN L : \E y \in DOMAIN L[l] :
         /\ L[l][y] = m
         /\ \A k \in DOMAIN L : \A x \in DOMAIN L[k] : L[k][x] \in Deps(configs, m) => l < k
  BY <1>5 DEF InStopOrder
<1>7. m \in SetOf(L[l])
  BY <1>6 DEF SetOf
<1>8. ASSUME NEW k \in DOMAIN t, NEW n \in t[k].names, n \in Deps(configs, m) PROVE l < k
  <2>1. PICK x \in DOMAIN L[k] : n = L[k][x]
    BY <1>4, <1>8 DEF SetOf
  <2>. QED  BY <1>4, <1>6, <1>8, <2>1
<1>. QED  BY <1>4, <1>7, <1>8

\* stop_all begins, alone or before the programs are shut down.
LEMMA LayersBegin ==
    ASSUME IInv, pc = "select", UNCHANGED <<programs, configs>>,
           NEW t, t = StopAllPlan(dag), NEW u, IsSeq(u), agenda' = t \o u,
           \A b \in SetOf(u) : b.do \in {"shutdown", "swap"},
           cmd'.op = "StopAll" => SetOf(u) = {},
           \A j \in DOMAIN prog : j \in DOMAIN prog' /\ prog'[j] = prog[j]
    PROVE  LayersTracked'
<1>1. IsSeq(t) /\ \A k \in DOMAIN t : t[k].do = "stop_layer"
  BY StopPlanIs DEF IInv, MapsSound, IsSeq
<1>2. PICK q : q = agenda'
  OBVIOUS
<1>3. /\ IsSeq(q) /\ SetOf(q) = SetOf(t) \cup SetOf(u) /\ Len(q) = Len(t) + Len(u)
      /\ \A k \in DOMAIN q : \/ k \in DOMAIN t /\ q[k] = t[k]
                             \/ /\ k > Len(t) /\ k - Len(t) \in DOMAIN u
                                /\ q[k] = u[k - Len(t)]
  BY <1>1, <1>2, JoinFacts
<1>4. /\ Len(t) \in Nat /\ DOMAIN t = 1 .. Len(t) /\ Len(u) \in Nat /\ DOMAIN u = 1 .. Len(u)
      /\ Len(q) \in Nat /\ DOMAIN q = 1 .. Len(q)
  BY <1>1, <1>3, SeqFacts
<1>5. \A k \in DOMAIN t : k \in DOMAIN q /\ q[k] = t[k]
  BY <1>3, <1>4
<1>6. \A k \in DOMAIN q : q[k].do = "stop_layer" => k \in DOMAIN t /\ q[k] = t[k]
  <2>. SUFFICES ASSUME NEW k \in DOMAIN q, q[k].do = "stop_layer", k - Len(t) \in DOMAIN u,
                       q[k] = u[k - Len(t)]
                PROVE  FALSE
    BY <1>3
  <2>1. q[k] \in SetOf(u)
    BY DEF SetOf
  <2>. QED  BY <2>1
<1>7. Todo' = SetOf(t) \cup SetOf(u)
  BY <1>2, <1>3 DEF Todo
<1>8. \A b \in SetOf(t) : b.do = "stop_layer"
  BY <1>1 DEF SetOf
<1>9. \A m \in DOMAIN programs : Live(prog'[programs'[m]])
  BY SelectFacts DEF IInv, MapsSound
<1>10. ASSUME Buildable(configs), NEW m \in DOMAIN programs
       PROVE  /\ \A k \in DOMAIN q : q[k].do = "stop_layer" =>
                    \A n \in q[k].names : n \in Deps(configs, m) => DownBefore(k, m)'
              /\ DownBefore(Len(q) + 1, m)'
  <2>1. PICK l \in DOMAIN t :
           /\ m \in t[l].names
           /\ \A k \in DOMAIN t : \A n \in t[k].names : n \in Deps(configs, m) => l < k
    BY <1>10, StopPlanOrder
  <2>2. l \in DOMAIN agenda' /\ agenda'[l].do = "stop_layer" /\ m \in agenda'[l].names
    BY <1>1, <1>2, <1>5, <2>1
  <2>3. \A k : l < k => DownBefore(k, m)'
    BY <2>2 DEF DownBefore
  <2>4. l < Len(q) + 1
    BY <1>2, <1>4, <2>2
  <2>. QED  BY <1>6, <2>1, <2>3, <2>4
<1>11. ASSUME NEW k \in DOMAIN q, q[k].do = "stop_layer", NEW l \in DOMAIN q, l < k
       PROVE  q[l].do \in {"stop_layer", "await"}
  <2>1. l \in DOMAIN t
    BY <1>4, <1>6, <1>11
  <2>. QED  BY <1>1, <1>5, <2>1
<1>12. \A b \in Todo' : /\ b.do \in {"stop_layer", "await", "shutdown", "cancel", "join", "swap",
                                     "start_layer"}
                        /\ b.do # "await"
                        /\ cmd'.op = "StopAll" => b.do \in {"stop_layer", "await"}
  BY <1>7, <1>8
<1>13. LayerBlocks'
  BY <1>12 DEF LayerBlocks
<1>14. ASSUME NEW k \in DOMAIN agenda', agenda'[k].do = "stop_layer" PROVE InTurn(k)'
  BY <1>2, <1>9, <1>10, <1>11, <1>14 DEF InTurn, DownBefore
<1>15. DownAtEnd'
  BY <1>2, <1>10 DEF DownAtEnd, DownBefore
<1>. QED  BY <1>13, <1>14, <1>15 DEF LayersTracked

\* A stop_all, on its own or before an end, is under way.
BulkUnderWay == Up /\ cmd.op \in BulkStop

\* The part that is about one program, at the turn of a layer or at the end.
LayersFor(k) ==
    \/ k \in DOMAIN agenda /\ agenda[k].do = "stop_layer"
    \/ k = Len(agenda) + 1 /\ cmd.op = "StopAll"

\* While layers are left, and to the end of stop_all, every program can be
\* commanded.
LEMMA LayersLive ==
    ASSUME IInv, LayersTracked, BulkUnderWay, NEW k, LayersFor(k), NEW m \in DOMAIN programs
    PROVE  /\ programs[m] \in DOMAIN prog /\ owner[programs[m]] = m
           /\ prog[programs[m]] \in ProgramType /\ Sane(prog[programs[m]])
           /\ Live(prog[programs[m]])
<1>1. programs[m] \in DOMAIN prog /\ owner[programs[m]] = m
  BY DEF IInv, MapsSound
<1>2. prog[programs[m]] \in ProgramType /\ Sane(prog[programs[m]])
  BY <1>1, RecordsTyped
<1>3. CASE k \in DOMAIN agenda /\ agenda[k].do = "stop_layer"
  BY <1>1, <1>2, <1>3 DEF LayersTracked, BulkUnderWay, InTurn
<1>4. CASE cmd.op = "StopAll"
  <2>1. \A b \in Todo : b.do \in {"stop_layer", "await"}
    BY <1>4 DEF LayersTracked, BulkUnderWay, LayerBlocks
  <2>2. ~Outgoing(m)
    BY <1>4, <2>1 DEF Outgoing, Named, Swapping, Leaving
  <2>3. Up
    BY DEF BulkUnderWay
  <2>. QED  BY <1>1, <1>2, <2>2, <2>3 DEF IInv, RegisteredSound
<1>. QED  BY <1>3, <1>4 DEF LayersFor

\* The programs go on by themselves.
LEMMA LayersMove ==
    ASSUME IInv, CallsAttended, LayersTracked, NEW j \in DOMAIN prog, Serve(j) \/ ByItself(j)
    PROVE  LayersTracked'
<1>1. UNCHANGED <<programs, configs, cmd, pc, agenda>>
  BY DEF Serve, ByItself, ProgramMoves, registryVars, controlVars
<1>2. PICK s \in ServeSteps(prog[j]) \cup OwnSteps(prog[j]) :
         ~prog[j].ended /\ prog' = [prog EXCEPT ![j] = s]
  BY DEF Serve, ByItself, ProgramMoves, ServeSteps
<1>. SUFFICES ASSUME BulkUnderWay PROVE LayersTracked'
  BY <1>1 DEF LayersTracked, BulkUnderWay, Up
<1>3. ASSUME NEW k, LayersFor(k), NEW m \in DOMAIN programs
      PROVE  /\ Live(prog'[programs[m]])
             /\ DownBefore(k, m) => DownBefore(k, m)'
  <2>1. PICK i : i = programs[m]
    OBVIOUS
  <2>2. i \in DOMAIN prog /\ prog[i] \in ProgramType /\ Sane(prog[i]) /\ Live(prog[i])
    BY <1>3, <2>1, LayersLive
  <2>3. prog'[i] = IF i = j THEN s ELSE prog[i]
    BY <1>2, <2>2
  <2>4. CASE i = j
    <3>1. Live(s)
      BY <1>2, <2>2, <2>4, ServeEvolves, OwnEvolves DEF Evolves
    <3>2. StopInHand(prog[i]) => StopInHand(s)
      BY <1>2, <2>2, <2>4, InHandStays
    <3>3. ~Dormant(prog[i])
      BY <1>2, <2>2, <2>4, DownStays
    <3>. QED  BY <1>1, <2>1, <2>3, <2>4, <3>1, <3>2, <3>3 DEF DownBefore, At
  <2>5. CASE i # j
    BY <1>1, <2>1, <2>2, <2>3, <2>5 DEF DownBefore, At
  <2>. QED  BY <2>4, <2>5
<1>4. LayerBlocks'
  BY <1>1 DEF LayersTracked, BulkUnderWay, LayerBlocks, Todo
<1>5. ASSUME NEW k \in DOMAIN agenda, agenda[k].do = "stop_layer" PROVE InTurn(k)'
  <2>1. LayersFor(k) /\ InTurn(k)
    BY <1>5 DEF LayersFor, LayersTracked, BulkUnderWay
  <2>2. \A m \in DOMAIN programs : /\ Live(prog'[programs[m]])
                                   /\ DownBefore(k, m) => DownBefore(k, m)'
    BY <1>3, <2>1
  <2>. QED  BY <1>1, <2>1, <2>2 DEF InTurn, DownBefore
<1>6. DownAtEnd'
  <2>. SUFFICES ASSUME cmd.op = "StopAll", Buildable(configs), NEW m \in DOMAIN programs
                PROVE  DownBefore(Len(agenda) + 1, m)'
    BY <1>1 DEF DownAtEnd, DownBefore
  <2>1. LayersFor(Len(agenda) + 1) /\ DownBefore(Len(agenda) + 1, m)
    BY DEF LayersFor, LayersTracked, BulkUnderWay, DownAtEnd
  <2>2. PICK k : k = Len(agenda) + 1
    OBVIOUS
  <2>3. DownBefore(k, m)'
    BY <1>3, <2>1, <2>2
  <2>. QED  BY <1>1, <2>2, <2>3 DEF DownBefore
<1>. QED  BY <1>1, <1>4, <1>5, <1>6 DEF LayersTracked

\* One block takes the place of the first, or the first is dropped.
LEMMA PlacesKept ==
    ASSUME IInv, agenda # <<>>
    PROVE  /\ Len(agenda) \in Nat /\ DOMAIN agenda = 1 .. Len(agenda) /\ 1 \in DOMAIN agenda
           /\ Head(agenda) = agenda[1] /\ Todo = {Head(agenda)} \cup SetOf(Tail(agenda))
           /\ \A a : Continue(<<a>>) =>
                 /\ DOMAIN agenda' = DOMAIN agenda /\ Len(agenda') = Len(agenda)
                 /\ agenda' # <<>> /\ Head(agenda') = a /\ agenda'[1] = a
                 /\ \A k \in DOMAIN agenda : k # 1 => agenda'[k] = agenda[k]
                 /\ Todo' = {a} \cup SetOf(Tail(agenda))
           /\ Continue(<<>>) =>
                 /\ DOMAIN agenda' = 1 .. Len(agenda) - 1 /\ Len(agenda') = Len(agenda) - 1
                 /\ \A k \in DOMAIN agenda' : k + 1 \in DOMAIN agenda /\ agenda'[k] = agenda[k + 1]
                 /\ Todo' = SetOf(Tail(agenda))
<1>1. IsSeq(agenda)
  BY DEF IInv, AgendaSound, IsSeq, Todo
<1>2. PICK t : t = Tail(agenda)
  OBVIOUS
<1>3. /\ IsSeq(t) /\ SetOf(agenda) = {Head(agenda)} \cup SetOf(t)
      /\ DOMAIN t = 1 .. Len(agenda) - 1
      /\ \A k \in DOMAIN t : k + 1 \in DOMAIN agenda /\ t[k] = agenda[k + 1]
      /\ 1 \in DOMAIN agenda /\ Head(agenda) = agenda[1]
      /\ Len(agenda) \in Nat /\ DOMAIN agenda = 1 .. Len(agenda)
  BY <1>1, <1>2, PopFacts, SeqFacts
<1>4. Len(t) = Len(agenda) - 1
  <2>1. Len(agenda) - 1 \in Nat
    BY <1>3
  <2>2. t = [k \in DOMAIN t |-> t[k]]
    BY <1>3, LenProperties DEF IsSeq
  <2>3. t = [k \in 1 .. Len(agenda) - 1 |-> t[k]]
    BY <1>3, <2>2
  <2>. QED  BY <2>1, <2>3, FunctionIsSeq
<1>5. ASSUME NEW a, Continue(<<a>>)
      PROVE  /\ DOMAIN agenda' = DOMAIN agenda /\ Len(agenda') = Len(agenda)
             /\ agenda' # <<>> /\ Head(agenda') = a /\ agenda'[1] = a
             /\ \A k \in DOMAIN agenda : k # 1 => agenda'[k] = agenda[k]
             /\ Todo' = {a} \cup SetOf(t)
  <2>1. PICK p : p = <<a>>
    OBVIOUS
  <2>2. IsSeq(p) /\ SetOf(p) = {a} /\ Len(p) = 1 /\ p[1] = a /\ DOMAIN p = {1} /\ p # <<>>
    <3>1. Len(p) = 1 /\ p[1] = a /\ DOMAIN p = {1} /\ p # <<>>
      BY <2>1
    <3>2. IsSeq(p) /\ SetOf(p) = {a}
      BY <2>1, ShortPlans
    <3>. QED  BY <3>1, <3>2
  <2>3. PICK u : u = p \o t
    OBVIOUS
  <2>4. /\ IsSeq(u) /\ SetOf(u) = SetOf(p) \cup SetOf(t) /\ Len(u) = Len(p) + Len(t)
        /\ \A k \in DOMAIN u : \/ k \in DOMAIN p /\ u[k] = p[k]
                               \/ /\ k > Len(p) /\ k - Len(p) \in DOMAIN t
                                  /\ u[k] = t[k - Len(p)]
    <3>1. IsSeq(p) /\ IsSeq(t)
      BY <1>3, <2>2
    <3>. QED  BY <2>3, <3>1, JoinFacts
  <2>5. DOMAIN u = 1 .. Len(u)
    BY <2>4, SeqFacts
  <2>6. Len(u) = Len(agenda) /\ DOMAIN u = DOMAIN agenda
    BY <1>3, <1>4, <2>2, <2>4, <2>5
  <2>7. \A k \in DOMAIN agenda : k # 1 => u[k] = agenda[k]
    <3>. SUFFICES ASSUME NEW k \in DOMAIN agenda, k # 1 PROVE u[k] = agenda[k]
      OBVIOUS
    <3>1. k - 1 \in DOMAIN t /\ u[k] = t[k - 1]
      BY <2>2, <2>4, <2>6
    <3>. QED  BY <1>3, <3>1
  <2>8. agenda' = u
    BY <1>2, <1>5, <2>1, <2>3 DEF Continue
  <2>9. agenda' # <<>> /\ Head(agenda') = a
    BY <1>5, <2>1, <2>2, HeadOfPlan
  <2>10. u[1] = a
    BY <1>3, <2>2, <2>4, <2>6
  <2>. QED  BY <2>2, <2>4, <2>6, <2>7, <2>8, <2>9, <2>10 DEF Todo
<1>6. ASSUME Continue(<<>>)
      PROVE  /\ DOMAIN agenda' = 1 .. Len(agenda) - 1 /\ Len(agenda') = Len(agenda) - 1
             /\ \A k \in DOMAIN agenda' : k + 1 \in DOMAIN agenda /\ agenda'[k] = agenda[k + 1]
             /\ Todo' = SetOf(t)
  <2>1. t \in Seq(SetOf(t))
    BY <1>3 DEF IsSeq
  <2>2. <<>> \o t = t
    BY <2>1, ConcatEmptySeq
  <2>3. agenda' = t
    BY <1>2, <1>6, <2>2 DEF Continue
  <2>. QED  BY <1>3, <1>4, <2>3 DEF Todo
<1>. QED  BY <1>2, <1>3, <1>5, <1>6 DEF Todo

\* One layer is told to stop: a program that is shown STOPPED is down.
LEMMA LayersStop ==
    ASSUME IInv, CallsAttended, LayersTracked, DoStopLayer
    PROVE  LayersTracked'
<1>. DEFINE h     == Head(agenda)
            names == {n \in h.names \cap DOMAIN programs : prog[programs[n]].state # "Stopped"}
            ids   == {programs[n] : n \in names}
<1>1. /\ pc = "exec" /\ agenda # <<>> /\ h.do = "stop_layer" /\ SendTo(ids, "Stop")
      /\ UNCHANGED <<programs, configs, cmd, pc>>
  BY DEF DoStopLayer, At, registryVars, controlVars
<1>. SUFFICES ASSUME BulkUnderWay PROVE LayersTracked'
  BY <1>1 DEF LayersTracked, BulkUnderWay, Up
<1>2. PICK a : a = Await(ids, FALSE)
  OBVIOUS
<1>3. a.do = "await" /\ a.ids = ids /\ ~a.strict /\ Continue(<<a>>)
  BY <1>2 DEF Await, DoStopLayer
<1>4. /\ Len(agenda) \in Nat /\ DOMAIN agenda = 1 .. Len(agenda) /\ 1 \in DOMAIN agenda
      /\ h = agenda[1] /\ Todo = {h} \cup SetOf(Tail(agenda))
      /\ DOMAIN agenda' = DOMAIN agenda /\ Len(agenda') = Len(agenda)
      /\ agenda' # <<>> /\ Head(agenda') = a /\ agenda'[1] = a
      /\ \A k \in DOMAIN agenda : k # 1 => agenda'[k] = agenda[k]
      /\ Todo' = {a} \cup SetOf(Tail(agenda))
  BY <1>1, <1>3, PlacesKept
<1>5. /\ Up /\ ~At("await") /\ LayersFor(1)
  BY <1>1, <1>4 DEF Up, At, LayersFor
<1>6. \A m \in DOMAIN programs : programs[m] \in ids => prog[programs[m]].state # "Stopped"
  BY DEF IInv, MapsSound
<1>7. \A m \in DOMAIN programs :
         m \in h.names /\ prog[programs[m]].state # "Stopped" => programs[m] \in ids
  OBVIOUS
<1>. HIDE DEF h, ids
<1>8. ASSUME NEW m \in DOMAIN programs
      PROVE  /\ Live(prog'[programs[m]])
             /\ \A k : 1 < k /\ DownBefore(k, m) => DownBefore(k, m)'
  <2>1. PICK i : i = programs[m]
    OBVIOUS
  <2>2. /\ i \in DOMAIN prog /\ prog[i] \in ProgramType /\ Sane(prog[i]) /\ Live(prog[i])
        /\ Attended(prog[i]) /\ prog[i].outcome # "wait"
    BY <1>5, <2>1, LayersLive, NobodyWaits
  <2>3. prog'[i] = IF i \in ids THEN Send(prog[i], "Stop") ELSE prog[i]
    BY <1>1, <2>2 DEF SendTo
  <2>4. "Stop" \in Ops /\ "Stop" # "Shutdown"
    BY DEF Ops
  <2>5. Live(Send(prog[i], "Stop")) /\ StopInHand(Send(prog[i], "Stop"))
    BY <2>2, <2>4, SendFacts, SendAttended DEF StopInHand
  <2>6. Live(prog'[i])
    BY <2>2, <2>3, <2>5
  <2>7. prog[i].state = "Stopped" => Dormant(prog[i]) /\ prog'[i] = prog[i]
    BY <1>6, <2>1, <2>2, <2>3 DEF Dormant, Live, Attended
  <2>8. Dormant(prog[i]) => prog[i].state = "Stopped"
    BY <2>2, DownStays
  <2>9. ASSUME NEW k, 1 < k, DownBefore(k, m)
        PROVE  DownBefore(k, m)'
    <3>1. CASE Dormant(prog[i])
      BY <1>1, <2>1, <2>7, <2>8, <3>1 DEF DownBefore
    <3>2. ASSUME NEW l \in DOMAIN agenda, l < k, agenda[l].do = "stop_layer", m \in agenda[l].names
          PROVE  DownBefore(k, m)'
      <4>1. CASE l # 1
        BY <1>4, <3>2, <4>1 DEF DownBefore
      <4>2. CASE l = 1 /\ prog[i].state = "Stopped"
        BY <1>1, <2>1, <2>7, <4>2 DEF DownBefore
      <4>3. CASE l = 1 /\ prog[i].state # "Stopped"
        <5>1. i \in ids
          BY <1>4, <1>7, <2>1, <3>2, <4>3
        <5>2. StopInHand(prog'[i])
          BY <2>3, <2>5, <5>1
        <5>3. At("await")' /\ Head(agenda').ids = ids
          BY <1>1, <1>3, <1>4 DEF At
        <5>. QED  BY <1>1, <2>1, <2>9, <5>1, <5>2, <5>3 DEF DownBefore
      <4>. QED  BY <4>1, <4>2, <4>3
    <3>. QED  BY <1>5, <2>1, <2>9, <3>1, <3>2 DEF DownBefore
  <2>. QED  BY <2>1, <2>6, <2>9
<1>9. LayerBlocks /\ DownAtEnd /\ \A k \in DOMAIN agenda : agenda[k].do = "stop_layer" => InTurn(k)
  BY DEF LayersTracked, BulkUnderWay
<1>10. LayerBlocks'
  <2>1. \A b \in SetOf(Tail(agenda)) : b \in Todo
    BY <1>4
  <2>. QED  BY <1>1, <1>3, <1>4, <1>9, <2>1 DEF LayerBlocks
<1>11. ASSUME NEW k \in DOMAIN agenda', agenda'[k].do = "stop_layer" PROVE InTurn(k)'
  <2>1. k \in DOMAIN agenda /\ 1 < k /\ agenda'[k] = agenda[k]
    BY <1>3, <1>4, <1>11
  <2>2. InTurn(k)
    BY <1>9, <1>11, <2>1
  <2>3. \A l \in DOMAIN agenda' : l < k => agenda'[l].do \in {"stop_layer", "await"}
    BY <1>3, <1>4, <2>2 DEF InTurn
  <2>4. \A m \in DOMAIN programs : /\ Live(prog'[programs[m]])
                                   /\ DownBefore(k, m) => DownBefore(k, m)'
    BY <1>8, <2>1
  <2>. QED  BY <1>1, <2>1, <2>2, <2>3, <2>4 DEF InTurn, DownBefore
<1>12. DownAtEnd'
  <2>. SUFFICES ASSUME cmd.op = "StopAll", Buildable(configs), NEW m \in DOMAIN programs
                PROVE  DownBefore(Len(agenda) + 1, m)'
    BY <1>1 DEF DownAtEnd, DownBefore
  <2>1. PICK k : k = Len(agenda) + 1
    OBVIOUS
  <2>2. 1 < k /\ DownBefore(k, m) /\ k = Len(agenda') + 1
    BY <1>4, <1>9, <2>1 DEF DownAtEnd
  <2>3. DownBefore(k, m)'
    BY <1>8, <2>2
  <2>. QED  BY <2>2, <2>3 DEF DownBefore
<1>. QED  BY <1>10, <1>11, <1>12 DEF LayersTracked

\* The answers are in: what was to stop is down, and the next block has its turn.
LEMMA LayersAwait ==
    ASSUME IInv, CallsAttended, LayersTracked, DoAwait
    PROVE  LayersTracked'
<1>. DEFINE h == Head(agenda)
<1>1. /\ pc = "exec" /\ agenda # <<>> /\ h.do = "await"
      /\ \A i \in h.ids : prog[i].outcome # "wait"
      /\ prog' = [i \in DOMAIN prog |-> IF i \in h.ids THEN Hangup(prog[i]) ELSE prog[i]]
      /\ UNCHANGED <<programs, configs, cmd, pc>>
  BY DEF DoAwait, At, IsAnswered, registryVars
<1>. SUFFICES ASSUME BulkUnderWay PROVE LayersTracked'
  BY <1>1 DEF LayersTracked, BulkUnderWay, Up
<1>2. LayerBlocks /\ DownAtEnd /\ \A k \in DOMAIN agenda : agenda[k].do = "stop_layer" => InTurn(k)
  BY DEF LayersTracked, BulkUnderWay
<1>3. h \in Todo /\ ~h.strict
  BY <1>1, <1>2, HeadIsTodo DEF LayerBlocks
<1>4. Continue(<<>>)
  BY <1>3 DEF DoAwait
<1>5. /\ Len(agenda) \in Nat /\ DOMAIN agenda = 1 .. Len(agenda) /\ 1 \in DOMAIN agenda
      /\ h = agenda[1] /\ Todo = {h} \cup SetOf(Tail(agenda))
      /\ DOMAIN agenda' = 1 .. Len(agenda) - 1 /\ Len(agenda') = Len(agenda) - 1
      /\ \A k \in DOMAIN agenda' : k + 1 \in DOMAIN agenda /\ agenda'[k] = agenda[k + 1]
      /\ Todo' = SetOf(Tail(agenda))
  BY <1>1, <1>4, PlacesKept
<1>. HIDE DEF h
<1>6. ASSUME NEW k \in Nat, LayersFor(k + 1), NEW m \in DOMAIN programs
      PROVE  /\ Live(prog'[programs[m]])
             /\ DownBefore(k + 1, m) => DownBefore(k, m)'
  <2>1. PICK i : i = programs[m]
    OBVIOUS
  <2>2. /\ i \in DOMAIN prog /\ prog[i] \in ProgramType /\ Sane(prog[i]) /\ Live(prog[i])
    BY <1>6, <2>1, LayersLive
  <2>3. prog'[i] = Hangup(prog[i]) \/ prog'[i] = prog[i]
    BY <1>1, <2>2
  <2>4. Live(prog'[i]) /\ (Dormant(prog[i]) => Dormant(prog'[i]))
    BY <2>2, <2>3, HangupFacts DEF Evolves
  <2>5. ASSUME DownBefore(k + 1, m)
        PROVE  DownBefore(k, m)'
    <3>1. CASE Dormant(prog[i])
      BY <1>1, <2>1, <2>4, <3>1 DEF DownBefore
    <3>2. CASE i \in h.ids /\ StopInHand(prog[i])
      <4>1. Dormant(prog[i])
        BY <1>1, <3>2 DEF StopInHand
      <4>. QED  BY <3>1, <4>1
    <3>3. ASSUME NEW l \in DOMAIN agenda, l < k + 1, agenda[l].do = "stop_layer",
                 m \in agenda[l].names
          PROVE  DownBefore(k, m)'
      <4>1. l # 1
        BY <1>1, <1>5, <3>3
      <4>2. PICK x : x = l - 1
        OBVIOUS
      <4>3. x \in DOMAIN agenda' /\ x < k /\ x + 1 = l
        BY <1>5, <3>3, <4>1, <4>2
      <4>4. agenda'[x] = agenda[l]
        BY <1>5, <4>3
      <4>. QED  BY <3>3, <4>3, <4>4 DEF DownBefore
    <3>. QED  BY <2>1, <2>5, <3>1, <3>2, <3>3 DEF DownBefore, h
  <2>. QED  BY <2>1, <2>4, <2>5
<1>7. LayerBlocks'
  <2>1. \A b \in SetOf(Tail(agenda)) : b \in Todo
    BY <1>5
  <2>. QED  BY <1>1, <1>2, <1>5, <2>1 DEF LayerBlocks
<1>8. ASSUME NEW k \in DOMAIN agenda', agenda'[k].do = "stop_layer" PROVE InTurn(k)'
  <2>1. k \in Nat /\ k + 1 \in DOMAIN agenda /\ agenda'[k] = agenda[k + 1]
    BY <1>5
  <2>2. InTurn(k + 1) /\ LayersFor(k + 1)
    BY <1>2, <1>8, <2>1 DEF LayersFor
  <2>3. \A l \in DOMAIN agenda' : l < k => agenda'[l].do \in {"stop_layer", "await"}
    <3>. SUFFICES ASSUME NEW l \in DOMAIN agenda', l < k
                  PROVE  agenda'[l].do \in {"stop_layer", "await"}
      OBVIOUS
    <3>1. l + 1 \in DOMAIN agenda /\ l + 1 < k + 1 /\ agenda'[l] = agenda[l + 1]
      BY <1>5
    <3>. QED  BY <2>2, <3>1 DEF InTurn
  <2>4. \A m \in DOMAIN programs : /\ Live(prog'[programs[m]])
                                   /\ DownBefore(k + 1, m) => DownBefore(k, m)'
    BY <1>6, <2>1, <2>2
  <2>. QED  BY <1>1, <2>1, <2>2, <2>3, <2>4 DEF InTurn, DownBefore
<1>9. DownAtEnd'
  <2>1. PICK k : k = Len(agenda)
    OBVIOUS
  <2>2. k \in Nat /\ k = Len(agenda') + 1
    BY <1>5, <2>1
  <2>3. ASSUME cmd.op = "StopAll", Buildable(configs), NEW m \in DOMAIN programs
        PROVE  DownBefore(k, m)'
    <3>1. LayersFor(k + 1) /\ DownBefore(k + 1, m)
      BY <1>2, <2>1, <2>3 DEF DownAtEnd, LayersFor
    <3>. QED  BY <1>6, <2>2, <3>1
  <2>. QED  BY <1>1, <2>2, <2>3 DEF DownAtEnd, DownBefore
<1>. QED  BY <1>7, <1>8, <1>9 DEF LayersTracked

\* When the layers are through, no block brings a layer to stop back.
LEMMA LayersOther ==
    ASSUME IInv, LayersTracked, Block, ~Complete, ~DoStopLayer, ~DoAwait
    PROVE  LayersTracked'
<1>. DEFINE h == Head(agenda)
            After == {"await", "cancel", "join", "start_layer"}
<1>1. /\ pc = "exec" /\ pc' = pc /\ cmd' = cmd /\ agenda # <<>>
      /\ h.do \notin {"stop_layer", "await"}
  BY DEF Block, DoStartLayer, DoCall, DoCron, DoShutdown, DoCancel, DoJoin, DoRemove, DoForget,
         DoReplace, DoAdd, DoInstall, DoAdopt, DoDerive, DoSwap, At, controlVars
<1>. SUFFICES ASSUME BulkUnderWay PROVE LayersTracked'
  BY <1>1 DEF LayersTracked, BulkUnderWay, Up
<1>2. LayerBlocks /\ \A k \in DOMAIN agenda : agenda[k].do = "stop_layer" => InTurn(k)
  BY DEF LayersTracked, BulkUnderWay
<1>3. h \in Todo /\ IsSeq(agenda) /\ 1 \in DOMAIN agenda /\ h = agenda[1]
  BY <1>1, HeadIsTodo, PlacesKept DEF IInv, AgendaSound, IsSeq, Todo
<1>4. /\ h.do \in {"shutdown", "cancel", "join", "swap", "start_layer"}
      /\ cmd.op # "StopAll"
  BY <1>1, <1>2, <1>3 DEF LayerBlocks
<1>5. \A b \in Todo : b.do # "stop_layer"
  <2>. SUFFICES ASSUME NEW k \in DOMAIN agenda, agenda[k].do = "stop_layer" PROVE FALSE
    BY DEF Todo, SetOf
  <2>1. InTurn(k) /\ k \in Nat /\ k >= 1
    BY <1>2, <1>3, SeqFacts
  <2>2. k # 1
    BY <1>1, <1>3
  <2>. QED  BY <1>1, <1>3, <2>1, <2>2 DEF InTurn
<1>6. ASSUME NEW p, IsSeq(p), Continue(p),
             \A b \in SetOf(p) : b.do \in After /\ (b.do = "await" => ~b.strict)
      PROVE  LayersTracked'
  <2>1. PICK t : t = Tail(agenda)
    OBVIOUS
  <2>2. IsSeq(t) /\ SetOf(t) \subseteq Todo
    BY <1>1, <1>3, <2>1, PopFacts DEF Todo
  <2>3. PICK u : u = p \o t
    OBVIOUS
  <2>4. SetOf(u) = SetOf(p) \cup SetOf(t)
    BY <1>6, <2>2, <2>3, JoinFacts
  <2>5. agenda' = u
    BY <1>6, <2>1, <2>3 DEF Continue
  <2>6. \A b \in Todo' : b \in SetOf(p) \/ b \in Todo
    BY <2>2, <2>4, <2>5 DEF Todo
  <2>7. \A b \in Todo' : b.do # "stop_layer"
    BY <1>5, <1>6, <2>6
  <2>8. LayerBlocks'
    BY <1>1, <1>2, <1>4, <1>6, <2>6 DEF LayerBlocks
  <2>9. \A k \in DOMAIN agenda' : agenda'[k] \in Todo'
    BY DEF Todo, SetOf
  <2>. QED  BY <1>1, <1>4, <2>7, <2>8, <2>9 DEF LayersTracked, DownAtEnd
<1>7. CASE DoShutdown \/ DoCancel \/ DoStartLayer
  <2>1. PICK a, b, p : /\ p = <<a>> \/ p = <<a, b>>
                       /\ Continue(p)
                       /\ \A x \in {a, b} : x.do \in After /\ (x.do = "await" => ~x.strict)
    <3>1. CASE DoShutdown
      <4>1. PICK i : Continue(<<Await({i}, FALSE), Cancel(i)>>)
        BY <3>1 DEF DoShutdown
      <4>2. \A x \in {Await({i}, FALSE), Cancel(i)} : x.do \in After /\ (x.do = "await" => ~x.strict)
        BY DEF Await, Cancel
      <4>. QED  BY <4>1, <4>2
    <3>2. CASE DoCancel
      <4>1. PICK i : Continue(<<Join(i)>>)
        BY <3>2 DEF DoCancel
      <4>2. Join(i).do = "join"
        BY DEF Join
      <4>. QED  BY <4>1, <4>2
    <3>3. CASE DoStartLayer
      <4>1. PICK ids : Continue(<<Await(ids, FALSE)>>)
        BY <3>3 DEF DoStartLayer
      <4>2. Await(ids, FALSE).do = "await" /\ ~Await(ids, FALSE).strict
        BY DEF Await
      <4>. QED  BY <4>1, <4>2
    <3>. QED  BY <1>7, <3>1, <3>2, <3>3
  <2>2. IsSeq(p) /\ SetOf(p) \subseteq {a, b}
    <3>1. CASE p = <<a>>
      BY <3>1, ShortPlans
    <3>2. CASE p = <<a, b>>
      BY <3>2, ShortPlans
    <3>. QED  BY <2>1, <3>1, <3>2
  <2>. QED  BY <1>6, <2>1, <2>2
<1>8. CASE DoJoin
  <2>1. Continue(<<>>)
    BY <1>8 DEF DoJoin
  <2>. QED  BY <1>6, <2>1, EmptyPlan
<1>9. CASE DoSwap
  <2>1. PICK d : d = Dag(pending_configs)
    OBVIOUS
  <2>2. Continue(StartAllPlan(d))
    BY <1>9, <2>1 DEF DoSwap
  <2>3. IsSeq(d.start) /\ IsSeq(d.stop)
    BY <2>1, PendingFacts, DagFacts
  <2>4. /\ IsSeq(StartAllPlan(d))
        /\ \A b \in SetOf(StartAllPlan(d)) : b.do = "start_layer"
    BY <2>3, LayerPlans
  <2>. QED  BY <1>6, <2>2, <2>4
<1>10. DoShutdown \/ DoCancel \/ DoStartLayer \/ DoJoin \/ DoSwap
  BY <1>4 DEF Block, DoCall, DoCron, DoRemove, DoForget, DoReplace, DoAdd, DoInstall, DoAdopt,
              DoDerive, At
<1>. QED  BY <1>7, <1>8, <1>9, <1>10

\* The restart of the daemon begins with stop_all, or is refused.
LEMMA LayersRestart ==
    ASSUME IInv, RestartDaemon
    PROVE  LayersTracked'
<1>1. PICK c \in Received("RestartDaemon") :
         \/ Reject(c, Gens[c.arg])
         \/ \E s \in Orders({programs[n] : n \in DOMAIN programs}) :
            \E staged \in Sorted(DOMAIN Gens[c.arg]) :
               Accept(c, Gens[c.arg], staged, StopAllPlan(dag) \o Each(Shutdown, s) \o <<Swap>>)
  BY DEF RestartDaemon
<1>2. CASE Reject(c, Gens[c.arg])
  <2>1. agenda' = <<>> /\ cmd'.op = "RestartDaemon"
    BY <1>2 DEF Reject, TakeCommand, Begin, Received
  <2>2. Todo' = {} /\ DOMAIN agenda' = {}
    BY <2>1, EmptyPlan DEF Todo
  <2>. QED  BY <2>1, <2>2 DEF LayersTracked, LayerBlocks, DownAtEnd
<1>3. ASSUME NEW s \in Orders({programs[n] : n \in DOMAIN programs}),
             NEW staged \in Sorted(DOMAIN Gens[c.arg]),
             Accept(c, Gens[c.arg], staged, StopAllPlan(dag) \o Each(Shutdown, s) \o <<Swap>>)
      PROVE  LayersTracked'
  <2>1. c.arg \in DOMAIN Gens
    BY CommandsAssumption DEF Received
  <2>2. PICK new : new = Gens[c.arg]
    OBVIOUS
  <2>3. IsFiniteSet(DOMAIN new) /\ DOMAIN new \subseteq Int
    BY <2>1, <2>2, GensAssumption
  <2>4. Lists(staged, DOMAIN new)
    BY <2>2, <2>3, OrdersList DEF Sorted
  <2>5. PICK t : t = StopAllPlan(dag)
    OBVIOUS
  <2>6. PICK y : y = Each(Shutdown, s)
    OBVIOUS
  <2>7. PICK x : x = <<Swap>>
    OBVIOUS
  <2>8. PICK u : u = y \o x
    OBVIOUS
  <2>9. IsSeq(t) /\ IsSeq(y) /\ IsSeq(x)
    BY <2>5, <2>6, <2>7, StopPlanIs, ShutPlan, ShortPlans DEF IInv, MapsSound, IsSeq
  <2>10. /\ \A b \in SetOf(y) : b.do = "shutdown"
         /\ \A b \in SetOf(x) : b.do = "swap"
    <3>1. \A b \in SetOf(y) : b.do = "shutdown"
      BY <2>6, ShutPlan DEF IInv
    <3>2. SetOf(x) = {Swap}
      BY <2>7, ShortPlans
    <3>. QED  BY <3>1, <3>2 DEF Swap
  <2>11. IsSeq(u) /\ SetOf(u) = SetOf(y) \cup SetOf(x)
    BY <2>8, <2>9, JoinFacts
  <2>12. (t \o y) \o x = t \o u
    <3>1. PICK S : S = SetOf(t) \cup SetOf(y) \cup SetOf(x)
      OBVIOUS
    <3>2. SetOf(t) \subseteq S /\ SetOf(y) \subseteq S /\ SetOf(x) \subseteq S
      BY <3>1
    <3>3. t \in Seq(S) /\ y \in Seq(S) /\ x \in Seq(S)
      BY <2>9, <3>2, SeqIsSeq
    <3>. QED  BY <2>8, <3>3, ConcatAssociative
  <2>13. PICK q : q = (t \o y) \o x
    OBVIOUS
  <2>14. Accept(c, new, staged, q)
    BY <1>3, <2>2, <2>5, <2>6, <2>7, <2>13
  <2>15. "RestartDaemon" \in CommandOps
    BY DEF CommandOps
  <2>16. /\ pc = "select" /\ agenda' = q /\ cmd'.op = "RestartDaemon"
         /\ UNCHANGED <<programs, configs>> /\ Extended(DOMAIN new)
    BY <2>3, <2>4, <2>14, <2>15, AcceptFacts
  <2>17. \A j \in DOMAIN prog : j \in DOMAIN prog' /\ prog'[j] = prog[j]
    BY <2>16 DEF Extended
  <2>18. agenda' = t \o u
    BY <2>12, <2>13, <2>16
  <2>19. \A b \in SetOf(u) : b.do \in {"shutdown", "swap"}
    BY <2>10, <2>11
  <2>. QED  BY <2>5, <2>11, <2>16, <2>17, <2>18, <2>19, LayersBegin
<1>. QED  BY <1>1, <1>2, <1>3

\* So do stop_all itself and the two ways to leave the loop.
LEMMA LayersLeave ==
    ASSUME IInv, StopAll \/ ShutdownCommand \/ Cancelled
    PROVE  LayersTracked'
<1>1. PICK t : t = StopAllPlan(dag)
  OBVIOUS
<1>2. UNCHANGED <<programs, configs, prog>> /\ pc = "select"
  BY DEF StopAll, ShutdownCommand, Cancelled, Received, registryVars
<1>3. CASE StopAll
  <2>1. agenda' = t
    BY <1>1, <1>3 DEF StopAll, TakeCommand, Begin
  <2>2. t \in Seq(SetOf(t))
    BY <1>1, StopPlanIs DEF IInv, MapsSound, IsSeq
  <2>3. PICK u : u = <<>>
    OBVIOUS
  <2>4. IsSeq(u) /\ SetOf(u) = {} /\ agenda' = t \o u
    BY <2>1, <2>2, <2>3, EmptyPlan, ConcatEmptySeq
  <2>. QED  BY <1>1, <1>2, <2>4, LayersBegin
<1>4. CASE ShutdownCommand \/ Cancelled
  <2>1. PICK s \in Orders({programs[n] : n \in DOMAIN programs}) :
           agenda' = LeavePlan(s) /\ cmd'.op # "StopAll"
    <3>1. CASE ShutdownCommand
      BY <3>1 DEF ShutdownCommand, TakeCommand, Begin, Received
    <3>2. CASE Cancelled
      <4>1. PICK s \in Orders({programs[n] : n \in DOMAIN programs}) :
               Begin([op |-> "Cancel", arg |-> 0], LeavePlan(s), "ok")
        BY <3>2 DEF Cancelled
      <4>2. agenda' = LeavePlan(s) /\ cmd' = [op |-> "Cancel", arg |-> 0]
        BY <4>1 DEF Begin
      <4>3. cmd'.op # "StopAll"
        BY <4>2
      <4>. QED  BY <4>2, <4>3
    <3>. QED  BY <1>4, <3>1, <3>2
  <2>2. PICK u : u = Each(Shutdown, s)
    OBVIOUS
  <2>3. IsSeq(u) /\ \A b \in SetOf(u) : b.do = "shutdown"
    BY <2>2, ShutPlan DEF IInv
  <2>4. agenda' = t \o u
    BY <1>1, <2>1, <2>2 DEF LeavePlan
  <2>. QED  BY <1>1, <1>2, <2>1, <2>3, <2>4, LayersBegin
<1>. QED  BY <1>3, <1>4

\* No step loses track of the layers.
LEMMA LayersStep ==
    ASSUME ~Timeouts, Probed = {}, IInv, CallsAttended, LayersTracked, [Next]_vars
    PROVE  LayersTracked'
<1>1. CASE Select /\ ~StopAll /\ ~ShutdownCommand /\ ~RestartDaemon
  <2>. SUFFICES cmd'.op \notin BulkStop
    BY DEF LayersTracked
  <2>1. ASSUME NEW op, op \notin BulkStop, NEW c \in Received(op), NEW plan, NEW res,
               TakeCommand(c, plan, res)
        PROVE  cmd'.op \notin BulkStop
    BY <2>1 DEF Received, TakeCommand, Begin
  <2>2. CASE StartProgram \/ StopProgram \/ RestartProgram \/ SignalProgram
    BY <2>1, <2>2 DEF StartProgram, StopProgram, RestartProgram, SignalProgram, OnPrograms, BulkStop
  <2>3. CASE StartGroup \/ StopGroup \/ RestartGroup
    BY <2>1, <2>3 DEF StartGroup, StopGroup, RestartGroup, OnGroup, BulkStop
  <2>4. CASE StartAll
    BY <2>1, <2>4 DEF StartAll, BulkStop
  <2>5. CASE Reload
    BY <2>1, <2>5 DEF Reload, Reject, Accept, BulkStop
  <2>6. CASE AddGroup \/ RemoveGroup
    BY <2>1, <2>6 DEF AddGroup, RemoveGroup, BulkStop
  <2>7. CASE CronDue
    <3>1. \E plan : Begin([op |-> "Cron", arg |-> 0], plan, "ok")
      BY <2>7 DEF CronDue
    <3>. QED  BY <3>1 DEF Begin, BulkStop
  <2>. QED  BY <1>1, <2>2, <2>3, <2>4, <2>5, <2>6, <2>7 DEF Select
<1>2. CASE StopAll \/ ShutdownCommand \/ Cancelled \/ RestartDaemon
  BY <1>2, LayersLeave, LayersRestart
<1>3. CASE UNCHANGED vars \/ Terminated \/ CancelManager
  <2>1. UNCHANGED <<programs, configs, cmd, pc, agenda, prog>>
    BY <1>3 DEF vars, Terminated, CancelManager, registryVars, controlVars
  <2>. QED  BY <2>1 DEF LayersTracked, LayerBlocks, InTurn, DownAtEnd, DownBefore, Todo, Up, At
<1>4. CASE Complete
  <2>1. /\ UNCHANGED <<programs, configs, cmd, agenda, prog>> /\ Up /\ agenda = <<>>
    BY <1>4 DEF Complete, registryVars, Up
  <2>2. Todo' = Todo /\ ~At("await") /\ ~At("await")'
    BY <2>1 DEF Todo, At
  <2>. QED  BY <2>1, <2>2 DEF LayersTracked, LayerBlocks, InTurn, DownAtEnd, DownBefore
<1>5. CASE Abort
  BY <1>5 DEF Abort, LayersTracked, Up
<1>6. ~AwaitTimesOut /\ \A i : ~Unhealthy(i)
  BY DEF AwaitTimesOut, Unhealthy
<1>7. CASE Block /\ ~Complete
  BY <1>7, LayersStop, LayersAwait, LayersOther
<1>. QED  BY <1>1, <1>2, <1>3, <1>4, <1>5, <1>6, <1>7, LayersMove DEF Next

\* At the beginning nobody waits and nothing is under way.
LEMMA NothingUnderWay == Init => CallsAttended /\ LayersTracked
<1>. SUFFICES ASSUME Init PROVE CallsAttended /\ LayersTracked
  OBVIOUS
<1>1. cmd.op \notin BulkStop
  BY DEF Init, BulkStop
<1>2. \A i \in DOMAIN prog : prog[i] = Fresh
  BY DEF Init
<1>3. Attended(Fresh) /\ Fresh.outcome # "wait"
  BY DEF Attended, Fresh
<1>. QED  BY <1>1, <1>2, <1>3 DEF CallsAttended, LayersTracked

\* After stop_all, between two commands, every program is STOPPED, whatever it
\* was doing before.  A stop that times out is passed over, and so is a program
\* that its probe restarts while it is shown STOPPED: the theorem is about calls
\* that are answered in time and programs without probes.
THEOREM StopsAll == ASSUME ~Timeouts, Probed = {}, StableGroups PROVE Spec => []StopAllComplete
<1>1. Init => CallsAttended /\ LayersTracked
  BY NothingUnderWay
<1>2. IInv /\ CallsAttended /\ LayersTracked /\ [Next]_vars => CallsAttended' /\ LayersTracked'
  BY CallsStep, LayersStep
<1>3. IInv /\ LayersTracked => StopAllComplete
  <2>. SUFFICES ASSUME IInv, LayersTracked, pc = "select", cmd.op = "StopAll", Buildable(configs),
                       NEW m \in DOMAIN programs
                PROVE  prog[programs[m]].state = "Stopped"
    BY DEF StopAllComplete
  <2>1. agenda = <<>> /\ Up /\ Live(prog[programs[m]])
    BY SelectFacts
  <2>2. DOMAIN agenda = {} /\ Len(agenda) = 0
    BY <2>1
  <2>3. DownBefore(Len(agenda) + 1, m)
    BY <2>1 DEF LayersTracked, DownAtEnd, BulkStop
  <2>4. Dormant(prog[programs[m]])
    BY <2>2, <2>3 DEF DownBefore
  <2>. QED  BY <2>1, <2>4 DEF Dormant, Live
<1>. QED  BY <1>1, <1>2, <1>3, ManagerInvariance, PTL DEF Spec

\* What is not told to stop.
LEMMA NotToStop ==
    ASSUME IInv, NEW i \in DOMAIN prog,
           \/ prog'[i] = prog[i] \/ prog'[i] = Hangup(prog[i]) \/ prog'[i] = CancelIt(prog[i])
           \/ \E op \in Ops \ {"Stop"} : prog'[i] = Send(prog[i], op)
    PROVE  ~Sends(i, "Stop")
<1>1. prog[i] \in ProgramType /\ prog[i].inbox \in Seq(Ops) /\ "Stop" \in Ops
  BY RecordsTyped DEF ProgramType, Ops
<1>2. /\ Hangup(prog[i]).inbox = prog[i].inbox
      /\ CancelIt(prog[i]).inbox = prog[i].inbox
  BY <1>1 DEF Hangup, CancelIt, ProgramType
<1>3. ASSUME NEW op \in Ops \ {"Stop"}
      PROVE  Send(prog[i], op).inbox \in {prog[i].inbox, Append(prog[i].inbox, op)}
  BY <1>1 DEF Send, ProgramType
<1>4. \A op \in Ops \ {"Stop"} : Append(prog[i].inbox, op) # Append(prog[i].inbox, "Stop")
  <2>. SUFFICES ASSUME NEW op \in Ops \ {"Stop"}
                PROVE  Append(prog[i].inbox, op) # Append(prog[i].inbox, "Stop")
    OBVIOUS
  <2>1. /\ Append(prog[i].inbox, op)[Len(prog[i].inbox) + 1] = op
        /\ Append(prog[i].inbox, "Stop")[Len(prog[i].inbox) + 1] = "Stop"
    BY <1>1, AppendProperties
  <2>. QED  BY <2>1
<1>5. Append(prog[i].inbox, "Stop") # prog[i].inbox
  BY <1>1, AppendGrows
<1>. QED  BY <1>2, <1>3, <1>4, <1>5 DEF Sends

\* Within stop_all only the layer whose turn it is is told to stop.
LEMMA OnlyLayersStop ==
    ASSUME IInv, LayersTracked, pc = "exec", cmd.op \in BulkStop, [Next]_vars, ~DoStopLayer,
           NEW i \in DOMAIN prog
    PROVE  ~Sends(i, "Stop")
<1>1. CASE Block
  <2>. DEFINE h == Head(agenda)
  <2>1. CASE Complete \/ DoJoin \/ DoSwap
    BY <2>1, NotToStop DEF Complete, DoJoin, DoSwap
  <2>2. CASE DoAwait
    <3>1. prog'[i] = prog[i] \/ prog'[i] = Hangup(prog[i])
      BY <2>2 DEF DoAwait
    <3>. QED  BY <3>1, NotToStop
  <2>3. CASE DoCancel
    <3>1. prog'[i] = prog[i] \/ prog'[i] = CancelIt(prog[i])
      BY <2>3 DEF DoCancel
    <3>. QED  BY <3>1, NotToStop
  <2>4. CASE DoShutdown \/ DoStartLayer
    <3>1. PICK ids : SendTo(ids, "Shutdown") \/ SendTo(ids, "Start")
      BY <2>4 DEF DoShutdown, DoStartLayer
    <3>2. \/ prog'[i] = prog[i]
          \/ prog'[i] = Send(prog[i], "Shutdown") \/ prog'[i] = Send(prog[i], "Start")
      BY <3>1 DEF SendTo
    <3>3. {"Shutdown", "Start"} \subseteq Ops \ {"Stop"}
      BY DEF Ops
    <3>. QED  BY <3>2, <3>3, NotToStop
  <2>5. Complete \/ h.do \in {"await", "shutdown", "cancel", "join", "swap", "start_layer"}
    <3>. SUFFICES ASSUME ~Complete
                  PROVE  h.do \in {"await", "shutdown", "cancel", "join", "swap", "start_layer"}
      OBVIOUS
    <3>1. agenda # <<>> /\ h.do # "stop_layer"
      BY <1>1 DEF Block, DoStartLayer, DoCall, DoCron, DoAwait, DoShutdown, DoCancel, DoJoin,
                  DoRemove, DoForget, DoReplace, DoAdd, DoInstall, DoAdopt, DoDerive, DoSwap, At
    <3>2. h \in Todo
      BY <3>1, HeadIsTodo
    <3>3. LayerBlocks
      BY DEF LayersTracked, Up
    <3>. QED  BY <3>1, <3>2, <3>3 DEF LayerBlocks
  <2>6. Complete \/ DoAwait \/ DoShutdown \/ DoCancel \/ DoJoin \/ DoSwap \/ DoStartLayer
    BY <1>1, <2>5 DEF Block, DoCall, DoCron, DoRemove, DoForget, DoReplace, DoAdd, DoInstall,
                      DoAdopt, DoDerive, At
  <2>. QED  BY <2>1, <2>2, <2>3, <2>4, <2>6
<1>2. CASE Select \/ Cancelled
  <2>1. pc = "select"
    BY <1>2, SelectIsFresh
  <2>. QED  BY <2>1
<1>3. CASE UNCHANGED vars \/ CancelManager \/ Terminated
  <2>1. prog' = prog
    BY <1>3 DEF vars, CancelManager, Terminated
  <2>. QED  BY <2>1, NotToStop
<1>4. CASE Abort \/ AwaitTimesOut
  <2>1. prog'[i] = prog[i] \/ prog'[i] = Hangup(prog[i]) \/ prog'[i] = CancelIt(prog[i])
    BY <1>4 DEF Abort, AwaitTimesOut
  <2>. QED  BY <2>1, NotToStop
<1>5. CASE \E j \in DOMAIN prog : Serve(j) \/ ByItself(j) \/ Unhealthy(j)
  <2>1. PICK j \in DOMAIN prog : \E s \in ServeSteps(prog[j]) \cup OwnSteps(prog[j])
                                             \cup HealthSteps(prog[j]) :
                                    prog' = [prog EXCEPT ![j] = s]
    BY <1>5 DEF Serve, ByItself, Unhealthy, ProgramMoves
  <2>2. PICK s \in ServeSteps(prog[j]) \cup OwnSteps(prog[j]) \cup HealthSteps(prog[j]) :
           prog' = [prog EXCEPT ![j] = s]
    BY <2>1
  <2>3. prog[j] \in ProgramType /\ "Stop" \in Ops
    BY RecordsTyped DEF Ops
  <2>4. s.inbox # Append(prog[j].inbox, "Stop")
    BY <2>3, ServeMail
  <2>5. CASE i = j
    BY <2>2, <2>4, <2>5 DEF Sends
  <2>6. CASE i # j
    <3>1. prog'[i] = prog[i]
      BY <2>2, <2>6
    <3>. QED  BY <3>1, NotToStop
  <2>. QED  BY <2>5, <2>6
<1>. QED  BY <1>1, <1>2, <1>3, <1>4, <1>5 DEF Next

\* A layer is told to stop when no program that depends on it is up.
LEMMA LayerStopsInTurn ==
    ASSUME IInv, LayersTracked, DoStopLayer
    PROVE  StopsInOrder
<1>. DEFINE h   == Head(agenda)
            ids == {programs[n] : n \in {n \in h.names \cap DOMAIN programs :
                                            prog[programs[n]].state # "Stopped"}}
<1>. SUFFICES ASSUME cmd.op \in BulkStop, Buildable(configs), NEW i \in DOMAIN prog,
                     Sends(i, "Stop"), NEW n \in DOMAIN configs \cap DOMAIN programs,
                     owner[i] \in Deps(configs, n)
              PROVE  ~MayHaveProcess(programs[n])
  BY DEF StopsInOrder
<1>1. /\ pc = "exec" /\ agenda # <<>> /\ h.do = "stop_layer" /\ SendTo(ids, "Stop")
  BY DEF DoStopLayer, At
<1>2. i \in ids
  <2>1. i \notin ids => prog'[i] = prog[i]
    BY <1>1 DEF SendTo
  <2>. QED  BY <2>1, NotToStop
<1>3. owner[i] \in h.names
  BY <1>2 DEF IInv, MapsSound
<1>4. h = agenda[1] /\ 1 \in DOMAIN agenda /\ DOMAIN agenda = 1 .. Len(agenda)
  BY <1>1, PlacesKept
<1>5. InTurn(1)
  BY <1>1, <1>4 DEF LayersTracked, Up
<1>6. DownBefore(1, n) /\ Live(prog[programs[n]])
  BY <1>3, <1>4, <1>5 DEF InTurn
<1>7. Dormant(prog[programs[n]])
  BY <1>4, <1>6 DEF DownBefore
<1>8. prog[programs[n]].state = "Stopped"
  BY <1>6, <1>7 DEF Live, Dormant
<1>. QED  BY <1>8 DEF MayHaveProcess, IsActive

\* stop_all, a shutdown and a restart of the daemon tell a program to stop only
\* when no program that depends on it is up, under the same hypotheses.
THEOREM StopsOrdered ==
    ASSUME ~Timeouts, Probed = {}, StableGroups PROVE Spec => [][StopsInOrder]_vars
<1>1. Init => CallsAttended /\ LayersTracked
  BY NothingUnderWay
<1>2. IInv /\ CallsAttended /\ LayersTracked /\ [Next]_vars => CallsAttended' /\ LayersTracked'
  BY CallsStep, LayersStep
<1>3. IInv /\ LayersTracked /\ [Next]_vars => StopsInOrder
  <2>1. CASE DoStopLayer
    BY <2>1, LayerStopsInTurn
  <2>2. CASE ~DoStopLayer
    BY <2>2, OnlyLayersStop DEF StopsInOrder
  <2>. QED  BY <2>1, <2>2
<1>. QED  BY <1>1, <1>2, <1>3, ManagerInvariance, PTL DEF Spec
=============================================================================
