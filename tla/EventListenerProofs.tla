------------------------ MODULE EventListenerProofs -------------------------
(***************************************************************************)
(* Proofs about an event listener pool and its programs: no envelope is    *)
(* lost, duplicated or overtaken, no listener sleeps over a filled buffer  *)
(* but by the one window in which it cannot be woken, and the processes of *)
(* a program are under its control.  They hold for every set of listeners  *)
(* and of events, every subscription, every buffer size and whatever the   *)
(* listener processes write.                                               *)
(***************************************************************************)
EXTENDS EventListener, SequenceTheorems, FiniteSetTheorems, TLAPS

-----------------------------------------------------------------------------
(* The buffer.                                                             *)

\* A new envelope at the end.
LEMMA AppendEnvelope ==
    ASSUME NEW s \in Seq(Nat), NEW n \in Nat, IsInjective(s), n \notin ToSet(s)
    PROVE  LET t == Append(s, n) IN
           /\ t \in Seq(Nat) /\ Len(t) = Len(s) + 1 /\ IsInjective(t)
           /\ ToSet(t) = ToSet(s) \cup {n} /\ t # <<>>
           /\ t[Len(s) + 1] = n /\ \A i \in 1 .. Len(s) : t[i] = s[i]
<1> DEFINE t == Append(s, n)
<1>1. /\ t \in Seq(Nat) /\ Len(t) = Len(s) + 1 /\ t[Len(s) + 1] = n
      /\ \A i \in 1 .. Len(s) : t[i] = s[i]
      /\ DOMAIN t = 1 .. Len(s) + 1 /\ DOMAIN s = 1 .. Len(s) /\ Len(s) \in Nat
  BY AppendProperties, LenProperties
<1>2. \A i \in 1 .. Len(s) + 1 : i \in 1 .. Len(s) \/ i = Len(s) + 1
  BY <1>1
<1> HIDE DEF t
<1>3. ToSet(t) = ToSet(s) \cup {n}
  BY <1>1, <1>2 DEF ToSet
<1>4. IsInjective(t)
  BY <1>1, <1>2 DEF IsInjective, ToSet
<1>5. t # <<>>
  BY <1>1, EmptySeq
<1>6. QED
  BY <1>1, <1>3, <1>4, <1>5 DEF t

\* The oldest envelope is taken.
LEMMA TakeEnvelope ==
    ASSUME NEW s \in Seq(Nat), s # <<>>, IsInjective(s)
    PROVE  LET t == Tail(s) IN
           /\ t \in Seq(Nat) /\ Len(t) = Len(s) - 1 /\ IsInjective(t)
           /\ Head(s) \in Nat /\ Head(s) \in ToSet(s) /\ Head(s) = s[1]
           /\ ToSet(t) = ToSet(s) \ {Head(s)}
           /\ \A i \in 1 .. Len(s) - 1 : t[i] = s[i + 1]
<1> DEFINE t == Tail(s)
<1>1. /\ t \in Seq(Nat) /\ Len(t) = Len(s) - 1 /\ Head(s) = s[1]
      /\ \A i \in 1 .. Len(s) - 1 : t[i] = s[i + 1]
      /\ DOMAIN s = 1 .. Len(s) /\ Len(s) \in Nat \ {0}
  BY HeadTailProperties, LenProperties, EmptySeq
<1>2. DOMAIN t = 1 .. Len(s) - 1 /\ 1 \in DOMAIN s /\ s[1] \in Nat
  BY <1>1, LenProperties
<1> HIDE DEF t
<1>3. /\ \A i \in DOMAIN t : /\ i \in Nat /\ i + 1 \in DOMAIN s
                             /\ i + 1 # 1 /\ t[i] = s[i + 1]
      /\ \A i \in DOMAIN s : i # 1 => i - 1 \in DOMAIN t /\ s[i] = t[i - 1]
  <2>1. ASSUME NEW i \in DOMAIN t
        PROVE  i \in Nat /\ i + 1 \in DOMAIN s /\ i + 1 # 1 /\ t[i] = s[i + 1]
    BY <1>1, <1>2, SMTT(30)
  <2>2. ASSUME NEW i \in DOMAIN s, i # 1
        PROVE  i - 1 \in DOMAIN t /\ s[i] = t[i - 1]
    <3>1. i - 1 \in 1 .. Len(s) - 1 /\ (i - 1) + 1 = i
      BY <1>1, <2>2
    <3>2. t[i - 1] = s[(i - 1) + 1]
      BY <1>1, <3>1
    <3>3. QED
      BY <1>2, <3>1, <3>2
  <2>3. QED
    BY <2>1, <2>2
<1>4. Head(s) \in ToSet(s)
  BY <1>1, <1>2 DEF ToSet
<1>5. ASSUME NEW i \in DOMAIN t, NEW j \in DOMAIN t, t[i] = t[j]
      PROVE  i = j
  <2>1. i + 1 = j + 1
    BY <1>3, <1>5 DEF IsInjective
  <2>2. QED
    BY <2>1, <1>3
<1>6. ToSet(t) = ToSet(s) \ {Head(s)}
  <2>1. ASSUME NEW i \in DOMAIN t
        PROVE  t[i] \in ToSet(s) /\ t[i] # s[1]
    <3>1. i + 1 \in DOMAIN s /\ i + 1 # 1 /\ t[i] = s[i + 1]
      BY <1>3
    <3>2. QED
      BY <3>1, <1>2 DEF ToSet, IsInjective
  <2>2. ASSUME NEW i \in DOMAIN s, s[i] # s[1]
        PROVE  s[i] \in ToSet(t)
    <3>1. i - 1 \in DOMAIN t /\ s[i] = t[i - 1]
      BY <1>3, <2>2
    <3>2. QED
      BY <3>1 DEF ToSet
  <2>3. QED
    BY <1>1, <2>1, <2>2, ZenonT(60) DEF ToSet
<1>7. QED
  BY <1>1, <1>2, <1>4, <1>5, <1>6 DEF t, IsInjective

\* An envelope given back stands first.
LEMMA PushEnvelope ==
    ASSUME NEW s \in Seq(Nat), NEW n \in Nat, IsInjective(s), n \notin ToSet(s)
    PROVE  LET t == <<n>> \o s IN
           /\ t \in Seq(Nat) /\ Len(t) = Len(s) + 1 /\ IsInjective(t)
           /\ ToSet(t) = ToSet(s) \cup {n} /\ t # <<>>
           /\ t[1] = n /\ \A i \in 2 .. Len(s) + 1 : t[i] = s[i - 1]
<1> DEFINE t == <<n>> \o s
<1>1. /\ t \in Seq(Nat) /\ Len(t) = Len(s) + 1 /\ t[1] = n
      /\ \A i \in 2 .. Len(s) + 1 : t[i] = s[i - 1]
      /\ DOMAIN s = 1 .. Len(s) /\ Len(s) \in Nat
  <2>1. <<n>> \in Seq(Nat) /\ Len(<<n>>) = 1 /\ <<n>>[1] = n
    OBVIOUS
  <2>2. QED
    BY <2>1, ConcatProperties, LenProperties
<1>2. DOMAIN t = 1 .. Len(s) + 1
  BY <1>1, LenProperties
<1> HIDE DEF t
<1>3. /\ \A i \in DOMAIN t : i = 1 \/ (i - 1 \in DOMAIN s /\ t[i] = s[i - 1])
      /\ \A i \in DOMAIN s : i + 1 \in DOMAIN t /\ t[i + 1] = s[i]
  BY <1>1, <1>2, SMTT(30)
<1>4. ToSet(t) = ToSet(s) \cup {n}
  <2>1. ASSUME NEW i \in DOMAIN t
        PROVE  t[i] = n \/ t[i] \in ToSet(s)
    BY <1>1, <1>3 DEF ToSet
  <2>2. ASSUME NEW i \in DOMAIN s
        PROVE  s[i] \in ToSet(t)
    BY <1>3 DEF ToSet
  <2>3. 1 \in DOMAIN t
    BY <1>1, <1>2
  <2>4. QED
    BY <1>1, <2>1, <2>2, <2>3, ZenonT(60) DEF ToSet
<1>5. ASSUME NEW i \in DOMAIN t, NEW j \in DOMAIN t, t[i] = t[j]
      PROVE  i = j
  <2>1. \A k \in DOMAIN t : k # 1 => t[k] # n
    BY <1>3 DEF ToSet
  <2>2. CASE i = 1 \/ j = 1
    BY <1>1, <1>5, <2>1, <2>2
  <2>3. CASE i # 1 /\ j # 1
    <3>1. i - 1 = j - 1
      BY <1>3, <1>5, <2>3 DEF IsInjective
    <3>2. QED
      BY <3>1, <1>1, <1>2
  <2>4. QED
    BY <2>2, <2>3
<1>6. t # <<>>
  BY <1>1, EmptySeq
<1>7. QED
  BY <1>1, <1>4, <1>5, <1>6 DEF t, IsInjective

\* The newest envelope makes room for it.
LEMMA DropNewest ==
    ASSUME NEW s \in Seq(Nat), s # <<>>, IsInjective(s)
    PROVE  LET t == Front(s) IN
           /\ t \in Seq(Nat) /\ Len(t) = Len(s) - 1 /\ IsInjective(t)
           /\ Last(s) \in Nat /\ Last(s) \in ToSet(s)
           /\ ToSet(t) = ToSet(s) \ {Last(s)}
           /\ \A i \in 1 .. Len(s) - 1 : t[i] = s[i]
<1> DEFINE t == Front(s)
           n == Len(s)
<1>1. n \in Nat \ {0} /\ DOMAIN s = 1 .. n /\ Last(s) = s[n]
  BY LenProperties, EmptySeq DEF Last
<1>2. t = [i \in 1 .. n - 1 |-> s[i]]
  BY <1>1 DEF Front
<1>3. /\ t \in Seq(Nat) /\ Len(t) = n - 1 /\ DOMAIN t = 1 .. n - 1
      /\ \A i \in 1 .. n - 1 : t[i] = s[i]
  BY <1>1, <1>2
<1> HIDE DEF t
<1>4. n \in DOMAIN s /\ \A i \in DOMAIN t : i \in DOMAIN s /\ i # n /\ t[i] = s[i]
  BY <1>1, <1>3
<1>5. Last(s) \in Nat /\ Last(s) \in ToSet(s)
  BY <1>1, <1>4, LenProperties DEF ToSet
<1>6. IsInjective(t)
  BY <1>4 DEF IsInjective
<1>7. ToSet(t) = ToSet(s) \ {Last(s)}
  <2>1. ASSUME NEW i \in DOMAIN t
        PROVE  t[i] \in ToSet(s) /\ t[i] # s[n]
    BY <1>4 DEF ToSet, IsInjective
  <2>2. \A i \in DOMAIN s : i # n => i \in DOMAIN t /\ s[i] = t[i]
    BY <1>1, <1>3
  <2>3. QED
    BY <1>1, <2>1, <2>2, SMTT(30) DEF ToSet
<1>8. QED
  BY <1>1, <1>3, <1>5, <1>6, <1>7 DEF t

-----------------------------------------------------------------------------
(* The places of an envelope.                                              *)

\* The five places share out S.
Split(B, F, H, O, L, S) ==
    /\ B \cup F \cup H \cup O \cup L = S
    /\ B \cap F = {} /\ B \cap H = {} /\ B \cap O = {} /\ B \cap L = {}
    /\ F \cap H = {} /\ F \cap O = {} /\ F \cap L = {}
    /\ H \cap O = {} /\ H \cap L = {} /\ O \cap L = {}

\* What the wire tasks w carry; no two carry the same, and a task carries an
\* envelope while it writes it and waits for the result.
Carried(w) == {w[x].env : x \in Wires} \ {None}
Single(w)  == \A x, y \in Wires : x # y /\ w[x].env # None => w[x].env # w[y].env
Holds(w)   == \A x \in Wires : w[x].env # None <=> w[x].st \in {"write", "Busy"}

\* The accounting, as a relation of its parts.
Kept(b, w, H, O, L, n) ==
    /\ Split(ToSet(b), Carried(w), H, O, L, 0 .. n - 1)
    /\ IsInjective(b) /\ Len(b) <= BufferSize
    /\ Single(w) /\ Holds(w)

\* The order of the buffer b, when the envelopes d have been offered.
Ordered(b, d) ==
    \A i, j \in DOMAIN b :
        i < j /\ b[i] \notin d => b[j] \notin d /\ b[i] < b[j]

\* The places as five sets instead of a tuple of them.
LEMMA PlacesSplit ==
    ASSUME NEW B, NEW F, NEW H, NEW O, NEW L, NEW S
    PROVE  LET places == <<B, F, H, O, L>> IN
           (/\ UNION ToSet(places) = S
            /\ \A i, j \in DOMAIN places : i # j => places[i] \cap places[j] = {})
           <=> Split(B, F, H, O, L, S)
<1> DEFINE p == <<B, F, H, O, L>>
<1>1. DOMAIN p = {1, 2, 3, 4, 5}
  OBVIOUS
<1>2. p[1] = B /\ p[2] = F /\ p[3] = H /\ p[4] = O /\ p[5] = L
  OBVIOUS
<1> HIDE DEF p
<1>3. ToSet(p) = {B, F, H, O, L}
  BY <1>1, <1>2 DEF ToSet
<1>4. UNION ToSet(p) = B \cup F \cup H \cup O \cup L
  BY <1>3
<1>5. (\A i, j \in DOMAIN p : i # j => p[i] \cap p[j] = {})
      <=> /\ B \cap F = {} /\ B \cap H = {} /\ B \cap O = {} /\ B \cap L = {}
          /\ F \cap H = {} /\ F \cap O = {} /\ F \cap L = {}
          /\ H \cap O = {} /\ H \cap L = {} /\ O \cap L = {}
  <2>1. ASSUME \A i, j \in DOMAIN p : i # j => p[i] \cap p[j] = {}
        PROVE  /\ B \cap F = {} /\ B \cap H = {} /\ B \cap O = {} /\ B \cap L = {}
               /\ F \cap H = {} /\ F \cap O = {} /\ F \cap L = {}
               /\ H \cap O = {} /\ H \cap L = {} /\ O \cap L = {}
    <3>1. /\ p[1] \cap p[2] = {} /\ p[1] \cap p[3] = {} /\ p[1] \cap p[4] = {}
          /\ p[1] \cap p[5] = {} /\ p[2] \cap p[3] = {} /\ p[2] \cap p[4] = {}
          /\ p[2] \cap p[5] = {} /\ p[3] \cap p[4] = {} /\ p[3] \cap p[5] = {}
          /\ p[4] \cap p[5] = {}
      BY <2>1, <1>1
    <3>2. QED
      BY <3>1, <1>2
  <2>2. ASSUME /\ B \cap F = {} /\ B \cap H = {} /\ B \cap O = {} /\ B \cap L = {}
               /\ F \cap H = {} /\ F \cap O = {} /\ F \cap L = {}
               /\ H \cap O = {} /\ H \cap L = {} /\ O \cap L = {},
               NEW i \in DOMAIN p, NEW j \in DOMAIN p, i # j
        PROVE  p[i] \cap p[j] = {}
    <3>1. \A X, Y : X \cap Y = Y \cap X
      OBVIOUS
    <3>2. QED
      BY <2>2, <3>1, <1>1, <1>2
  <2>3. QED
    BY <2>1, <2>2
<1>6. QED
  BY <1>4, <1>5 DEF p, Split

\* The same of the invariant of the pool, before and after a step.
LEMMA KeptForm ==
    /\ EnvelopesKept <=>
          /\ Kept(buffer, wire, handled, overflowed, lost, pool_serial)
          /\ Ordered(buffer, delivered)
    /\ EnvelopesKept' <=>
          /\ Kept(buffer', wire', handled', overflowed', lost', pool_serial')
          /\ Ordered(buffer', delivered')
<1>1. Accounted <=> Kept(buffer, wire, handled, overflowed, lost, pool_serial)
  BY PlacesSplit DEF Accounted, Kept, InFlight, Carried, Single, Holds
<1>2. Accounted' <=> Kept(buffer', wire', handled', overflowed', lost', pool_serial')
  BY PlacesSplit DEF Accounted, Kept, InFlight, Carried, Single, Holds
<1>3. QED
  BY <1>1, <1>2 DEF EnvelopesKept, OldestFirst, Ordered

\* A step that changes no task's envelope leaves what they carry as it was.
LEMMA CarriedSame ==
    ASSUME NEW w, NEW u, \A y \in Wires : u[y].env = w[y].env
    PROVE  Carried(u) = Carried(w) /\ (Single(w) => Single(u))
BY DEF Carried, Single

\* A task without an envelope takes one that nobody carries.
LEMMA CarriedGains ==
    ASSUME NEW w, NEW u, NEW x \in Wires, NEW e, e # None,
           \A y \in Wires \ {x} : u[y].env = w[y].env,
           w[x].env = None, u[x].env = e, e \notin Carried(w), Single(w)
    PROVE  Carried(u) = Carried(w) \cup {e} /\ Single(u)
<1>1. \A y \in Wires \ {x} : w[y].env # e
  BY DEF Carried
<1>2. QED
  BY <1>1 DEF Carried, Single

\* A task parts with its envelope.
LEMMA CarriedLoses ==
    ASSUME NEW w, NEW u, NEW x \in Wires,
           \A y \in Wires \ {x} : u[y].env = w[y].env,
           w[x].env # None, u[x].env = None, Single(w)
    PROVE  /\ Carried(u) = Carried(w) \ {w[x].env} /\ Single(u)
           /\ w[x].env \in Carried(w)
<1>1. \A y \in Wires \ {x} : w[y].env # w[x].env
  BY DEF Single
<1>2. QED
  BY <1>1 DEF Carried, Single

-----------------------------------------------------------------------------
(* What the steps do with an envelope.                                     *)

\* Every envelope in the buffer and with a task has a serial below n.
LEMMA SerialsBelow ==
    ASSUME NEW b \in Seq(Nat), NEW w, NEW H, NEW O, NEW L, NEW n \in Nat,
           Kept(b, w, H, O, L, n)
    PROVE  /\ ToSet(b) \subseteq 0 .. n - 1 /\ Carried(w) \subseteq 0 .. n - 1
           /\ n \notin ToSet(b) /\ n \notin 0 .. n - 1
           /\ \A i \in 1 .. Len(b) : b[i] \in 0 .. n - 1
           /\ 0 .. n = (0 .. n - 1) \cup {n}
<1>1. ToSet(b) \subseteq 0 .. n - 1 /\ Carried(w) \subseteq 0 .. n - 1
  BY DEF Kept, Split
<1>2. n \notin 0 .. n - 1 /\ 0 .. n = (0 .. n - 1) \cup {n}
  OBVIOUS
<1>3. DOMAIN b = 1 .. Len(b)
  BY LenProperties
<1>4. \A i \in 1 .. Len(b) : b[i] \in ToSet(b)
  BY <1>3 DEF ToSet
<1>5. QED
  BY <1>1, <1>2, <1>4

\* accept_event with room in the buffer.
LEMMA KeptAccepted ==
    ASSUME NEW b \in Seq(Nat), NEW w, NEW u, NEW H, NEW O, NEW L, NEW d,
           NEW n \in Nat, Kept(b, w, H, O, L, n), Ordered(b, d),
           d \subseteq 0 .. n - 1, Len(b) < BufferSize,
           \A y \in Wires : u[y].env = w[y].env, Holds(u)
    PROVE  /\ Append(b, n) \in Seq(Nat) /\ Append(b, n) # <<>>
           /\ Kept(Append(b, n), u, H, O, L, n + 1) /\ Ordered(Append(b, n), d)
<1> DEFINE t == Append(b, n)
<1>1. IsInjective(b)
  BY DEF Kept
<1>2. /\ n \notin ToSet(b) /\ n \notin 0 .. n - 1
      /\ \A i \in 1 .. Len(b) : b[i] \in 0 .. n - 1
      /\ 0 .. n = (0 .. n - 1) \cup {n}
  BY SerialsBelow
<1>3. /\ t \in Seq(Nat) /\ Len(t) = Len(b) + 1 /\ IsInjective(t)
      /\ ToSet(t) = ToSet(b) \cup {n} /\ t # <<>>
      /\ t[Len(b) + 1] = n /\ \A i \in 1 .. Len(b) : t[i] = b[i]
  BY AppendEnvelope, <1>1, <1>2
<1>4. DOMAIN t = 1 .. Len(b) + 1 /\ DOMAIN b = 1 .. Len(b) /\ Len(b) \in Nat
  BY <1>3, LenProperties
<1> HIDE DEF t
<1>5. Carried(u) = Carried(w) /\ Single(u)
  BY CarriedSame DEF Kept
<1>6. Split(ToSet(t), Carried(u), H, O, L, 0 .. (n + 1) - 1)
  <2>1. (n + 1) - 1 = n
    OBVIOUS
  <2>2. Split(ToSet(b), Carried(w), H, O, L, 0 .. n - 1)
    BY DEF Kept
  <2>3. Split(ToSet(t), Carried(u), H, O, L, 0 .. n)
    BY <2>2, <1>2, <1>3, <1>5 DEF Split
  <2>4. QED
    BY <2>1, <2>3
<1>7. Len(t) <= BufferSize
  BY <1>3, <1>4, PoolAssumption
<1>8. Ordered(t, d)
  <2>1. SUFFICES ASSUME NEW i \in DOMAIN t, NEW j \in DOMAIN t, i < j, t[i] \notin d
                 PROVE  t[j] \notin d /\ t[i] < t[j]
    BY DEF Ordered
  <2>2. i \in 1 .. Len(b) /\ t[i] = b[i] /\ b[i] \in 0 .. n - 1
    BY <1>2, <1>3, <1>4, <2>1
  <2>3. CASE j = Len(b) + 1
    BY <2>2, <2>3, <1>2, <1>3
  <2>4. CASE j \in 1 .. Len(b)
    BY <2>1, <2>2, <2>4, <1>3, <1>4 DEF Ordered
  <2>5. QED
    BY <2>3, <2>4, <1>4
<1>9. QED
  BY <1>3, <1>5, <1>6, <1>7, <1>8 DEF t, Kept

\* The oldest envelope leaves the buffer: the others stay in order, also when it
\* counts as offered from here on.
LEMMA OrderedTail ==
    ASSUME NEW b \in Seq(Nat), NEW d, NEW c, b # <<>>, IsInjective(b), Ordered(b, d),
           c = d \/ c = d \cup {Head(b)}
    PROVE  Ordered(Tail(b), c)
<1> DEFINE t == Tail(b)
<1>1. /\ t \in Seq(Nat) /\ Len(t) = Len(b) - 1 /\ Head(b) = b[1]
      /\ \A i \in 1 .. Len(b) - 1 : t[i] = b[i + 1]
  BY TakeEnvelope
<1>2. DOMAIN t = 1 .. Len(b) - 1 /\ DOMAIN b = 1 .. Len(b) /\ Len(b) \in Nat \ {0}
  BY <1>1, LenProperties, EmptySeq
<1> HIDE DEF t
<1>3. SUFFICES ASSUME NEW i \in DOMAIN t, NEW j \in DOMAIN t, i < j, t[i] \notin c
               PROVE  t[j] \notin c /\ t[i] < t[j]
  BY DEF Ordered, t
<1>4. /\ i + 1 \in DOMAIN b /\ j + 1 \in DOMAIN b /\ i + 1 < j + 1 /\ 1 \in DOMAIN b
      /\ j + 1 # 1 /\ t[i] = b[i + 1] /\ t[j] = b[j + 1]
  <2>1. /\ i \in Nat /\ j \in Nat /\ 1 <= i /\ i + 1 < j + 1
        /\ i + 1 <= Len(b) /\ j + 1 <= Len(b)
    BY <1>2, <1>3
  <2>2. t[i] = b[i + 1] /\ t[j] = b[j + 1]
    BY <1>1, <1>2
  <2>3. QED
    BY <1>2, <2>1, <2>2
<1>5. b[j + 1] \notin d /\ b[i + 1] < b[j + 1]
  BY <1>3, <1>4 DEF Ordered
<1>6. b[j + 1] # b[1]
  BY <1>4 DEF IsInjective
<1>7. QED
  BY <1>1, <1>4, <1>5, <1>6

\* A full buffer loses its oldest envelope for the accounting.
LEMMA KeptDropped ==
    ASSUME NEW b \in Seq(Nat), NEW w, NEW H, NEW O, NEW L, NEW d,
           NEW n \in Nat, Kept(b, w, H, O, L, n), Ordered(b, d), b # <<>>
    PROVE  /\ Tail(b) \in Seq(Nat) /\ Len(Tail(b)) < BufferSize
           /\ Kept(Tail(b), w, H, O \cup {Head(b)}, L, n) /\ Ordered(Tail(b), d)
<1>1. IsInjective(b) /\ Len(b) <= BufferSize /\ Len(b) \in Nat
  BY LenProperties DEF Kept
<1>2. /\ Tail(b) \in Seq(Nat) /\ Len(Tail(b)) = Len(b) - 1 /\ IsInjective(Tail(b))
      /\ Head(b) \in ToSet(b) /\ ToSet(Tail(b)) = ToSet(b) \ {Head(b)}
  BY TakeEnvelope, <1>1
<1>3. Len(Tail(b)) < BufferSize /\ Len(Tail(b)) <= BufferSize
  BY <1>1, <1>2, PoolAssumption
<1>4. Ordered(Tail(b), d)
  BY OrderedTail, <1>1
<1>5. Split(ToSet(Tail(b)), Carried(w), H, O \cup {Head(b)}, L, 0 .. n - 1)
  <2>1. Split(ToSet(b), Carried(w), H, O, L, 0 .. n - 1)
    BY DEF Kept
  <2>2. QED
    BY <2>1, <1>2 DEF Split
<1>6. QED
  BY <1>2, <1>3, <1>4, <1>5 DEF Kept

\* RESULT OK, or a cancelled task: the envelope of x is done with.
LEMMA KeptReleased ==
    ASSUME NEW b \in Seq(Nat), NEW w, NEW u, NEW H, NEW O, NEW L,
           NEW n \in Nat, Kept(b, w, H, O, L, n),
           NEW x \in Wires, \A y \in Wires \ {x} : u[y].env = w[y].env,
           w[x].env # None, u[x].env = None, Holds(u)
    PROVE  /\ Kept(b, u, H \cup {w[x].env}, O, L, n)
           /\ Kept(b, u, H, O, L \cup {w[x].env}, n)
           /\ Carried(u) \subseteq Carried(w)
<1>1. Single(w) /\ Split(ToSet(b), Carried(w), H, O, L, 0 .. n - 1)
  BY DEF Kept
<1>2. /\ Carried(u) = Carried(w) \ {w[x].env} /\ Single(u)
      /\ w[x].env \in Carried(w)
  BY CarriedLoses, <1>1
<1>3. /\ Split(ToSet(b), Carried(u), H \cup {w[x].env}, O, L, 0 .. n - 1)
      /\ Split(ToSet(b), Carried(u), H, O, L \cup {w[x].env}, 0 .. n - 1)
  BY <1>1, <1>2 DEF Split
<1>4. QED
  BY <1>2, <1>3 DEF Kept

\* requeue_rejected with room in the buffer: the envelope of x stands first.
LEMMA KeptBack ==
    ASSUME NEW b \in Seq(Nat), NEW w, NEW u, NEW H, NEW O, NEW L, NEW d,
           NEW n \in Nat, Kept(b, w, H, O, L, n), Ordered(b, d),
           Len(b) < BufferSize, Carried(w) \subseteq d,
           NEW x \in Wires, \A y \in Wires \ {x} : u[y].env = w[y].env,
           w[x].env # None, u[x].env = None, Holds(u)
    PROVE  LET t == <<w[x].env>> \o b IN
           /\ t \in Seq(Nat) /\ Kept(t, u, H, O, L, n) /\ Ordered(t, d)
           /\ Carried(u) \subseteq Carried(w)
<1> DEFINE e == w[x].env
           t == <<e>> \o b
<1>1. /\ IsInjective(b) /\ Len(b) \in Nat /\ Single(w) /\ DOMAIN b = 1 .. Len(b)
      /\ Split(ToSet(b), Carried(w), H, O, L, 0 .. n - 1)
  BY LenProperties DEF Kept
<1>2. /\ Carried(u) = Carried(w) \ {e} /\ Single(u) /\ e \in Carried(w)
  BY CarriedLoses, <1>1
<1>3. e \in 0 .. n - 1 /\ e \notin ToSet(b) /\ e \in d
  BY <1>1, <1>2 DEF Split
<1>4. e \in Nat
  BY <1>3
<1> HIDE DEF e
<1>5. /\ t \in Seq(Nat) /\ Len(t) = Len(b) + 1 /\ IsInjective(t)
      /\ ToSet(t) = ToSet(b) \cup {e} /\ t # <<>>
      /\ t[1] = e /\ \A i \in 2 .. Len(b) + 1 : t[i] = b[i - 1]
  BY PushEnvelope, <1>1, <1>3, <1>4
<1>6. DOMAIN t = 1 .. Len(b) + 1
  BY <1>1, <1>5, LenProperties
<1> HIDE DEF t
<1>7. Split(ToSet(t), Carried(u), H, O, L, 0 .. n - 1)
  BY <1>1, <1>2, <1>5 DEF Split
<1>8. Ordered(t, d)
  <2>1. SUFFICES ASSUME NEW i \in DOMAIN t, NEW j \in DOMAIN t, i < j, t[i] \notin d
                 PROVE  t[j] \notin d /\ t[i] < t[j]
    BY DEF Ordered
  <2>2. i # 1
    BY <2>1, <1>3, <1>5
  <2>3. /\ i \in 2 .. Len(b) + 1 /\ j \in 2 .. Len(b) + 1
        /\ i - 1 \in DOMAIN b /\ j - 1 \in DOMAIN b /\ i - 1 < j - 1
    BY <2>1, <2>2, <1>1, <1>6, SMTT(30)
  <2>4. t[i] = b[i - 1] /\ t[j] = b[j - 1]
    BY <2>3, <1>5
  <2>5. QED
    BY <2>1, <2>3, <2>4 DEF Ordered
<1>9. Len(t) <= BufferSize
  BY <1>1, <1>5, PoolAssumption
<1>10. QED
  BY <1>2, <1>5, <1>7, <1>8, <1>9 DEF t, e, Kept

\* A full buffer makes room for it at the other end.
LEMMA KeptTrimmed ==
    ASSUME NEW b \in Seq(Nat), NEW w, NEW H, NEW O, NEW L, NEW d,
           NEW n \in Nat, Kept(b, w, H, O, L, n), Ordered(b, d), b # <<>>
    PROVE  /\ Front(b) \in Seq(Nat) /\ Len(Front(b)) < BufferSize
           /\ Kept(Front(b), w, H, O \cup {Last(b)}, L, n) /\ Ordered(Front(b), d)
<1>1. /\ IsInjective(b) /\ Len(b) <= BufferSize /\ Len(b) \in Nat /\ DOMAIN b = 1 .. Len(b)
      /\ Split(ToSet(b), Carried(w), H, O, L, 0 .. n - 1)
  BY LenProperties DEF Kept
<1>2. /\ Front(b) \in Seq(Nat) /\ Len(Front(b)) = Len(b) - 1 /\ IsInjective(Front(b))
      /\ Last(b) \in ToSet(b) /\ ToSet(Front(b)) = ToSet(b) \ {Last(b)}
      /\ \A i \in 1 .. Len(b) - 1 : Front(b)[i] = b[i]
  BY DropNewest, <1>1
<1>3. Len(Front(b)) < BufferSize /\ Len(Front(b)) <= BufferSize
  BY <1>1, <1>2, PoolAssumption
<1>4. Ordered(Front(b), d)
  <2>1. \A i \in DOMAIN Front(b) : i \in DOMAIN b /\ Front(b)[i] = b[i]
    <3>1. DOMAIN Front(b) = 1 .. Len(b) - 1
      BY <1>1, <1>2, LenProperties
    <3>2. \A i \in 1 .. Len(b) - 1 : i \in DOMAIN b
      BY <1>1
    <3>3. QED
      BY <3>1, <3>2, <1>2
  <2>2. QED
    BY <2>1 DEF Ordered
<1>5. Split(ToSet(Front(b)), Carried(w), H, O \cup {Last(b)}, L, 0 .. n - 1)
  BY <1>1, <1>2 DEF Split
<1>6. QED
  BY <1>2, <1>3, <1>4, <1>5 DEF Kept

-----------------------------------------------------------------------------
(* The wire tasks.                                                         *)

WireStates == Suspended \cup {"none", "gap", "ended"}

\* notify_waiters changes where the waiters are and nothing else.
LEMMA NotifyEffect ==
    ASSUME NEW w \in [Wires -> WireType]
    PROVE  LET u == NotifyWaiters(w) IN
           /\ u \in [Wires -> WireType]
           /\ \A y \in Wires :
                 /\ u[y].env = w[y].env /\ u[y].cancel = w[y].cancel
                 /\ w[y].st = "waiting" => u[y].st = "look"
                 /\ w[y].st # "waiting" => u[y].st = w[y].st
                 /\ u[y].st # "waiting" /\ (u[y].st = "gap" => u[y].missed)
                 /\ w[y] = NoWire => u[y] = NoWire
<1> DEFINE u == NotifyWaiters(w)
<1>1. /\ u = [y \in Wires |-> u[y]]
      /\ \A y \in Wires :
            /\ w[y].st = "waiting" => u[y] = [w[y] EXCEPT !.st = "look"]
            /\ w[y].st = "gap" => u[y] = [w[y] EXCEPT !.missed = TRUE]
            /\ w[y].st \notin {"waiting", "gap"} => u[y] = w[y]
  BY DEF NotifyWaiters
<1> HIDE DEF u
<1>2. ASSUME NEW y \in Wires
      PROVE  /\ u[y] \in WireType
             /\ u[y].env = w[y].env /\ u[y].cancel = w[y].cancel
             /\ w[y].st = "waiting" => u[y].st = "look"
             /\ w[y].st # "waiting" => u[y].st = w[y].st
             /\ u[y].st # "waiting" /\ (u[y].st = "gap" => u[y].missed)
             /\ w[y] = NoWire => u[y] = NoWire
  <2>1. w[y] \in WireType /\ NoWire.st = "none"
    BY DEF NoWire
  <2>2. CASE w[y].st = "waiting"
    <3>1. w[y] # NoWire
      BY <2>1, <2>2
    <3>2. QED
      BY <2>1, <2>2, <3>1, <1>1 DEF WireType, Suspended
  <2>3. CASE w[y].st = "gap"
    <3>1. w[y] # NoWire
      BY <2>1, <2>3
    <3>2. u[y] = [w[y] EXCEPT !.missed = TRUE]
      BY <2>3, <1>1
    <3>3. u[y] \in WireType /\ u[y].st = w[y].st
          /\ u[y].env = w[y].env /\ u[y].cancel = w[y].cancel
      BY <2>1, <3>2 DEF WireType
    <3>4. u[y].missed
      BY <2>1, <3>2 DEF WireType
    <3>5. QED
      BY <2>3, <3>1, <3>3, <3>4
  <2>4. CASE w[y].st \notin {"waiting", "gap"}
    BY <2>1, <2>4, <1>1
  <2>5. QED
    BY <2>2, <2>3, <2>4
<1>3. u \in [Wires -> WireType]
  BY <1>1, <1>2
<1>4. QED
  BY <1>2, <1>3 DEF u

\* One task moves.
LEMMA MoveEffect ==
    ASSUME NEW w \in [Wires -> WireType], NEW x \in Wires, NEW to \in WireStates
    PROVE  LET u == [w EXCEPT ![x].st = to] IN
           /\ u \in [Wires -> WireType] /\ \A y \in Wires \ {x} : u[y] = w[y]
           /\ u[x].st = to /\ u[x].env = w[x].env
           /\ u[x].cancel = w[x].cancel /\ u[x].missed = w[x].missed
<1>1. w[x] \in WireType
  OBVIOUS
<1>2. /\ [w[x] EXCEPT !.st = to] \in WireType
      /\ [w[x] EXCEPT !.st = to].st = to /\ [w[x] EXCEPT !.st = to].env = w[x].env
      /\ [w[x] EXCEPT !.st = to].cancel = w[x].cancel
      /\ [w[x] EXCEPT !.st = to].missed = w[x].missed
  BY <1>1 DEF WireType, WireStates
<1>3. QED
  BY <1>2

\* u is w but that x is at `to` with the envelope e.
Handed(w, u, x, to, e) ==
    /\ u \in [Wires -> WireType] /\ \A y \in Wires \ {x} : u[y] = w[y]
    /\ u[x].st = to /\ u[x].env = e
    /\ u[x].cancel = w[x].cancel /\ u[x].missed = w[x].missed

\* One task moves and takes or parts with an envelope.
LEMMA HandEffect ==
    ASSUME NEW w \in [Wires -> WireType], NEW x \in Wires, NEW to \in WireStates,
           NEW e \in Nat \cup {None}
    PROVE  Handed(w, [w EXCEPT ![x].st = to, ![x].env = e], x, to, e)
<1> DEFINE v == [w EXCEPT ![x].st = to]
           u == [w EXCEPT ![x].st = to, ![x].env = e]
<1>1. /\ v \in [Wires -> WireType] /\ \A y \in Wires \ {x} : v[y] = w[y]
      /\ v[x].st = to /\ v[x].cancel = w[x].cancel /\ v[x].missed = w[x].missed
  BY MoveEffect
<1>2. u = [v EXCEPT ![x].env = e]
  OBVIOUS
<1> HIDE DEF u, v
<1>3. v[x] \in WireType
  BY <1>1
<1>4. /\ [v[x] EXCEPT !.env = e] \in WireType
      /\ [v[x] EXCEPT !.env = e].st = v[x].st /\ [v[x] EXCEPT !.env = e].env = e
      /\ [v[x] EXCEPT !.env = e].cancel = v[x].cancel
      /\ [v[x] EXCEPT !.env = e].missed = v[x].missed
  BY <1>3 DEF WireType
<1>5. /\ u \in [Wires -> WireType] /\ \A y \in Wires \ {x} : u[y] = v[y]
      /\ u[x] = [v[x] EXCEPT !.env = e]
  BY <1>1, <1>2, <1>4
<1>6. Handed(w, u, x, to, e)
  BY <1>1, <1>4, <1>5 DEF Handed
<1>7. QED
  BY <1>6 DEF u

\* One task is told to end.
LEMMA CancelEffect ==
    ASSUME NEW w \in [Wires -> WireType], NEW x \in Wires
    PROVE  LET u == [w EXCEPT ![x].cancel = TRUE] IN
           /\ u \in [Wires -> WireType] /\ \A y \in Wires \ {x} : u[y] = w[y]
           /\ u[x].st = w[x].st /\ u[x].env = w[x].env
           /\ u[x].cancel /\ u[x].missed = w[x].missed
<1>1. w[x] \in WireType
  OBVIOUS
<1>2. /\ [w[x] EXCEPT !.cancel = TRUE] \in WireType
      /\ [w[x] EXCEPT !.cancel = TRUE].st = w[x].st
      /\ [w[x] EXCEPT !.cancel = TRUE].env = w[x].env
      /\ [w[x] EXCEPT !.cancel = TRUE].cancel
      /\ [w[x] EXCEPT !.cancel = TRUE].missed = w[x].missed
  BY <1>1 DEF WireType
<1>3. QED
  BY <1>2

-----------------------------------------------------------------------------
(* The invariant over the steps of the wire tasks and of the hub task.     *)

\* The conjuncts on actors and processes only ask of these steps that they
\* cancel nobody and revive nobody.
LEMMA Bystanders ==
    ASSUME Wired, Owned, UNCHANGED <<actor, alive>>,
           \A y \in Wires : /\ wire'[y].cancel = wire[y].cancel
                            /\ wire[y] = NoWire => wire'[y] = NoWire
    PROVE  Wired' /\ Owned'
<1>1. Wired'
  <2>1. \A l \in Listeners, g \in 1 .. MaxSpawns : <<l, g>> \in Wires
    BY DEF Wires
  <2>2. QED
    BY <2>1 DEF Wired
<1>2. Owned'
  BY DEF Owned
<1>3. QED
  BY <1>1, <1>2

\* The tasks of the hub and of the callers keep to themselves.
LEMMA IdleStep ==
    ASSUME IInv, UNCHANGED <<buffer, handled, overflowed, lost, delivered, pool_serial,
                             wire, actor, alive>>
    PROVE  IInv'
<1>1. EnvelopesKept'
  BY KeptForm DEF IInv
<1>2. Offered' /\ Wakeable' /\ Owned' /\ TypeOK'
  BY DEF IInv, Offered, InFlight, Wakeable, Owned, TypeOK
<1>3. Wired'
  BY DEF IInv, Wired
<1>4. QED
  BY <1>1, <1>2, <1>3 DEF IInv

\* A task at any of its suspension points or in the window exists.
LEMMA Existing ==
    ASSUME TypeOK, NEW x \in Wires, wire[x].st # "none"
    PROVE  wire[x] # NoWire
BY DEF NoWire

\* A task moves without touching an envelope.
LEMMA MoveStep ==
    ASSUME IInv, NEW x \in Wires, NEW to \in WireStates, WireMoves(x, to),
           wire[x].st # "none",
           to \in {"write", "Busy"} <=> wire[x].st \in {"write", "Busy"},
           to \in {"gap", "waiting"} => wire[x].st = "gap"
    PROVE  IInv'
<1>1. /\ wire \in [Wires -> WireType] /\ wire[x] # NoWire
  BY Existing DEF IInv, TypeOK
<1>2. /\ wire' \in [Wires -> WireType] /\ \A y \in Wires \ {x} : wire'[y] = wire[y]
      /\ wire'[x].st = to /\ wire'[x].env = wire[x].env
      /\ wire'[x].cancel = wire[x].cancel /\ wire'[x].missed = wire[x].missed
  BY <1>1, MoveEffect DEF WireMoves
<1>3. UNCHANGED <<buffer, overflowed, handled, lost, delivered, pool_serial, actor, alive>>
  BY DEF WireMoves, wireFrame, hubVars, actorVars
<1>4. /\ Kept(buffer, wire, handled, overflowed, lost, pool_serial)
      /\ Ordered(buffer, delivered)
  BY KeptForm DEF IInv
<1>5. \A y \in Wires : wire'[y].env = wire[y].env
  BY <1>2
<1>6. Holds(wire')
  BY <1>2, <1>4 DEF Kept, Holds
<1>7. Carried(wire') = Carried(wire) /\ Single(wire')
  BY <1>4, <1>5, CarriedSame DEF Kept
<1>8. EnvelopesKept'
  <2>1. Kept(buffer, wire', handled, overflowed, lost, pool_serial)
    BY <1>4, <1>6, <1>7 DEF Kept
  <2>2. QED
    BY <2>1, <1>3, <1>4, KeptForm
<1>9. Offered'
  BY <1>3, <1>7 DEF IInv, Offered, InFlight, Carried
<1>10. Wakeable'
  BY <1>2, <1>3 DEF IInv, Wakeable
<1>11. Wired' /\ Owned'
  BY <1>1, <1>2, <1>3, Bystanders DEF IInv
<1>12. TypeOK'
  BY <1>2, <1>3 DEF IInv, TypeOK
<1>13. QED
  BY <1>8, <1>9, <1>10, <1>11, <1>12 DEF IInv

\* A task puts its envelope back and wakes the others.
LEMMA BackStep ==
    ASSUME IInv, NEW x \in Wires, NEW to \in {"ended", "Acknowledged", "Unknown"},
           GivesBack(x, to), wire[x].env # None
    PROVE  IInv'
<1> DEFINE w == [wire EXCEPT ![x].st = to, ![x].env = None]
<1>1. /\ wire \in [Wires -> WireType] /\ buffer \in Seq(Nat) /\ pool_serial \in Nat
      /\ Carried(wire) \subseteq delivered
  BY DEF IInv, TypeOK, Offered, InFlight, Carried
<1>2. wire[x] # NoWire
  BY DEF NoWire
<1>3. /\ w \in [Wires -> WireType] /\ \A y \in Wires \ {x} : w[y] = wire[y]
      /\ w[x].st = to /\ w[x].env = None /\ w[x].cancel = wire[x].cancel
  <2>1. to \in WireStates /\ None \in Nat \cup {None}
    BY DEF WireStates, Suspended
  <2>2. Handed(wire, w, x, to, None)
    BY <1>1, <2>1, HandEffect, Zenon
  <2>3. QED
    BY <2>2 DEF Handed
<1>4. wire' = NotifyWaiters(w)
  BY DEF GivesBack
<1> HIDE DEF w
<1>5. /\ wire' \in [Wires -> WireType]
      /\ \A y \in Wires :
            /\ wire'[y].env = w[y].env /\ wire'[y].cancel = w[y].cancel
            /\ w[y].st = "waiting" => wire'[y].st = "look"
            /\ w[y].st # "waiting" => wire'[y].st = w[y].st
            /\ wire'[y].st # "waiting" /\ (wire'[y].st = "gap" => wire'[y].missed)
            /\ w[y] = NoWire => wire'[y] = NoWire
  BY <1>3, <1>4, NotifyEffect
<1>6. UNCHANGED <<handled, lost, delivered, pool_serial, actor, alive>>
  BY DEF GivesBack, wireFrame, hubVars, actorVars
<1>7. /\ Kept(buffer, wire, handled, overflowed, lost, pool_serial)
      /\ Ordered(buffer, delivered)
  BY KeptForm DEF IInv
<1>8. /\ \A y \in Wires \ {x} : wire'[y].env = wire[y].env
      /\ wire'[x].env = None
  BY <1>3, <1>5
<1>9. Holds(wire')
  <2>1. \A y \in Wires \ {x} : wire'[y].st \in {"write", "Busy"} <=> wire[y].st \in {"write", "Busy"}
    BY <1>3, <1>5
  <2>2. wire'[x].st \notin {"write", "Busy"}
    BY <1>3, <1>5
  <2>3. QED
    BY <1>7, <1>8, <2>1, <2>2 DEF Kept, Holds
<1>10. /\ buffer' \in Seq(Nat) /\ Ordered(buffer', delivered)
       /\ Kept(buffer', wire', handled, overflowed', lost, pool_serial)
       /\ Carried(wire') \subseteq Carried(wire)
  <2>1. CASE Len(buffer) >= BufferSize
    <3>1. buffer' = <<wire[x].env>> \o Front(buffer)
          /\ overflowed' = overflowed \cup {Last(buffer)}
      BY <2>1 DEF GivesBack, RequeueRejected
    <3>2. buffer # <<>>
      BY <1>1, <2>1, PoolAssumption, EmptySeq, LenProperties
    <3>3. /\ Front(buffer) \in Seq(Nat) /\ Len(Front(buffer)) < BufferSize
          /\ Kept(Front(buffer), wire, handled, overflowed', lost, pool_serial)
          /\ Ordered(Front(buffer), delivered)
      BY <1>1, <1>7, <3>1, <3>2, KeptTrimmed
    <3>4. QED
      BY <3>1, <3>3, <1>1, <1>8, <1>9, KeptBack
  <2>2. CASE ~(Len(buffer) >= BufferSize)
    <3>1. buffer' = <<wire[x].env>> \o buffer /\ overflowed' = overflowed
      BY <2>2 DEF GivesBack, RequeueRejected
    <3>2. Len(buffer) < BufferSize
      BY <1>1, <2>2, PoolAssumption, LenProperties
    <3>3. QED
      BY <3>1, <3>2, <1>1, <1>7, <1>8, <1>9, KeptBack
  <2>3. QED
    BY <2>1, <2>2
<1>11. EnvelopesKept'
  BY <1>6, <1>10, KeptForm
<1>12. Offered'
  BY <1>6, <1>10 DEF IInv, Offered, InFlight, Carried
<1>13. Wakeable'
  BY <1>5 DEF Wakeable
<1>14. Wired' /\ Owned'
  <2>1. \A y \in Wires : /\ wire'[y].cancel = wire[y].cancel
                         /\ wire[y] = NoWire => wire'[y] = NoWire
    BY <1>2, <1>3, <1>5
  <2>2. QED
    BY <2>1, <1>6, Bystanders DEF IInv
<1>15. TypeOK'
  BY <1>5, <1>6, <1>10 DEF IInv, TypeOK
<1>16. QED
  BY <1>11, <1>12, <1>13, <1>14, <1>15 DEF IInv

\* The task takes the oldest envelope of the buffer.
LEMMA PopStep ==
    ASSUME IInv, NEW x \in Wires, PopNextEvent(x)
    PROVE  IInv'
<1>1. /\ wire \in [Wires -> WireType] /\ buffer \in Seq(Nat) /\ pool_serial \in Nat
      /\ Carried(wire) \subseteq delivered /\ delivered \subseteq 0 .. pool_serial - 1
  BY DEF IInv, TypeOK, Offered, InFlight, Carried
<1>2. /\ buffer # <<>> /\ buffer' = Tail(buffer) /\ wire[x].st = "look"
      /\ delivered' = delivered \cup {Head(buffer)} /\ wire[x] # NoWire
      /\ UNCHANGED <<handled, overflowed, lost, pool_serial, actor, alive>>
  BY DEF PopNextEvent, wireFrame, hubVars, actorVars, NoWire
<1>3. /\ Kept(buffer, wire, handled, overflowed, lost, pool_serial)
      /\ Ordered(buffer, delivered)
  BY KeptForm DEF IInv
<1>4. Head(buffer) \in Nat
  BY <1>1, <1>2, HeadTailProperties
<1>5. /\ wire' \in [Wires -> WireType] /\ \A y \in Wires \ {x} : wire'[y] = wire[y]
      /\ wire'[x].st = "write" /\ wire'[x].env = Head(buffer)
      /\ wire'[x].cancel = wire[x].cancel
  <2>1. "write" \in WireStates /\ Head(buffer) \in Nat \cup {None}
    BY <1>4 DEF WireStates, Suspended
  <2>2. wire' = [wire EXCEPT ![x].st = "write", ![x].env = Head(buffer)]
    BY DEF PopNextEvent
  <2>3. Handed(wire, wire', x, "write", Head(buffer))
    BY <1>1, <2>1, <2>2, HandEffect, Zenon
  <2>4. QED
    BY <2>3 DEF Handed
<1>6. wire[x].env = None
  BY <1>2, <1>3 DEF Kept, Holds
<1>7. Holds(wire')
  <2>1. Head(buffer) # None
    BY <1>4 DEF None
  <2>2. QED
    BY <1>3, <1>5, <2>1 DEF Kept, Holds
<1>8. /\ Tail(buffer) \in Seq(Nat)
      /\ Kept(Tail(buffer), wire', handled, overflowed, lost, pool_serial)
      /\ Ordered(Tail(buffer), delivered \cup {Head(buffer)})
      /\ Carried(wire') = Carried(wire) \cup {Head(buffer)}
      /\ Head(buffer) \in 0 .. pool_serial - 1
  <2>1. /\ IsInjective(buffer) /\ Len(buffer) <= BufferSize /\ Len(buffer) \in Nat
        /\ Single(wire)
        /\ Split(ToSet(buffer), Carried(wire), handled, overflowed, lost, 0 .. pool_serial - 1)
    BY <1>1, <1>3, LenProperties DEF Kept
  <2>2. /\ Tail(buffer) \in Seq(Nat) /\ Len(Tail(buffer)) = Len(buffer) - 1
        /\ IsInjective(Tail(buffer)) /\ Head(buffer) \in ToSet(buffer)
        /\ ToSet(Tail(buffer)) = ToSet(buffer) \ {Head(buffer)}
    BY <1>1, <1>2, <2>1, TakeEnvelope
  <2>3. Len(Tail(buffer)) <= BufferSize
    BY <2>1, <2>2, PoolAssumption
  <2>4. Ordered(Tail(buffer), delivered \cup {Head(buffer)})
    BY <1>1, <1>2, <1>3, <2>1, OrderedTail
  <2>5. Head(buffer) \notin Carried(wire) /\ Head(buffer) \in 0 .. pool_serial - 1
    BY <2>1, <2>2 DEF Split
  <2>6. Carried(wire') = Carried(wire) \cup {Head(buffer)} /\ Single(wire')
    <3>1. PICK e : e = Head(buffer)
      OBVIOUS
    <3>2. /\ e # None /\ e \notin Carried(wire) /\ wire'[x].env = e
          /\ \A y \in Wires \ {x} : wire'[y].env = wire[y].env
      BY <1>4, <1>5, <2>5, <3>1 DEF None
    <3>3. Carried(wire') = Carried(wire) \cup {e} /\ Single(wire')
      BY <1>6, <2>1, <3>2, CarriedGains
    <3>4. QED
      BY <3>1, <3>3
  <2>7. Split(ToSet(Tail(buffer)), Carried(wire'), handled, overflowed, lost,
              0 .. pool_serial - 1)
    BY <2>1, <2>2, <2>6 DEF Split
  <2>8. QED
    BY <1>7, <2>2, <2>3, <2>4, <2>5, <2>6, <2>7 DEF Kept
<1>9. EnvelopesKept'
  BY <1>2, <1>8, KeptForm
<1>10. Offered'
  BY <1>1, <1>2, <1>8 DEF Offered, InFlight, Carried
<1>11. Wakeable'
  BY <1>2, <1>5 DEF IInv, Wakeable
<1>12. Wired' /\ Owned'
  BY <1>2, <1>5, Bystanders DEF IInv
<1>13. TypeOK'
  BY <1>2, <1>5, <1>8 DEF IInv, TypeOK
<1>14. QED
  BY <1>9, <1>10, <1>11, <1>12, <1>13 DEF IInv

\* The envelope of a task is answered, or dropped with the task.
LEMMA ReleaseStep ==
    ASSUME IInv, NEW x \in Wires, ResultOk(x) \/ WireCancelled(x)
    PROVE  IInv'
<1>1. /\ wire \in [Wires -> WireType] /\ buffer \in Seq(Nat) /\ pool_serial \in Nat
      /\ Carried(wire) \subseteq delivered
  BY DEF IInv, TypeOK, Offered, InFlight, Carried
<1>2. /\ wire[x].st # "none" /\ wire[x] # NoWire
      /\ UNCHANGED <<buffer, delivered, overflowed, pool_serial, actor, alive>>
  BY DEF ResultOk, WireCancelled, Suspended, wireFrame, hubVars, actorVars, NoWire
<1>3. /\ Kept(buffer, wire, handled, overflowed, lost, pool_serial)
      /\ Ordered(buffer, delivered)
  BY KeptForm DEF IInv
<1>4. PICK to \in {"ended", "Acknowledged"} :
         wire' = [wire EXCEPT ![x].st = to, ![x].env = None]
  BY DEF ResultOk, WireCancelled
<1>5. /\ wire' \in [Wires -> WireType] /\ \A y \in Wires \ {x} : wire'[y] = wire[y]
      /\ wire'[x].st = to /\ wire'[x].env = None /\ wire'[x].cancel = wire[x].cancel
  <2>1. to \in WireStates /\ None \in Nat \cup {None}
    BY DEF WireStates, Suspended
  <2>2. Handed(wire, wire', x, to, None)
    BY <1>1, <1>4, <2>1, HandEffect, Zenon
  <2>3. QED
    BY <2>2 DEF Handed
<1>6. Holds(wire')
  BY <1>3, <1>5 DEF Kept, Holds
<1>7. \A y \in Wires \ {x} : wire'[y].env = wire[y].env
  BY <1>5
<1>8. /\ Kept(buffer, wire', handled', overflowed, lost', pool_serial)
      /\ Carried(wire') \subseteq Carried(wire)
  <2>1. CASE wire[x].env = None
    <3>1. handled' = handled /\ lost' = lost
      BY <1>3, <2>1 DEF ResultOk, WireCancelled, Kept, Holds
    <3>2. \A y \in Wires : wire'[y].env = wire[y].env
      BY <1>5, <2>1
    <3>3. Carried(wire') = Carried(wire) /\ Single(wire')
      BY <1>3, <3>2, CarriedSame DEF Kept
    <3>4. QED
      BY <1>3, <1>6, <3>1, <3>3 DEF Kept
  <2>2. CASE wire[x].env # None
    <3>1. \/ handled' = handled \cup {wire[x].env} /\ lost' = lost
          \/ handled' = handled /\ lost' = lost \cup {wire[x].env}
      BY <2>2 DEF ResultOk, WireCancelled
    <3>2. /\ Kept(buffer, wire', handled \cup {wire[x].env}, overflowed, lost, pool_serial)
          /\ Kept(buffer, wire', handled, overflowed, lost \cup {wire[x].env}, pool_serial)
          /\ Carried(wire') \subseteq Carried(wire)
      BY <1>1, <1>3, <1>5, <1>6, <1>7, <2>2, KeptReleased, ZenonT(60)
    <3>3. QED
      BY <3>1, <3>2
  <2>3. QED
    BY <2>1, <2>2
<1>9. EnvelopesKept'
  BY <1>2, <1>3, <1>8, KeptForm
<1>10. Offered'
  BY <1>2, <1>8 DEF IInv, Offered, InFlight, Carried
<1>11. Wakeable'
  BY <1>2, <1>5 DEF IInv, Wakeable
<1>12. Wired' /\ Owned'
  BY <1>2, <1>5, Bystanders DEF IInv
<1>13. TypeOK'
  BY <1>2, <1>5 DEF IInv, TypeOK
<1>14. QED
  BY <1>9, <1>10, <1>11, <1>12, <1>13 DEF IInv

\* READY, or the buffer found empty.
LEMMA LookStep ==
    ASSUME IInv, NEW x \in Wires, ReadLineReady(x) \/ FindEmpty(x)
    PROVE  IInv'
<1>1. wire \in [Wires -> WireType]
  BY DEF IInv, TypeOK
<1>2. /\ wire[x].st \in {"Acknowledged", "look"} /\ wire[x] # NoWire
      /\ UNCHANGED <<buffer, handled, overflowed, lost, delivered, pool_serial, actor, alive>>
  BY DEF ReadLineReady, FindEmpty, wireFrame, hubVars, actorVars, NoWire
<1>3. /\ Kept(buffer, wire, handled, overflowed, lost, pool_serial)
      /\ Ordered(buffer, delivered)
  BY KeptForm DEF IInv
<1>4. /\ wire' \in [Wires -> WireType]
      /\ \A y \in Wires :
            /\ wire'[y].env = wire[y].env /\ wire'[y].cancel = wire[y].cancel
            /\ wire'[y].st \in {"write", "Busy"} <=> wire[y].st \in {"write", "Busy"}
            /\ wire[y] = NoWire => wire'[y] = NoWire
            /\ wire'[y].st \in {"gap", "waiting"} /\ buffer # <<>> => wire'[y].missed
  <2>1. CASE ReadLineReady(x)
    <3> DEFINE w == [wire EXCEPT ![x].st = "look"]
    <3>1. "look" \in WireStates
      BY DEF WireStates, Suspended
    <3>2. /\ w \in [Wires -> WireType] /\ \A y \in Wires \ {x} : w[y] = wire[y]
          /\ w[x].st = "look" /\ w[x].env = wire[x].env /\ w[x].cancel = wire[x].cancel
      BY <1>1, <3>1, MoveEffect
    <3>3. wire' = NotifyWaiters(w)
      BY <2>1 DEF ReadLineReady
    <3> HIDE DEF w
    <3>4. /\ wire' \in [Wires -> WireType]
          /\ \A y \in Wires :
                /\ wire'[y].env = w[y].env /\ wire'[y].cancel = w[y].cancel
                /\ w[y].st = "waiting" => wire'[y].st = "look"
                /\ w[y].st # "waiting" => wire'[y].st = w[y].st
                /\ wire'[y].st # "waiting" /\ (wire'[y].st = "gap" => wire'[y].missed)
                /\ w[y] = NoWire => wire'[y] = NoWire
      BY <3>2, <3>3, NotifyEffect
    <3>5. QED
      BY <3>2, <3>4, <1>2
  <2>2. CASE FindEmpty(x)
    <3> DEFINE w == [wire EXCEPT ![x].st = "gap"]
    <3>1. "gap" \in WireStates
      BY DEF WireStates, Suspended
    <3>2. /\ w \in [Wires -> WireType] /\ \A y \in Wires \ {x} : w[y] = wire[y]
          /\ w[x].st = "gap" /\ w[x].env = wire[x].env /\ w[x].cancel = wire[x].cancel
      BY <1>1, <3>1, MoveEffect
    <3>3. wire' = [w EXCEPT ![x].missed = FALSE]
      BY <2>2 DEF FindEmpty
    <3> HIDE DEF w
    <3>4. w[x] \in WireType
      BY <3>2
    <3>5. /\ [w[x] EXCEPT !.missed = FALSE] \in WireType
          /\ [w[x] EXCEPT !.missed = FALSE].st = w[x].st
          /\ [w[x] EXCEPT !.missed = FALSE].env = w[x].env
          /\ [w[x] EXCEPT !.missed = FALSE].cancel = w[x].cancel
      BY <3>4 DEF WireType
    <3>6. /\ wire' \in [Wires -> WireType] /\ \A y \in Wires \ {x} : wire'[y] = wire[y]
          /\ wire'[x].st = "gap" /\ wire'[x].env = wire[x].env
          /\ wire'[x].cancel = wire[x].cancel
      BY <3>2, <3>3, <3>5
    <3>7. buffer = <<>> /\ wire[x].st = "look"
      BY <2>2 DEF FindEmpty
    <3>8. QED
      BY <3>6, <3>7, <1>2
  <2>3. QED
    BY <2>1, <2>2
<1>5. EnvelopesKept'
  <2>1. Carried(wire') = Carried(wire) /\ Single(wire')
    BY <1>3, <1>4, CarriedSame DEF Kept
  <2>2. Holds(wire')
    BY <1>3, <1>4 DEF Kept, Holds
  <2>3. Kept(buffer, wire', handled, overflowed, lost, pool_serial)
    BY <1>3, <2>1, <2>2 DEF Kept
  <2>4. QED
    BY <2>3, <1>2, <1>3, KeptForm
<1>6. Offered'
  BY <1>2, <1>4 DEF IInv, Offered, InFlight
<1>7. Wakeable'
  BY <1>2, <1>4 DEF Wakeable
<1>8. Wired' /\ Owned'
  BY <1>2, <1>4, Bystanders DEF IInv
<1>9. TypeOK'
  BY <1>2, <1>4 DEF IInv, TypeOK
<1>10. QED
  BY <1>5, <1>6, <1>7, <1>8, <1>9 DEF IInv

\* The hub task accepts an event, or passes over it.
LEMMA AcceptStep ==
    ASSUME IInv, AcceptEvent
    PROVE  IInv'
<1>1. /\ wire \in [Wires -> WireType] /\ buffer \in Seq(Nat) /\ pool_serial \in Nat
      /\ delivered \subseteq 0 .. pool_serial - 1 /\ Carried(wire) \subseteq delivered
  BY DEF IInv, TypeOK, Offered, InFlight, Carried
<1>2. UNCHANGED <<handled, lost, delivered, actor, alive>>
  BY DEF AcceptEvent, actorVars
<1>3. /\ Kept(buffer, wire, handled, overflowed, lost, pool_serial)
      /\ Ordered(buffer, delivered)
  BY KeptForm DEF IInv
<1>4. CASE ~EventMatchesSubscription(Head(pending), Subscribed)
  <2>1. UNCHANGED <<pool_serial, buffer, overflowed, wire>>
    BY <1>4 DEF AcceptEvent
  <2>2. QED
    BY <2>1, <1>2, IdleStep
<1>5. CASE EventMatchesSubscription(Head(pending), Subscribed)
  <2>1. pool_serial' = pool_serial + 1 /\ wire' = NotifyWaiters(wire)
    BY <1>5 DEF AcceptEvent
  <2>2. /\ wire' \in [Wires -> WireType]
        /\ \A y \in Wires :
              /\ wire'[y].env = wire[y].env /\ wire'[y].cancel = wire[y].cancel
              /\ wire[y].st = "waiting" => wire'[y].st = "look"
              /\ wire[y].st # "waiting" => wire'[y].st = wire[y].st
              /\ wire'[y].st # "waiting" /\ (wire'[y].st = "gap" => wire'[y].missed)
              /\ wire[y] = NoWire => wire'[y] = NoWire
    BY <1>1, <2>1, NotifyEffect
  <2>3. Holds(wire')
    <3>1. \A y \in Wires : wire'[y].st \in {"write", "Busy"} <=> wire[y].st \in {"write", "Busy"}
      BY <2>2
    <3>2. QED
      BY <1>3, <2>2, <3>1 DEF Kept, Holds
  <2>4. \A y \in Wires : wire'[y].env = wire[y].env
    BY <2>2
  <2>5. /\ buffer' \in Seq(Nat) /\ Ordered(buffer', delivered)
        /\ Kept(buffer', wire', handled, overflowed', lost, pool_serial + 1)
    <3>1. CASE Len(buffer) >= BufferSize
      <4>1. buffer' = Append(Tail(buffer), pool_serial)
            /\ overflowed' = overflowed \cup {Head(buffer)}
        BY <1>5, <3>1 DEF AcceptEvent
      <4>2. buffer # <<>>
        BY <1>1, <3>1, PoolAssumption, EmptySeq, LenProperties
      <4>3. /\ Tail(buffer) \in Seq(Nat) /\ Len(Tail(buffer)) < BufferSize
            /\ Kept(Tail(buffer), wire, handled, overflowed', lost, pool_serial)
            /\ Ordered(Tail(buffer), delivered)
        BY <1>1, <1>3, <4>1, <4>2, KeptDropped
      <4>4. QED
        BY <4>1, <4>3, <1>1, <2>3, <2>4, KeptAccepted
    <3>2. CASE ~(Len(buffer) >= BufferSize)
      <4>1. buffer' = Append(buffer, pool_serial) /\ overflowed' = overflowed
        BY <1>5, <3>2 DEF AcceptEvent
      <4>2. Len(buffer) < BufferSize
        BY <1>1, <3>2, PoolAssumption, LenProperties
      <4>3. QED
        BY <4>1, <4>2, <1>1, <1>3, <2>3, <2>4, KeptAccepted
    <3>3. QED
      BY <3>1, <3>2
  <2>6. EnvelopesKept'
    BY <1>2, <2>1, <2>5, KeptForm
  <2>7. Offered'
    <3>1. 0 .. pool_serial - 1 \subseteq 0 .. pool_serial' - 1
      BY <1>1, <2>1
    <3>2. InFlight' = InFlight
      BY <2>4 DEF InFlight
    <3>3. QED
      BY <1>2, <3>1, <3>2 DEF IInv, Offered
  <2>8. Wakeable'
    BY <2>2 DEF Wakeable
  <2>9. Wired' /\ Owned'
    BY <1>2, <2>2, Bystanders DEF IInv
  <2>10. TypeOK'
    BY <1>1, <1>2, <2>1, <2>2, <2>5 DEF IInv, TypeOK
  <2>11. QED
    BY <2>6, <2>7, <2>8, <2>9, <2>10 DEF IInv
<1>6. QED
  BY <1>4, <1>5

-----------------------------------------------------------------------------
(* The invariant over the steps of the actors and of the processes.        *)

\* The actor of l moves on: pc, child and state from here on.
Turns(l, pc, child, state, spawns) ==
    /\ actor' \in [Listeners -> ActorType]
    /\ \A k \in Listeners \ {l} : actor'[k] = actor[k]
    /\ actor'[l].pc = pc /\ actor'[l].child = child
    /\ actor'[l].state = state /\ actor'[l].spawns = spawns
    /\ pc = "stopping" => actor'[l].op # "none"

\* A wire task after a step of an actor: told to end, or as it was.
Told(x) ==
    /\ wire' \in [Wires -> WireType] /\ \A y \in Wires \ {x} : wire'[y] = wire[y]
    /\ wire'[x].st = wire[x].st /\ wire'[x].env = wire[x].env
    /\ wire'[x].cancel /\ wire'[x].missed = wire[x].missed

\* The pool does not notice a step that leaves the envelopes with their tasks.
LEMMA PoolUntouched ==
    ASSUME IInv,
           UNCHANGED <<buffer, handled, overflowed, lost, delivered, pool_serial>>,
           wire' \in [Wires -> WireType],
           \A y \in Wires :
              /\ wire'[y].env = wire[y].env
              /\ wire'[y].st \in {"write", "Busy"} <=> wire[y].st \in {"write", "Busy"}
              /\ wire'[y].st \in {"gap", "waiting"} =>
                    wire[y].st = wire'[y].st /\ wire'[y].missed = wire[y].missed
    PROVE  EnvelopesKept' /\ Offered' /\ Wakeable'
<1>1. /\ Kept(buffer, wire, handled, overflowed, lost, pool_serial)
      /\ Ordered(buffer, delivered)
  BY KeptForm DEF IInv
<1>2. Carried(wire') = Carried(wire) /\ Single(wire')
  BY <1>1, CarriedSame DEF Kept
<1>3. Holds(wire')
  BY <1>1 DEF Kept, Holds
<1>4. Kept(buffer, wire', handled, overflowed, lost, pool_serial)
  BY <1>1, <1>2, <1>3 DEF Kept
<1>5. EnvelopesKept'
  BY <1>1, <1>4, KeptForm
<1>6. Offered'
  BY <1>2 DEF IInv, Offered, InFlight, Carried
<1>7. Wakeable'
  BY DEF IInv, Wakeable
<1>8. QED
  BY <1>5, <1>6, <1>7

\* A process starts: the actor has none, and all the tasks it had are cancelled.
LEMMA SpawnStep ==
    ASSUME IInv, NEW l \in Listeners, SpawnOk(l),
           UNCHANGED <<buffer, handled, overflowed, lost, delivered, pool_serial>>,
           actor[l].child = 0 \/ actor[l].pc = "stopping",
           \A x \in alive : x[1] # l
    PROVE  IInv'
<1> DEFINE g == actor[l].spawns + 1
           new == [NoWire EXCEPT !.st = "Acknowledged"]
<1>1. /\ wire \in [Wires -> WireType] /\ actor \in [Listeners -> ActorType]
      /\ alive \subseteq Wires
  BY DEF IInv, TypeOK
<1>2. /\ actor[l] \in ActorType /\ actor[l].spawns \in Nat /\ actor[l].spawns < g
      /\ actor[l].spawns \in 0 .. MaxSpawns
      /\ g \in 1 .. MaxSpawns /\ g \in 0 .. MaxSpawns /\ <<l, g>> \in Wires
  BY <1>1, PoolAssumption DEF SpawnOk, ActorType, Wires
<1>3. wire[<<l, g>>] = NoWire
  BY <1>2 DEF IInv, Wired
<1>4. /\ new \in WireType /\ new.st = "Acknowledged" /\ new.env = None
      /\ ~new.cancel
  BY DEF NoWire, WireType, Suspended
<1>5. NoWire.env = None /\ NoWire.st = "none"
  BY DEF NoWire
<1>6. Turns(l, "select", g, "RUNNING", g)
  BY <1>1, <1>2 DEF SpawnOk, Turns, ActorType
<1>7. /\ wire' \in [Wires -> WireType] /\ wire'[<<l, g>>] = new
      /\ \A y \in Wires \ {<<l, g>>} : wire'[y] = wire[y]
  BY <1>1, <1>2, <1>4 DEF SpawnOk
<1>8. alive' = alive \cup {<<l, g>>}
  BY DEF SpawnOk
<1> HIDE DEF new, g
<1>9. EnvelopesKept' /\ Offered' /\ Wakeable'
  <2>1. \A y \in Wires :
              /\ wire'[y].env = wire[y].env
              /\ wire'[y].st \in {"write", "Busy"} <=> wire[y].st \in {"write", "Busy"}
              /\ wire'[y].st \in {"gap", "waiting"} =>
                    wire[y].st = wire'[y].st /\ wire'[y].missed = wire[y].missed
    BY <1>2, <1>3, <1>4, <1>5, <1>7
  <2>2. QED
    BY <1>7, <2>1, PoolUntouched
<1>10. Wired'
  <2>1. SUFFICES ASSUME NEW k \in Listeners, NEW h \in 1 .. MaxSpawns
                 PROVE  /\ h > actor'[k].spawns => wire'[<<k, h>>] = NoWire
                        /\ h <= actor'[k].spawns
                              /\ (h # actor'[k].child \/ actor'[k].pc = "stopping")
                           => wire'[<<k, h>>].cancel
    BY DEF Wired
  <2>2. <<k, h>> \in Wires
    BY DEF Wires
  <2>3. CASE k # l
    BY <1>6, <1>7, <2>2, <2>3 DEF IInv, Wired, Turns
  <2>4. CASE k = l /\ h # g
    <3>1. wire'[<<k, h>>] = wire[<<k, h>>] /\ actor'[k].spawns = g
      BY <1>6, <1>7, <2>2, <2>4 DEF Turns
    <3>2. (h > g => h > actor[l].spawns) /\ (h <= g => h <= actor[l].spawns)
      BY <1>2, <2>4 DEF g
    <3>3. h <= actor[l].spawns => h # actor[l].child \/ actor[l].pc = "stopping"
      OBVIOUS
    <3>4. QED
      BY <2>4, <3>1, <3>2, <3>3 DEF IInv, Wired
  <2>5. CASE k = l /\ h = g
    BY <1>2, <1>6, <2>5 DEF Turns
  <2>6. QED
    BY <2>3, <2>4, <2>5
<1>11. Owned'
  <2>1. ASSUME NEW y \in alive'
        PROVE  actor'[y[1]].child = y[2]
    <3>1. CASE y = <<l, g>>
      BY <1>6, <3>1 DEF Turns
    <3>2. CASE y \in alive
      <4>1. y[1] # l /\ y[1] \in Listeners /\ actor[y[1]].child = y[2]
        BY <1>1, <3>2 DEF IInv, Owned, Wires
      <4>2. QED
        BY <1>6, <4>1 DEF Turns
    <3>3. QED
      BY <1>8, <3>1, <3>2
  <2>2. ASSUME NEW k \in Listeners
        PROVE  /\ actor'[k].child # 0 => /\ actor'[k].child <= actor'[k].spawns
                                         /\ actor'[k].state = "RUNNING"
                                         /\ actor'[k].pc \in {"select", "stopping"}
               /\ actor'[k].pc = "stopping" =>
                     actor'[k].child # 0 /\ actor'[k].op # "none"
    BY <1>2, <1>6 DEF Turns, IInv, Owned
  <2>3. QED
    BY <2>1, <2>2 DEF Owned
<1>12. TypeOK'
  BY <1>1, <1>2, <1>6, <1>7, <1>8 DEF IInv, TypeOK, Turns
<1>13. QED
  BY <1>9, <1>10, <1>11, <1>12 DEF IInv

\* An actor without a child, or whose child is dead, has no process.
LEMMA NoProcess ==
    ASSUME IInv, NEW l \in Listeners, actor[l].child = 0 \/ Current(l) \notin alive
    PROVE  \A x \in alive : x[1] # l
<1>1. SUFFICES ASSUME NEW x \in alive, x[1] = l
               PROVE  FALSE
  OBVIOUS
<1>2. x \in Wires /\ actor[l].child = x[2]
  BY <1>1 DEF IInv, TypeOK, Owned
<1>3. x = <<x[1], x[2]>> /\ x[2] \in 1 .. MaxSpawns
  BY <1>2 DEF Wires
<1>4. x[2] # 0 /\ x = Current(l)
  BY <1>1, <1>2, <1>3, PoolAssumption DEF Current
<1>5. QED
  BY <1>1, <1>2, <1>4

\* The actor moves on with the processes as they are: it keeps its child or has
\* none that is alive, and before it waits for it or lets go of it the wire
\* task has been told.
LEMMA TurnStep ==
    ASSUME IInv, NEW l \in Listeners, NEW pc, NEW child, NEW state,
           Turns(l, pc, child, state, actor[l].spawns), alive' = alive,
           UNCHANGED <<buffer, handled, overflowed, lost, delivered, pool_serial>>,
           wire' = wire \/ (actor[l].child # 0 /\ Told(Current(l))),
           child = actor[l].child \/ child = 0,
           child # 0 => state = "RUNNING" /\ pc \in {"select", "stopping"},
           pc = "stopping" => child # 0 /\ Told(Current(l)),
           child = 0 => /\ \A x \in alive : x[1] # l
                        /\ \/ actor[l].child = 0 \/ actor[l].pc = "stopping"
                           \/ Told(Current(l)),
           child # 0 => actor[l].pc # "stopping"
    PROVE  IInv'
<1>1. /\ wire \in [Wires -> WireType] /\ actor \in [Listeners -> ActorType]
      /\ alive \subseteq Wires /\ actor[l] \in ActorType
  BY DEF IInv, TypeOK
<1>2. actor[l].child # 0 => Current(l) \in Wires
  BY <1>1 DEF ActorType, Wires, Current
<1>3. /\ wire' \in [Wires -> WireType]
      /\ \A y \in Wires :
            /\ wire'[y].env = wire[y].env /\ wire'[y].st = wire[y].st
            /\ wire'[y].missed = wire[y].missed
            /\ wire[y].cancel => wire'[y].cancel
            /\ wire'[y] = wire[y] \/ y = Current(l)
  BY <1>1 DEF Told
<1>4. EnvelopesKept' /\ Offered' /\ Wakeable'
  BY <1>3, PoolUntouched
<1>5. Wired'
  <2>1. SUFFICES ASSUME NEW k \in Listeners, NEW h \in 1 .. MaxSpawns
                 PROVE  /\ h > actor'[k].spawns => wire'[<<k, h>>] = NoWire
                        /\ h <= actor'[k].spawns
                              /\ (h # actor'[k].child \/ actor'[k].pc = "stopping")
                           => wire'[<<k, h>>].cancel
    BY DEF Wired
  <2>2. <<k, h>> \in Wires /\ h \in Nat
    BY DEF Wires
  <2>3. CASE k # l
    <3>1. <<k, h>> # Current(l)
      BY <2>3 DEF Current
    <3>2. actor'[k] = actor[k] /\ wire'[<<k, h>>] = wire[<<k, h>>]
      BY <1>3, <2>2, <2>3, <3>1 DEF Turns
    <3>3. QED
      BY <3>2 DEF IInv, Wired
  <2>4. CASE k = l
    <3>1. /\ actor'[l].spawns = actor[l].spawns /\ actor'[l].child = child
          /\ actor'[l].pc = pc
      BY DEF Turns
    <3>2. ASSUME h > actor[l].spawns
          PROVE  wire'[<<l, h>>] = NoWire
      <4>1. actor[l].child # 0 => h # actor[l].child
        <5>1. actor[l].child # 0 => actor[l].child <= actor[l].spawns
          BY DEF IInv, Owned
        <5>2. actor[l].child \in 0 .. MaxSpawns /\ actor[l].spawns \in 0 .. MaxSpawns
          BY <1>1 DEF ActorType
        <5>3. QED
          BY <5>1, <5>2, <3>2, <2>2, PoolAssumption
      <4>2. wire' = wire \/ <<l, h>> # Current(l)
        BY <4>1 DEF Current
      <4>3. wire'[<<l, h>>] = wire[<<l, h>>]
        BY <1>3, <2>2, <2>4, <4>2
      <4>4. QED
        BY <3>2, <4>3 DEF IInv, Wired
    <3>3. ASSUME h <= actor[l].spawns, h # child \/ pc = "stopping"
          PROVE  wire'[<<l, h>>].cancel
      <4>1. CASE h # actor[l].child \/ actor[l].pc = "stopping"
        <5>1. wire[<<l, h>>].cancel
          BY <3>3, <4>1 DEF IInv, Wired
        <5>2. QED
          BY <5>1, <1>3, <2>2, <2>4
      <4>2. CASE h = actor[l].child /\ actor[l].pc # "stopping"
        <5>1. <<l, h>> = Current(l) /\ actor[l].child # 0
          BY <4>2 DEF Current
        <5>2. Told(Current(l))
          BY <3>3, <4>2, <5>1
        <5>3. QED
          BY <5>1, <5>2 DEF Told
      <4>3. QED
        BY <4>1, <4>2
    <3>4. QED
      BY <2>4, <3>1, <3>2, <3>3
  <2>5. QED
    BY <2>3, <2>4
<1>6. Owned'
  <2>1. ASSUME NEW y \in alive'
        PROVE  actor'[y[1]].child = y[2]
    <3>1. y \in alive /\ y[1] \in Listeners /\ actor[y[1]].child = y[2]
      BY <1>1 DEF IInv, Owned, Wires
    <3>2. CASE y[1] = l
      BY <3>1, <3>2 DEF Turns
    <3>3. CASE y[1] # l
      BY <3>1, <3>3 DEF Turns
    <3>4. QED
      BY <3>2, <3>3
  <2>2. ASSUME NEW k \in Listeners
        PROVE  /\ actor'[k].child # 0 => /\ actor'[k].child <= actor'[k].spawns
                                         /\ actor'[k].state = "RUNNING"
                                         /\ actor'[k].pc \in {"select", "stopping"}
               /\ actor'[k].pc = "stopping" =>
                     actor'[k].child # 0 /\ actor'[k].op # "none"
    BY DEF Turns, IInv, Owned
  <2>3. QED
    BY <2>1, <2>2 DEF Owned
<1>7. TypeOK'
  BY <1>1, <1>3 DEF IInv, TypeOK, Turns
<1>8. QED
  BY <1>4, <1>5, <1>6, <1>7 DEF IInv

\* A process ends.
LEMMA DeathStep ==
    ASSUME IInv, alive' \subseteq alive,
           UNCHANGED <<buffer, handled, overflowed, lost, delivered, pool_serial,
                       wire, actor>>
    PROVE  IInv'
<1>1. EnvelopesKept'
  BY KeptForm DEF IInv
<1>2. Offered' /\ Wakeable' /\ Owned' /\ TypeOK'
  BY DEF IInv, Offered, InFlight, Wakeable, Owned, TypeOK
<1>3. Wired'
  BY DEF IInv, Wired
<1>4. QED
  BY <1>1, <1>2, <1>3 DEF IInv

\* The wire task of the current child is told to end.
LEMMA TellCurrent ==
    ASSUME IInv, NEW l \in Listeners, actor[l].child # 0,
           wire' = [wire EXCEPT ![Current(l)].cancel = TRUE]
    PROVE  Told(Current(l))
<1>1. wire \in [Wires -> WireType] /\ actor[l] \in ActorType
  BY DEF IInv, TypeOK
<1>2. Current(l) \in Wires
  BY <1>1 DEF ActorType, Wires, Current
<1>3. QED
  BY <1>1, <1>2, CancelEffect DEF Told

\* stop_child begins.
LEMMA BeginStopStep ==
    ASSUME IInv, NEW l \in Listeners, NEW op \in {"Stop", "Restart", "End"},
           actor[l].pc = "select", actor[l].child # 0, BeginStop(l, op), alive' = alive,
           UNCHANGED <<buffer, handled, overflowed, lost, delivered, pool_serial>>
    PROVE  IInv'
<1>1. Told(Current(l))
  BY TellCurrent DEF BeginStop
<1>2. actor \in [Listeners -> ActorType] /\ actor[l] \in ActorType
  BY DEF IInv, TypeOK
<1>3. actor' = [actor EXCEPT ![l].pc = "stopping", ![l].op = op]
  BY DEF BeginStop
<1>4. Turns(l, "stopping", actor[l].child, actor[l].state, actor[l].spawns)
  BY <1>2, <1>3 DEF Turns, ActorType
<1>5. actor[l].state = "RUNNING"
  BY DEF IInv, Owned
<1>6. QED
  BY <1>1, <1>4, <1>5, TurnStep

\* The actor lets go of its child, or has none.
LEMMA ReleaseChild ==
    ASSUME IInv, NEW l \in Listeners, NEW pc \in {"select", "ended", "retry"}, NEW state,
           Turns(l, pc, 0, state, actor[l].spawns), alive' = alive,
           UNCHANGED <<buffer, handled, overflowed, lost, delivered, pool_serial>>,
           wire' = wire \/ (actor[l].child # 0 /\ Told(Current(l))),
           actor[l].child = 0 \/ Current(l) \notin alive,
           actor[l].child = 0 \/ actor[l].pc = "stopping" \/ Told(Current(l))
    PROVE  IInv'
<1>1. \A x \in alive : x[1] # l
  BY NoProcess
<1>2. QED
  BY <1>1, TurnStep

\* spawn_child fails.
LEMMA SpawnErrStep ==
    ASSUME IInv, NEW l \in Listeners, SpawnErr(l), actor[l].child = 0,
           UNCHANGED <<buffer, handled, overflowed, lost, delivered, pool_serial>>
    PROVE  IInv'
<1>1. actor \in [Listeners -> ActorType] /\ actor[l] \in ActorType
  BY DEF IInv, TypeOK
<1>2. actor' = [actor EXCEPT ![l].pc = "select", ![l].op = "none"]
      /\ alive' = alive /\ wire' = wire
  BY DEF SpawnErr
<1>3. Turns(l, "select", 0, actor[l].state, actor[l].spawns)
  BY <1>1, <1>2 DEF Turns, ActorType
<1>4. QED
  BY <1>2, <1>3, ReleaseChild

\* spawn_child, called without a child.
LEMMA SpawnChildStep ==
    ASSUME IInv, NEW l \in Listeners, SpawnChild(l), actor[l].child = 0,
           UNCHANGED <<buffer, handled, overflowed, lost, delivered, pool_serial>>
    PROVE  IInv'
<1>1. CASE SpawnOk(l)
  BY <1>1, NoProcess, SpawnStep
<1>2. CASE SpawnErr(l)
  BY <1>2, SpawnErrStep
<1>3. QED
  BY <1>1, <1>2 DEF SpawnChild

\* The task of the actor returns.
LEMMA RunEndsStep ==
    ASSUME IInv, NEW l \in Listeners, RunEnds(l), wire' = wire, alive' = alive,
           UNCHANGED <<buffer, handled, overflowed, lost, delivered, pool_serial>>,
           actor[l].child = 0 \/ (actor[l].pc = "stopping" /\ Current(l) \notin alive)
    PROVE  IInv'
<1>1. actor \in [Listeners -> ActorType] /\ actor[l] \in ActorType
  BY DEF IInv, TypeOK
<1>2. actor' = [actor EXCEPT ![l].pc = "ended", ![l].child = 0, ![l].op = "none"]
  BY DEF RunEnds
<1>3. 0 \in 0 .. MaxSpawns
  BY PoolAssumption
<1>4. Turns(l, "ended", 0, actor[l].state, actor[l].spawns)
  BY <1>1, <1>2, <1>3 DEF Turns, ActorType
<1>5. QED
  BY <1>4, ReleaseChild

\* stop_child returns.
LEMMA StopReturnsStep ==
    ASSUME IInv, NEW l \in Listeners, StopReturns(l)
    PROVE  IInv'
<1>1. actor \in [Listeners -> ActorType] /\ actor[l] \in ActorType
  BY DEF IInv, TypeOK
<1>2. /\ actor[l].pc = "stopping" /\ Current(l) \notin alive
      /\ UNCHANGED <<buffer, handled, overflowed, lost, delivered, pool_serial>>
  BY DEF StopReturns, poolFrame, poolVars
<1>3. 0 \in 0 .. MaxSpawns
  BY PoolAssumption
<1>4. actor[l].op \in {"Stop", "Restart", "End"}
  BY <1>1, <1>2 DEF IInv, Owned, ActorType
<1>5. CASE actor[l].op = "Stop"
  <2>1. /\ actor' = [actor EXCEPT ![l].pc = "select", ![l].op = "none",
                                  ![l].child = 0, ![l].state = "STOPPED"]
        /\ wire' = wire /\ alive' = alive
    BY <1>5 DEF StopReturns
  <2>2. Turns(l, "select", 0, "STOPPED", actor[l].spawns)
    BY <1>1, <1>3, <2>1 DEF Turns, ActorType
  <2>3. QED
    BY <1>2, <2>1, <2>2, ReleaseChild
<1>6. CASE actor[l].op = "Restart"
  <2>1. CASE SpawnOk(l)
    BY <1>2, <2>1, NoProcess, SpawnStep
  <2>2. CASE /\ actor' = [actor EXCEPT ![l].pc = "select", ![l].op = "none", ![l].child = 0]
             /\ UNCHANGED <<wire, alive>>
    <3>1. Turns(l, "select", 0, actor[l].state, actor[l].spawns)
      BY <1>1, <1>3, <2>2 DEF Turns, ActorType
    <3>2. QED
      BY <1>2, <2>2, <3>1, ReleaseChild
  <2>3. QED
    BY <1>6, <2>1, <2>2 DEF StopReturns
<1>7. CASE actor[l].op = "End"
  <2>1. RunEnds(l) /\ wire' = wire /\ alive' = alive
    BY <1>7 DEF StopReturns
  <2>2. QED
    BY <1>2, <2>1, RunEndsStep
<1>8. QED
  BY <1>4, <1>5, <1>6, <1>7

\* The exit of the child is noticed.
LEMMA ChildExitStep ==
    ASSUME IInv, NEW l \in Listeners, ChildExit(l)
    PROVE  IInv'
<1>1. actor \in [Listeners -> ActorType] /\ actor[l] \in ActorType
  BY DEF IInv, TypeOK
<1>2. /\ actor[l].child # 0 /\ Current(l) \notin alive /\ alive' = alive
      /\ wire' = [wire EXCEPT ![Current(l)].cancel = TRUE]
      /\ UNCHANGED <<buffer, handled, overflowed, lost, delivered, pool_serial>>
  BY DEF ChildExit, poolFrame, poolVars
<1>3. PICK pc \in {"select", "retry"} :
        actor' = [actor EXCEPT ![l].pc = pc, ![l].child = 0, ![l].state = "EXITED"]
  BY DEF ChildExit
<1>4. 0 \in 0 .. MaxSpawns
  BY PoolAssumption
<1>5. Turns(l, pc, 0, "EXITED", actor[l].spawns)
  BY <1>1, <1>3, <1>4 DEF Turns, ActorType
<1>6. Told(Current(l))
  BY <1>2, TellCurrent
<1>7. QED
  BY <1>2, <1>5, <1>6, ReleaseChild

-----------------------------------------------------------------------------
(* The theorems.                                                           *)

\* Nothing is numbered and nobody runs at first.
LEMMA InitInv ==
    Init => IInv
<1> SUFFICES ASSUME Init PROVE IInv
  OBVIOUS
<1>1. /\ buffer = <<>> /\ pool_serial = 0 /\ alive = {}
      /\ overflowed = {} /\ handled = {} /\ lost = {} /\ delivered = {}
      /\ wire = [w \in Wires |-> NoWire]
  BY DEF Init
<1>2. NoWire \in WireType /\ NoWire.env = None /\ NoWire.st = "none"
  BY DEF NoWire, WireType, Suspended
<1>3. /\ wire \in [Wires -> WireType]
      /\ \A y \in Wires : wire[y] = NoWire /\ wire[y].env = None /\ wire[y].st = "none"
  BY <1>1, <1>2
<1>4. /\ actor \in [Listeners -> ActorType]
      /\ \A l \in Listeners : /\ actor[l].pc = "select" /\ actor[l].child = 0
                              /\ actor[l].spawns = 0
  BY PoolAssumption DEF Init, ActorType
<1>5. buffer \in Seq(Nat) /\ Len(buffer) = 0 /\ DOMAIN buffer = {} /\ ToSet(buffer) = {}
  BY <1>1 DEF ToSet
<1>6. TypeOK
  BY <1>1, <1>3, <1>4, <1>5 DEF TypeOK
<1>7. Carried(wire) = {} /\ Single(wire) /\ Holds(wire)
  BY <1>3 DEF Carried, Single, Holds
<1>8. EnvelopesKept
  <2>1. 0 .. pool_serial - 1 = {}
    BY <1>1
  <2>2. Split(ToSet(buffer), Carried(wire), handled, overflowed, lost, 0 .. pool_serial - 1)
    BY <1>1, <1>5, <1>7, <2>1 DEF Split
  <2>3. IsInjective(buffer) /\ Len(buffer) <= BufferSize
    BY <1>5, PoolAssumption DEF IsInjective
  <2>4. Ordered(buffer, delivered)
    BY <1>5 DEF Ordered
  <2>5. QED
    BY <2>2, <2>3, <2>4, <1>7, KeptForm DEF Kept
<1>9. Offered
  BY <1>1, <1>7 DEF Offered, InFlight, Carried
<1>10. Wakeable
  BY <1>3 DEF Wakeable
<1>11. Wired
  <2>1. \A l \in Listeners, g \in 1 .. MaxSpawns : <<l, g>> \in Wires /\ ~(g <= 0)
    BY DEF Wires
  <2>2. QED
    BY <1>3, <1>4, <2>1 DEF Wired
<1>12. Owned
  BY <1>1, <1>4 DEF Owned
<1>13. QED
  BY <1>6, <1>8, <1>9, <1>10, <1>11, <1>12 DEF IInv

\* Every step of a wire task keeps the invariant.
LEMMA WireInv ==
    ASSUME IInv, NEW x \in Wires, WireStep(x)
    PROVE  IInv'
<1> USE DEF WireStates, Suspended
<1>1. wire[x].env # None <=> wire[x].st \in {"write", "Busy"}
  BY KeptForm DEF IInv, Kept, Holds
<1>2. CASE ReadLineReady(x) \/ FindEmpty(x)
  BY <1>2, LookStep
<1>3. CASE ReadLineUnexpected(x)
  BY <1>3, MoveStep DEF ReadLineUnexpected
<1>4. CASE PopNextEvent(x)
  BY <1>4, PopStep
<1>5. CASE AwaitNotified(x)
  BY <1>5, MoveStep DEF AwaitNotified
<1>6. CASE WriteEnvelope(x)
  BY <1>6, MoveStep DEF WriteEnvelope
<1>7. CASE WriteFails(x)
  BY <1>1, <1>7, BackStep DEF WriteFails
<1>8. CASE ResultOk(x) \/ WireCancelled(x)
  BY <1>8, ReleaseStep
<1>9. CASE ResultRejected(x) \/ ResultMalformed(x)
  BY <1>1, <1>9, BackStep DEF ResultRejected, ResultMalformed
<1>10. CASE EndOfFile(x)
  <2>1. CASE wire[x].env = None
    BY <1>1, <1>10, <2>1, MoveStep DEF EndOfFile
  <2>2. CASE wire[x].env # None
    BY <1>10, <2>2, BackStep DEF EndOfFile
  <2>3. QED
    BY <2>1, <2>2
<1>11. QED
  BY <1>2, <1>3, <1>4, <1>5, <1>6, <1>7, <1>8, <1>9, <1>10 DEF WireStep

\* Every step of an actor keeps it.
LEMMA ActorInv ==
    ASSUME IInv, NEW l \in Listeners, ActorStep(l)
    PROVE  IInv'
<1> DEFINE same == UNCHANGED <<buffer, handled, overflowed, lost, delivered, pool_serial>>
<1>1. CASE TakeStart(l)
  <2>1. same
    BY <1>1 DEF TakeStart, poolFrame, poolVars
  <2>2. CASE actor[l].child = 0
    BY <1>1, <2>1, <2>2, SpawnChildStep DEF TakeStart
  <2>3. CASE actor[l].child # 0
    BY <1>1, <2>1, <2>3, IdleStep DEF TakeStart
  <2>4. QED
    BY <2>2, <2>3
<1>2. CASE TakeSignal(l)
  BY <1>2, IdleStep DEF TakeSignal, poolFrame, poolVars
<1>3. CASE TakeStop(l)
  <2>1. same /\ alive' = alive /\ actor[l].pc = "select"
    BY <1>3 DEF TakeStop, poolFrame, poolVars
  <2>2. CASE actor[l].child = 0
    BY <1>3, <2>1, <2>2, IdleStep DEF TakeStop
  <2>3. CASE actor[l].child # 0
    BY <1>3, <2>1, <2>3, BeginStopStep DEF TakeStop
  <2>4. QED
    BY <2>2, <2>3
<1>4. CASE TakeRestart(l)
  <2>1. same /\ actor[l].pc = "select"
    BY <1>4 DEF TakeRestart, poolFrame, poolVars
  <2>2. CASE actor[l].child = 0
    BY <1>4, <2>1, <2>2, SpawnChildStep DEF TakeRestart
  <2>3. CASE actor[l].child # 0
    BY <1>4, <2>1, <2>3, BeginStopStep DEF TakeRestart
  <2>4. QED
    BY <2>2, <2>3
<1>5. CASE Cancelled(l)
  <2>1. same /\ alive' = alive /\ actor[l].pc = "select"
    BY <1>5 DEF Cancelled, poolFrame, poolVars
  <2>2. CASE actor[l].child = 0
    BY <1>5, <2>1, <2>2, RunEndsStep DEF Cancelled
  <2>3. CASE actor[l].child # 0
    BY <1>5, <2>1, <2>3, BeginStopStep DEF Cancelled
  <2>4. QED
    BY <2>2, <2>3
<1>6. CASE GraceTimeout(l)
  BY <1>6, DeathStep DEF GraceTimeout, poolFrame, poolVars, actorVars
<1>7. CASE StopReturns(l)
  BY <1>7, StopReturnsStep
<1>8. CASE ChildExit(l)
  BY <1>8, ChildExitStep
<1>9. CASE Retry(l)
  <2>1. same /\ SpawnChild(l) /\ actor[l].pc = "retry"
    BY <1>9 DEF Retry, poolFrame, poolVars
  <2>2. actor[l].child = 0
    BY <2>1 DEF IInv, Owned
  <2>3. QED
    BY <2>1, <2>2, SpawnChildStep
<1>10. QED
  BY <1>1, <1>2, <1>3, <1>4, <1>5, <1>6, <1>7, <1>8, <1>9 DEF ActorStep

\* So does every step of the pool.
LEMMA StepInv ==
    IInv /\ [Next]_vars => IInv'
<1> SUFFICES ASSUME IInv, [Next]_vars PROVE IInv'
  OBVIOUS
<1> USE DEF hubVars, poolVars, actorVars, poolFrame
<1>1. CASE UNCHANGED vars
  BY <1>1, IdleStep DEF vars
<1>2. ASSUME NEW e \in Events, Publish(e)
      PROVE  IInv'
  BY <1>2, IdleStep DEF Publish
<1>3. ASSUME NEW c \in Channels, HubReceive(c)
      PROVE  IInv'
  BY <1>3, IdleStep DEF HubReceive
<1>4. CASE HubCancelled \/ CancelAll
  BY <1>4, IdleStep DEF HubCancelled, CancelAll
<1>5. CASE AcceptEvent
  BY <1>5, AcceptStep
<1>6. ASSUME NEW x \in Wires, WireStep(x)
      PROVE  IInv'
  BY <1>6, WireInv
<1>7. ASSUME NEW x \in Wires, Dies(x)
      PROVE  IInv'
  BY <1>7, DeathStep DEF Dies
<1>8. ASSUME NEW l \in Listeners, ActorStep(l)
      PROVE  IInv'
  BY <1>8, ActorInv
<1>9. ASSUME NEW l \in Listeners, NEW op \in Ops, Call(l, op)
      PROVE  IInv'
  BY <1>9, IdleStep DEF Call
<1>10. QED
  BY <1>1, <1>2, <1>3, <1>4, <1>5, <1>6, <1>7, <1>8, <1>9 DEF Next

\* The inductive invariant holds of every run of the pool.
THEOREM PoolInvariance == Spec => []IInv
BY InitInv, StepInv, PTL DEF Spec

\* No envelope is lost, duplicated or overtaken on its way through the pool
\* (accept_event, requeue_rejected, run_wire): for any number of listeners,
\* processes and events, any buffer size, and whatever the processes write.
THEOREM EnvelopeAccounting == Spec => []EnvelopesKept
<1>1. IInv => EnvelopesKept
  BY DEF IInv
<1>2. QED
  BY <1>1, PoolInvariance, PTL

\* No listener sleeps over a filled buffer but by the window between its look
\* at the buffer and its Notified future (dispatch_notify).
THEOREM WakeupWindow == Spec => []SleepsOnlyIfMissed
<1>1. IInv => SleepsOnlyIfMissed
  BY DEF IInv, Wakeable, SleepsOnlyIfMissed
<1>2. QED
  BY <1>1, PoolInvariance, PTL

\* A listener program has at most one process, none when its published state or
\* its task says so, and cancels the wire tasks of the earlier ones.
THEOREM ProcessControl == Spec => []ListenerProcesses
<1>1. IInv => ListenerProcesses
  <2> SUFFICES ASSUME IInv, NEW l \in Listeners
               PROVE  LET mine == {x \in alive : x[1] = l} IN
                      /\ Cardinality(mine) <= 1
                      /\ (actor[l].state # "RUNNING" \/ actor[l].pc = "ended") => mine = {}
                      /\ \A x \in mine : actor[l].child = x[2]
                      /\ \A g \in 1 .. MaxSpawns : g < actor[l].child =>
                             wire[<<l, g>>].cancel \/ wire[<<l, g>>].st = "none"
    BY DEF ListenerProcesses
  <2> DEFINE mine == {x \in alive : x[1] = l}
  <2>1. actor[l] \in ActorType
    BY DEF IInv, TypeOK
  <2>2. mine \subseteq {Current(l)}
    <3>1. ASSUME NEW x \in alive, x[1] = l
          PROVE  x = Current(l)
      <4>1. x = <<x[1], x[2]>> /\ actor[x[1]].child = x[2]
        BY DEF IInv, TypeOK, Owned, Wires
      <4>2. QED
        BY <3>1, <4>1 DEF Current
    <3>2. QED
      BY <3>1
  <2>3. Cardinality(mine) <= 1
    <3>1. IsFiniteSet({Current(l)}) /\ Cardinality({Current(l)}) = 1
      BY FS_Singleton
    <3>2. Cardinality(mine) <= Cardinality({Current(l)})
      BY <2>2, <3>1, FS_Subset
    <3>3. QED
      BY <3>1, <3>2
  <2>4. ASSUME actor[l].state # "RUNNING" \/ actor[l].pc = "ended"
        PROVE  mine = {}
    <3>1. actor[l].child = 0
      BY <2>4 DEF IInv, Owned
    <3>2. QED
      BY <3>1, NoProcess
  <2>5. \A x \in mine : actor[l].child = x[2]
    BY DEF IInv, Owned
  <2>6. ASSUME NEW g \in 1 .. MaxSpawns, g < actor[l].child
        PROVE  wire[<<l, g>>].cancel
    <3>1. actor[l].child # 0 => actor[l].child <= actor[l].spawns
      BY DEF IInv, Owned
    <3>2. /\ actor[l].child \in Nat /\ actor[l].spawns \in Nat
          /\ g <= actor[l].spawns /\ g # actor[l].child
      BY <2>1, <2>6, <3>1, PoolAssumption DEF ActorType
    <3>3. QED
      BY <3>2 DEF IInv, Wired
  <2>7. QED
    BY <2>3, <2>4, <2>5, <2>6
<1>2. QED
  BY <1>1, PoolInvariance, PTL
=============================================================================
