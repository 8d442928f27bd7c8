----------------------- MODULE DependencyGraphProofs ------------------------
(***************************************************************************)
(* Kahn's algorithm in DependencyGraph::build is correct for every finite  *)
(* set of programs, every depends_on list and every hash order.            *)
(***************************************************************************)
EXTENDS DependencyGraph, DependencyOrderProofs

\* A depends_on list has finitely many positions and names known programs.
LEMMA ListFacts ==
    ASSUME TypeOK, NEW p \in DOMAIN programs
    PROVE  /\ programs[p].depends_on \in Seq(Names)
           /\ DOMAIN programs[p].depends_on = 1 .. Len(programs[p].depends_on)
           /\ IsFiniteSet(DOMAIN programs[p].depends_on)
           /\ Cardinality(DOMAIN programs[p].depends_on)
                = Len(programs[p].depends_on)
<1>1. PICK ps \in SUBSET Names : programs \in [ps -> Config]
  BY DEF TypeOK
<1>2. programs[p] \in Config
  BY <1>1
<1>3. programs[p].depends_on \in Seq(Names)
  BY <1>2, GraphAssumption DEF Config
<1>4. DOMAIN programs[p].depends_on = 1 .. Len(programs[p].depends_on)
      /\ Len(programs[p].depends_on) \in Nat
  BY <1>3
<1>. QED  BY <1>3, <1>4, FS_Interval

\* A graph has finitely many programs, all of them names.
LEMMA ProgramsFinite ==
    ASSUME TypeOK
    PROVE  /\ IsFiniteSet(DOMAIN programs)
           /\ DOMAIN programs \subseteq Names
<1>1. PICK ps \in SUBSET Names : programs \in [ps -> Config]
  BY DEF TypeOK
<1>. QED  BY <1>1, GraphAssumption, FS_Subset

\* Visiting a node closes exactly the positions that name it.
LEMMA OpenSplits ==
    ASSUME TypeOK, NEW p \in DOMAIN programs, NEW node,
           node \notin Visited, Visited' = Visited \cup {node},
           programs' = programs
    PROVE  /\ Cardinality(Open(p)') = Cardinality(Open(p)) - Edges(node, p)
           /\ Edges(node, p) \in Nat
           /\ Cardinality(Open(p)) \in Nat
           /\ Cardinality(Open(p)') \in Nat
<1> DEFINE E == {i \in DOMAIN programs[p].depends_on :
                    programs[p].depends_on[i] = node}
<1>1. IsFiniteSet(Open(p)) /\ IsFiniteSet(E)
  BY ListFacts, FS_Subset DEF Open
<1>2. Open(p)' = Open(p) \ E
  BY DEF Open
<1>3. Open(p) \cap E = E
  BY DEF Open
<1>4. Cardinality(Open(p) \ E) = Cardinality(Open(p)) - Cardinality(E)
      /\ IsFiniteSet(Open(p) \ E)
  BY <1>1, <1>3, FS_Difference
<1>. QED  BY <1>1, <1>2, <1>4, FS_CardinalityType DEF Edges

\* Edges counts the occurrences of a prerequisite.
LEMMA EdgeMeansDep ==
    ASSUME TypeOK, NEW p \in DOMAIN programs, NEW node
    PROVE  /\ Edges(node, p) \in Nat
           /\ Edges(node, p) > 0 <=> node \in Deps(programs, p)
<1> DEFINE E == {i \in DOMAIN programs[p].depends_on :
                    programs[p].depends_on[i] = node}
<1>1. IsFiniteSet(E)
  BY ListFacts, FS_Subset
<1>2. Cardinality(E) \in Nat /\ (Cardinality(E) = 0 <=> E = {})
  BY <1>1, FS_CardinalityType, FS_EmptySet
<1>3. E = {} <=> node \notin Deps(programs, p)
  BY DEF Deps
<1>. QED  BY <1>2, <1>3 DEF Edges

\* An order of S lists every element of S once.
LEMMA OrdersFacts ==
    ASSUME NEW S, IsFiniteSet(S), NEW s \in Orders(S)
    PROVE  /\ Cardinality(S) \in Nat
           /\ s \in [1 .. Cardinality(S) -> S]
           /\ \A i, j \in 1 .. Cardinality(S) : s[i] = s[j] => i = j
           /\ \A z \in S : \E i \in 1 .. Cardinality(S) : s[i] = z
<1>1. /\ s \in [1 .. Cardinality(S) -> S]
      /\ \A i, j \in DOMAIN s : s[i] = s[j] => i = j
  BY DEF Orders
<1>2. Cardinality(S) \in Nat
  BY FS_CardinalityType
<1>3. s \in Injection(1 .. Cardinality(S), S)
  BY <1>1 DEF Injection, IsInjective
<1>4. /\ IsFiniteSet(1 .. Cardinality(S))
      /\ Cardinality(1 .. Cardinality(S)) = Cardinality(S)
  BY <1>2, FS_Interval
<1>5. s \in Surjection(1 .. Cardinality(S), S)
  BY <1>3, <1>4, FS_Injection
<1>. QED  BY <1>1, <1>2, <1>5 DEF Surjection

-----------------------------------------------------------------------------
\* Kahn's algorithm starts in its invariant.
LEMMA InitKahnInv == Init => KahnInv
<1> SUFFICES ASSUME Init PROVE KahnInv
  OBVIOUS
<1>1. TypeOK
  BY DEF Init, TypeOK
<1>2. LayerExact
  BY DEF Init, LayerExact
<1>. QED  BY <1>1, <1>2 DEF Init, KahnInv, SecondTestRedundant

\* The queue filled at first: the programs without prerequisites, layer 0.
LEMMA CountStep ==
    ASSUME KahnInv, CountInDegrees
    PROVE  KahnInv'
<1>1. /\ pc = "check" /\ Buildable(programs)
      /\ pc' = "kahn" /\ programs' = programs /\ result' = result
      /\ layers_map' = layers_map /\ visited_count' = visited_count
      /\ in_degrees' = [p \in DOMAIN programs |-> Len(programs[p].depends_on)]
  BY DEF CountInDegrees, BeginKahn
<1>2. layers_map = {} /\ visited_count = 0 /\ result = "none" /\ TypeOK
  BY <1>1 DEF KahnInv
<1>3. Visited = {} /\ Visited' = {}
  BY <1>1, <1>2 DEF Visited
<1>0. PICK Z : Z = {p \in DOMAIN programs : in_degrees'[p] = 0}
  OBVIOUS
<1>4. PICK s \in Orders(Z) : queue' = [i \in DOMAIN s |-> <<s[i], 0>>]
  BY <1>0 DEF CountInDegrees, BeginKahn
<1>5. IsFiniteSet(Z) /\ Z \subseteq DOMAIN programs
  BY <1>0, <1>2, ProgramsFinite, FS_Subset
<1>6. /\ Cardinality(Z) \in Nat
      /\ s \in [1 .. Cardinality(Z) -> Z]
      /\ \A i, j \in 1 .. Cardinality(Z) : s[i] = s[j] => i = j
      /\ \A z \in Z : \E i \in 1 .. Cardinality(Z) : s[i] = z
  BY <1>5, OrdersFacts
<1>7. queue' \in [1 .. Cardinality(Z) -> (DOMAIN programs) \X Nat]
  BY <1>4, <1>5, <1>6
<1>8. /\ queue' \in Seq((DOMAIN programs) \X Nat)
      /\ DOMAIN queue' = 1 .. Cardinality(Z)
      /\ \A i \in DOMAIN queue' : queue'[i][1] = s[i] /\ queue'[i][2] = 0
  <2>1. queue' \in Seq((DOMAIN programs) \X Nat)
    BY <1>6, <1>7
  <2>2. DOMAIN queue' = 1 .. Cardinality(Z)
    BY <1>7
  <2>3. \A i \in DOMAIN queue' : queue'[i] = <<s[i], 0>>
    BY <1>4, <1>6, <2>2
  <2>. QED  BY <2>1, <2>2, <2>3
<1>9. \A p \in DOMAIN programs :
        /\ in_degrees'[p] = Cardinality(Open(p)')
        /\ in_degrees'[p] \in Nat
  <2> SUFFICES ASSUME NEW p \in DOMAIN programs
               PROVE  /\ in_degrees'[p] = Cardinality(Open(p)')
                      /\ in_degrees'[p] \in Nat
    OBVIOUS
  <2>1. Open(p)' = DOMAIN programs[p].depends_on
    BY <1>1, <1>3 DEF Open
  <2>. QED  BY <2>1, <1>1, <1>2, ListFacts, FS_CardinalityType
<1>10. TypeOK'
  BY <1>1, <1>2, <1>8, <1>9 DEF TypeOK
<1>11. DegreesCount'
  <2>1. \A p \in DOMAIN programs : in_degrees'[p] = 0 =>
             \E i \in DOMAIN queue' : queue'[i][1] = p
    BY <1>0, <1>6, <1>8
  <2>. QED  BY <2>1, <1>1, <1>9 DEF DegreesCount
<1>12. QueueSound'
  <2> SUFFICES ASSUME NEW i \in DOMAIN queue'
               PROVE  /\ queue'[i][1] \notin Visited'
                      /\ in_degrees'[queue'[i][1]] = 0
                      /\ JustAbove(queue[i][1], queue[i][2])'
                      /\ \A j \in DOMAIN queue' :
                             queue'[j][1] = queue'[i][1] => j = i
    BY DEF QueueSound
  <2>1. queue'[i][1] \in Z /\ queue'[i][2] = 0
    BY <1>6, <1>8
  <2>2. Deps(programs, queue'[i][1]) = {}
    <3>1. Len(programs[queue'[i][1]].depends_on) = 0
      BY <2>1, <1>0, <1>1
    <3>. QED  BY <3>1, <2>1, <1>0, <1>2, ListFacts DEF Deps
  <2>3. JustAbove(queue[i][1], queue[i][2])'
    BY <2>1, <2>2, <1>1 DEF JustAbove
  <2>. QED  BY <2>1, <2>3, <1>0, <1>3, <1>6, <1>8
<1>13. LayersInOrder'
  <2>1. \A i \in DOMAIN queue' : 1 \in DOMAIN queue'
    BY <1>6, <1>8
  <2>2. layers_map' = {} /\ \A i \in DOMAIN queue' : queue'[i][2] = 0
    BY <1>1, <1>2, <1>8
  <2>. QED  BY <2>1, <2>2 DEF LayersInOrder
<1>14. visited_count' = Cardinality(Visited')
  BY <1>1, <1>2, <1>3, FS_EmptySet
<1>15. LayerExact' /\ SecondTestRedundant'
  BY <1>1, <1>2 DEF LayerExact, SecondTestRedundant
<1>. QED  BY <1>1, <1>2, <1>10, <1>11, <1>12, <1>13, <1>14, <1>15 DEF KahnInv

\* One turn of Kahn's loop.
LEMMA PopStep ==
    ASSUME KahnInv, PopFront
    PROVE  KahnInv'
<1>1. PICK node, layer, R, s :
        /\ node = Head(queue)[1] /\ layer = Head(queue)[2]
        /\ R = Released(node) /\ s \in Orders(R)
        /\ layers_map' = layers_map \cup {<<node, layer>>}
        /\ in_degrees' = [p \in DOMAIN programs |->
                             in_degrees[p] - Edges(node, p)]
        /\ queue' = Tail(queue) \o [i \in DOMAIN s |-> <<s[i], layer + 1>>]
  BY DEF PopFront, Visit
<1>2. /\ pc = "kahn" /\ pc' = pc /\ programs' = programs /\ result' = result
      /\ queue # <<>> /\ visited_count' = visited_count + 1
  BY DEF PopFront, Visit
<1>3. /\ TypeOK /\ Buildable(programs) /\ DegreesCount /\ QueueSound
      /\ LayersInOrder /\ visited_count = Cardinality(Visited)
      /\ LayerExact /\ SecondTestRedundant /\ result = "none"
  BY <1>2 DEF KahnInv
<1>4. /\ queue \in Seq((DOMAIN programs) \X Nat)
      /\ in_degrees \in [DOMAIN programs -> Nat]
      /\ layers_map \subseteq (DOMAIN programs) \X Nat
  BY <1>2, <1>3 DEF TypeOK
<1>5. /\ 1 \in DOMAIN queue /\ queue[1] = Head(queue)
      /\ queue[1] \in (DOMAIN programs) \X Nat
      /\ DOMAIN queue = 1 .. Len(queue) /\ Len(queue) \in Nat \ {0}
  BY <1>2, <1>4
<1>6. /\ node \in DOMAIN programs /\ layer \in Nat
      /\ queue[1] = <<node, layer>>
      /\ node \notin Visited
  BY <1>1, <1>3, <1>5 DEF QueueSound
<1>7. /\ Visited' = Visited \cup {node}
      /\ Visited \subseteq DOMAIN programs
  <2>1. \A pair : pair \in layers_map' <=> pair \in layers_map \/ pair = <<node, layer>>
    BY <1>1
  <2>2. <<node, layer>>[1] = node
    OBVIOUS
  <2>3. \A x : x \in Visited' <=> x \in Visited \/ x = node
    BY <2>1, <2>2, Zenon DEF Visited
  <2>4. Visited \subseteq DOMAIN programs
    BY <1>4 DEF Visited
  <2>. QED  BY <2>3, <2>4
<1>8. \A p \in DOMAIN programs :
        /\ in_degrees'[p] = Cardinality(Open(p)')
        /\ in_degrees'[p] \in Nat
        /\ in_degrees'[p] = in_degrees[p] - Edges(node, p)
        /\ Edges(node, p) \in Nat
  <2> SUFFICES ASSUME NEW p \in DOMAIN programs
               PROVE  /\ in_degrees'[p] = Cardinality(Open(p)')
                      /\ in_degrees'[p] \in Nat
                      /\ in_degrees'[p] = in_degrees[p] - Edges(node, p)
                      /\ Edges(node, p) \in Nat
    OBVIOUS
  <2>1. in_degrees'[p] = in_degrees[p] - Edges(node, p)
    BY <1>1
  <2>2. in_degrees[p] = Cardinality(Open(p))
    BY <1>3 DEF DegreesCount
  <2>. QED  BY <2>1, <2>2, <1>2, <1>3, <1>6, <1>7, OpenSplits
<1>9. IsFiniteSet(R) /\ R \subseteq DOMAIN programs
  BY <1>1, <1>3, ProgramsFinite, FS_Subset DEF Released
<1>10. /\ Cardinality(R) \in Nat
       /\ s \in [1 .. Cardinality(R) -> R]
       /\ \A i, j \in 1 .. Cardinality(R) : s[i] = s[j] => i = j
       /\ \A z \in R : \E i \in 1 .. Cardinality(R) : s[i] = z
  <2>1. s \in Orders(R)
    BY <1>1
  <2>. QED  BY <2>1, <1>9, OrdersFacts
<1>11. PICK t : t = [i \in DOMAIN s |-> <<s[i], layer + 1>>]
  OBVIOUS
<1>12. t \in [1 .. Cardinality(R) -> (DOMAIN programs) \X Nat]
  BY <1>6, <1>9, <1>10, <1>11
<1>13. /\ t \in Seq((DOMAIN programs) \X Nat)
       /\ Len(t) = Cardinality(R) /\ DOMAIN t = 1 .. Cardinality(R)
       /\ \A i \in 1 .. Cardinality(R) : t[i] = <<s[i], layer + 1>>
  <2>1. t \in Seq((DOMAIN programs) \X Nat)
    BY <1>10, <1>12
  <2>2. DOMAIN t = 1 .. Cardinality(R)
    BY <1>12
  <2>3. Len(t) = Cardinality(R)
    BY <1>10, <2>1, <2>2
  <2>. QED  BY <2>1, <2>2, <2>3, <1>10, <1>11
<1> DEFINE n == Len(queue) - 1
<1>14. /\ queue' = Tail(queue) \o t
       /\ Tail(queue) \in Seq((DOMAIN programs) \X Nat)
       /\ Len(Tail(queue)) = n
       /\ \A i \in 1 .. n : Tail(queue)[i] = queue[i + 1]
  BY <1>1, <1>4, <1>5, <1>11
<1>15. /\ queue' \in Seq((DOMAIN programs) \X Nat)
       /\ DOMAIN queue' = 1 .. n + Cardinality(R)
       /\ \A i \in 1 .. n : queue'[i] = queue[i + 1]
       /\ \A i \in n + 1 .. n + Cardinality(R) :
              queue'[i] = <<s[i - n], layer + 1>>
  <2>1. /\ queue' \in Seq((DOMAIN programs) \X Nat)
        /\ Len(queue') = n + Cardinality(R)
        /\ \A i \in 1 .. n : queue'[i] = Tail(queue)[i]
        /\ \A i \in n + 1 .. n + Cardinality(R) : queue'[i] = t[i - n]
    BY <1>13, <1>14, <1>5, <1>10
  <2>. QED  BY <2>1, <1>5, <1>10, <1>13, <1>14
<1>16. TypeOK'
  <2>1. in_degrees' \in [DOMAIN programs -> Nat]
    BY <1>1, <1>8
  <2>2. layers_map' \subseteq (DOMAIN programs) \X Nat
    BY <1>1, <1>4, <1>6
  <2>3. visited_count' \in Nat
    BY <1>2, <1>3 DEF TypeOK
  <2>. QED  BY <2>1, <2>2, <2>3, <1>2, <1>3, <1>15 DEF TypeOK
<1>17. \A p \in R : /\ p \in DOMAIN programs /\ in_degrees'[p] = 0
                    /\ in_degrees[p] # 0 /\ node \in Deps(programs, p)
  <2> SUFFICES ASSUME NEW p \in R
               PROVE  /\ p \in DOMAIN programs /\ in_degrees'[p] = 0
                      /\ in_degrees[p] # 0 /\ node \in Deps(programs, p)
    OBVIOUS
  <2>1. p \in DOMAIN programs /\ Edges(node, p) > 0
        /\ in_degrees[p] = Edges(node, p)
    BY <1>1 DEF Released
  <2>. QED  BY <2>1, <1>3, <1>8, EdgeMeansDep
<1>18. \A d \in DOMAIN programs : d \in Visited' => \E m \in 0 .. layer : <<d, m>> \in layers_map'
  <2> SUFFICES ASSUME NEW d \in DOMAIN programs, d \in Visited'
               PROVE  \E m \in 0 .. layer : <<d, m>> \in layers_map'
    OBVIOUS
  <2>1. CASE d = node
    BY <2>1, <1>1, <1>6
  <2>2. CASE d # node
    <3>1. PICK pair \in layers_map : pair[1] = d
      BY <2>2, <1>7 DEF Visited
    <3>2. pair = <<d, pair[2]>> /\ pair[2] \in Nat
      BY <3>1, <1>4
    <3>3. pair[2] <= layer
      BY <3>1, <1>3, <1>5, <1>6 DEF LayersInOrder
    <3>4. pair \in layers_map' /\ pair[2] \in 0 .. layer
      BY <3>1, <3>2, <3>3, <1>1, <1>6
    <3>. QED  BY <3>2, <3>4
  <2>. QED  BY <2>1, <2>2
<1>20. DegreesCount'
  <2> SUFFICES ASSUME NEW p \in DOMAIN programs, in_degrees'[p] = 0
               PROVE  p \in Visited' \/ \E i \in DOMAIN queue' : queue'[i][1] = p
    BY <1>2, <1>8 DEF DegreesCount
  <2>1. CASE p \in R
    <3>1. PICK i \in 1 .. Cardinality(R) : s[i] = p
      BY <2>1, <1>10
    <3>2. n + i \in n + 1 .. n + Cardinality(R) /\ n + i \in DOMAIN queue'
          /\ (n + i) - n = i
      BY <1>5, <1>10, <1>15
    <3>3. queue'[n + i] = <<p, layer + 1>>
      BY <3>1, <3>2, <1>15
    <3>. QED  BY <3>2, <3>3
  <2>2. CASE p \notin R
    <3>1. in_degrees[p] = 0
      BY <2>2, <1>1, <1>4, <1>8 DEF Released
    <3>2. CASE p \in Visited
      BY <3>2, <1>7
    <3>3. CASE p \notin Visited
      <4>1. PICK i \in DOMAIN queue : queue[i][1] = p
        BY <3>1, <3>3, <1>3 DEF DegreesCount
      <4>2. CASE i = 1
        BY <4>1, <4>2, <1>6, <1>7
      <4>3. CASE i # 1
        <5>1. i - 1 \in 1 .. n /\ i - 1 \in DOMAIN queue' /\ (i - 1) + 1 = i
          BY <4>3, <1>5, <1>10, <1>15
        <5>. QED  BY <4>1, <5>1, <1>15
      <4>. QED  BY <4>2, <4>3
    <3>. QED  BY <3>2, <3>3
  <2>. QED  BY <2>1, <2>2
\* Where an entry of the new queue comes from.
<1>21. \A i \in DOMAIN queue' :
         \/ /\ i \in 1 .. n /\ i + 1 \in DOMAIN queue /\ i + 1 # 1
            /\ queue'[i] = queue[i + 1]
            /\ queue'[i][1] \notin R /\ queue'[i][1] # node
         \/ /\ i \in n + 1 .. n + Cardinality(R)
            /\ i - n \in 1 .. Cardinality(R)
            /\ queue'[i] = <<s[i - n], layer + 1>>
            /\ s[i - n] \in R
  <2> SUFFICES ASSUME NEW i \in DOMAIN queue'
               PROVE  \/ /\ i \in 1 .. n /\ i + 1 \in DOMAIN queue /\ i + 1 # 1
                         /\ queue'[i] = queue[i + 1]
                         /\ queue'[i][1] \notin R /\ queue'[i][1] # node
                      \/ /\ i \in n + 1 .. n + Cardinality(R)
                         /\ i - n \in 1 .. Cardinality(R)
                         /\ queue'[i] = <<s[i - n], layer + 1>>
                         /\ s[i - n] \in R
    OBVIOUS
  <2>1. i \in 1 .. n \/ i \in n + 1 .. n + Cardinality(R)
    BY <1>5, <1>10, <1>15
  <2>2. CASE i \in 1 .. n
    <3>1. i + 1 \in DOMAIN queue /\ i + 1 # 1 /\ queue'[i] = queue[i + 1]
      BY <2>2, <1>5, <1>15
    <3>2. in_degrees[queue[i + 1][1]] = 0 /\ queue[i + 1][1] # queue[1][1]
      BY <3>1, <1>3, <1>5 DEF QueueSound
    <3>3. queue'[i][1] \notin R /\ queue'[i][1] # node
      BY <3>1, <3>2, <1>6, <1>17
    <3>. QED  BY <2>2, <3>1, <3>3
  <2>3. CASE i \in n + 1 .. n + Cardinality(R)
    <3>1. i - n \in 1 .. Cardinality(R)
      BY <2>3, <1>5, <1>10
    <3>. QED  BY <2>3, <3>1, <1>10, <1>15
  <2>. QED  BY <2>1, <2>2, <2>3
<1> HIDE DEF n
<1>n. n \in Nat
  BY <1>5 DEF n
<1>22. QueueSound'
  <2> SUFFICES ASSUME NEW i \in DOMAIN queue'
               PROVE  /\ queue'[i][1] \notin Visited'
                      /\ in_degrees'[queue'[i][1]] = 0
                      /\ JustAbove(queue[i][1], queue[i][2])'
                      /\ \A j \in DOMAIN queue' :
                             queue'[j][1] = queue'[i][1] => j = i
    BY DEF QueueSound
  <2>1. CASE i \in 1 .. n /\ i + 1 \in DOMAIN queue /\ i + 1 # 1
             /\ queue'[i] = queue[i + 1]
             /\ queue'[i][1] \notin R /\ queue'[i][1] # node
    <3>1. /\ queue[i + 1] \in (DOMAIN programs) \X Nat
          /\ queue[i + 1][1] \notin Visited
          /\ in_degrees[queue[i + 1][1]] = 0
          /\ JustAbove(queue[i + 1][1], queue[i + 1][2])
      BY <2>1, <1>3, <1>4, <1>5 DEF QueueSound
    <3>2. queue'[i][1] \notin Visited'
      BY <2>1, <3>1, <1>7
    <3>3. in_degrees'[queue'[i][1]] = 0
      BY <2>1, <3>1, <1>8
    <3>5. JustAbove(queue[i][1], queue[i][2])'
      BY <2>1, <3>1, <1>1, <1>2 DEF JustAbove
    <3>6. ASSUME NEW j \in DOMAIN queue', queue'[j][1] = queue'[i][1]
          PROVE  j = i
      <4>1. j \in 1 .. n /\ j + 1 \in DOMAIN queue /\ queue'[j] = queue[j + 1]
        BY <3>6, <2>1, <1>21
      <4>2. j + 1 = i + 1
        BY <4>1, <3>6, <2>1, <1>3 DEF QueueSound
      <4>. QED  BY <4>1, <4>2, <2>1, <1>n
    <3>. QED  BY <3>2, <3>3, <3>5, <3>6
  <2>2. CASE i \in n + 1 .. n + Cardinality(R) /\ i - n \in 1 .. Cardinality(R)
             /\ queue'[i] = <<s[i - n], layer + 1>> /\ s[i - n] \in R
    <3>0. PICK p : p = s[i - n]
      OBVIOUS
    <3>1. /\ p \in DOMAIN programs /\ in_degrees'[p] = 0
          /\ in_degrees[p] # 0 /\ node \in Deps(programs, p)
      BY <2>2, <3>0, <1>17
    <3>2. queue'[i][1] = p /\ queue'[i][2] = layer + 1
      BY <2>2, <3>0
    <3>3. Deps(programs, p) \subseteq Visited'
      <4>1. Cardinality(Open(p)') = 0
        BY <3>1, <1>8
      <4>2. IsFiniteSet(Open(p)')
        BY <3>1, <1>2, <1>3, ListFacts, FS_Subset DEF Open
      <4>3. Open(p)' = {}
        BY <4>1, <4>2, FS_EmptySet
      <4>. QED  BY <4>3, <1>2 DEF Open, Deps
    <3>4. p \notin Visited'
      <4>1. p # node
        BY <3>1, <1>3, <1>5, <1>6 DEF QueueSound
      <4>2. ASSUME p \in Visited PROVE FALSE
        <5>1. PICK pair \in layers_map : pair[1] = p
          BY <4>2 DEF Visited
        <5>2. \A d \in Deps(programs, p) : d \in Visited
          <6>1. ASSUME NEW d \in Deps(programs, p) PROVE d \in Visited
            <7>1. PICK m \in 0 .. pair[2] - 1 : <<d, m>> \in layers_map
              BY <5>1, <6>1, <1>3 DEF LayerExact, JustAbove
            <7>2. <<d, m>>[1] = d
              OBVIOUS
            <7>. QED  BY <7>1, <7>2, Zenon DEF Visited
          <6>. QED  BY <6>1
        <5>. QED  BY <5>2, <3>1, <1>6
      <4>. QED  BY <4>1, <4>2, <1>7
    <3>5. JustAbove(queue[i][1], queue[i][2])'
      <4>1. ASSUME NEW d \in Deps(programs, p)
            PROVE  \E m \in 0 .. (layer + 1) - 1 : <<d, m>> \in layers_map'
        <5>1. d \in Visited' /\ d \in DOMAIN programs
          BY <3>3, <1>6, <1>7
        <5>. QED  BY <5>1, <1>18, <1>6
      <4>2. <<node, (layer + 1) - 1>> \in layers_map'
        BY <1>1, <1>6
      <4>. QED  BY <4>1, <4>2, <3>1, <3>2, <1>2 DEF JustAbove
    <3>6. ASSUME NEW j \in DOMAIN queue', queue'[j][1] = queue'[i][1]
          PROVE  j = i
      <4>1. j \in n + 1 .. n + Cardinality(R) /\ j - n \in 1 .. Cardinality(R)
            /\ queue'[j] = <<s[j - n], layer + 1>>
        BY <3>6, <2>2, <1>21
      <4>2. j - n = i - n
        BY <4>1, <3>6, <2>2, <1>10
      <4>. QED  BY <4>1, <4>2, <2>2, <1>10, <1>n
    <3>. QED  BY <3>1, <3>2, <3>4, <3>5, <3>6
  <2>. QED  BY <2>1, <2>2, <1>21
<1>23. LayersInOrder'
  <2>1. \A i \in DOMAIN queue' :
          /\ queue'[i][2] \in Nat
          /\ layer <= queue'[i][2] /\ queue'[i][2] <= layer + 1
    <3>1. \A k \in DOMAIN queue : queue[k][2] \in Nat /\ layer <= queue[k][2]
                                  /\ queue[k][2] <= layer + 1
      <4> SUFFICES ASSUME NEW k \in DOMAIN queue
                   PROVE  queue[k][2] \in Nat /\ layer <= queue[k][2]
                          /\ queue[k][2] <= layer + 1
        OBVIOUS
      <4>1. queue[k] \in (DOMAIN programs) \X Nat
        BY <1>4
      <4>2. queue[1][2] = layer /\ 1 <= k
        BY <1>5, <1>6
      <4>3. queue[1][2] <= queue[k][2] /\ queue[k][2] <= queue[1][2] + 1
        BY <4>2, <1>3, <1>5 DEF LayersInOrder
      <4>. QED  BY <4>1, <4>2, <4>3
    <3>. QED  BY <3>1, <1>6, <1>21
  <2>2. \A i, j \in DOMAIN queue' : i <= j => queue'[i][2] <= queue'[j][2]
    <3> SUFFICES ASSUME NEW i \in DOMAIN queue', NEW j \in DOMAIN queue', i <= j
                 PROVE  queue'[i][2] <= queue'[j][2]
      OBVIOUS
    <3>1. CASE j \in 1 .. n
      <4>1. i \in 1 .. n
        BY <3>1, <1>n, <1>10, <1>15 DEF n
      <4>2. /\ queue'[i] = queue[i + 1] /\ queue'[j] = queue[j + 1]
            /\ i + 1 \in DOMAIN queue /\ j + 1 \in DOMAIN queue
            /\ i + 1 <= j + 1
        BY <3>1, <4>1, <1>5, <1>15, SMTT(30) DEF n
      <4>. QED  BY <4>2, <1>3 DEF LayersInOrder
    <3>2. CASE j \notin 1 .. n
      <4>1. queue'[j][2] = layer + 1
        BY <3>2, <1>21
      <4>. QED  BY <4>1, <2>1
    <3>. QED  BY <3>1, <3>2
  <2>3. \A pair \in layers_map' : pair[2] <= layer
    BY <1>1, <1>3, <1>5, <1>6 DEF LayersInOrder
  <2>4. \A pair \in layers_map' : pair[2] \in Nat
    BY <1>1, <1>4, <1>6
  <2>5. \A i \in DOMAIN queue' : 1 \in DOMAIN queue'
    BY <1>15, <1>n, <1>10 DEF n
  <2>6. \A i \in DOMAIN queue' : queue'[i][2] <= queue'[1][2] + 1
    BY <2>1, <2>5, <1>6
  <2>7. \A i \in DOMAIN queue' : \A pair \in layers_map' : pair[2] <= queue'[i][2]
    BY <2>1, <2>3, <2>4, <1>6
  <2>. QED  BY <2>2, <2>6, <2>7 DEF LayersInOrder
<1>24. visited_count' = Cardinality(Visited')
  <2>1. IsFiniteSet(Visited)
    BY <1>3, <1>7, ProgramsFinite, FS_Subset
  <2>. QED  BY <2>1, <1>2, <1>3, <1>6, <1>7, FS_AddElement
<1>25. LayerExact'
  <2> SUFFICES ASSUME NEW pair \in layers_map'
               PROVE  /\ JustAbove(pair[1], pair[2])'
                      /\ \A other \in layers_map' :
                             other[1] = pair[1] => other = pair
    BY DEF LayerExact
  <2>1. JustAbove(node, layer)
    BY <1>3, <1>5, <1>6 DEF QueueSound
  <2>2. \A q \in layers_map : JustAbove(q[1], q[2]) /\ q[1] # node
    BY <1>3, <1>6 DEF LayerExact, Visited
  <2>3. JustAbove(pair[1], pair[2]) /\ pair[1] \in DOMAIN programs /\ pair[2] \in Nat
    BY <2>1, <2>2, <1>1, <1>4, <1>6
  <2>4. JustAbove(pair[1], pair[2])'
    BY <2>3, <1>1, <1>2 DEF JustAbove
  <2>5. \A other \in layers_map' : other[1] = pair[1] => other = pair
    <3>1. layers_map' = layers_map \cup {<<node, layer>>}
      BY <1>1
    <3>2. \A q, r \in layers_map : q[1] = r[1] => q = r
      BY <1>3 DEF LayerExact
    <3>. QED  BY <2>2, <3>1, <3>2, SMTT(30)
  <2>. QED  BY <2>4, <2>5
<1>. QED  BY <1>2, <1>3, <1>16, <1>20, <1>22, <1>23, <1>24, <1>25
          DEF KahnInv, SecondTestRedundant

\* When the queue is empty every program has been visited: the others would
\* each have an unvisited prerequisite, so they would form a cycle.
LEMMA AllVisited ==
    ASSUME KahnInv, pc = "kahn", queue = <<>>
    PROVE  /\ Visited = DOMAIN programs
           /\ visited_count = Cardinality(DOMAIN programs)
<1>1. /\ TypeOK /\ Buildable(programs) /\ DegreesCount
      /\ visited_count = Cardinality(Visited)
      /\ layers_map \subseteq (DOMAIN programs) \X Nat
  BY DEF KahnInv, TypeOK
<1> DEFINE U == DOMAIN programs \ Visited
<1>2. Visited \subseteq DOMAIN programs
  BY <1>1 DEF Visited
<1>3. ASSUME NEW p \in U
      PROVE  Deps(programs, p) \cap U # {}
  <2>1. Cardinality(Open(p)) # 0
    <3>1. DOMAIN queue = {}
      OBVIOUS
    <3>. QED  BY <3>1, <1>1, <1>3 DEF DegreesCount
  <2>2. Open(p) # {}
    BY <2>1, FS_EmptySet
  <2>3. PICK d \in Deps(programs, p) : d \notin Visited
    BY <2>2 DEF Open, Deps
  <2>4. d \in DOMAIN programs
    BY <1>1, <1>3, <2>3 DEF Buildable, HasUnknown
  <2>. QED  BY <2>3, <2>4
<1>4. U = {}
  BY <1>1, <1>3 DEF Buildable, Cyclic
<1>5. Visited = DOMAIN programs
  BY <1>2, <1>4
<1>. QED  BY <1>1, <1>5

\* Every step of Kahn's algorithm keeps its invariant.
LEMMA StepKahnInv == KahnInv /\ [Next]_vars => KahnInv'
<1> SUFFICES ASSUME KahnInv, [Next]_vars PROVE KahnInv'
  OBVIOUS
<1>1. CASE RejectUnknown \/ RejectCycle
  <2>1. /\ UNCHANGED <<programs, in_degrees, queue, layers_map, visited_count>>
        /\ pc' = "done"
        /\ result' \in {"unknown program", "circular dependency"}
    BY <1>1 DEF RejectUnknown, RejectCycle, Fail
  <2>2. TypeOK' /\ LayerExact'
    BY <2>1 DEF KahnInv, TypeOK, LayerExact, JustAbove
  <2>. QED  BY <2>1, <2>2 DEF KahnInv, SecondTestRedundant
<1>2. CASE CountInDegrees
  BY <1>2, CountStep
<1>3. CASE PopFront
  BY <1>3, PopStep
<1>4. CASE QueueEmpty
  <2>1. pc = "kahn" /\ queue = <<>>
    BY <1>4 DEF QueueEmpty
  <2>2. visited_count = Cardinality(DOMAIN programs)
    BY <2>1, AllVisited
  <2>3. /\ UNCHANGED <<programs, in_degrees, queue, layers_map, visited_count>>
        /\ pc' = "done" /\ result' = "ok"
    BY <1>4, <2>2 DEF QueueEmpty
  <2>4. TypeOK' /\ LayerExact'
    BY <2>3 DEF KahnInv, TypeOK, LayerExact, JustAbove
  <2>. QED  BY <2>3, <2>4 DEF KahnInv, SecondTestRedundant
<1>5. CASE UNCHANGED vars
  <2>1. /\ programs' = programs /\ pc' = pc /\ result' = result
        /\ in_degrees' = in_degrees /\ queue' = queue
        /\ layers_map' = layers_map /\ visited_count' = visited_count
    BY <1>5 DEF vars
  <2>2. TypeOK' <=> TypeOK
    BY <2>1 DEF TypeOK
  <2>3. Visited' = Visited
    BY <2>1 DEF Visited
  <2>4. DegreesCount' <=> DegreesCount
    BY <2>1, <2>3 DEF DegreesCount, Open
  <2>5. QueueSound' <=> QueueSound
    BY <2>1, <2>3 DEF QueueSound, JustAbove
  <2>6. (LayersInOrder' <=> LayersInOrder) /\ (LayerExact' <=> LayerExact)
    BY <2>1 DEF LayersInOrder, LayerExact, JustAbove
  <2>. QED  BY <2>1, <2>2, <2>3, <2>4, <2>5, <2>6 DEF KahnInv, SecondTestRedundant
<1>. QED  BY <1>1, <1>2, <1>3, <1>4, <1>5 DEF Next

-----------------------------------------------------------------------------
\* The programs of a graph can be compared.
LEMMA ProgramsComparable ==
    ASSUME TypeOK
    PROVE  Comparable(programs)
<1>1. PICK ps \in SUBSET Names : programs \in [ps -> Config]
  BY DEF TypeOK
<1>2. ASSUME NEW p \in DOMAIN programs PROVE p \in Int /\ programs[p].priority \in Int
  <2>1. p \in Names /\ programs[p] \in Config
    BY <1>1
  <2>2. programs[p].priority \in Priority
    BY <2>1 DEF Config
  <2>. QED  BY <2>1, <2>2, GraphAssumption
<1>. QED  BY <1>2 DEF Comparable

\* layers_map, when every program is in it, is the layering of the programs.
LEMMA LayersMapIs ==
    ASSUME TypeOK, Buildable(programs), LayerExact, Visited = DOMAIN programs
    PROVE  \E f \in [DOMAIN programs -> Nat] :
              /\ IsLayering(programs, f)
              /\ layers_map = {<<p, f[p]>> : p \in DOMAIN programs}
<1> DEFINE f == [p \in DOMAIN programs |-> CHOOSE l \in Nat : <<p, l>> \in layers_map]
<1>1. layers_map \subseteq (DOMAIN programs) \X Nat
  BY DEF TypeOK
<1>2. \A p \in DOMAIN programs : \E l \in Nat : <<p, l>> \in layers_map
  <2>1. ASSUME NEW p \in DOMAIN programs PROVE \E l \in Nat : <<p, l>> \in layers_map
    <3>1. PICK pair \in layers_map : pair[1] = p
      BY DEF Visited
    <3>2. pair = <<p, pair[2]>> /\ pair[2] \in Nat
      BY <1>1, <3>1
    <3>. QED  BY <3>1, <3>2
  <2>. QED  BY <2>1
<1>3. \A p \in DOMAIN programs : f[p] \in Nat /\ <<p, f[p]>> \in layers_map
  BY <1>2
<1>4. f \in [DOMAIN programs -> Nat]
  BY <1>3
<1> HIDE DEF f
<1>5. \A p \in DOMAIN programs, l \in Nat : <<p, l>> \in layers_map => l = f[p]
  <2>1. ASSUME NEW p \in DOMAIN programs, NEW l \in Nat, <<p, l>> \in layers_map
        PROVE  l = f[p]
    <3>1. <<p, l>>[1] = p /\ <<p, f[p]>>[1] = p
      OBVIOUS
    <3>2. <<p, l>> = <<p, f[p]>>
      BY <1>3, <2>1, <3>1, Zenon DEF LayerExact
    <3>. QED  BY <3>2
  <2>. QED  BY <2>1
<1>6. layers_map = {<<p, f[p]>> : p \in DOMAIN programs}
  <2>1. ASSUME NEW pair \in layers_map PROVE \E p \in DOMAIN programs : pair = <<p, f[p]>>
    <3>1. pair[1] \in DOMAIN programs /\ pair[2] \in Nat /\ pair = <<pair[1], pair[2]>>
      BY <1>1
    <3>2. <<pair[1], pair[2]>> \in layers_map
      BY <3>1
    <3>3. pair[2] = f[pair[1]]
      BY <3>1, <3>2, <1>5
    <3>. QED  BY <3>1, <3>3
  <2>. QED  BY <2>1, <1>3
<1>7. IsLayering(programs, f)
  <2> SUFFICES ASSUME NEW p \in DOMAIN programs
               PROVE  /\ \A d \in Deps(programs, p) : f[d] < f[p]
                      /\ f[p] # 0 => \E d \in Deps(programs, p) : f[p] = f[d] + 1
    BY DEF IsLayering
  <2>1. JustAbove(p, f[p])
    <3>1. PICK pair : pair = <<p, f[p]>>
      OBVIOUS
    <3>2. pair \in layers_map /\ pair[1] = p /\ pair[2] = f[p]
      BY <3>1, <1>3
    <3>. QED  BY <3>2 DEF LayerExact
  <2>2. \A d \in Deps(programs, p) : d \in DOMAIN programs
    BY DEF Buildable, HasUnknown
  <2>3. ASSUME NEW d \in Deps(programs, p) PROVE f[d] < f[p]
    <3>1. PICK m \in 0 .. f[p] - 1 : <<d, m>> \in layers_map
      BY <2>1 DEF JustAbove
    <3>2. m \in Nat /\ f[p] \in Nat /\ m < f[p]
      BY <3>1, <1>4
    <3>3. m = f[d]
      BY <3>1, <3>2, <2>2, <1>5
    <3>. QED  BY <3>2, <3>3
  <2>4. ASSUME f[p] # 0 PROVE \E d \in Deps(programs, p) : f[p] = f[d] + 1
    <3>1. PICK d \in Deps(programs, p) : <<d, f[p] - 1>> \in layers_map
      BY <2>1, <2>4 DEF JustAbove
    <3>2. f[p] \in Nat /\ f[p] - 1 \in Nat
      BY <2>4, <1>4
    <3>3. f[d] = f[p] - 1
      BY <3>1, <3>2, <2>2, <1>5
    <3>. QED  BY <3>1, <3>2, <3>3
  <2>. QED  BY <2>3, <2>4
<1>. QED  BY <1>4, <1>6, <1>7

\* The layers of layers_map, sorted one by one, are the reference's.
LEMMA SortedLayers ==
    ASSUME TypeOK, Buildable(programs), LayerExact, Visited = DOMAIN programs, SortLayers
    PROVE  start_layers' = StartLayers(programs) /\ stop_layers' = StopLayers(programs)
<1>1. IsFiniteSet(DOMAIN programs)
  BY ProgramsFinite
<1>2. PICK f \in [DOMAIN programs -> Nat] :
          /\ IsLayering(programs, f)
          /\ layers_map = {<<p, f[p]>> : p \in DOMAIN programs}
  BY LayersMapIs
<1>3. Layering(programs) = f
  BY <1>1, <1>2, LayeringIs
<1>4. PICK n : n = Depth(programs, f)
  OBVIOUS
<1>5. n \in Nat /\ {f[p] : p \in DOMAIN programs} = 0 .. n - 1
  BY <1>1, <1>2, <1>4, LayersWithoutGaps DEF Buildable
<1>6. {pair[2] : pair \in layers_map} = 0 .. n - 1
  <2>1. {pair[2] : pair \in layers_map} = {f[p] : p \in DOMAIN programs}
    <3>1. ASSUME NEW pair \in layers_map PROVE pair[2] \in {f[p] : p \in DOMAIN programs}
      BY <1>2
    <3>2. ASSUME NEW p \in DOMAIN programs PROVE f[p] \in {pair[2] : pair \in layers_map}
      <4>1. <<p, f[p]>> \in layers_map /\ <<p, f[p]>>[2] = f[p]
        BY <1>2
      <4>. QED  BY <4>1, Zenon
    <3>. QED  BY <3>1, <3>2
  <2>. QED  BY <2>1, <1>5
<1>7. SortedBy({pair[2] : pair \in layers_map}, LAMBDA a, b : a < b) = [i \in 1 .. n |-> i - 1]
  BY <1>5, <1>6, NumbersSorted
<1>8. \A l : {p \in DOMAIN programs : <<p, l>> \in layers_map} = Level(f, l)
  <2>1. \A l : \A p \in DOMAIN programs : <<p, l>> \in layers_map <=> f[p] = l
    BY <1>2
  <2>. QED  BY <2>1, <1>2 DEF Level
<1> DEFINE seqA == LayerSeq(LAMBDA a, b : StartsBefore(programs, a, b))
           seqO == LayerSeq(LAMBDA a, b : StopsBefore(programs, a, b))
<1>9. seqA = [i \in 1 .. n |-> SortedBy(Level(f, i - 1),
                                LAMBDA a, b : StartsBefore(programs, a, b))]
  BY <1>7, <1>8, Zenon DEF LayerSeq
<1>10. seqO = [i \in 1 .. n |-> SortedBy(Level(f, i - 1),
                                 LAMBDA a, b : StopsBefore(programs, a, b))]
  BY <1>7, <1>8, Zenon DEF LayerSeq
<1>11. start_layers' = StartLayers(programs)
  <2>1. start_layers' = seqA
    BY Zenon DEF SortLayers
  <2>. QED  BY <2>1, <1>3, <1>4, <1>9, Zenon DEF StartLayers
<1>12. stop_layers' = StopLayers(programs)
  <2>1. stop_layers' = [i \in DOMAIN seqO |-> seqO[Len(seqO) + 1 - i]]
    BY Zenon DEF SortLayers
  <2>2. PICK so : so = seqO
    OBVIOUS
  <2>3. DOMAIN so = 1 .. n /\ Len(so) = n
    <3>1. DOMAIN so = 1 .. n /\ so = [i \in 1 .. n |-> so[i]]
      BY <2>2, <1>10, Zenon
    <3>. QED  BY <3>1, <1>5
  <2>4. stop_layers' = [i \in 1 .. n |-> so[n + 1 - i]]
    BY <2>1, <2>2, <2>3, Zenon
  <2>5. PICK t : t = StopLayers(programs)
    OBVIOUS
  <2>6. t = [i \in 1 .. n |-> SortedBy(Level(f, n - i),
                                LAMBDA a, b : StopsBefore(programs, a, b))]
    BY <2>5, <1>3, <1>4, Zenon DEF StopLayers
  <2>7. ASSUME NEW i \in 1 .. n PROVE so[n + 1 - i] = t[i]
    <3>1. n + 1 - i \in 1 .. n /\ (n + 1 - i) - 1 = n - i
      BY <1>5
    <3>2. PICK k \in 1 .. n : k = n + 1 - i /\ k - 1 = n - i
      BY <3>1
    <3>3. so[k] = SortedBy(Level(f, k - 1), LAMBDA a, b : StopsBefore(programs, a, b))
      BY <2>2, <1>10, Zenon
    <3>4. t[i] = SortedBy(Level(f, n - i), LAMBDA a, b : StopsBefore(programs, a, b))
      BY <2>6, Zenon
    <3>. QED  BY <3>2, <3>3, <3>4, Zenon
  <2>8. DOMAIN t = 1 .. n /\ t = [i \in 1 .. n |-> t[i]]
    BY <2>6, Zenon
  <2>9. stop_layers' = t
    BY <2>4, <2>7, <2>8, Zenon
  <2>. QED  BY <2>5, <2>9
<1>. QED  BY <1>11, <1>12

\* What build returns when it is done, kept from then on.
ResultInv == KahnInv /\ LayersSound

\* The order is right when it is first returned: the queue is empty.
LEMMA EmptySound ==
    ASSUME KahnInv, QueueEmpty
    PROVE  LayersSound'
<1>1. /\ pc = "kahn" /\ queue = <<>> /\ pc' = "done" /\ programs' = programs
      /\ TypeOK /\ LayerExact /\ Buildable(programs)
  BY DEF QueueEmpty, KahnInv
<1>2. Visited = DOMAIN programs /\ visited_count = Cardinality(DOMAIN programs)
  BY <1>1, AllVisited
<1>3. result' = "ok" /\ SortLayers
  BY <1>2 DEF QueueEmpty
<1>4. start_layers' = StartLayers(programs) /\ stop_layers' = StopLayers(programs)
  BY <1>1, <1>2, <1>3, SortedLayers
<1>5. MatchesReference'
  BY <1>1, <1>3, <1>4, Zenon DEF MatchesReference
<1>6. \A p \in DOMAIN programs : InStopOrder(programs, StopLayers(programs), p)
  <2>1. IsFiniteSet(DOMAIN programs) /\ Comparable(programs)
    BY <1>1, ProgramsFinite, ProgramsComparable
  <2>. QED  BY <1>1, <2>1, AllInStopOrder
<1>7. \A p \in DOMAIN programs : InStopOrder(programs, stop_layers', p)
  BY <1>4, <1>6, Zenon
<1>8. StopsDependentsFirst'
  <2>1. (\A p \in DOMAIN programs : InStopOrder(programs, stop_layers, p))'
    BY <1>1, <1>7, Zenon
  <2>. QED  BY <2>1 DEF StopsDependentsFirst, InStopOrder
<1>. QED  BY <1>5, <1>8 DEF LayersSound

\* Every step keeps what was returned.
LEMMA StepResultInv == ResultInv /\ [Next]_vars => ResultInv'
<1> SUFFICES ASSUME ResultInv, [Next]_vars PROVE ResultInv'
  OBVIOUS
<1>0. KahnInv /\ KahnInv' /\ LayersSound
  BY StepKahnInv DEF ResultInv
<1>1. CASE RejectUnknown \/ RejectCycle
  <2>1. /\ programs' = programs /\ pc' = "done" /\ result' # "ok"
        /\ ~Buildable(programs)
    BY <1>1 DEF RejectUnknown, RejectCycle, Fail, Buildable
  <2>2. MatchesReference'
    BY <2>1, Zenon DEF MatchesReference
  <2>3. StopsDependentsFirst'
    BY <2>1, Zenon DEF StopsDependentsFirst
  <2>. QED  BY <1>0, <2>2, <2>3 DEF ResultInv, LayersSound
<1>2. CASE CountInDegrees \/ PopFront
  <2>1. pc' = "kahn"
    BY <1>2 DEF CountInDegrees, BeginKahn, PopFront, Visit
  <2>2. result' = "none"
    BY <1>0, <2>1 DEF KahnInv
  <2>3. MatchesReference'
    BY <2>1 DEF MatchesReference
  <2>4. StopsDependentsFirst'
    BY <2>2, Zenon DEF StopsDependentsFirst
  <2>. QED  BY <1>0, <2>3, <2>4 DEF ResultInv, LayersSound
<1>3. CASE QueueEmpty
  BY <1>0, <1>3, EmptySound DEF ResultInv
<1>4. CASE UNCHANGED vars
  <2>1. /\ programs' = programs /\ pc' = pc /\ result' = result
        /\ start_layers' = start_layers /\ stop_layers' = stop_layers
    BY <1>4 DEF vars
  <2>2. MatchesReference' /\ StopsDependentsFirst'
    <3>1. MatchesReference'
      BY <1>0, <2>1, Zenon DEF LayersSound, MatchesReference
    <3>2. StopsDependentsFirst'
      BY <1>0, <2>1 DEF LayersSound, StopsDependentsFirst, Deps
    <3>. QED  BY <3>1, <3>2
  <2>. QED  BY <1>0, <2>2 DEF ResultInv, LayersSound
<1>. QED  BY <1>1, <1>2, <1>3, <1>4 DEF Next

-----------------------------------------------------------------------------
(***************************************************************************)
(* The loop invariant of DependencyGraph::build holds of every behaviour.  *)
(***************************************************************************)
THEOREM LoopInvariant == Spec => []KahnInv
<1>. QED  BY InitKahnInv, StepKahnInv, PTL DEF Spec

(***************************************************************************)
(* Every program is placed once, one layer above its highest prerequisite, *)
(* whatever the hash order (dag.rs:84-100).                                *)
(***************************************************************************)
THEOREM Layered == Spec => []LayerExact
<1>1. KahnInv => LayerExact
  BY DEF KahnInv
<1>. QED  BY <1>1, LoopInvariant, PTL

(***************************************************************************)
(* The second test for cycles (dag.rs:102-106) never fires.                *)
(***************************************************************************)
THEOREM SecondTestNeverFires == Spec => []SecondTestRedundant
<1>1. KahnInv => SecondTestRedundant
  BY DEF KahnInv
<1>. QED  BY <1>1, LoopInvariant, PTL

(***************************************************************************)
(* What build returns (dag.rs:102-156) is the order DependencyOrder        *)
(* defines, whatever the hash order: an error exactly for an unknown       *)
(* prerequisite or a cycle, else layers that stop every program exactly    *)
(* once and before each of its prerequisites.                              *)
(***************************************************************************)
THEOREM OrderReturned == Spec => []LayersSound
<1>1. Init => ResultInv
  <2> SUFFICES ASSUME Init PROVE ResultInv
    OBVIOUS
  <2>1. KahnInv
    BY InitKahnInv
  <2>2. pc = "check" /\ result = "none"
    BY DEF Init
  <2>3. MatchesReference /\ StopsDependentsFirst
    BY <2>2, Zenon DEF MatchesReference, StopsDependentsFirst
  <2>. QED  BY <2>1, <2>3 DEF ResultInv, LayersSound
<1>2. ResultInv => LayersSound
  BY DEF ResultInv
<1>. QED  BY <1>1, <1>2, StepResultInv, PTL DEF Spec
=============================================================================
