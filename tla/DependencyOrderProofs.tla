----------------------- MODULE DependencyOrderProofs ------------------------
(***************************************************************************)
(* The layers DependencyOrder defines: they exist, are unique, and lose no *)
(* program.  None of it needs an induction: what an induction would show   *)
(* follows from the least counterexample, or from the absence of a cycle.  *)
(***************************************************************************)
EXTENDS DependencyOrder, FiniteSetTheorems, WellFoundedInduction, TLAPS

\* A set of naturals that is not empty has a least element.
LEMMA LeastNatural ==
    ASSUME NEW T, T \subseteq Nat, T # {}
    PROVE  \E x \in T : \A y \in T : x <= y
<1>1. \E x \in T : \A y \in T : ~(<<y, x>> \in OpToRel(<, Nat))
  BY NatLessThanWellFounded, WFMin, Zenon
<1>2. PICK x \in T : \A y \in T : ~(<<y, x>> \in OpToRel(<, Nat))
  BY <1>1
<1>3. ASSUME NEW y \in T PROVE x <= y
  <2>1. ~(<<y, x>> \in OpToRel(<, Nat))
    BY <1>2
  <2>2. ~(y < x)
    BY <2>1 DEF OpToRel
  <2>. QED  BY <2>2
<1>. QED  BY <1>3

\* A finite set of naturals that has the predecessor of each of its elements is
\* an interval from 0.
LEMMA InitialInterval ==
    ASSUME NEW I, I \subseteq Nat, IsFiniteSet(I),
           \A n \in I : n # 0 => n - 1 \in I
    PROVE  /\ Cardinality(I) \in Nat
           /\ I = 0 .. Cardinality(I) - 1
<1>0. Cardinality(I) \in Nat
  BY FS_CardinalityType
<1>1. Nat \ I # {}
  <2> SUFFICES ASSUME Nat \subseteq I PROVE FALSE
    OBVIOUS
  <2>1. 0 .. Cardinality(I) \subseteq I
    BY <1>0
  <2>2. Cardinality(0 .. Cardinality(I)) = Cardinality(I) + 1
    BY <1>0, FS_Interval
  <2>3. Cardinality(0 .. Cardinality(I)) <= Cardinality(I)
    BY <2>1, FS_Subset
  <2>. QED  BY <1>0, <2>2, <2>3
<1>2. PICK n \in Nat \ I : \A y \in Nat \ I : n <= y
  BY <1>1, LeastNatural
<1>3. 0 .. n - 1 \subseteq I
  <2>1. ASSUME NEW k \in 0 .. n - 1 PROVE k \in I
    BY <1>2
  <2>. QED  BY <2>1
<1>4. \A k \in I : k < n
  <2> DEFINE T == {k \in I : n < k}
  <2>1. T = {}
    <3> SUFFICES ASSUME T # {} PROVE FALSE
      OBVIOUS
    <3>1. PICK k \in T : \A y \in T : k <= y
      BY LeastNatural
    <3>2. k \in Nat /\ k # 0 /\ k - 1 \in I /\ n < k
      BY <3>1
    <3>3. k - 1 # n
      BY <3>2, <1>2
    <3>4. k - 1 \in T
      BY <3>2, <3>3
    <3>. QED  BY <3>1, <3>2, <3>4
  <2>2. ASSUME NEW k \in I PROVE k < n
    <3>1. k # n /\ k \in Nat /\ n \in Nat
      BY <1>2
    <3>2. ~(n < k)
      BY <2>1
    <3>. QED  BY <3>1, <3>2
  <2>. QED  BY <2>2
<1>5. I = 0 .. n - 1
  <2>1. ASSUME NEW k \in I PROVE k \in 0 .. n - 1
    BY <1>2, <1>4
  <2>. QED  BY <2>1, <1>3
<1>6. Cardinality(I) = n
  BY <1>2, <1>5, FS_Interval
<1>. QED  BY <1>0, <1>5, <1>6

-----------------------------------------------------------------------------
\* The layers of a layering are numbered from 0 without gaps.
LEMMA LayersWithoutGaps ==
    ASSUME NEW c, IsFiniteSet(DOMAIN c), ~HasUnknown(c),
           NEW f \in [DOMAIN c -> Nat], IsLayering(c, f)
    PROVE  /\ Depth(c, f) \in Nat
           /\ {f[p] : p \in DOMAIN c} = 0 .. Depth(c, f) - 1
           /\ Depth(c, f) <= Cardinality(DOMAIN c)
<1> DEFINE I == {f[p] : p \in DOMAIN c}
<1>1. f \in Surjection(DOMAIN c, I)
  BY DEF Surjection
<1>2. IsFiniteSet(I) /\ Cardinality(I) <= Cardinality(DOMAIN c)
  BY <1>1, FS_Surjection
<1>3. I \subseteq Nat
  OBVIOUS
<1>4. ASSUME NEW n \in I, n # 0 PROVE n - 1 \in I
  <2>1. PICK p \in DOMAIN c : n = f[p]
    OBVIOUS
  <2>2. PICK d \in Deps(c, p) : f[p] = f[d] + 1
    BY <2>1, <1>4 DEF IsLayering
  <2>3. d \in DOMAIN c /\ f[d] \in Nat
    BY <2>2 DEF HasUnknown
  <2>4. n - 1 = f[d]
    BY <2>1, <2>2, <2>3
  <2>. QED  BY <2>3, <2>4
<1>5. Cardinality(I) \in Nat /\ I = 0 .. Cardinality(I) - 1
  BY <1>2, <1>3, <1>4, InitialInterval
<1>. QED  BY <1>2, <1>5 DEF Depth

\* There is only one layering: programs on which two differ would all wait for
\* one another.
LEMMA OneLayering ==
    ASSUME NEW c, Buildable(c),
           NEW f \in [DOMAIN c -> Nat], IsLayering(c, f),
           NEW g \in [DOMAIN c -> Nat], IsLayering(c, g)
    PROVE  f = g
<1> DEFINE D == {p \in DOMAIN c : f[p] # g[p]}
<1>1. ASSUME NEW p \in DOMAIN c, \A d \in Deps(c, p) : f[d] = g[d]
      PROVE  f[p] = g[p]
  <2>1. \A d \in Deps(c, p) : d \in DOMAIN c
    BY DEF Buildable, HasUnknown
  <2>2. \A d \in Deps(c, p) : f[d] < f[p] /\ g[d] < g[p] /\ f[d] \in Nat /\ g[d] \in Nat
    BY <2>1 DEF IsLayering
  <2>3. f[p] \in Nat /\ g[p] \in Nat
    OBVIOUS
  <2>4. CASE f[p] = 0
    <3>1. Deps(c, p) = {}
      BY <2>2, <2>4
    <3>. QED  BY <3>1, <2>4 DEF IsLayering
  <2>5. CASE g[p] = 0
    <3>1. Deps(c, p) = {}
      BY <2>2, <2>5
    <3>. QED  BY <3>1, <2>5 DEF IsLayering
  <2>6. CASE f[p] # 0 /\ g[p] # 0
    <3>1. PICK d \in Deps(c, p) : f[p] = f[d] + 1
      BY <2>6 DEF IsLayering
    <3>2. PICK e \in Deps(c, p) : g[p] = g[e] + 1
      BY <2>6 DEF IsLayering
    <3>3. f[d] = g[d] /\ f[e] = g[e] /\ g[d] < g[p] /\ f[e] < f[p]
      BY <1>1, <2>2
    <3>4. f[d] \in Nat /\ g[e] \in Nat
      BY <2>2
    <3>. QED  BY <2>3, <3>1, <3>2, <3>3, <3>4
  <2>. QED  BY <2>4, <2>5, <2>6
<1>2. D = {}
  <2> SUFFICES ASSUME D # {} PROVE FALSE
    OBVIOUS
  <2>1. D \in SUBSET DOMAIN c
    OBVIOUS
  <2>2. PICK p \in D : Deps(c, p) \cap D = {}
    BY <2>1 DEF Buildable, Cyclic
  <2>3. \A d \in Deps(c, p) : d \in DOMAIN c
    BY <2>2 DEF Buildable, HasUnknown
  <2>. QED  BY <2>2, <2>3, <1>1
<1>. QED  BY <1>2

\* A layering of the programs is the one Layering chooses.
LEMMA LayeringIs ==
    ASSUME NEW c, IsFiniteSet(DOMAIN c), Buildable(c),
           NEW f \in [DOMAIN c -> Nat], IsLayering(c, f)
    PROVE  Layering(c) = f
<1>0. Cardinality(DOMAIN c) \in Nat
  BY FS_CardinalityType
<1>1. /\ Depth(c, f) \in Nat
      /\ {f[p] : p \in DOMAIN c} = 0 .. Depth(c, f) - 1
      /\ Depth(c, f) <= Cardinality(DOMAIN c)
  BY LayersWithoutGaps DEF Buildable
<1>2. f \in [DOMAIN c -> 0 .. Cardinality(DOMAIN c)]
  <2>1. ASSUME NEW p \in DOMAIN c PROVE f[p] \in 0 .. Cardinality(DOMAIN c)
    <3>1. f[p] \in 0 .. Depth(c, f) - 1
      BY <1>1
    <3>. QED  BY <3>1, <1>0, <1>1
  <2>. QED  BY <2>1
<1>3. PICK g : g = Layering(c)
  OBVIOUS
<1>4. g \in [DOMAIN c -> 0 .. Cardinality(DOMAIN c)] /\ IsLayering(c, g)
  BY <1>2, <1>3 DEF Layering
<1>5. g \in [DOMAIN c -> Nat]
  BY <1>0, <1>4
<1>6. g = f
  BY <1>4, <1>5, OneLayering
<1>. QED  BY <1>3, <1>6

\* A finite set of naturals that is not empty has a greatest element: the one
\* with the fewest elements above it.
LEMMA GreatestNatural ==
    ASSUME NEW T, T \subseteq Nat, T # {}, IsFiniteSet(T)
    PROVE  \E x \in T : \A y \in T : y <= x
<1> DEFINE Above(x) == {y \in T : x < y}
           C == {Cardinality(Above(x)) : x \in T}
<1>1. ASSUME NEW x \in T PROVE IsFiniteSet(Above(x)) /\ Cardinality(Above(x)) \in Nat
  <2>1. Above(x) \in SUBSET T
    OBVIOUS
  <2>. QED  BY <2>1, FS_Subset, FS_CardinalityType
<1>2. ASSUME NEW x \in T, NEW y \in Above(x)
      PROVE  Cardinality(Above(y)) < Cardinality(Above(x))
  <2>1. Above(y) \in SUBSET Above(x)
    <3>1. ASSUME NEW z \in Above(y) PROVE z \in Above(x)
      <4>1. x \in Nat /\ y \in Nat /\ z \in Nat /\ z \in T /\ x < y /\ y < z
        BY <1>2, <3>1
      <4>. QED  BY <4>1
    <3>. QED  BY <3>1
  <2>2. y \in Above(x) /\ y \notin Above(y) /\ y \in T
    OBVIOUS
  <2>3. /\ Cardinality(Above(y)) <= Cardinality(Above(x))
        /\ Cardinality(Above(x)) = Cardinality(Above(y)) => Above(x) = Above(y)
    BY <2>1, <1>1, FS_Subset
  <2>. QED  BY <2>2, <2>3, <1>1
<1>3. \A x \in T : Above(x) = {} => \A y \in T : y <= x
  OBVIOUS
<1>4. \A x \in T : Above(x) \subseteq T
  OBVIOUS
<1> HIDE DEF Above
<1>5. C \subseteq Nat /\ C # {}
  BY <1>1
<1>6. PICK k \in C : \A j \in C : k <= j
  BY <1>5, LeastNatural, Zenon
<1>7. PICK x \in T : k = Cardinality(Above(x))
  BY <1>6
<1>8. Above(x) = {}
  <2>1. ASSUME NEW y \in Above(x) PROVE FALSE
    <3>1. y \in T
      BY <2>1, <1>4
    <3>2. Cardinality(Above(y)) < Cardinality(Above(x))
      BY <2>1, <1>2
    <3>3. Cardinality(Above(y)) \in C
      BY <3>1
    <3>4. k <= Cardinality(Above(y))
      BY <3>3, <1>6
    <3>. QED  BY <3>1, <3>2, <3>4, <1>1, <1>7
  <2>. QED  BY <2>1
<1>. QED  BY <1>3, <1>8

\* f is a layering of the programs of S, which depend on none outside S.
Partial(c, S, f) ==
    /\ f \in [S -> Nat]
    /\ \A p \in S :
           /\ Deps(c, p) \subseteq S
           /\ \A d \in Deps(c, p) : f[d] < f[p]
           /\ f[p] # 0 => \E d \in Deps(c, p) : f[p] = f[d] + 1

\* A partial layering can be extended by a program whose prerequisites it has.
LEMMA OneMore ==
    ASSUME NEW c, NEW S, IsFiniteSet(S), NEW f, Partial(c, S, f),
           NEW p, p \notin S, Deps(c, p) \subseteq S
    PROVE  \E g : Partial(c, S \cup {p}, g)
<1>1. PICK l \in Nat : /\ \A d \in Deps(c, p) : f[d] < l
                       /\ l # 0 => \E d \in Deps(c, p) : l = f[d] + 1
  <2>1. CASE Deps(c, p) = {}
    <3>1. 0 \in Nat
      OBVIOUS
    <3>. QED  BY <2>1, <3>1
  <2>2. CASE Deps(c, p) # {}
    <3> DEFINE D == Deps(c, p)
               T == {f[d] : d \in D}
               h == [d \in D |-> f[d]]
    <3>1. \A d \in D : f[d] \in Nat
      BY DEF Partial
    <3>2. IsFiniteSet(D)
      BY FS_Subset
    <3>3. h \in Surjection(D, T)
      BY DEF Surjection
    <3>4. IsFiniteSet(T)
      BY <3>2, <3>3, FS_Surjection
    <3>5. T \subseteq Nat /\ T # {}
      BY <3>1, <2>2
    <3>6. PICK m \in T : \A y \in T : y <= m
      BY <3>4, <3>5, GreatestNatural, Zenon
    <3>7. PICK e \in D : m = f[e]
      BY <3>6
    <3>8. m + 1 \in Nat /\ \A d \in D : f[d] < m + 1
      BY <3>1, <3>6, <3>7
    <3>. QED  BY <3>7, <3>8
  <2>. QED  BY <2>1, <2>2
<1>2. PICK g : g = [q \in S \cup {p} |-> IF q = p THEN l ELSE f[q]]
  OBVIOUS
<1>3. g \in [S \cup {p} -> Nat] /\ g[p] = l /\ \A q \in S : g[q] = f[q]
  BY <1>2 DEF Partial
<1>4. ASSUME NEW q \in S \cup {p}
      PROVE  /\ Deps(c, q) \subseteq S \cup {p}
             /\ \A d \in Deps(c, q) : g[d] < g[q]
             /\ g[q] # 0 => \E d \in Deps(c, q) : g[q] = g[d] + 1
  <2>1. CASE q = p
    BY <2>1, <1>1, <1>3
  <2>2. CASE q \in S
    <3>1. /\ Deps(c, q) \subseteq S
          /\ \A d \in Deps(c, q) : f[d] < f[q]
          /\ f[q] # 0 => \E d \in Deps(c, q) : f[q] = f[d] + 1
      BY <2>2 DEF Partial
    <3>. QED  BY <2>2, <3>1, <1>3
  <2>. QED  BY <2>1, <2>2
<1>. QED  BY <1>3, <1>4 DEF Partial

\* Programs that can be ordered have a layering: a partial one that leaves out
\* the fewest programs leaves out none, or these would wait for one another.
LEMMA LayeringExists ==
    ASSUME NEW c, IsFiniteSet(DOMAIN c), Buildable(c)
    PROVE  \E f \in [DOMAIN c -> Nat] : IsLayering(c, f)
<1> DEFINE Done == {S \in SUBSET DOMAIN c : \E f : Partial(c, S, f)}
           C == {Cardinality(DOMAIN c \ S) : S \in Done}
<1>1. ASSUME NEW S \in SUBSET DOMAIN c
      PROVE  IsFiniteSet(DOMAIN c \ S) /\ Cardinality(DOMAIN c \ S) \in Nat
  BY FS_Difference, FS_CardinalityType
<1>2. {} \in Done
  <2>1. PICK f : f = [p \in {} |-> 0]
    OBVIOUS
  <2>2. Partial(c, {}, f)
    BY <2>1 DEF Partial
  <2>. QED  BY <2>2
<1>3. C \subseteq Nat /\ C # {}
  BY <1>1, <1>2
<1>4. PICK k \in C : \A j \in C : k <= j
  BY <1>3, LeastNatural, Zenon
<1>5. PICK S \in Done : k = Cardinality(DOMAIN c \ S)
  BY <1>4
<1>6. PICK f : Partial(c, S, f)
  BY <1>5
<1>7. S \in SUBSET DOMAIN c /\ IsFiniteSet(S)
  BY <1>5, FS_Subset
<1>8. S = DOMAIN c
  <2> SUFFICES ASSUME DOMAIN c \ S # {} PROVE FALSE
    BY <1>7
  <2>1. PICK U : U = DOMAIN c \ S
    OBVIOUS
  <2>2. PICK p \in U : Deps(c, p) \cap U = {}
    BY <2>1 DEF Buildable, Cyclic
  <2>3. p \in DOMAIN c /\ p \notin S /\ Deps(c, p) \subseteq S
    BY <2>1, <2>2 DEF Buildable, HasUnknown
  <2>4. PICK g : Partial(c, S \cup {p}, g)
    BY <2>3, <1>6, <1>7, OneMore
  <2>5. S \cup {p} \in Done
    BY <2>3, <2>4, <1>7
  <2>6. Cardinality(DOMAIN c \ (S \cup {p})) \in C
    BY <2>5
  <2>7. DOMAIN c \ (S \cup {p}) = U \ {p} /\ IsFiniteSet(U)
    BY <2>1, <1>1, <1>7
  <2>8. Cardinality(U \ {p}) = Cardinality(U) - 1 /\ Cardinality(U) \in Nat
    BY <2>2, <2>7, FS_RemoveElement, FS_CardinalityType
  <2>9. k <= Cardinality(U) - 1
    BY <2>6, <2>7, <2>8, <1>4
  <2>. QED  BY <2>1, <2>8, <2>9, <1>5
<1>9. IsLayering(c, f) /\ f \in [DOMAIN c -> Nat]
  BY <1>6, <1>8 DEF Partial, IsLayering
<1>. QED  BY <1>9

-----------------------------------------------------------------------------
\* R is a strict total order of S.
TotalOrder(S, R) ==
    /\ \A a \in S : <<a, a>> \notin R
    /\ \A a, b \in S : a # b => <<a, b>> \in R \/ <<b, a>> \in R
    /\ \A a, b, d \in S : <<a, b>> \in R /\ <<b, d>> \in R => <<a, d>> \in R

\* s lists S in the order R.
Arranges(s, S, R) ==
    /\ s \in [1 .. Cardinality(S) -> S]
    /\ \A i, j \in 1 .. Cardinality(S) : i < j => <<s[i], s[j]>> \in R

\* A finite set with a strict total order can be sorted: an element's place is
\* the number of elements before it.
LEMMA Sortable ==
    ASSUME NEW S, IsFiniteSet(S), NEW R, TotalOrder(S, R)
    PROVE  \E s : Arranges(s, S, R)
<1> DEFINE n == Cardinality(S)
           Below(x) == {y \in S : <<y, x>> \in R}
           rank == [x \in S |-> Cardinality(Below(x)) + 1]
<1>0. n \in Nat
  BY FS_CardinalityType
<1>1. \A x \in S : IsFiniteSet(Below(x)) /\ Cardinality(Below(x)) \in Nat
  <2>1. ASSUME NEW x \in S PROVE IsFiniteSet(Below(x)) /\ Cardinality(Below(x)) \in Nat
    <3>1. Below(x) \in SUBSET S
      OBVIOUS
    <3>. QED  BY <3>1, FS_Subset, FS_CardinalityType
  <2>. QED  BY <2>1
<1>2. ASSUME NEW x \in S PROVE Cardinality(Below(x)) < n
  <2>1. Below(x) \in SUBSET S /\ x \notin Below(x)
    BY DEF TotalOrder
  <2>2. Cardinality(Below(x)) <= n /\ (n = Cardinality(Below(x)) => S = Below(x))
    BY <2>1, FS_Subset
  <2>. QED  BY <2>1, <2>2, <1>0, <1>1
<1>3. ASSUME NEW x \in S, NEW y \in S, <<x, y>> \in R
      PROVE  Cardinality(Below(x)) < Cardinality(Below(y))
  <2>1. Below(x) \in SUBSET Below(y)
    BY <1>3 DEF TotalOrder
  <2>2. x \in Below(y) /\ x \notin Below(x)
    BY <1>3 DEF TotalOrder
  <2>3. /\ Cardinality(Below(x)) <= Cardinality(Below(y))
        /\ Cardinality(Below(y)) = Cardinality(Below(x)) => Below(y) = Below(x)
    BY <2>1, <1>1, FS_Subset
  <2>. QED  BY <2>2, <2>3, <1>1
<1> HIDE DEF Below
<1>4. \A x \in S : rank[x] \in 1 .. n /\ rank[x] = Cardinality(Below(x)) + 1
  BY <1>0, <1>1, <1>2
<1>5. \A x, y \in S : rank[x] = rank[y] => x = y
  <2>1. ASSUME NEW x \in S, NEW y \in S, rank[x] = rank[y], x # y PROVE FALSE
    <3>1. Cardinality(Below(x)) = Cardinality(Below(y))
      BY <2>1, <1>1, <1>4
    <3>2. <<x, y>> \in R \/ <<y, x>> \in R
      BY <2>1 DEF TotalOrder
    <3>. QED  BY <3>1, <3>2, <1>1, <1>3
  <2>. QED  BY <2>1
<1>6. rank \in Injection(S, 1 .. n)
  BY <1>4, <1>5 DEF Injection, IsInjective
<1>7. IsFiniteSet(1 .. n) /\ Cardinality(1 .. n) = n
  BY <1>0, FS_Interval
<1>8. rank \in Surjection(S, 1 .. n)
  BY <1>6, <1>7, FS_Injection
<1>9. \A i \in 1 .. n : \E x \in S : rank[x] = i
  BY <1>8 DEF Surjection
<1> HIDE DEF rank
<1> DEFINE s == [i \in 1 .. n |-> CHOOSE x \in S : rank[x] = i]
<1>10. \A i \in 1 .. n : s[i] \in S /\ rank[s[i]] = i
  BY <1>9
<1>11. s \in [1 .. n -> S]
  BY <1>10
<1> HIDE DEF s
<1>12. ASSUME NEW i \in 1 .. n, NEW j \in 1 .. n, i < j PROVE <<s[i], s[j]>> \in R
  <2>1. s[i] \in S /\ s[j] \in S /\ rank[s[i]] = i /\ rank[s[j]] = j
    BY <1>10
  <2>2. s[i] # s[j]
    BY <2>1, <1>12
  <2>3. ~(<<s[j], s[i]>> \in R)
    <3>1. ASSUME <<s[j], s[i]>> \in R PROVE FALSE
      <4>1. Cardinality(Below(s[j])) < Cardinality(Below(s[i]))
        BY <2>1, <3>1, <1>3
      <4>2. rank[s[j]] < rank[s[i]]
        BY <2>1, <4>1, <1>1, <1>4
      <4>. QED  BY <2>1, <4>2, <1>12
    <3>. QED  BY <3>1
  <2>. QED  BY <2>1, <2>2, <2>3 DEF TotalOrder
<1>. QED  BY <1>11, <1>12 DEF Arranges

\* s lists every element of S, once.
ListsOnce(s, S) ==
    /\ Cardinality(S) \in Nat
    /\ s \in [1 .. Cardinality(S) -> S]
    /\ \A i, j \in 1 .. Cardinality(S) : s[i] = s[j] => i = j
    /\ \A x \in S : \E i \in 1 .. Cardinality(S) : s[i] = x

\* A list of a finite set in a strict order has every element, once.
LEMMA ListsAll ==
    ASSUME NEW S, IsFiniteSet(S), NEW R, TotalOrder(S, R), NEW s, Arranges(s, S, R)
    PROVE  ListsOnce(s, S)
<1> DEFINE n == Cardinality(S)
<1>0. n \in Nat
  BY FS_CardinalityType
<1>1. s \in [1 .. n -> S] /\ \A i, j \in 1 .. n : i < j => <<s[i], s[j]>> \in R
  BY DEF Arranges
<1>2. ASSUME NEW i \in 1 .. n, NEW j \in 1 .. n, s[i] = s[j] PROVE i = j
  <2>1. ~(i < j) /\ ~(j < i)
    BY <1>1, <1>2 DEF TotalOrder
  <2>. QED  BY <1>0, <2>1
<1>3. s \in Injection(1 .. n, S)
  BY <1>1, <1>2 DEF Injection, IsInjective
<1>4. IsFiniteSet(1 .. n) /\ Cardinality(1 .. n) = n
  BY <1>0, FS_Interval
<1>5. s \in Surjection(1 .. n, S)
  BY <1>3, <1>4, FS_Injection
<1>. QED  BY <1>0, <1>1, <1>2, <1>5 DEF Surjection, ListsOnce

\* The maps of configurations whose programs can be compared.
Comparable(c) == \A p \in DOMAIN c : p \in Int /\ c[p].priority \in Int

\* The start order is a strict total order of the programs.
LEMMA StartsTotal ==
    ASSUME NEW c, Comparable(c), NEW S, S \subseteq DOMAIN c
    PROVE  TotalOrder(S, {e \in S \X S : StartsBefore(c, e[1], e[2])})
<1> DEFINE R == {e \in S \X S : StartsBefore(c, e[1], e[2])}
<1>1. \A a, b \in S : <<a, b>> \in R <=> StartsBefore(c, a, b)
  OBVIOUS
<1> HIDE DEF R
<1>2. PICK prio : prio = [a \in S |-> c[a].priority]
  OBVIOUS
<1>3. \A a \in S : a \in Int /\ prio[a] \in Int /\ c[a].priority = prio[a]
  BY <1>2 DEF Comparable
<1>4. \A a, b \in S : StartsBefore(c, a, b)
                        <=> (prio[a] < prio[b] \/ (prio[a] = prio[b] /\ a < b))
  BY <1>3 DEF StartsBefore
<1>5. /\ \A a \in S : <<a, a>> \notin R
      /\ \A a, b \in S : a # b => <<a, b>> \in R \/ <<b, a>> \in R
  BY <1>1, <1>3, <1>4
<1>6. ASSUME NEW a \in S, NEW b \in S, NEW d \in S, <<a, b>> \in R, <<b, d>> \in R
      PROVE  <<a, d>> \in R
  BY <1>1, <1>3, <1>4, <1>6
<1>7. TotalOrder(S, R)
  BY <1>5, <1>6 DEF TotalOrder
<1>. QED  BY <1>7 DEF R

\* Sorted in the start order, a set of programs is complete.
LEMMA StartsSorted ==
    ASSUME NEW c, Comparable(c), NEW S, S \subseteq DOMAIN c, IsFiniteSet(S)
    PROVE  ListsOnce(SortedBy(S, LAMBDA a, b : StartsBefore(c, a, b)), S)
<1>1. PICK R : R = {e \in S \X S : StartsBefore(c, e[1], e[2])}
  OBVIOUS
<1>2. TotalOrder(S, R)
  BY <1>1, StartsTotal
<1>3. \A a, b \in S : <<a, b>> \in R <=> StartsBefore(c, a, b)
  BY <1>1
<1>4. PICK t : Arranges(t, S, R)
  BY <1>2, Sortable
<1>5. /\ t \in [1 .. Cardinality(S) -> S]
      /\ \A i, j \in DOMAIN t : i < j => StartsBefore(c, t[i], t[j])
  BY <1>3, <1>4 DEF Arranges
<1>6. PICK s : s = SortedBy(S, LAMBDA a, b : StartsBefore(c, a, b))
  OBVIOUS
<1>7. /\ s \in [1 .. Cardinality(S) -> S]
      /\ \A i, j \in DOMAIN s : i < j => StartsBefore(c, s[i], s[j])
  BY <1>5, <1>6 DEF SortedBy
<1>8. Arranges(s, S, R)
  BY <1>3, <1>7 DEF Arranges
<1>9. ListsOnce(s, S)
  BY <1>2, <1>8, ListsAll, Zenon
<1>. QED  BY <1>6, <1>9

\* The stop order is a strict total order of the programs.
LEMMA StopsTotal ==
    ASSUME NEW c, Comparable(c), NEW S, S \subseteq DOMAIN c
    PROVE  TotalOrder(S, {e \in S \X S : StopsBefore(c, e[1], e[2])})
<1> DEFINE R == {e \in S \X S : StopsBefore(c, e[1], e[2])}
<1>1. \A a, b \in S : <<a, b>> \in R <=> StopsBefore(c, a, b)
  OBVIOUS
<1> HIDE DEF R
<1>2. PICK prio : prio = [a \in S |-> c[a].priority]
  OBVIOUS
<1>3. \A a \in S : a \in Int /\ prio[a] \in Int /\ c[a].priority = prio[a]
  BY <1>2 DEF Comparable
<1>4. \A a, b \in S : StopsBefore(c, a, b)
                        <=> (prio[a] > prio[b] \/ (prio[a] = prio[b] /\ a < b))
  BY <1>3 DEF StopsBefore
<1>5. /\ \A a \in S : <<a, a>> \notin R
      /\ \A a, b \in S : a # b => <<a, b>> \in R \/ <<b, a>> \in R
  BY <1>1, <1>3, <1>4
<1>6. ASSUME NEW a \in S, NEW b \in S, NEW d \in S, <<a, b>> \in R, <<b, d>> \in R
      PROVE  <<a, d>> \in R
  BY <1>1, <1>3, <1>4, <1>6
<1>7. TotalOrder(S, R)
  BY <1>5, <1>6 DEF TotalOrder
<1>. QED  BY <1>7 DEF R

\* Sorted in the stop order, a set of programs is complete.
LEMMA StopsSorted ==
    ASSUME NEW c, Comparable(c), NEW S, S \subseteq DOMAIN c, IsFiniteSet(S)
    PROVE  ListsOnce(SortedBy(S, LAMBDA a, b : StopsBefore(c, a, b)), S)
<1>1. PICK R : R = {e \in S \X S : StopsBefore(c, e[1], e[2])}
  OBVIOUS
<1>2. TotalOrder(S, R)
  BY <1>1, StopsTotal
<1>3. \A a, b \in S : <<a, b>> \in R <=> StopsBefore(c, a, b)
  BY <1>1
<1>4. PICK t : Arranges(t, S, R)
  BY <1>2, Sortable
<1>5. /\ t \in [1 .. Cardinality(S) -> S]
      /\ \A i, j \in DOMAIN t : i < j => StopsBefore(c, t[i], t[j])
  BY <1>3, <1>4 DEF Arranges
<1>6. PICK s : s = SortedBy(S, LAMBDA a, b : StopsBefore(c, a, b))
  OBVIOUS
<1>7. /\ s \in [1 .. Cardinality(S) -> S]
      /\ \A i, j \in DOMAIN s : i < j => StopsBefore(c, s[i], s[j])
  BY <1>5, <1>6 DEF SortedBy
<1>8. Arranges(s, S, R)
  BY <1>3, <1>7 DEF Arranges
<1>9. ListsOnce(s, S)
  BY <1>2, <1>8, ListsAll, Zenon
<1>. QED  BY <1>6, <1>9

\* The numbers below n, sorted, are 0, 1, ..., n - 1.
LEMMA NumbersSorted ==
    ASSUME NEW n \in Nat
    PROVE  SortedBy(0 .. n - 1, LAMBDA a, b : a < b) = [i \in 1 .. n |-> i - 1]
<1>0. Cardinality(0 .. n - 1) = n
  BY FS_Interval
<1>1. PICK s : s = SortedBy(0 .. n - 1, LAMBDA a, b : a < b)
  OBVIOUS
<1>2. PICK t : t = [i \in 1 .. n |-> i - 1]
  OBVIOUS
<1>3. t \in [1 .. n -> 0 .. n - 1] /\ \A i, j \in DOMAIN t : i < j => t[i] < t[j]
  BY <1>2
<1>4. s \in [1 .. n -> 0 .. n - 1] /\ \A i, j \in 1 .. n : i < j => s[i] < s[j]
  BY <1>0, <1>1, <1>3 DEF SortedBy
<1> DEFINE L == {i \in 1 .. n : s[i] < i - 1}
           H == {k \in 0 .. n - 1 : s[n - k] > n - k - 1}
<1>5. L = {}
  <2> SUFFICES ASSUME L # {} PROVE FALSE
    OBVIOUS
  <2>0. L \subseteq Nat
    OBVIOUS
  <2>1. PICK i \in L : \A j \in L : i <= j
    BY <2>0, LeastNatural, Zenon
  <2>2. i \in 1 .. n /\ s[i] \in Nat /\ s[i] < i - 1 /\ i - 1 \in 1 .. n /\ s[i - 1] \in Nat
    BY <1>4
  <2>3. s[i - 1] < s[i]
    BY <2>2, <1>4
  <2>4. i - 1 \in L
    BY <2>2, <2>3
  <2>. QED  BY <2>1, <2>2, <2>4
<1>6. H = {}
  <2> SUFFICES ASSUME H # {} PROVE FALSE
    OBVIOUS
  <2>0. H \subseteq Nat
    OBVIOUS
  <2>1. PICK k \in H : \A j \in H : k <= j
    BY <2>0, LeastNatural, Zenon
  <2>2. k \in 0 .. n - 1 /\ n - k \in 1 .. n /\ s[n - k] \in 0 .. n - 1
        /\ s[n - k] > n - k - 1
    BY <1>4
  <2>3. k # 0
    BY <2>2
  <2>4. k - 1 \in 0 .. n - 1 /\ n - (k - 1) \in 1 .. n /\ n - k < n - (k - 1)
    BY <2>2, <2>3
  <2>5. s[n - k] < s[n - (k - 1)] /\ s[n - (k - 1)] \in 0 .. n - 1
    BY <2>2, <2>4, <1>4
  <2>6. s[n - (k - 1)] > n - (k - 1) - 1
    BY <2>2, <2>3, <2>5
  <2>7. k - 1 \in H
    BY <2>4, <2>6
  <2>. QED  BY <2>1, <2>2, <2>7
<1>7. ASSUME NEW i \in 1 .. n PROVE s[i] = i - 1
  <2>1. ~(s[i] < i - 1)
    BY <1>5
  <2>2. n - i \in 0 .. n - 1 /\ n - (n - i) = i
    OBVIOUS
  <2>3. ~(s[n - (n - i)] > n - (n - i) - 1)
    BY <1>6, <2>2
  <2>4. s[i] \in Nat /\ ~(s[i] > i - 1)
    BY <1>4, <2>2, <2>3
  <2>. QED  BY <2>1, <2>4
<1>8. s = t
  BY <1>2, <1>4, <1>7
<1>. QED  BY <1>1, <1>2, <1>8

-----------------------------------------------------------------------------
\* Layer i of the stop order has the programs of one level, i levels from the top.
LEMMA StopLayersAre ==
    ASSUME NEW c, IsFiniteSet(DOMAIN c), Buildable(c), Comparable(c),
           NEW f \in [DOMAIN c -> Nat], IsLayering(c, f), NEW t, t = StopLayers(c)
    PROVE  /\ Depth(c, f) \in Nat
           /\ DOMAIN t = 1 .. Depth(c, f)
           /\ \A i \in 1 .. Depth(c, f) : ListsOnce(t[i], Level(f, Depth(c, f) - i))
<1>1. Layering(c) = f
  BY LayeringIs
<1>2. Depth(c, f) \in Nat
  BY LayersWithoutGaps DEF Buildable
<1>3. t = [i \in 1 .. Depth(c, f) |-> SortedBy(Level(f, Depth(c, f) - i),
                                        LAMBDA a, b : StopsBefore(c, a, b))]
  BY <1>1 DEF StopLayers
<1>4. ASSUME NEW i \in 1 .. Depth(c, f)
      PROVE  ListsOnce(t[i], Level(f, Depth(c, f) - i))
  <2>1. PICK S : S = Level(f, Depth(c, f) - i)
    OBVIOUS
  <2>2. S \subseteq DOMAIN c /\ IsFiniteSet(S)
    BY <2>1, FS_Subset DEF Level
  <2>3. ListsOnce(SortedBy(S, LAMBDA a, b : StopsBefore(c, a, b)), S)
    BY <2>2, StopsSorted
  <2>4. t[i] = SortedBy(S, LAMBDA a, b : StopsBefore(c, a, b))
    BY <1>3, <2>1
  <2>. QED  BY <2>1, <2>3, <2>4
<1>. QED  BY <1>2, <1>3, <1>4

\* p is stopped once, and before its prerequisites.
InStopOrder(c, t, p) ==
    \E i \in DOMAIN t : \E k \in DOMAIN t[i] :
        /\ t[i][k] = p
        /\ \A j \in DOMAIN t : \A m \in DOMAIN t[j] :
              /\ t[j][m] = p => j = i /\ m = k
              /\ t[j][m] \in Deps(c, p) => i < j

\* The stop layers stop every program once and before its prerequisites.
LEMMA StopLayersOrder ==
    ASSUME NEW c, IsFiniteSet(DOMAIN c), Buildable(c), Comparable(c),
           NEW f \in [DOMAIN c -> Nat], IsLayering(c, f), NEW p \in DOMAIN c
    PROVE  InStopOrder(c, StopLayers(c), p)
<1>1. PICK t : t = StopLayers(c)
  OBVIOUS
<1>2. PICK n : n = Depth(c, f)
  OBVIOUS
<1>3. /\ n \in Nat
      /\ DOMAIN t = 1 .. n
      /\ \A i \in 1 .. n : ListsOnce(t[i], Level(f, n - i))
  BY <1>1, <1>2, StopLayersAre
<1>4. {f[q] : q \in DOMAIN c} = 0 .. n - 1
  BY <1>2, LayersWithoutGaps DEF Buildable
<1>5. \A i \in 1 .. n : \A m \in DOMAIN t[i] : t[i][m] \in DOMAIN c /\ f[t[i][m]] = n - i
  <2> SUFFICES ASSUME NEW i \in 1 .. n, NEW m \in DOMAIN t[i]
               PROVE  t[i][m] \in DOMAIN c /\ f[t[i][m]] = n - i
    OBVIOUS
  <2>1. PICK S : S = Level(f, n - i)
    OBVIOUS
  <2>2. t[i] \in [1 .. Cardinality(S) -> S]
    BY <1>3, <2>1 DEF ListsOnce
  <2>3. t[i][m] \in S
    BY <2>2
  <2>. QED  BY <2>1, <2>3 DEF Level
<1>6. PICK i : i = n - f[p]
  OBVIOUS
<1>7. f[p] \in 0 .. n - 1
  BY <1>4
<1>8. i \in 1 .. n /\ p \in Level(f, n - i)
  BY <1>3, <1>6, <1>7 DEF Level
<1>9. PICK k \in DOMAIN t[i] : t[i][k] = p
  BY <1>3, <1>8 DEF ListsOnce
<1>10. ASSUME NEW j \in DOMAIN t, NEW m \in DOMAIN t[j]
       PROVE  /\ t[j][m] = p => j = i /\ m = k
              /\ t[j][m] \in Deps(c, p) => i < j
  <2>1. j \in 1 .. n /\ f[t[j][m]] = n - j
    BY <1>3, <1>5
  <2>2. ASSUME t[j][m] = p PROVE j = i /\ m = k
    <3>1. j = i
      BY <2>1, <2>2, <1>3, <1>6, <1>7
    <3>2. t[i][m] = t[i][k] /\ m \in DOMAIN t[i]
      BY <2>2, <3>1, <1>9
    <3>3. m = k
      BY <3>2, <1>3, <1>8, <1>9 DEF ListsOnce
    <3>. QED  BY <3>1, <3>3
  <2>3. ASSUME t[j][m] \in Deps(c, p) PROVE i < j
    <3>1. f[t[j][m]] < f[p]
      BY <2>3 DEF IsLayering
    <3>. QED  BY <2>1, <3>1, <1>3, <1>6, <1>7
  <2>. QED  BY <2>2, <2>3
<1>11. i \in DOMAIN t
  BY <1>3, <1>8
<1>12. InStopOrder(c, t, p)
  BY <1>9, <1>10, <1>11 DEF InStopOrder
<1>. QED  BY <1>1, <1>12

\* Every program of an order has its turn in the stop layers, once and before
\* its prerequisites.
LEMMA AllInStopOrder ==
    ASSUME NEW c, IsFiniteSet(DOMAIN c), Buildable(c), Comparable(c), NEW p \in DOMAIN c
    PROVE  InStopOrder(c, StopLayers(c), p)
<1>1. PICK f \in [DOMAIN c -> Nat] : IsLayering(c, f)
  BY LayeringExists
<1>. QED  BY <1>1, StopLayersOrder
=============================================================================
