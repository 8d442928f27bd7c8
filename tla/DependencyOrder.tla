-------------------------- MODULE DependencyOrder ---------------------------
(***************************************************************************)
(* What a correct execution order of a set of programs is.  A map of       *)
(* configurations is a function from program names to records that have at *)
(* least the fields depends_on, a sequence of names, and priority.  Names  *)
(* are integers, so that the code's comparison of names is their order.    *)
(*                                                                         *)
(* DependencyGraph is shown to compute this order; Manager uses it as the  *)
(* result of DependencyGraph::build.                                       *)
(***************************************************************************)
EXTENDS Integers, Sequences, FiniteSets

Deps(configs, p) ==
    {configs[p].depends_on[i] : i \in DOMAIN configs[p].depends_on}

\* Some program depends on a name that is not configured.
HasUnknown(configs) ==
    \E p \in DOMAIN configs : ~ (Deps(configs, p) \subseteq DOMAIN configs)

\* petgraph's is_cyclic_directed: some programs all wait for one another.
Cyclic(configs) ==
    \E S \in SUBSET DOMAIN configs :
        /\ S # {}
        /\ \A p \in S : Deps(configs, p) \cap S # {}

Buildable(configs) == ~HasUnknown(configs) /\ ~Cyclic(configs)

(***************************************************************************)
(* The layer of a program is the length of the longest chain of            *)
(* prerequisites below it.  The two conjuncts determine the function.      *)
(***************************************************************************)
IsLayering(configs, f) ==
    \A p \in DOMAIN configs :
        /\ \A d \in Deps(configs, p) : f[d] < f[p]
        /\ f[p] # 0 => \E d \in Deps(configs, p) : f[p] = f[d] + 1

Layering(configs) ==
    CHOOSE f \in [DOMAIN configs -> 0 .. Cardinality(DOMAIN configs)] :
        IsLayering(configs, f)

\* The elements of S in some order.
Orders(S) ==
    {s \in [1 .. Cardinality(S) -> S] :
        \A i, j \in DOMAIN s : s[i] = s[j] => i = j}

\* The elements of S in the order Before.
SortedBy(S, Before(_, _)) ==
    CHOOSE s \in [1 .. Cardinality(S) -> S] :
        \A i, j \in DOMAIN s : i < j => Before(s[i], s[j])

StartsBefore(configs, a, b) ==
    \/ configs[a].priority < configs[b].priority
    \/ configs[a].priority = configs[b].priority /\ a < b

StopsBefore(configs, a, b) ==
    \/ configs[a].priority > configs[b].priority
    \/ configs[a].priority = configs[b].priority /\ a < b

Level(f, l) == {p \in DOMAIN f : f[p] = l}

\* How many layers there are.
Depth(configs, f) == Cardinality({f[p] : p \in DOMAIN configs})

StartLayers(configs) ==
    LET f == Layering(configs)
    IN  [i \in 1 .. Depth(configs, f) |->
            SortedBy(Level(f, i - 1),
                     LAMBDA a, b : StartsBefore(configs, a, b))]

StopLayers(configs) ==
    LET f == Layering(configs)
    IN  [i \in 1 .. Depth(configs, f) |->
            SortedBy(Level(f, Depth(configs, f) - i),
                     LAMBDA a, b : StopsBefore(configs, a, b))]
=============================================================================
