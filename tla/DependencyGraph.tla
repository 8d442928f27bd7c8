-------------------------- MODULE DependencyGraph ---------------------------
(***************************************************************************)
(* DependencyGraph::build (manager/dag.rs).                                *)
(*                                                                         *)
(* Kahn's algorithm runs over hash maps, so the order in which programs    *)
(* enter the queue is arbitrary: it is chosen by \E here.  depends_on is a *)
(* list, in which a name may occur twice, occur as its own prerequisite or *)
(* not be a program at all.                                                *)
(***************************************************************************)
EXTENDS DependencyOrder

CONSTANTS
    Names,          \* program names, integers
    DependsOn,      \* the depends_on lists a configuration may have
    Priority        \* the priorities a configuration may have

ASSUME GraphAssumption ==
    /\ IsFiniteSet(Names) /\ Names \subseteq Int
    /\ DependsOn \subseteq Seq(Names)
    /\ Priority \subseteq Int

VARIABLES
    programs,       \* the configurations given to build
    pc,             \* "check", "kahn", "done"
    result,         \* "none", "ok", or the error build returns
    in_degrees,     \* prerequisites not yet visited, counted with repetition
    queue,          \* programs whose prerequisites are visited, with a layer
    layers_map,     \* the <<program, layer>> pairs visited so far
    visited_count,
    start_layers, stop_layers

vars == <<programs, pc, result, in_degrees, queue, layers_map, visited_count,
          start_layers, stop_layers>>

Config == [depends_on : DependsOn, priority : Priority]

\* How often d occurs in p's depends_on: the number of parallel edges.
Edges(d, p) ==
    Cardinality({i \in DOMAIN programs[p].depends_on :
                    programs[p].depends_on[i] = d})

Init ==
    /\ \E ps \in SUBSET Names : programs \in [ps -> Config]
    /\ pc = "check"
    /\ result = "none"
    /\ in_degrees = [p \in {} |-> 0]
    /\ queue = <<>>
    /\ layers_map = {}
    /\ visited_count = 0
    /\ start_layers = <<>> /\ stop_layers = <<>>

Fail(error) ==
    /\ pc' = "done"
    /\ result' = error
    /\ UNCHANGED <<programs, in_degrees, queue, layers_map, visited_count,
                   start_layers, stop_layers>>

RejectUnknown ==
    /\ pc = "check"
    /\ HasUnknown(programs)
    /\ Fail("unknown program")

RejectCycle ==
    /\ pc = "check"
    /\ ~HasUnknown(programs)
    /\ Cyclic(programs)
    /\ Fail("circular dependency")

\* The loop starts with the programs that have no prerequisites, at layer 0.
BeginKahn(degrees) ==
    /\ in_degrees' = degrees
    /\ \E s \in Orders({p \in DOMAIN programs : degrees[p] = 0}) :
           queue' = [i \in DOMAIN s |-> <<s[i], 0>>]
    /\ pc' = "kahn"
    /\ UNCHANGED <<programs, result, layers_map, visited_count,
                   start_layers, stop_layers>>

CountInDegrees ==
    /\ pc = "check"
    /\ Buildable(programs)
    /\ BeginKahn([p \in DOMAIN programs |-> Len(programs[p].depends_on)])

\* Fault: a program is released by its first visited prerequisite.
ReleasedEarly(node) ==
    {p \in DOMAIN programs :
        Edges(node, p) > 0 /\ in_degrees[p] = Len(programs[p].depends_on)}

\* The programs whose last open prerequisites are edges from node.
Released(node) ==
    {p \in DOMAIN programs :
        Edges(node, p) > 0 /\ in_degrees[p] = Edges(node, p)}

\* The front of the queue is visited; what it releases joins the queue by way
\* of Join, one layer further.
Visit(Join(_, _)) ==
    /\ pc = "kahn"
    /\ queue # <<>>
    /\ LET node  == Head(queue)[1]
           layer == Head(queue)[2]
       IN  /\ layers_map' = layers_map \cup {<<node, layer>>}
           /\ in_degrees' = [p \in DOMAIN programs |->
                                in_degrees[p] - Edges(node, p)]
           /\ \E s \in Orders(Released(node)) :
                  queue' = Join(Tail(queue),
                                [i \in DOMAIN s |-> <<s[i], layer + 1>>])
    /\ visited_count' = visited_count + 1
    /\ UNCHANGED <<programs, pc, result, start_layers, stop_layers>>

\* Fault: the queue is used as a stack, so layers are not visited in order.
PopFrontLifo == Visit(LAMBDA rest, released : released \o rest)

PopFront == Visit(LAMBDA rest, released : rest \o released)

\* The layers that have programs, from the lowest on, each of them sorted.
LayerSeq(Before(_, _)) ==
    LET layers   == SortedBy({pair[2] : pair \in layers_map}, LAMBDA a, b : a < b)
        progs(l) == {p \in DOMAIN programs : <<p, l>> \in layers_map}
    IN  [i \in DOMAIN layers |-> SortedBy(progs(layers[i]), Before)]

SortLayers ==
    /\ start_layers' = LayerSeq(LAMBDA a, b : StartsBefore(programs, a, b))
    /\ LET stops == LayerSeq(LAMBDA a, b : StopsBefore(programs, a, b))
       IN  stop_layers' = [i \in DOMAIN stops |-> stops[Len(stops) + 1 - i]]

\* The queue is empty: a second test for cycles, then the layers are sorted.
QueueEmpty ==
    /\ pc = "kahn"
    /\ queue = <<>>
    /\ pc' = "done"
    /\ IF visited_count # Cardinality(DOMAIN programs)
       THEN /\ result' = "unvisited programs"
            /\ UNCHANGED <<start_layers, stop_layers>>
       ELSE /\ result' = "ok"
            /\ SortLayers
    /\ UNCHANGED <<programs, in_degrees, queue, layers_map, visited_count>>

Next ==
    \/ RejectUnknown \/ RejectCycle \/ CountInDegrees
    \/ PopFront \/ QueueEmpty

Spec == Init /\ [][Next]_vars

-----------------------------------------------------------------------------
(***************************************************************************)
(* Properties.                                                             *)
(***************************************************************************)

TypeOK ==
    /\ \E ps \in SUBSET Names : programs \in [ps -> Config]
    /\ pc \in {"check", "kahn", "done"}
    /\ result \in {"none", "ok", "unknown program", "circular dependency",
                   "unvisited programs"}
    /\ pc = "kahn" => in_degrees \in [DOMAIN programs -> Nat]
    /\ queue \in Seq((DOMAIN programs) \X Nat)
    /\ layers_map \subseteq (DOMAIN programs) \X Nat
    /\ visited_count \in Nat

Visited == {pair[1] : pair \in layers_map}

\* Layer l is right for p: above all its prerequisites, just above one.
JustAbove(p, l) ==
    /\ \A d \in Deps(programs, p) : \E m \in 0 .. l - 1 : <<d, m>> \in layers_map
    /\ l # 0 => \E d \in Deps(programs, p) : <<d, l - 1>> \in layers_map

(***************************************************************************)
(* Kahn's loop (dag.rs:84-100) places every program one layer above its    *)
(* highest prerequisite and only once, whatever the order of the hash maps *)
(* and however often a prerequisite is repeated: all prerequisites are in  *)
(* lower layers, and one of them is in the layer just below.               *)
(***************************************************************************)
LayerExact ==
    \A pair \in layers_map :
        /\ JustAbove(pair[1], pair[2])
        /\ \A other \in layers_map : other[1] = pair[1] => other = pair

(***************************************************************************)
(* The second test for cycles (dag.rs:102-106) never fires: programs that  *)
(* Kahn's loop cannot reach form a cycle, which the first test rejects.    *)
(***************************************************************************)
SecondTestRedundant == result # "unvisited programs"

-----------------------------------------------------------------------------
(***************************************************************************)
(* The loop invariant of Kahn's algorithm.                                 *)
(***************************************************************************)
Open(p) ==
    {i \in DOMAIN programs[p].depends_on :
        programs[p].depends_on[i] \notin Visited}

\* in_degrees counts the prerequisites still open; a program without any is
\* visited or waits in the queue.
DegreesCount ==
    \A p \in DOMAIN programs :
        /\ in_degrees[p] = Cardinality(Open(p))
        /\ in_degrees[p] = 0 =>
               p \in Visited \/ \E i \in DOMAIN queue : queue[i][1] = p

\* A queued program is queued once, is not visited and has its layer.
QueueSound ==
    \A i \in DOMAIN queue :
        /\ queue[i][1] \notin Visited
        /\ in_degrees[queue[i][1]] = 0
        /\ JustAbove(queue[i][1], queue[i][2])
        /\ \A j \in DOMAIN queue : queue[j][1] = queue[i][1] => j = i

\* Layers are visited in order: the queue holds at most two, in order.
LayersInOrder ==
    \A i \in DOMAIN queue :
        /\ \A j \in DOMAIN queue : i <= j => queue[i][2] <= queue[j][2]
        /\ queue[i][2] <= queue[1][2] + 1
        /\ \A pair \in layers_map : pair[2] <= queue[i][2]

KahnInv ==
    /\ TypeOK
    /\ pc = "check" => layers_map = {} /\ queue = <<>> /\ visited_count = 0
    /\ pc # "done" => result = "none"
    /\ pc = "kahn" =>
          /\ Buildable(programs)
          /\ DegreesCount
          /\ QueueSound
          /\ LayersInOrder
          /\ visited_count = Cardinality(Visited)
    /\ LayerExact
    /\ SecondTestRedundant

(***************************************************************************)
(* The layers returned are the ones DependencyOrder defines, in particular *)
(* independent of the hash order, and an error is returned exactly for the *)
(* maps with no order at all.                                              *)
(***************************************************************************)
MatchesReference ==
    pc = "done" =>
        /\ result = "ok" <=> Buildable(programs)
        /\ result = "ok" =>
               /\ start_layers = StartLayers(programs)
               /\ stop_layers = StopLayers(programs)

(***************************************************************************)
(* Read as one sequence, the stop layers (dag.rs:136-151) stop everything  *)
(* exactly once and a program before each of its prerequisites.            *)
(***************************************************************************)
StopsDependentsFirst ==
    result = "ok" =>
        \A p \in DOMAIN programs :
            \E i \in DOMAIN stop_layers : \E k \in DOMAIN stop_layers[i] :
                /\ stop_layers[i][k] = p
                /\ \A j \in DOMAIN stop_layers : \A m \in DOMAIN stop_layers[j] :
                      /\ stop_layers[j][m] = p => j = i /\ m = k
                      /\ stop_layers[j][m] \in Deps(programs, p) => i < j

\* The start and the stop order build returns (dag.rs:108-151) are right.
LayersSound == MatchesReference /\ StopsDependentsFirst
=============================================================================
