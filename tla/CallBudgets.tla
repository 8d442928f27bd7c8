----------------------------- MODULE CallBudgets -----------------------------
(***************************************************************************)
(* How long a caller of the manager waits for a command, and how long the  *)
(* manager may be busy with it.  ManagerHandle computes a deadline from    *)
(* the shared configurations before it sends the command; the manager then *)
(* calls the program actors one after the other, each call with a timeout  *)
(* of its own that is computed from the program's configuration.  A        *)
(* deadline that is too short reports a timeout for a command that is      *)
(* still being carried out.                                                *)
(*                                                                         *)
(* Times are seconds.  A name is a sequence of the parts between colons:   *)
(* <<"p">> or <<"g", "p">>.  `DurationMax' stands for the end of the range *)
(* of Duration.                                                            *)
(***************************************************************************)
EXTENDS Integers, Sequences, FiniteSets, FiniteSetsExt, SequencesExt

CONSTANTS
    ConfigSets,     \* possible maps from names to [group, stop_wait, hook, kill]
    Patterns,       \* the names a command may give
    Graces,         \* grace periods of a command; NoGrace: none
    DurationMax

NoGrace == -1

VARIABLES
    configs,        \* the manager's configurations, shared with the handle
    command,        \* [op, name, grace], or NoCommand
    deadline,       \* seconds the caller waits
    work,           \* the calls to programs the manager has still to make
    elapsed         \* seconds it has spent

vars == <<configs, command, deadline, work, elapsed>>

NoCommand == [op |-> "none", name |-> <<>>, grace |-> NoGrace]

\* src/consts.rs.
AwaitQuery  == 10
AwaitAction == 30
AwaitGroup  == 60
AwaitBulk   == 120
DefaultStopWait == 10
DefaultHook == 15
DefaultKill == 2
Drain       == 2
StopExtra   == 15
RestartExtra == 25
ProcessStopExtra == 5
ProcessRestartExtra == 10
MaxTimeout  == 86400

\* Duration::saturating_add, and checked_add(b).unwrap_or(MAX_TIMEOUT).
SaturatingAdd(a, b) == IF a + b > DurationMax THEN DurationMax ELSE a + b
AddOrMax(a, b) == IF a + b > DurationMax THEN MaxTimeout ELSE a + b

SaturatingSum(s) == FoldLeft(SaturatingAdd, 0, s)

Within(least, d) == Min({Max({d, least}), MaxTimeout})

-----------------------------------------------------------------------------
(* The handle.                                                             *)

\* find_targets_for_program: an exact name, a name qualified by its group or
\* all of the group, and a group.
FindTargets(name) ==
    LET qualified == {n \in DOMAIN configs :
                        /\ Len(name) = 2 /\ configs[n].group = name[1]
                        /\ \/ name[2] = "*"
                           \/ n \in {<<name[2]>>, name}}
    IN CASE name \in DOMAIN configs -> {name}
         [] name \notin DOMAIN configs /\ qualified # {} -> qualified
         [] OTHER -> {n \in DOMAIN configs : <<configs[n].group>> = name}

FindTargetsForGroup(name) ==
    LET members == IF Len(name) = 1 THEN FindTargets(Append(name, "*")) ELSE {}
    IN IF members # {} THEN members ELSE FindTargets(name)

GraceOf(n, grace) == IF grace = NoGrace THEN configs[n].stop_wait ELSE grace

\* The time for stopping the targets, each with its extra.
StopSum(targets, grace, extra) ==
    SaturatingSum([i \in 1 .. Cardinality(targets) |->
        AddOrMax(AddOrMax(AddOrMax(GraceOf(SetToSeq(targets)[i], grace), DefaultHook),
                          Drain), extra)])

\* The time for starting `count' programs, at least one.
StartSum(count) ==
    SaturatingAdd(SaturatingAdd(DefaultHook, AwaitQuery) * Max({count, 1}), AwaitQuery)

StartProgramTimeout(name) == Within(AwaitAction, StartSum(Cardinality(FindTargets(name))))

\* Fault: counts one program, whatever the name stands for.
StopProgramTimeoutOne(name, grace) ==
    LET one == {n \in FindTargets(name) : n = CHOOSE m \in FindTargets(name) : TRUE}
    IN Within(AwaitAction, SaturatingAdd(StopSum(one, grace, StopExtra), AwaitQuery))

StopProgramTimeout(name, grace) ==
    LET targets == FindTargets(name)
    IN IF targets = {}
       THEN Within(AwaitAction,
                   AddOrMax(AddOrMax(AddOrMax(IF grace = NoGrace THEN DefaultStopWait ELSE grace,
                                              DefaultHook), Drain), StopExtra))
       ELSE Within(AwaitAction,
                   SaturatingAdd(StopSum(targets, grace, StopExtra), AwaitQuery))

RestartProgramTimeout(name, grace) ==
    LET targets == FindTargets(name)
        stop == IF targets = {}
                THEN AddOrMax(AddOrMax(AddOrMax(IF grace = NoGrace THEN DefaultStopWait
                                                ELSE grace, 2 * DefaultHook), Drain),
                              RestartExtra)
                ELSE StopSum(targets, grace, RestartExtra)
    IN Within(AwaitAction, SaturatingAdd(stop, StartSum(Cardinality(targets))))

StartGroupTimeout(name) ==
    Within(AwaitGroup, StartSum(Cardinality(FindTargetsForGroup(name))))

StopGroupTimeout(name, grace) ==
    LET targets == FindTargetsForGroup(name)
    IN IF targets = {} THEN AwaitGroup
       ELSE Within(AwaitGroup, SaturatingAdd(StopSum(targets, grace, StopExtra), AwaitQuery))

RestartGroupTimeout(name, grace) ==
    LET targets == FindTargetsForGroup(name)
        stop == IF targets = {} THEN AwaitGroup ELSE StopSum(targets, grace, RestartExtra)
    IN Within(AwaitBulk, SaturatingAdd(stop, StartSum(Cardinality(targets))))

StartAllTimeout == Within(AwaitBulk, StartSum(Cardinality(DOMAIN configs)))

StopAllTimeout(grace) ==
    IF DOMAIN configs = {} THEN AwaitBulk
    ELSE Within(AwaitBulk, SaturatingAdd(StopSum(DOMAIN configs, grace, StopExtra), AwaitQuery))

-----------------------------------------------------------------------------
(* The program actors' handles: the longest a call may take.               *)

StartCall(n) == configs[n].hook + AwaitQuery

StopCall(n, grace) ==
    AddOrMax(AddOrMax(AddOrMax(GraceOf(n, grace), configs[n].hook), configs[n].kill),
             ProcessStopExtra)

RestartCall(n, grace) ==
    AddOrMax(AddOrMax(AddOrMax(GraceOf(n, grace), 2 * configs[n].hook), configs[n].kill),
             ProcessRestartExtra)

Longest(c) ==
    CASE c.verb = "start"   -> StartCall(c.on)
      [] c.verb = "stop"    -> StopCall(c.on, c.grace)
      [] c.verb = "restart" -> RestartCall(c.on, c.grace)

-----------------------------------------------------------------------------
(* The manager.                                                            *)

\* find_match.
FindMatch(name) ==
    LET qualified == {n \in DOMAIN configs :
                        /\ Len(name) = 2 /\ configs[n].group = name[1]
                        /\ \/ name[2] = "*"
                           \/ n \in {<<name[2]>>, name}}
    IN CASE name \in DOMAIN configs -> {name}
         [] name \notin DOMAIN configs /\ qualified # {} -> qualified
         [] OTHER -> {n \in DOMAIN configs : <<configs[n].group>> = name}

GroupMatch(name) ==
    LET members == IF Len(name) = 1 THEN FindMatch(Append(name, "*")) ELSE {}
    IN IF members # {} THEN members ELSE FindMatch(name)

Calls(verb, targets, grace) ==
    [i \in 1 .. Cardinality(targets) |->
        [verb |-> verb, on |-> SetToSeq(targets)[i], grace |-> grace]]

\* The calls a command makes, one awaited after the other.  The bulk commands
\* work layer by layer: with a chain of dependencies each program is a layer.
Work(c) ==
    CASE c.op = "start"         -> Calls("start", FindMatch(c.name), NoGrace)
      [] c.op = "stop"          -> Calls("stop", FindMatch(c.name), c.grace)
      [] c.op = "restart"       -> Calls("restart", FindMatch(c.name), c.grace)
      [] c.op = "start_group"   -> Calls("start", GroupMatch(c.name), NoGrace)
      [] c.op = "stop_group"    -> Calls("stop", GroupMatch(c.name), c.grace)
      [] c.op = "restart_group" -> Calls("stop", GroupMatch(c.name), c.grace)
                                       \o Calls("start", GroupMatch(c.name), NoGrace)
      [] c.op = "start_all"     -> Calls("start", DOMAIN configs, NoGrace)
      [] c.op = "stop_all"      -> Calls("stop", DOMAIN configs, c.grace)

Timeout(c) ==
    CASE c.op = "start"         -> StartProgramTimeout(c.name)
      [] c.op = "stop"          -> StopProgramTimeout(c.name, c.grace)
      [] c.op = "restart"       -> RestartProgramTimeout(c.name, c.grace)
      [] c.op = "start_group"   -> StartGroupTimeout(c.name)
      [] c.op = "stop_group"    -> StopGroupTimeout(c.name, c.grace)
      [] c.op = "restart_group" -> RestartGroupTimeout(c.name, c.grace)
      [] c.op = "start_all"     -> StartAllTimeout
      [] c.op = "stop_all"      -> StopAllTimeout(c.grace)

Ops == {"start", "stop", "restart", "start_group", "stop_group", "restart_group",
        "start_all", "stop_all"}

Init ==
    /\ configs \in ConfigSets
    /\ command = NoCommand /\ deadline = 0 /\ work = <<>> /\ elapsed = 0

\* A method of ManagerHandle, to an idle manager.
Send ==
    /\ command = NoCommand
    /\ command' \in [op : Ops, name : Patterns, grace : Graces \cup {NoGrace}]
    /\ deadline' = Timeout(command') /\ work' = Work(command') /\ elapsed' = 0
    /\ UNCHANGED configs

\* A call returns at once, or just before its timeout; a timeout is an error,
\* which ends the command.
CallReturns ==
    /\ work # <<>>
    /\ elapsed' \in {elapsed, elapsed + Longest(Head(work))}
    /\ work' = Tail(work)
    /\ UNCHANGED <<configs, command, deadline>>

Answered ==
    /\ command # NoCommand /\ work = <<>>
    /\ command' = NoCommand /\ deadline' = 0 /\ elapsed' = 0
    /\ UNCHANGED <<configs, work>>

Next == Send \/ CallReturns \/ Answered

Spec == Init /\ [][Next]_vars

-----------------------------------------------------------------------------
(* Properties.                                                             *)

\* A caller that finds the manager idle gets the command's own answer, even
\* when every program uses its whole allowance: the deadline computed from the
\* shared configurations is at least the sum of the deadlines of the calls the
\* manager makes.  The hook and kill allowances of the programs are not in the
\* handle's sum (it uses the default ones), and it never waits more than a day;
\* beyond that nothing is promised.
DeadlineCoversWork ==
    /\ command # NoCommand /\ deadline < MaxTimeout
    /\ \A n \in DOMAIN configs : configs[n].hook <= DefaultHook /\ configs[n].kill <= DefaultKill
    => elapsed <= deadline
=============================================================================
