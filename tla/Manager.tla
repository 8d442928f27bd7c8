------------------------------ MODULE Manager -------------------------------
(***************************************************************************)
(* The supervisor: the task `ManagerActor::run`, which serves one command, *)
(* one batch of due cron jobs or its cancellation at a time, and the       *)
(* programs it has created.  A program is a record of ProgramContract.     *)
(*                                                                         *)
(* A handler is cut at its awaits.  Taking a command computes its `agenda`,*)
(* the blocks of the handler still to be executed, and every action of the *)
(* section "blocks" executes the first of them.  While the manager awaits, *)
(* its programs take steps of their own.                                   *)
(*                                                                         *)
(* Program names and group names are integers of one namespace, as both    *)
(* are strings in the code.  An instance of a program (a `Box<dyn          *)
(* Program>` and its task) is a number; owner[i] is the name it was        *)
(* created for.                                                            *)
(***************************************************************************)
EXTENDS DependencyOrder, ProgramContract

CONSTANTS
    Gens,           \* the configuration files, as maps of programs; 1 is loaded first
    Commands,       \* the commands clients may send: records [op, arg]
    Probed,         \* the names of the programs with a health probe
    Timeouts,       \* whether a call to a program may time out
    MaxCommands,    \* bound: commands and cron batches served
    MaxInstances,   \* bound: program instances created
    MaxStale        \* bound: commands left behind in a program's mailbox

\* What the manager reads of a ProgramConfig; `v` stands for all other fields
\* and `valid` for ProgramConfig::validate.
ConfigFields == {"group", "autostart", "depends_on", "priority", "cron",
                 "cron_stop", "valid", "v"}

CommandOps ==
    {"StartProgram", "StopProgram", "RestartProgram", "SignalProgram",
     "StartGroup", "StopGroup", "RestartGroup", "StartAll", "StopAll",
     "Reload", "RestartDaemon", "AddGroup", "RemoveGroup", "Shutdown"}

ASSUME GensAssumption ==
    /\ 1 \in DOMAIN Gens
    /\ \A g \in DOMAIN Gens : \A n \in DOMAIN Gens[g] :
           /\ n \in Int /\ DOMAIN Gens[g][n] = ConfigFields
           /\ Gens[g][n].priority \in Int
    /\ \A g \in DOMAIN Gens :
           /\ IsFiniteSet(DOMAIN Gens[g])
           /\ Gens[g] = [n \in DOMAIN Gens[g] |-> Gens[g][n]]
    /\ Buildable(Gens[1]) /\ \A n \in DOMAIN Gens[1] : Gens[1][n].valid
ASSUME CommandsAssumption ==
    \A c \in Commands :
        /\ c.op \in CommandOps
        /\ c.op \in {"Reload", "RestartDaemon"} => c.arg \in DOMAIN Gens
ASSUME ManagerBounds ==
    /\ Timeouts \in BOOLEAN
    /\ MaxCommands \in Nat /\ MaxInstances \in Nat /\ MaxStale \in Nat
    /\ Cardinality(DOMAIN Gens[1]) <= MaxInstances

VARIABLES
    programs, configs, shared_configs, pending_configs, dag, cron_table,
    cancel_token,
    pc,         \* "select", "exec", "done" or "aborted"
    cmd,        \* the command being served, or the last one
    result,     \* its reply
    agenda,     \* the blocks of its handler still to be executed
    prog,       \* the program instances
    owner,      \* the name each was created for
    served      \* how many commands have been taken (bounded)

registryVars == <<programs, configs, shared_configs, pending_configs, dag,
                  cron_table>>
controlVars  == <<cancel_token, pc, cmd, result, served>>
vars == <<registryVars, controlVars, agenda, prog, owner>>

-----------------------------------------------------------------------------
(* Derived structures.                                                     *)

Dag(c) == [start |-> StartLayers(c), stop |-> StopLayers(c)]

\* CronTable::from_configs.  An entry stays in the table when it fires.
CronTable(c) ==
    {<<n, "start">> : n \in {m \in DOMAIN c : c[m].cron}}
        \cup {<<n, "stop">> : n \in {m \in DOMAIN c : c[m].cron_stop}}

Members(c, g) == {n \in DOMAIN c : c[n].group = g}

\* The ascending sequence of a set of names (there is exactly one).
Sorted(S) == {s \in Orders(S) : \A i, j \in DOMAIN s : i < j => s[i] < s[j]}

\* Fault: every program of both configurations counts as modified.
ModifiedAll(old, new) == DOMAIN new \cap DOMAIN old

\* ConfigDiff::compute.
Removed(old, new)  == DOMAIN old \ DOMAIN new
Added(old, new)    == DOMAIN new \ DOMAIN old
Modified(old, new) == {n \in DOMAIN new \cap DOMAIN old : old[n] # new[n]}

\* find_match on a pattern without a colon: the sequence it may return.
FindMatch(x) ==
    IF x \in DOMAIN programs THEN {<<x>>} ELSE Sorted(Members(configs, x))

\* find_match on `g:*`, then on `g`, sorted by priority: the order of the
\* hash map decides between equal priorities.
GroupTargets(g) ==
    IF Members(configs, g) = {} THEN FindMatch(g)
    ELSE {s \in Orders(Members(configs, g)) :
             \A i, j \in DOMAIN s : i < j =>
                 configs[s[i]].priority <= configs[s[j]].priority}

Backwards(s) == [i \in DOMAIN s |-> s[Len(s) + 1 - i]]

SetOf(s) == {s[i] : i \in DOMAIN s}

\* Every configuration file puts a program into the same group.
StableGroups ==
    \A g, h \in DOMAIN Gens : \A n \in DOMAIN Gens[g] \cap DOMAIN Gens[h] :
        Gens[g][n].group = Gens[h][n].group

\* The newest instance of a name: the one its handler has staged.
Staged(n) ==
    CHOOSE i \in DOMAIN owner :
        owner[i] = n /\ \A j \in DOMAIN owner : owner[j] = n => j <= i

-----------------------------------------------------------------------------
(* The blocks a handler is made of.                                        *)

StartLayer(s)     == [do |-> "start_layer", names |-> SetOf(s)]
StopLayer(s)      == [do |-> "stop_layer", names |-> SetOf(s)]
Call(n, op)       == [do |-> "call", name |-> n, op |-> op]
CronJob(e)        == [do |-> "cron", name |-> e[1], kind |-> e[2]]
Remove(n)         == [do |-> "remove", name |-> n]
Forget(n)         == [do |-> "forget", name |-> n]
Replace(n)        == [do |-> "replace", name |-> n]
Add(n)            == [do |-> "add", name |-> n]
Install(n)        == [do |-> "install", name |-> n]
Shutdown(i)       == [do |-> "shutdown", id |-> i]
Cancel(i)         == [do |-> "cancel", id |-> i]
Join(i)           == [do |-> "join", id |-> i]
Adopt             == [do |-> "adopt"]
Derive            == [do |-> "derive"]
Swap              == [do |-> "swap"]
\* Waiting for replies; with `strict`, an error ends the handler.
Await(ids, strict) == [do |-> "await", ids |-> ids, strict |-> strict]

Each(Block(_), s) == [i \in DOMAIN s |-> Block(s[i])]

StartAllPlan(d) == Each(StartLayer, d.start)
\* Fault: stop_all goes through the layers in the order of start_all.
StopAllForward(d) == Each(StopLayer, d.start)
StopAllPlan(d)  == Each(StopLayer, d.stop)
CallPlan(s, op) == [i \in DOMAIN s |-> Call(s[i], op)]

Init ==
    /\ configs = Gens[1]
    /\ owner \in Sorted(DOMAIN Gens[1])
    /\ prog = [i \in DOMAIN owner |-> Fresh]
    /\ programs = [n \in DOMAIN Gens[1] |-> Staged(n)]
    /\ shared_configs = Gens[1] /\ pending_configs = Gens[1]
    /\ dag = Dag(Gens[1]) /\ cron_table = CronTable(Gens[1])
    /\ cancel_token = FALSE
    /\ pc = "select" /\ cmd = [op |-> "None", arg |-> 0] /\ result = "none"
    /\ agenda = <<>> /\ served = 0

-----------------------------------------------------------------------------
(* The select loop.  Its branches are polled in the order cancellation,    *)
(* due cron jobs, commands; cron jobs may become due at any moment.        *)

\* A branch is taken: its handler has `plan` to execute and replies `res`,
\* unless a strict call fails on the way.
Begin(c, plan, res) ==
    /\ pc' = "exec"
    /\ cmd' = c
    /\ agenda' = plan
    /\ result' = res

\* The commands of one kind that may be received now.
Received(op) ==
    {c \in Commands : /\ c.op = op
                      /\ pc = "select" /\ ~cancel_token /\ served < MaxCommands}

TakeCommand(c, plan, res) ==
    /\ Begin(c, plan, res)
    /\ served' = served + 1
    /\ UNCHANGED cancel_token

\* start_program, stop_program, restart_program and signal: the targets in
\* order, or backwards; the first error ends the handler.
OnPrograms(op, verb, backwards) ==
    \E c \in Received(op) : \E t \in FindMatch(c.arg) :
        /\ TakeCommand(c, CallPlan(IF backwards THEN Backwards(t) ELSE t, verb),
                       IF t = <<>> THEN "err" ELSE "ok")
        /\ UNCHANGED <<registryVars, prog, owner>>

StartProgram   == OnPrograms("StartProgram", "Start", FALSE)
StopProgram    == OnPrograms("StopProgram", "Stop", TRUE)
RestartProgram == OnPrograms("RestartProgram", "Restart", TRUE)
SignalProgram  == OnPrograms("SignalProgram", "Signal", FALSE)

OnGroup(c, plan) ==
    /\ TakeCommand(c, plan, IF plan = <<>> THEN "err" ELSE "ok")
    /\ UNCHANGED <<registryVars, prog, owner>>

StartGroup ==
    \E c \in Received("StartGroup") : \E t \in GroupTargets(c.arg) :
        OnGroup(c, CallPlan(t, "Start"))

StopGroup ==
    \E c \in Received("StopGroup") : \E t \in GroupTargets(c.arg) :
        OnGroup(c, CallPlan(Backwards(t), "Stop"))

\* The targets are looked up again for the second half.
RestartGroup ==
    \E c \in Received("RestartGroup") : \E t, u \in GroupTargets(c.arg) :
        OnGroup(c, CallPlan(Backwards(t), "Stop") \o CallPlan(u, "Start"))

StartAll ==
    /\ \E c \in Received("StartAll") : TakeCommand(c, StartAllPlan(dag), "ok")
    /\ UNCHANGED <<registryVars, prog, owner>>

StopAll ==
    /\ \E c \in Received("StopAll") : TakeCommand(c, StopAllPlan(dag), "ok")
    /\ UNCHANGED <<registryVars, prog, owner>>

-----------------------------------------------------------------------------
(* Changing the configuration.                                             *)

\* instantiate_program for each name of the sequence.
Instantiate(s) ==
    /\ Len(prog) + Len(s) <= MaxInstances
    /\ prog' = prog \o [i \in DOMAIN s |-> Fresh]
    /\ owner' = owner \o s

AllValid(c, S) == \A n \in S : c[n].valid

\* A configuration is rejected: before anything is changed if its graph cannot
\* be built, after it has become the pending one if a program is invalid.  The
\* instances staged before the invalid one were never sent a command.
Reject(c, new) ==
    /\ pending_configs' = IF Buildable(new) THEN new ELSE pending_configs
    /\ TakeCommand(c, <<>>, "err")
    /\ UNCHANGED <<programs, configs, shared_configs, dag, cron_table, prog, owner>>

Accept(c, new, staged, plan) ==
    /\ pending_configs' = new
    /\ Instantiate(staged)
    /\ TakeCommand(c, plan, "ok")
    /\ UNCHANGED <<programs, configs, shared_configs, dag, cron_table>>

Reload ==
    \E c \in Received("Reload") :
        LET new == Gens[c.arg]
            ok  == /\ Buildable(new)
                   /\ AllValid(new, Modified(configs, new) \cup Added(configs, new))
        IN  \/ ~ok /\ Reject(c, new)
            \/ /\ ok
               /\ \E removed  \in Sorted(Removed(configs, new)) :
                  \E modified \in Sorted(Modified(configs, new)) :
                  \E added    \in Sorted(Added(configs, new)) :
                      Accept(c, new, modified \o added,
                             Each(Remove, removed) \o Each(Replace, modified)
                                 \o Each(Add, added) \o <<Adopt>>)

\* All programs are stopped and shut down before the staged ones replace them.
RestartDaemon ==
    \E c \in Received("RestartDaemon") :
        LET new == Gens[c.arg]
            ok  == Buildable(new) /\ AllValid(new, DOMAIN new)
        IN  \/ ~ok /\ Reject(c, new)
            \/ /\ ok
               /\ \E s \in Orders({programs[n] : n \in DOMAIN programs}) :
                  \E staged \in Sorted(DOMAIN new) :
                      Accept(c, new, staged,
                             StopAllPlan(dag) \o Each(Shutdown, s) \o <<Swap>>)

\* Ok(false) if the group is active; otherwise its members in the pending
\* configuration are added, in the order of the hash map.
AddGroup ==
    \E c \in Received("AddGroup") :
        LET candidates == Members(pending_configs, c.arg)
            active     == Members(configs, c.arg) # {}
            ok         == candidates # {} /\ AllValid(pending_configs, candidates)
        IN  \/ /\ active \/ ~ok
               /\ TakeCommand(c, <<>>, IF active THEN "ok" ELSE "err")
               /\ UNCHANGED <<registryVars, prog, owner>>
            \/ /\ ~active /\ ok
               /\ \E s \in Orders(candidates) :
                      /\ Instantiate(s)
                      /\ TakeCommand(c, Each(Add, s) \o <<Derive>>, "ok")
               /\ UNCHANGED registryVars

\* Ok(false) while a member is active or backing off.
RemoveGroup ==
    \E c \in Received("RemoveGroup") :
        LET active  == Members(configs, c.arg)
            running == \E n \in active : LET st == prog[programs[n]].state
                                         IN  IsActive(st) \/ st = "Backoff"
        IN  /\ \/ /\ active = {} \/ running
                  /\ TakeCommand(c, <<>>, IF running THEN "ok" ELSE "err")
               \/ /\ active # {} /\ ~running
                  /\ \E s \in Orders(active) :
                         TakeCommand(c, Each(Remove, s) \o <<Derive>>, "ok")
            /\ UNCHANGED <<registryVars, prog, owner>>

-----------------------------------------------------------------------------
(* Cron jobs and the end.                                                  *)

CronDue ==
    /\ pc = "select" /\ ~cancel_token
    /\ served < MaxCommands /\ served' = served + 1
    /\ \E due \in SUBSET cron_table \ {{}} : \E s \in Orders(due) :
           Begin([op |-> "Cron", arg |-> 0], Each(CronJob, s), "ok")
    /\ UNCHANGED <<registryVars, cancel_token, prog, owner>>

\* stop_all, then the loop after the select shuts every program down.
LeavePlan(s) == StopAllPlan(dag) \o Each(Shutdown, s)

ShutdownCommand ==
    /\ \E c \in Received("Shutdown") :
           \E s \in Orders({programs[n] : n \in DOMAIN programs}) :
               TakeCommand(c, LeavePlan(s), "ok")
    /\ UNCHANGED <<registryVars, prog, owner>>

Cancelled ==
    /\ pc = "select" /\ cancel_token
    /\ \E s \in Orders({programs[n] : n \in DOMAIN programs}) :
           Begin([op |-> "Cancel", arg |-> 0], LeavePlan(s), "ok")
    /\ UNCHANGED <<registryVars, cancel_token, served, prog, owner>>

-----------------------------------------------------------------------------
(* Blocks.                                                                 *)

At(do) == pc = "exec" /\ agenda # <<>> /\ Head(agenda).do = do

\* The first block is done, or is replaced by the blocks it consists of.
Continue(plan) == agenda' = plan \o Tail(agenda)

SendTo(ids, op) ==
    prog' = [i \in DOMAIN prog |-> IF i \in ids THEN Send(prog[i], op) ELSE prog[i]]

\* One layer of start_all: the autostart programs that are down, together.
DoStartLayer ==
    LET names == {n \in Head(agenda).names \cap DOMAIN configs \cap DOMAIN programs :
                     /\ configs[n].autostart
                     /\ prog[programs[n]].state \in {"Stopped", "Exited", "Fatal"}}
        ids   == {programs[n] : n \in names}
    IN
    /\ At("start_layer")
    /\ SendTo(ids, "Start")
    /\ Continue(<<Await(ids, FALSE)>>)
    /\ UNCHANGED <<registryVars, controlVars, owner>>

\* Fault: programs that are backing off are left alone.
DoStopLayerActive ==
    LET names == {n \in Head(agenda).names \cap DOMAIN programs :
                     IsActive(prog[programs[n]].state)}
        ids   == {programs[n] : n \in names}
    IN
    /\ At("stop_layer")
    /\ SendTo(ids, "Stop")
    /\ Continue(<<Await(ids, FALSE)>>)
    /\ UNCHANGED <<registryVars, controlVars, owner>>

\* One layer of stop_all: all programs not shown STOPPED, together.
DoStopLayer ==
    LET names == {n \in Head(agenda).names \cap DOMAIN programs :
                     prog[programs[n]].state # "Stopped"}
        ids   == {programs[n] : n \in names}
    IN
    /\ At("stop_layer")
    /\ SendTo(ids, "Stop")
    /\ Continue(<<Await(ids, FALSE)>>)
    /\ UNCHANGED <<registryVars, controlVars, owner>>

\* `prog.start().await?` and the like.
DoCall ==
    LET i == programs[Head(agenda).name] IN
    /\ At("call")
    /\ SendTo({i}, Head(agenda).op)
    /\ Continue(<<Await({i}, TRUE)>>)
    /\ UNCHANGED <<registryVars, controlVars, owner>>

\* A start skips active programs, a stop all others; errors are ignored.
DoCron ==
    LET n      == Head(agenda).name
        start  == Head(agenda).kind = "start"
        i      == programs[n]
        skip   == n \notin DOMAIN programs \/ IsActive(prog[i].state) = start
    IN
    /\ At("cron")
    /\ IF skip THEN Continue(<<>>) /\ UNCHANGED prog
               ELSE /\ SendTo({i}, IF start THEN "Start" ELSE "Stop")
                    /\ Continue(<<Await({i}, FALSE)>>)
    /\ UNCHANGED <<registryVars, controlVars, owner>>

\* All replies are in.
DoAwait ==
    LET b      == Head(agenda)
        failed == b.strict /\ \E i \in b.ids : IsRefused(prog[i])
    IN
    /\ At("await")
    /\ \A i \in b.ids : IsAnswered(prog[i])
    /\ prog' = [i \in DOMAIN prog |-> IF i \in b.ids THEN Hangup(prog[i]) ELSE prog[i]]
    /\ IF failed THEN agenda' = <<>> /\ result' = "err"
                 ELSE Continue(<<>>) /\ UNCHANGED result
    /\ UNCHANGED <<registryVars, cancel_token, pc, cmd, served, owner>>

\* Fault: a timeout is not an error.
AwaitTimesOutSilently ==
    LET b == Head(agenda) IN
    /\ Timeouts
    /\ At("await")
    /\ \E i \in b.ids :
           /\ ~IsAnswered(prog[i])
           /\ Len(prog[i].inbox) <= MaxStale
           /\ prog' = [prog EXCEPT ![i] = Hangup(@)]
           /\ Continue(<<Await(b.ids \ {i}, FALSE)>>)
    /\ UNCHANGED <<registryVars, controlVars, owner>>

\* A reply does not come in time: the command stays with the program.
AwaitTimesOut ==
    LET b == Head(agenda) IN
    /\ Timeouts
    /\ At("await")
    /\ \E i \in b.ids :
           /\ ~IsAnswered(prog[i])
           /\ Len(prog[i].inbox) <= MaxStale
           /\ prog' = [prog EXCEPT ![i] = Hangup(@)]
           /\ IF b.strict THEN agenda' = <<>> /\ result' = "err"
              ELSE Continue(<<Await(b.ids \ {i}, FALSE)>>) /\ UNCHANGED result
    /\ UNCHANGED <<registryVars, cancel_token, pc, cmd, served, owner>>

\* ProcessProgram::shutdown: a command, then the token, then the join.
DoShutdown ==
    LET i == Head(agenda).id IN
    /\ At("shutdown")
    /\ SendTo({i}, "Shutdown")
    /\ Continue(<<Await({i}, FALSE), Cancel(i)>>)
    /\ UNCHANGED <<registryVars, controlVars, owner>>

DoCancel ==
    LET i == Head(agenda).id IN
    /\ At("cancel")
    /\ prog' = [prog EXCEPT ![i] = CancelIt(@)]
    /\ Continue(<<Join(i)>>)
    /\ UNCHANGED <<registryVars, controlVars, owner>>

DoJoin ==
    /\ At("join")
    /\ prog[Head(agenda).id].ended
    /\ Continue(<<>>)
    /\ UNCHANGED <<registryVars, controlVars, prog, owner>>

Without(f, n) == [m \in DOMAIN f \ {n} |-> f[m]]
With(f, n, x) == [m \in DOMAIN f \cup {n} |-> IF m = n THEN x ELSE f[m]]

\* A removed program leaves the registry first, its configuration last.
DoRemove ==
    LET n == Head(agenda).name
        i == programs[n]
    IN
    /\ At("remove")
    /\ programs' = Without(programs, n)
    /\ SendTo({i}, "Stop")
    /\ Continue(<<Await({i}, FALSE), Shutdown(i), Forget(n)>>)
    /\ UNCHANGED <<configs, shared_configs, pending_configs, dag, cron_table,
                   controlVars, owner>>

DoForget ==
    /\ At("forget")
    /\ configs' = Without(configs, Head(agenda).name)
    /\ Continue(<<>>)
    /\ UNCHANGED <<programs, shared_configs, pending_configs, dag, cron_table,
                   controlVars, prog, owner>>

\* Fault: a modified program relies on stop() alone, which may time out.
DoReplaceStopsOnly ==
    LET n == Head(agenda).name
        i == programs[n]
    IN
    /\ At("replace")
    /\ SendTo({i}, "Stop")
    /\ Continue(<<Await({i}, FALSE), Add(n)>>)
    /\ UNCHANGED <<registryVars, controlVars, owner>>

\* A modified program: the old instance is shut down before the new one starts.
DoReplace ==
    LET n == Head(agenda).name
        i == programs[n]
    IN
    /\ At("replace")
    /\ SendTo({i}, "Stop")
    /\ Continue(<<Await({i}, FALSE), Shutdown(i), Add(n)>>)
    /\ UNCHANGED <<registryVars, controlVars, owner>>

DoAdd ==
    LET n == Head(agenda).name
        i == Staged(n)
    IN
    /\ At("add")
    /\ IF pending_configs[n].autostart
       THEN SendTo({i}, "Start") /\ Continue(<<Await({i}, FALSE), Install(n)>>)
       ELSE UNCHANGED prog /\ Continue(<<Install(n)>>)
    /\ UNCHANGED <<registryVars, controlVars, owner>>

\* A handle that is still registered under the name is dropped, and its task
\* cancelled with it.
DoInstall ==
    LET n       == Head(agenda).name
        dropped == {programs[m] : m \in DOMAIN programs \cap {n}}
    IN
    /\ At("install")
    /\ programs' = With(programs, n, Staged(n))
    /\ configs' = With(configs, n, pending_configs[n])
    /\ prog' = [i \in DOMAIN prog |->
                   IF i \in dropped THEN CancelIt(prog[i]) ELSE prog[i]]
    /\ Continue(<<>>)
    /\ UNCHANGED <<shared_configs, pending_configs, dag, cron_table,
                   controlVars, owner>>

\* Fault: the clients' copy of the configurations is not updated.
DoAdoptKeepsShared ==
    /\ At("adopt")
    /\ dag' = Dag(pending_configs)
    /\ cron_table' = CronTable(configs)
    /\ Continue(<<>>)
    /\ UNCHANGED <<programs, configs, shared_configs, pending_configs,
                   controlVars, prog, owner>>

\* The end of a reload: the graph built at its beginning becomes the active one.
DoAdopt ==
    /\ At("adopt")
    /\ dag' = Dag(pending_configs)
    /\ cron_table' = CronTable(configs)
    /\ shared_configs' = configs
    /\ Continue(<<>>)
    /\ UNCHANGED <<programs, configs, pending_configs, controlVars, prog, owner>>

\* refresh_derived_state: a graph that cannot be built leaves the old one.
DoDerive ==
    /\ At("derive")
    /\ dag' = IF Buildable(configs) THEN Dag(configs) ELSE dag
    /\ cron_table' = CronTable(configs)
    /\ shared_configs' = configs
    /\ Continue(<<>>)
    /\ UNCHANGED <<programs, configs, pending_configs, controlVars, prog, owner>>

\* restart_daemon once all is down: the staged programs, refresh_derived_state
\* and start_all.
DoSwap ==
    /\ At("swap")
    /\ programs' = [n \in DOMAIN pending_configs |-> Staged(n)]
    /\ configs' = pending_configs
    /\ shared_configs' = pending_configs
    /\ dag' = Dag(pending_configs)
    /\ cron_table' = CronTable(pending_configs)
    /\ Continue(StartAllPlan(dag'))
    /\ UNCHANGED <<pending_configs, controlVars, prog, owner>>

\* The handler is done: back to the loop, or out of it.
Complete ==
    /\ pc = "exec" /\ agenda = <<>>
    /\ pc' = IF cmd.op \in {"Shutdown", "Cancel"} THEN "done" ELSE "select"
    /\ UNCHANGED <<registryVars, cancel_token, cmd, result, served, agenda,
                   prog, owner>>

-----------------------------------------------------------------------------
(* The environment.                                                        *)

\* ManagerHandle::shutdown, or the SupervisorManager is dropped.
CancelManager ==
    /\ ~cancel_token /\ cancel_token' = TRUE
    /\ UNCHANGED <<registryVars, pc, cmd, result, served, agenda, prog, owner>>

\* Fault: the programs' tasks are not tied to their handles.
AbortDetaches ==
    /\ cancel_token
    /\ pc \notin {"done", "aborted"}
    /\ pc' = "aborted"
    /\ agenda' = <<>>
    /\ UNCHANGED <<registryVars, cancel_token, cmd, result, served, prog, owner>>

\* SupervisorManager::shutdown gives up waiting: the manager task is dropped
\* where it stands, and with it every handle.
Abort ==
    /\ cancel_token
    /\ pc \notin {"done", "aborted"}
    /\ pc' = "aborted"
    /\ agenda' = <<>>
    /\ prog' = [i \in DOMAIN prog |-> CancelIt(prog[i])]
    /\ UNCHANGED <<registryVars, cancel_token, cmd, result, served, owner>>

ProgramMoves(i, rs) ==
    /\ \E r \in rs : prog' = [prog EXCEPT ![i] = r]
    /\ UNCHANGED <<registryVars, controlVars, agenda, owner>>

Serve(i)   == ProgramMoves(i, ServeSteps(prog[i]))
ByItself(i) == ~prog[i].ended /\ ProgramMoves(i, OwnSteps(prog[i]))
Unhealthy(i) ==
    /\ owner[i] \in Probed /\ ~prog[i].ended
    /\ ProgramMoves(i, HealthSteps(prog[i]))

\* The manager is gone and so are its programs.
Terminated ==
    /\ pc \in {"done", "aborted"}
    /\ \A i \in DOMAIN prog : prog[i].ended
    /\ UNCHANGED vars

Select == \/ StartProgram \/ StopProgram \/ RestartProgram \/ SignalProgram
          \/ StartGroup \/ StopGroup \/ RestartGroup \/ StartAll \/ StopAll
          \/ Reload \/ RestartDaemon \/ AddGroup \/ RemoveGroup
          \/ CronDue \/ ShutdownCommand

Block == \/ DoStartLayer \/ DoStopLayer \/ DoCall \/ DoCron \/ DoAwait
         \/ DoShutdown \/ DoCancel \/ DoJoin \/ DoRemove \/ DoForget
         \/ DoReplace \/ DoAdd \/ DoInstall \/ DoAdopt \/ DoDerive \/ DoSwap
         \/ Complete

Next == \/ Select \/ Cancelled \/ Block
        \/ AwaitTimesOut \/ CancelManager \/ Abort \/ Terminated
        \/ \E i \in DOMAIN prog : Serve(i) \/ ByItself(i) \/ Unhealthy(i)

Spec == Init /\ [][Next]_vars

\* The runtime polls the manager and the programs' tasks.  Nothing is assumed
\* of clients, timeouts or what the processes do.
Fairness ==
    /\ WF_vars(Block) /\ WF_vars(Cancelled)
    /\ \A i \in 1 .. MaxInstances : WF_vars(i \in DOMAIN prog /\ Serve(i))

FairSpec == Spec /\ Fairness

-----------------------------------------------------------------------------
(* Safety properties.                                                      *)

TypeOK ==
    /\ prog \in Seq(ProgramType) /\ Len(prog) <= MaxInstances
    /\ DOMAIN owner = DOMAIN prog
    /\ \A n \in DOMAIN programs : programs[n] \in DOMAIN prog
    /\ cancel_token \in BOOLEAN
    /\ pc \in {"select", "exec", "done", "aborted"}
    /\ cmd.op \in CommandOps \cup {"None", "Cron", "Cancel"}
    /\ result \in {"none", "ok", "err"}
    /\ served \in 0 .. MaxCommands
    /\ pc # "exec" => agenda = <<>>

\* A program shown in one of these states may have an OS process
\* (ProgramActor!QuietStateNoProcess).
MayHaveProcess(i) == IsActive(prog[i].state)

\* Replacing, removing, re-adding and restarting programs, whatever call times
\* out on the way, never runs two instances of one program at a time.
OnePerName ==
    \A i, j \in DOMAIN prog :
        i # j /\ owner[i] = owner[j] => ~MayHaveProcess(i) \/ ~MayHaveProcess(j)

\* Between two commands every instance whose task has not ended is the
\* registered one of its name: no handler loses a running program.
NoOrphan ==
    pc = "select" =>
        \A i \in DOMAIN prog :
            prog[i].ended \/ (owner[i] \in DOMAIN programs /\ programs[owner[i]] = i)

\* A manager that has left its loop has left no program behind.
DoneMeansGone == pc = "done" => \A i \in DOMAIN prog : prog[i].ended

\* Every instance ever created is the only one of its program and is accounted
\* for until its task has ended, through reloads, timeouts and the shutdown.
InstancesOwned == TypeOK /\ OnePerName /\ NoOrphan /\ DoneMeansGone

\* Between two commands the registry, the configurations, their copy for
\* clients and the cron table are about the same programs, every registered
\* program is there to be commanded, and the execution order is the one of these
\* configurations, whenever they have one.
RegistriesAgree ==
    pc = "select" =>
        /\ DOMAIN programs = DOMAIN configs
        /\ shared_configs = configs
        /\ cron_table = CronTable(configs)
        /\ \A n \in DOMAIN programs :
               LET i == programs[n] IN
               owner[i] = n /\ ~prog[i].ended /\ ~prog[i].cancel
        /\ Buildable(configs) => dag = Dag(configs)

\* A stop that was reported as successful has stopped its targets, also if
\* commands that had timed out were still in their mailboxes.
StopReported ==
    pc = "select" /\ cmd.op \in {"StopProgram", "StopGroup"} /\ result = "ok" =>
        \A t \in IF cmd.op = "StopProgram" THEN FindMatch(cmd.arg)
                 ELSE GroupTargets(cmd.arg) :
            \A k \in DOMAIN t : prog[programs[t[k]]].state = "Stopped"

\* The manager sends op to instance i in this step.
Sends(i, op) ==
    /\ i \in DOMAIN prog
    /\ prog'[i].inbox = Append(prog[i].inbox, op)

\* docs/PRD.md: unchanged programs remain online through a reload.  A reload
\* commands, cancels and replaces only what the new configuration changes.
ReloadSparesUnchanged ==
    [][pc = "exec" /\ pc' = "exec" /\ cmd.op = "Reload" =>
         \A n \in DOMAIN configs \cap DOMAIN pending_configs :
             configs[n] = pending_configs[n] =>
                 /\ n \in DOMAIN programs' /\ programs'[n] = programs[n]
                 /\ \A op \in Ops : ~Sends(programs[n], op)
                 /\ prog'[programs[n]].cancel = prog[programs[n]].cancel]_vars

BulkStop == {"StopAll", "Shutdown", "Cancel", "RestartDaemon"}

\* stop_all stops a program only when no program that depends on it is up.
StopsInOrder ==
    pc = "exec" /\ cmd.op \in BulkStop /\ Buildable(configs) =>
        \A i \in DOMAIN prog : Sends(i, "Stop") =>
            \A n \in DOMAIN configs \cap DOMAIN programs :
                owner[i] \in Deps(configs, n) => ~MayHaveProcess(programs[n])

\* After stop_all every program is STOPPED, whatever it was doing before.
StopAllComplete ==
    pc = "select" /\ cmd.op = "StopAll" /\ Buildable(configs) =>
        \A n \in DOMAIN programs : prog[programs[n]].state = "Stopped"

-----------------------------------------------------------------------------
(* The inductive invariant: where an instance is while a handler is under   *)
(* way.  It follows from the blocks that are still to be executed.          *)

Todo == SetOf(agenda)

NameBlock(b)   == b.do \in {"remove", "forget", "replace", "add", "install"}
IdBlock(b)     == b.do \in {"shutdown", "cancel", "join"}
FreeBlock(b)   == b.do \in {"start_layer", "stop_layer", "call", "cron"}
EndBlock(b)    == b.do \in {"adopt", "derive", "swap"}
StrictBlock(b) == b.do = "call" \/ (b.do = "await" /\ b.strict)

Named(dos, n) == \E b \in Todo : b.do \in dos /\ b.name = n
Closing(i)    == \E b \in Todo : IdBlock(b) /\ b.id = i
Swapping      == \E b \in Todo : b.do = "swap"

Up      == pc \in {"select", "exec"}
Leaving == pc = "exec" /\ cmd.op \in {"Shutdown", "Cancel"}

\* An instance of n is staged and will be registered.
Awaited(n) == \/ Named({"replace", "add", "install"}, n)
              \/ Swapping /\ n \in DOMAIN pending_configs

\* The registered instance of n is on its way out, or gone.
Outgoing(n) == Named({"add", "install"}, n) \/ Swapping \/ Leaving

Registered(i) == owner[i] \in DOMAIN programs /\ programs[owner[i]] = i

\* Nothing runs and nothing has been asked for.
Dormant(r) ==
    \/ r.ended
    \/ r.state = "Stopped" /\ r.inbox = <<>> /\ r.doing \in {"idle", "Cancel"}

\* The task is there, and nobody has told it to end.
Live(r) ==
    /\ ~r.ended /\ ~r.cancel
    /\ r.doing \notin {"Shutdown", "Cancel"}
    /\ \A k \in DOMAIN r.inbox : r.inbox[k] # "Shutdown"

\* What a program of the contract can look like.
Sane(r) ==
    /\ r.half => r.state = "Stopped" /\ r.doing # "idle"
    /\ r.state = "Stopping" => r.doing \notin {"idle", "Start"}
    /\ r.ended => r.state = "Stopped"

RecordsSound == \A i \in DOMAIN prog : Sane(prog[i])

MapsSound ==
    /\ owner \in Seq(Int)
    /\ IsFiniteSet(DOMAIN programs)
    /\ \A n \in DOMAIN programs : programs[n] \in DOMAIN prog /\ owner[programs[n]] = n
    /\ IsFiniteSet(DOMAIN configs)
    /\ configs = [n \in DOMAIN configs |-> configs[n]]
    /\ \A n \in DOMAIN configs : \E g \in DOMAIN Gens :
           n \in DOMAIN Gens[g] /\ configs[n] = Gens[g][n]
    /\ \E g \in DOMAIN Gens : pending_configs = Gens[g]
    /\ dag.start \in Seq(SetOf(dag.start)) /\ dag.stop \in Seq(SetOf(dag.stop))

\* b before c in one handler: every program has one block at a time, what ends
\* an instance comes before what starts its successor, and the maps are
\* derived last.
Follows(own, b, c) ==
    /\ ~EndBlock(b)
    /\ NameBlock(b) => ~IdBlock(c) /\ ~FreeBlock(c) /\ c.do # "swap"
    /\ FreeBlock(b) => ~NameBlock(c)
    /\ NameBlock(b) /\ NameBlock(c) => b.name # c.name
    /\ IdBlock(b) /\ IdBlock(c) => own[b.id] # own[c.id]
    /\ c.do = "install" => b.do = "await"
    /\ StrictBlock(b) <=> StrictBlock(c)

Ordered(own, s) == \A k, l \in DOMAIN s : k < l => Follows(own, s[k], s[l])

AgendaSound == agenda \in Seq(Todo) /\ Ordered(owner, agenda)

BlocksSound ==
    \A b \in Todo :
        /\ b.do = "call" => b.name \in DOMAIN programs /\ b.op \in Ops \ {"Shutdown"}
        /\ b.do = "await" => b.strict \in BOOLEAN
        /\ b.do \in {"remove", "replace"} => b.name \in DOMAIN programs
        /\ b.do = "forget" => b.name \notin DOMAIN programs
        /\ b.do \in {"replace", "add", "install"} => b.name \in DOMAIN pending_configs
        /\ NameBlock(b) => \E c \in Todo : c.do \in {"adopt", "derive"}
        /\ NameBlock(b) \/ EndBlock(b) => ~Leaving

\* An instance that is shut down is the registered one, which is to be
\* replaced or dropped, or was removed just now.
ClosingSound ==
    \A b \in Todo : IdBlock(b) =>
        /\ b.id \in DOMAIN prog
        /\ \/ Registered(b.id) /\ Outgoing(owner[b.id])
           \/ owner[b.id] \notin DOMAIN programs /\ Named({"forget"}, owner[b.id])

\* A staged instance is the newest of its name, can be commanded, and has not
\* been until its turn comes.
StagedSound ==
    \A n \in DOMAIN pending_configs : Awaited(n) =>
        LET i == Staged(n) IN
        /\ i \in DOMAIN prog /\ owner[i] = n
        /\ \A j \in DOMAIN owner : owner[j] = n => j <= i
        /\ ~Registered(i) /\ ~Closing(i)
        /\ Live(prog[i])
        /\ Named({"install"}, n) \/ Dormant(prog[i])

\* Every instance whose task has not ended is registered, on its way out or
\* staged.
Accounted ==
    Up => \A i \in DOMAIN prog :
        \/ prog[i].ended \/ Registered(i) \/ Closing(i)
        \/ Awaited(owner[i]) /\ owner[i] \in DOMAIN pending_configs /\ i = Staged(owner[i])

RegisteredSound ==
    Up => \A n \in DOMAIN programs :
        LET i == programs[n] IN
        /\ Live(prog[i]) \/ Outgoing(n)
        /\ Outgoing(n) => prog[i].ended \/ Closing(i)

Exclusive ==
    \A i, j \in DOMAIN prog :
        i # j /\ owner[i] = owner[j] => Dormant(prog[i]) \/ Dormant(prog[j])

Agreed ==
    /\ shared_configs = configs
    /\ cron_table = CronTable(configs)
    /\ Buildable(configs) => dag = Dag(configs)

\* What the maps disagree about is still in the agenda.
Tracked ==
    Up =>
        /\ DOMAIN programs \subseteq DOMAIN configs
        /\ \A n \in DOMAIN configs \ DOMAIN programs : Named({"forget"}, n)
        /\ Agreed \/ \E b \in Todo : b.do \in {"adopt", "derive"}

\* A reload has a block for every program that is not yet as the new
\* configuration wants it.
ReloadTracked ==
    (\E b \in Todo : b.do = "adopt") =>
        \A n \in DOMAIN configs \cup DOMAIN pending_configs :
            \/ /\ n \in DOMAIN configs \cap DOMAIN pending_configs
               /\ configs[n] = pending_configs[n]
               /\ ~Named({"remove", "forget"}, n)
            \/ Named({"remove", "forget"}, n) /\ n \notin DOMAIN pending_configs
            \/ Named({"replace", "add", "install"}, n)

IInv ==
    /\ TypeOK /\ DoneMeansGone /\ RecordsSound /\ MapsSound /\ AgendaSound /\ BlocksSound
    /\ ClosingSound /\ StagedSound /\ Accounted /\ RegisteredSound
    /\ Exclusive /\ Tracked /\ ReloadTracked

\* n is configured as the newest file wants it.
AsPending(n) ==
    /\ n \in DOMAIN configs \cap DOMAIN pending_configs
    /\ configs[n] = pending_configs[n]

\* What a reload has still to do is about programs that its file changes.
Spared ==
    pc = "exec" /\ cmd.op = "Reload" =>
        \A b \in Todo :
            /\ ~FreeBlock(b) /\ b.do \notin {"derive", "swap"}
            /\ NameBlock(b) => ~AsPending(b.name)

\* The programs a stop command is about.
StopTargets ==
    UNION {SetOf(t) : t \in IF cmd.op = "StopProgram" THEN FindMatch(cmd.arg)
                            ELSE GroupTargets(cmd.arg)}

\* The newest call to a program is a stop, behind whatever is in the mailbox.
StopPending(r) ==
    \/ /\ r.outcome = "wait"
       /\ \/ r.inbox # <<>> /\ r.inbox[Len(r.inbox)] = "Stop"
          \/ r.inbox = <<>> /\ r.doing = "Stop"
    \/ r.outcome = "ok" /\ Dormant(r)
    \/ r.outcome = "err"

\* A stop command that has not failed: every target is still to be called, is
\* being waited for, or is down.
StopsTracked ==
    Up /\ cmd.op \in {"StopProgram", "StopGroup"} /\ result = "ok" =>
        /\ \A b \in Todo : \/ b.do = "call" /\ b.op = "Stop"
                           \/ b.do = "await" /\ b.strict
        /\ \A n \in StopTargets :
               /\ n \in DOMAIN programs
               /\ \/ \E b \in Todo : b.do = "call" /\ b.name = n
                  \/ /\ \E b \in Todo : b.do = "await" /\ programs[n] \in b.ids
                     /\ StopPending(prog[programs[n]])
                  \/ Dormant(prog[programs[n]])

-----------------------------------------------------------------------------
(* The layers of stop_all.  What follows holds when no call times out and   *)
(* no probe restarts a program: a command that nobody waits for may still   *)
(* start a program that was passed over because it was STOPPED.             *)

\* A command is in the mailbox or in hand just while its caller waits for it.
Attended(r) ==
    \/ r.ended \/ r.cancel
    \/ /\ r.doing \in Ops \cup {"idle"}
       /\ r.outcome = "wait" =>
              \/ r.doing = "idle" /\ Len(r.inbox) = 1
              \/ r.doing # "idle" /\ r.inbox = <<>>
       /\ r.outcome # "wait" => r.doing = "idle" /\ r.inbox = <<>>

\* The calls that are not answered are those the first block waits for.
CallsAttended ==
    Up => \A i \in DOMAIN prog :
        /\ Attended(prog[i])
        /\ prog[i].outcome = "wait" => At("await") /\ i \in Head(agenda).ids

\* The answer to a stop that is waited for will find the program down.
StopInHand(r) ==
    \/ /\ r.outcome = "wait"
       /\ \/ r.inbox = <<"Stop">> /\ r.doing = "idle"
          \/ r.inbox = <<>> /\ r.doing = "Stop"
    \/ r.outcome = "ok" /\ Dormant(r)

\* When the blocks before the k-th are done, program m is down.
DownBefore(k, m) ==
    \/ \E l \in DOMAIN agenda : l < k /\ agenda[l].do = "stop_layer" /\ m \in agenda[l].names
    \/ /\ 1 < k /\ At("await") /\ programs[m] \in Head(agenda).ids
       /\ StopInHand(prog[programs[m]])
    \/ Dormant(prog[programs[m]])

\* Layers come before what ends the programs and wait without regard to errors.
LayerBlocks ==
    \A b \in Todo :
        /\ b.do \in {"stop_layer", "await", "shutdown", "cancel", "join", "swap", "start_layer"}
        /\ b.do = "await" => ~b.strict
        /\ cmd.op = "StopAll" => b.do \in {"stop_layer", "await"}

\* A layer has its turn before what ends the programs, and when the programs
\* that depend on it are down.
InTurn(k) ==
    /\ \A l \in DOMAIN agenda : l < k => agenda[l].do \in {"stop_layer", "await"}
    /\ \A m \in DOMAIN programs : Live(prog[programs[m]])
    /\ Buildable(configs) =>
           \A n \in agenda[k].names : \A m \in DOMAIN programs :
               n \in Deps(configs, m) => DownBefore(k, m)

\* stop_all has its end when all programs are down.
DownAtEnd ==
    cmd.op = "StopAll" /\ Buildable(configs) =>
        \A m \in DOMAIN programs : DownBefore(Len(agenda) + 1, m)

LayersTracked ==
    Up /\ cmd.op \in BulkStop =>
        /\ LayerBlocks
        /\ \A k \in DOMAIN agenda : agenda[k].do = "stop_layer" => InTurn(k)
        /\ DownAtEnd

-----------------------------------------------------------------------------
(* What the documentation says and the code does not keep.                 *)

\* docs/PRD.md: "Gracefully stop all programs".
StopAllStopsAll ==
    pc = "select" /\ cmd.op = "StopAll" =>
        \A n \in DOMAIN programs : prog[programs[n]].state = "Stopped"

-----------------------------------------------------------------------------
(* Liveness properties, under FairSpec.                                    *)

\* Every command is completed: the manager and its programs never wait for
\* each other in a circle, even if no call times out.
CommandCompletes == (pc = "exec") ~> (pc # "exec")

\* A cancelled manager ends all its programs, also if it is aborted in the
\* middle of a handler.
CancelEndsAll ==
    cancel_token ~> \A i \in DOMAIN prog : prog[i].ended

\* The manager always gets through: with a command, and with its own end.
ManagerProgress == CommandCompletes /\ CancelEndsAll
=============================================================================
