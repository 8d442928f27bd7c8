------------------------------- MODULE MCSetup -------------------------------
(***************************************************************************)
(* The computations between a configuration file and the first process:    *)
(* the INI reader, the loader, the dependency graph, and the deadlines the *)
(* handle derives for its calls.  As in MCStreams `part' names the one     *)
(* that runs.                                                              *)
(***************************************************************************)
EXTENDS MCDependencyGraph, TLC

CONSTANT None

VARIABLES
    part,
    tree, inifile, pos, section, key, val, indent, parsed, ini, patterns, matched,
    visited, iniresult,
    cfg, file, phase, todo, group, instances, resolved, streams,
    configs, command, deadline, work, elapsed

graphVars  == <<programs, pc, result, in_degrees, queue, layers_map, visited_count,
                start_layers, stop_layers>>
iniVars    == <<tree, inifile, pos, section, key, val, indent, parsed, ini, patterns,
                matched, visited, iniresult>>
loadVars   == <<cfg, file, phase, todo, group, instances, resolved, streams>>
budgetVars == <<configs, command, deadline, work, elapsed>>
setupVars  == <<part, graphVars, iniVars, loadVars, budgetVars>>

-----------------------------------------------------------------------------
(* INI files: every sequence of three lines, and trees of included files.  *)

Here    == "%(here)s"
Star    == -1
AnyChar == -2

F(dir, name) == [dir |-> dir, name |-> name]
W(word)      == F("", word)

Line(kind, name, value, text, depth) ==
    [kind |-> kind, name |-> name, val |-> value, text |-> text, indent |-> depth]
Blank          == Line("blank", "", <<>>, <<>>, 0)
Head_(name)    == Line("header", name, <<>>, <<>>, 0)
Pair(d, k, v)  == Line("pair", k, v, <<W(k)>> \o v, d)
Text(d, words) == Line("text", "", <<>>, words, d)

Lines ==
    {Blank, Head_("t"), Head_("")}
        \cup {Pair(d, "k", <<W("a")>>) : d \in 0 .. 1}
        \cup {Pair(0, "l", <<F(Here, "f")>>), Pair(2, "k", <<>>)}
        \cup {Text(0, <<W("x")>>), Text(1, <<W("y")>>), Text(2, <<W("z")>>)}

Main == F("etc", <<9>>)

LineTrees ==
    {[main |-> Main, files |-> Main :> head \o <<a, b, c>>] :
        head \in {<<>>, <<Head_("s")>>}, a, b, c \in Lines}

Body(v) == <<Head_("s"), Pair(0, "k", <<W(v), F(Here, "f")>>)>>

Globs ==
    {F(d, p) : d \in {"", Here, "opt"},
               p \in {<<1>>, <<Star>>, <<1, Star>>, <<Star, 2>>, <<1, AnyChar>>,
                      <<Star, 1, Star, 2>>, <<4>>}}

\* Patterns that match one file, several, the main file or nothing; one included
\* file may include another itself.
IncludeTrees ==
    {[main |-> Main,
      files |-> Main :> Body("m") \o <<Head_("include"), Pair(0, "files", <<p>>), Text(1, <<q>>)>>
             @@ F("etc", <<1>>)       :> Body("a")
             @@ F("etc", <<1, 2>>)    :> b
             @@ F("etc", <<2, 1, 2>>) :> <<Head_("u"), Pair(0, "k", <<W("u")>>)>> \o Body("c")
             @@ F("opt", <<1, 1, 2>>) :> Body("d")] :
        p, q \in Globs,
        b \in {Body("b"), <<Head_("include"), Pair(0, "files", <<F("", <<1>>)>>)>>}}

Ini == INSTANCE IniFiles
       WITH file <- inifile, result <- iniresult, Trees <- LineTrees \cup IncludeTrees

-----------------------------------------------------------------------------
(* Configuration files, as words of literals, macros and escaped macros.   *)

Lit(p) == <<"lit", p>>
Var(v) == <<"var", v>>
Esc(v) == <<"esc", v>>

N(p) == <<Lit(p)>>
ProgA == N("a")
ProgB == N("b")
ProgC == N("c")
A0 == <<Lit("a"), Lit(":"), Lit("0")>>

Section ==
    [command |-> <<N("cmd")>>, sound |-> TRUE, numprocs |-> None,
     numprocsStart |-> None, processName |-> None, group |-> None,
     dependsOn |-> <<>>, stdout |-> None, stderr |-> None, mode |-> None,
     rotates |-> None, redirectStderr |-> None, stopAsGroup |-> None,
     killAsGroup |-> None]

File ==
    [pathTranslation |-> TRUE, defaults |-> Section, programs |-> ProgA :> Section,
     groups |-> <<>>, listeners |-> <<>>, log |-> [file |-> None, rotates |-> TRUE]]

Templates == {None, <<<<Var("program_name"), Lit("_"), Var("process_num")>>>>,
              <<N("a")>>, <<<<Lit("x"), Var("process_num")>>>>,
              <<<<Var("nosuch"), Var("process_num")>>>>}

\* Names: numbered and named instances, a section called like an instance of
\* another, dependencies on sections, instances and unknown names, listeners.
NameFiles ==
    {[File EXCEPT
        !.defaults.numprocs = dn,
        !.programs = ProgA :> [Section EXCEPT !.numprocs = n, !.numprocsStart = st,
                                          !.processName = t]
                  @@ other :> [Section EXCEPT !.dependsOn = <<ProgA, d>>, !.processName = u],
        !.listeners = l]
       : dn \in {None, 2}, n \in {None, 0, 1, 2}, st \in {None, 1},
         t \in Templates, u \in {None, <<N("a")>>}, other \in {ProgB, A0},
         d \in {A0, ProgC},
         l \in {<<>>, ProgC :> [Section EXCEPT !.numprocs = 2], ProgB :> Section}}

\* Groups and the flags that are checked against each other.
GroupFiles ==
    {[File EXCEPT
        !.programs = ProgA :> [Section EXCEPT !.group = g, !.sound = ok,
                              !.stopAsGroup = sg, !.killAsGroup = kg,
                              !.processName = <<<<Var("group_name"), Lit("_"), Lit("p")>>>>],
        !.groups = gs,
        !.listeners = ProgC :> [Section EXCEPT !.stopAsGroup = sg, !.killAsGroup = kg,
                                           !.redirectStderr = r]]
       : g \in {None, N("g")}, ok \in BOOLEAN, sg \in {None, TRUE},
         kg \in {None, FALSE}, r \in {None, TRUE},
         gs \in {<<>>, N("g") :> {ProgA} @@ N("h") :> {ProgA}, N("g") :> {ProgB}}}

Shared == <<N("/var/log/s")>>

\* Log files: streams of one program, of two and of the daemon on one file.
LogFiles ==
    {[File EXCEPT
        !.log = [file |-> main, rotates |-> mr],
        !.defaults.rotates = dr,
        !.programs = ProgA :> [Section EXCEPT !.stdout = o, !.stderr = e, !.mode = m,
                                          !.redirectStderr = r]
                  @@ ProgB :> [Section EXCEPT !.stdout = o2, !.rotates = r2]]
       : main \in {None, Shared}, mr \in BOOLEAN, dr \in {None, FALSE},
         o \in {None, Shared, Shared \o Shared}, e \in {None, Shared},
         m \in {None, "off", "memory"}, r \in {None, TRUE},
         o2 \in {None, Shared, <<<<Lit("/var/log"), Lit("a")>>>>}, r2 \in {None, FALSE}}

Paths == {<<<<Lit("rel")>>>>, <<<<Var("here"), Lit("/x")>>>>, <<N("/var/log/s")>>,
          <<<<Var("program_name"), Lit("/x")>>>>, <<N("auto")>>, <<N("none")>>,
          <<<<Var("nosuch")>>>>}

\* A path with two macros, and one with an escaped macro.
MorePaths == {<<<<Var("here"), Lit("/x"), Var("program_name")>>>>,
              <<<<Lit("rel"), Esc("here")>>>>}

PathFiles ==
    {[File EXCEPT
        !.pathTranslation = tr,
        !.programs = ProgA :> [Section EXCEPT !.numprocs = n, !.stdout = o, !.stderr = e,
                                              !.command = c]]
       : tr \in BOOLEAN, n \in {None, 2}, o \in Paths \cup MorePaths,
         e \in {None, <<N("rel")>>},
         c \in {<<N("cmd")>>, <<N("bin/cmd")>>, <<<<Var("here"), Lit("/x")>>>>,
               <<<<Var("nosuch")>>>>}}

AbsoluteLiterals == {"/etc/app", "/var/log/s", "/var/log", "/x", "/dev/null"}

Loader == INSTANCE ConfigLoad
          WITH Configs <- NameFiles \cup GroupFiles \cup LogFiles \cup PathFiles,
               Dir <- "/etc/app", Rooted <- AbsoluteLiterals,
               Slashed <- AbsoluteLiterals \cup {"bin/cmd"}

-----------------------------------------------------------------------------
(* The configurations a deadline depends on; times in seconds.             *)

Program(g, stop, hook, kill) ==
    [group |-> g, stop_wait |-> stop, hook |-> hook, kill |-> kill]

\* A group of two instances and a program in it or in another; stop allowances
\* down to nothing and beyond the daily cap.
BudgetConfigs ==
    {<<>>} \cup
    {<<"g", "0">> :> Program("g", s, h, k) @@ <<"g", "1">> :> Program("g", t, 15, 2)
        @@ <<"p">> :> Program(g, 10, 0, 0) :
        s \in {0, 10, 100000}, t \in {1, 500}, h \in {15, 60}, k \in {0, 2},
        g \in {"g", "h"}}

Budgets == INSTANCE CallBudgets
           WITH ConfigSets <- BudgetConfigs,
                Patterns <- {<<"g">>, <<"g", "*">>, <<"g", "0">>, <<"h", "p">>, <<"p">>, <<"z">>},
                Graces <- {30, 1000000}, DurationMax <- 1000000

-----------------------------------------------------------------------------
\* The parts that do not run have little to do.
IdleGraph   == INSTANCE DependencyGraph WITH Names <- {}
IdleIni     == INSTANCE IniFiles
               WITH file <- inifile, result <- iniresult,
                    Trees <- {[main |-> Main, files |-> Main :> <<>>]}
IdleLoader  == INSTANCE ConfigLoad
               WITH Configs <- {File}, Dir <- "/etc/app", Rooted <- {}, Slashed <- {}
IdleBudgets == INSTANCE CallBudgets
               WITH ConfigSets <- {<<>>}, Patterns <- {}, Graces <- {}, DurationMax <- 0

SetupInit ==
    /\ part \in {"graph", "ini", "load", "budgets"}
    /\ IF part = "ini" THEN Ini!Init ELSE IdleIni!Init
    /\ IF part = "load" THEN Loader!Init ELSE IdleLoader!Init
    /\ IF part = "budgets" THEN Budgets!Init ELSE IdleBudgets!Init
    /\ IF part = "graph" THEN Init ELSE IdleGraph!Init

SetupNext ==
    /\ UNCHANGED part
    /\ \/ part = "graph" /\ UNCHANGED <<iniVars, loadVars, budgetVars>> /\ Next
       \/ part = "ini" /\ UNCHANGED <<graphVars, loadVars, budgetVars>> /\ Ini!Next
       \/ part = "load" /\ UNCHANGED <<graphVars, iniVars, budgetVars>> /\ Loader!Next
       \/ part = "budgets" /\ UNCHANGED <<graphVars, iniVars, loadVars>> /\ Budgets!Next

SetupSpec == SetupInit /\ [][SetupNext]_setupVars

-----------------------------------------------------------------------------
(* Properties of the parts, stated there in full.                          *)

\* load_ini_file_with_includes reads from a tree of files what its lines say.
IniExact == part = "ini" => Ini!IniExact

\* resolve_programs gives sections instances under names that refer to them.
NamesResolved == part = "load" => Loader!NamesResolved

\* A configuration that resolve_programs accepts never has two streams write to
\* one file that one of them rotates.
NoCompetingRotators == part = "load" => Loader!NoCompetingRotators

\* translate_paths and the expansion of an instance together anchor a path as a
\* single expansion would.
PathsAnchored == part = "load" => Loader!PathsAnchored

\* The timeouts ManagerHandle computes are enough for the calls the manager
\* makes on behalf of the command.
DeadlineCoversWork == part = "budgets" => Budgets!DeadlineCoversWork
=============================================================================
