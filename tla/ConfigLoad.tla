----------------------------- MODULE ConfigLoad -----------------------------
(***************************************************************************)
(* Loading a configuration: the parse boundary that expands macros and     *)
(* anchors paths (config/transform.rs, config/expand.rs), the validation   *)
(* and the resolution of the raw program sections into program instances   *)
(* (SupervisorConfig in config/schema.rs).  Sections live in hash maps, so *)
(* the order in which the loader visits them is a choice.                  *)
(*                                                                         *)
(* A text is a sequence of tokens: Lit(p) is literal text, Var(v) is       *)
(* `%(v)s' and Esc(v) is `%%(v)s'.  A value of the configuration is a      *)
(* sequence of texts, the members of a comma-separated list; most values   *)
(* have one.  A name is a text of literals.                                *)
(***************************************************************************)
EXTENDS Naturals, FiniteSets, SequencesExt

CONSTANTS
    Configs,    \* the configuration files considered, see TypeOfConfig below
    Dir,        \* the literal that stands for the directory of the file
    Rooted,     \* the literals that begin like an absolute path
    Slashed,    \* the literals that contain a path separator
    None        \* an option that is not given

VARIABLES
    cfg,        \* the configuration, first raw and then translated
    file,       \* the configuration as it was written
    phase,      \* the step of the loader that runs next
    todo,       \* the sections the current loop has not visited
    group,      \* the group chosen for each program section
    instances,  \* program_instances: the names each section produces
    resolved,   \* the resolved program instances by name
    streams     \* file_streams: the streams that write to a file

vars == <<cfg, file, phase, todo, group, instances, resolved, streams>>

-----------------------------------------------------------------------------
(* Macro expansion.                                                         *)

Lit(p) == <<"lit", p>>
Var(v) == <<"var", v>>
Esc(v) == <<"esc", v>>

Digit(n) == Lit(<<"0", "1", "2", "3">>[n + 1])

\* A `%(v)s' whose variable the context does not define makes the whole
\* expansion fail.
Fails(value, ctx) ==
    \E text \in Range(value) : \E t \in Range(text) :
        t[1] = "var" /\ t[2] \notin DOMAIN ctx

ExpandToken(t, ctx) ==
    CASE t[1] = "lit" -> <<t>>
      [] t[1] = "var" -> ctx[t[2]]
      [] t[1] = "esc" -> <<Var(t[2])>>

ExpandText(text, ctx) ==
    FlattenSeq([i \in DOMAIN text |-> ExpandToken(text[i], ctx)])

\* StringExpression::eval_named, when it does not fail.
Eval(value, ctx) == [i \in DOMAIN value |-> ExpandText(value[i], ctx)]

\* The variables known when the file is parsed, and those of one instance.
FileContext == [here |-> <<Lit(Dir)>>]

ProgramContext(base, grp, num) ==
    [here |-> <<Lit(Dir)>>, program_name |-> base, group_name |-> grp,
     process_num |-> <<Digit(num)>>]

\* expand_value_with_expr keeps the text when the expansion fails.
ExpandLeniently(value) ==
    IF Fails(value, FileContext) THEN value ELSE Eval(value, FileContext)

-----------------------------------------------------------------------------
(* Path translation.                                                        *)

IsAbsLike(text) == text # <<>> /\ Head(text) \in {Lit(p) : p \in Rooted}

HasSeparator(text) == \E t \in Range(text) : t \in {Lit(p) : p \in Slashed}

Sentinels == {<<>>, <<<<>>>>, <<<<Lit("auto")>>>>, <<<<Lit("none")>>>>}

\* The whole value is one path for absolutize, whatever list it spells.
Absolutize(value) ==
    IF value \in Sentinels \/ IsAbsLike(value[1]) THEN value
    ELSE [value EXCEPT ![1] = <<Lit(Dir)>> \o @]

TranslatePathLate(value) ==   \* fault: anchored before it is expanded
    IF value = None THEN None
    ELSE IF cfg.pathTranslation THEN ExpandLeniently(Absolutize(value))
    ELSE ExpandLeniently(value)

TranslatePath(value) ==
    IF value = None THEN None
    ELSE IF cfg.pathTranslation THEN Absolutize(ExpandLeniently(value))
    ELSE ExpandLeniently(value)

TranslateCommand(value) ==
    LET expanded == ExpandLeniently(value)
    IN  IF cfg.pathTranslation /\ HasSeparator(expanded[1])
        THEN Absolutize(expanded) ELSE expanded

TranslatePlain(value) == IF value = None THEN None ELSE ExpandLeniently(value)

TranslateLogs(s) ==
    [s EXCEPT !.stdout = TranslatePath(@), !.stderr = TranslatePath(@),
              !.processName = TranslatePlain(@)]

TranslateSection(s) == [TranslateLogs(s) EXCEPT !.command = TranslateCommand(@)]

-----------------------------------------------------------------------------
(* Settings: the program's own, else program_defaults, else built in.       *)

Inherit(s, field, builtin) ==
    IF s[field] # None THEN s[field]
    ELSE IF cfg.defaults[field] # None THEN cfg.defaults[field]
    ELSE builtin

NumProcs(s)      == Inherit(s, "numprocs", 1)
NumProcsStart(s) == Inherit(s, "numprocsStart", 0)

\* Event listeners inherit nothing from program_defaults.
Own(s, field, builtin) == IF s[field] # None THEN s[field] ELSE builtin

\* The kind of sink a text names: LogDestination::parse_single.
Sink(text) ==
    CASE text = <<Lit("syslog")>> -> "syslog"
      [] text = <<Lit("auto")>> -> "auto"
      [] text \in {<<>>, <<Lit("none")>>, <<Lit("off")>>, <<Lit("/dev/null")>>} -> "null"
      [] OTHER -> "file"

FilePaths(value) == {i \in DOMAIN value : Sink(value[i]) = "file"}

\* default_program_log_path: `:' is not allowed in the name of the file.
DefaultLogPath(name) ==
    <<<<Lit("/var/log")>> \o
      [i \in DOMAIN name |-> IF name[i] = Lit(":") THEN Lit("_") ELSE name[i]]>>

-----------------------------------------------------------------------------
(* Validation.                                                              *)

MentionsProcessNum(value) ==
    \E text \in Range(value) : \E t \in Range(text) : t[2] = "process_num"

\* `sound' stands for the checks of single fields: the command is not empty,
\* the priority and the timeouts are in range, the cron expressions and the
\* log destinations parse.
ValidProgram(s) ==
    /\ s.sound
    /\ NumProcs(s) # 0
    /\ LET template == Inherit(s, "processName", None)
       IN  NumProcs(s) > 1 /\ template # None => MentionsProcessNum(template)

ValidGroup(g) == cfg.groups[g] \subseteq DOMAIN cfg.programs

ValidListener(s) == s.sound /\ s.redirectStderr # TRUE

Valid ==
    /\ \A b \in DOMAIN cfg.programs : ValidProgram(cfg.programs[b])
    /\ \A g \in DOMAIN cfg.groups : ValidGroup(g)
    /\ \A l \in DOMAIN cfg.listeners : ValidListener(cfg.listeners[l])

-----------------------------------------------------------------------------
(* Resolution.                                                              *)

\* The group a section belongs to: its own, else one of the groups that list
\* it, whichever the hash map yields first, else a group of its own name.
GroupsOf(b) ==
    LET listed == {g \in DOMAIN cfg.groups : b \in cfg.groups[g]}
    IN  IF cfg.programs[b].group # None THEN {cfg.programs[b].group}
        ELSE IF listed # {} THEN listed ELSE {b}

\* The names a section produces, in order.
InstanceNames(b, grp, count, start, template) ==
    IF count = 1 /\ template = None THEN <<b>>
    ELSE [i \in 1 .. count |->
            IF template = None THEN b \o <<Lit(":"), Digit(start + i - 1)>>
            ELSE Eval(template, ProgramContext(b, grp, start + i - 1))[1]]

\* depends_on: a section stands for all its instances, any other name for itself.
ResolveDependsOn(deps) ==
    FlattenSeq([i \in DOMAIN deps |->
        IF deps[i] \in DOMAIN instances THEN instances[deps[i]] ELSE <<deps[i]>>])

ResolveLogs(s, name, ctx) ==
    LET stdout == Inherit(s, "stdout", None)
        stderr == Inherit(s, "stderr", None)
        mode   == Inherit(s, "mode", "on")
    IN  [mode |-> mode,
         stdout |-> IF stdout # None THEN Eval(stdout, ctx)
                    ELSE IF mode = "on" THEN DefaultLogPath(name) ELSE None,
         stderr |-> IF stderr # None THEN Eval(stderr, ctx) ELSE None,
         rotates |-> Inherit(s, "rotates", TRUE),
         redirect |-> Inherit(s, "redirectStderr", FALSE)]

\* Some text of the section mentions a variable no instance defines.
ExpansionFails(values, ctx) == \E v \in values \ {None} : Fails(v, ctx)

\* The process-group flags contradict each other.
GroupFlagsClash(s) ==
    LET stop == Inherit(s, "stopAsGroup", FALSE)
    IN  stop /\ ~Inherit(s, "killAsGroup", stop)

ResolveInstance(b, i) ==
    LET s   == cfg.programs[b]
        ctx == ProgramContext(b, group[b], NumProcsStart(s) + i - 1)
    IN  [base |-> b, group |-> group[b], command |-> Eval(s.command, ctx),
         dependsOn |-> ResolveDependsOn(s.dependsOn),
         logs |-> ResolveLogs(s, instances[b][i], ctx), listener |-> FALSE]

ResolveListener(l, name, num) ==
    LET s   == cfg.listeners[l]
        ctx == ProgramContext(l, l, num)
    IN  [base |-> l, group |-> l, command |-> Eval(s.command, ctx),
         dependsOn |-> <<>>,
         logs |-> [mode |-> "on", stdout |-> None,
                   stderr |-> IF s.stderr # None THEN Eval(s.stderr, ctx) ELSE None,
                   rotates |-> TRUE, redirect |-> FALSE],
         listener |-> TRUE]

NeverCollides(names) == FALSE   \* fault: a later instance replaces the earlier

\* The name is produced twice: by the section itself or by an earlier one.
Collides(names) ==
    \/ Range(names) \cap DOMAIN resolved # {}
    \/ ~IsInjective(names)

-----------------------------------------------------------------------------
(* The streams that share a file.                                           *)

StreamsOf(owner, channel, value, rotates) ==
    IF value = None THEN {}
    ELSE {[path |-> value[i], owner |-> owner, channel |-> channel,
           member |-> i, rotates |-> rotates] : i \in FilePaths(value)}

CollectStdout ==   \* fault: stderr is taken to go wherever stdout goes
    StreamsOf(<<>>, "main", cfg.log.file, cfg.log.rotates) \cup
    UNION {LET logs == resolved[n].logs
           IN  IF logs.mode = "off" THEN {}
               ELSE StreamsOf(n, "stdout", logs.stdout, logs.rotates)
           : n \in DOMAIN resolved}

\* Phase 4 collects the streams of the daemon and of every enabled program.
CollectStreams ==
    StreamsOf(<<>>, "main", cfg.log.file, cfg.log.rotates) \cup
    UNION {LET logs == resolved[n].logs
           IN  IF logs.mode = "off" THEN {}
               ELSE StreamsOf(n, "stdout", logs.stdout, logs.rotates) \cup
                    IF logs.redirect THEN {}
                    ELSE StreamsOf(n, "stderr", logs.stderr, logs.rotates)
           : n \in DOMAIN resolved}

Competing(set) ==
    \E s, t \in set : s # t /\ s.path = t.path /\ (s.rotates \/ t.rotates)

-----------------------------------------------------------------------------
Init ==
    /\ cfg \in Configs
    /\ file = cfg
    /\ phase = "translate"
    /\ todo = {}
    /\ group = <<>> /\ instances = <<>> /\ resolved = <<>>
    /\ streams = {}

Fail == phase' = "failed" /\ UNCHANGED <<cfg, file, todo, group, instances, resolved, streams>>

\* translate_paths: one walk over the whole tree.
Translate ==
    /\ phase = "translate"
    /\ cfg' = [cfg EXCEPT
                !.defaults = TranslateLogs(@),
                !.programs = [b \in DOMAIN @ |-> TranslateSection(@[b])],
                !.listeners = [l \in DOMAIN @ |-> TranslateSection(@[l])],
                !.log.file = TranslatePath(@)]
    /\ phase' = "validate"
    /\ UNCHANGED <<file, todo, group, instances, resolved, streams>>

Validate ==
    /\ phase = "validate"
    /\ IF Valid
       THEN /\ phase' = "instances"
            /\ todo' = DOMAIN cfg.programs
            /\ UNCHANGED <<cfg, file, group, instances, resolved, streams>>
       ELSE Fail

\* Phase 1, for one section.
NameInstances(b) ==
    LET s == cfg.programs[b]
        template == Inherit(s, "processName", None)
    IN  /\ phase = "instances"
        /\ b \in todo
        /\ \E g \in GroupsOf(b) :
             IF template # None /\ Fails(template, ProgramContext(b, g, 0)) THEN Fail
             ELSE /\ group' = (b :> g) @@ group
                  /\ instances' = (b :> InstanceNames(b, g, NumProcs(s),
                                            NumProcsStart(s), template)) @@ instances
                  /\ todo' = todo \ {b}
                  /\ UNCHANGED <<cfg, file, phase, resolved, streams>>

\* Phase 2, for one section: every instance is expanded and entered.
ResolveProgram(b) ==
    LET s == cfg.programs[b]
        names == instances[b]
        ctx == ProgramContext(b, group[b], 0)
    IN  /\ phase = "resolve"
        /\ b \in todo
        /\ IF \/ ExpansionFails({s.command, Inherit(s, "stdout", None),
                                 Inherit(s, "stderr", None)}, ctx)
              \/ GroupFlagsClash(s)
              \/ Collides(names)
           THEN Fail
           ELSE /\ resolved' = [n \in Range(names) |->
                                   ResolveInstance(b, CHOOSE i \in DOMAIN names : names[i] = n)]
                               @@ resolved
                /\ todo' = todo \ {b}
                /\ UNCHANGED <<cfg, file, phase, group, instances, streams>>

\* Phase 3, for one event listener pool.
ResolvePool(l) ==
    LET s == cfg.listeners[l]
        start == Own(s, "numprocsStart", 0)
        names == InstanceNames(l, l, Own(s, "numprocs", 1), start, s.processName)
        ctx == ProgramContext(l, l, 0)
    IN  /\ phase = "listeners"
        /\ l \in todo
        /\ IF \/ s.processName # None /\ Fails(s.processName, ctx)
              \/ ExpansionFails({s.command, s.stderr}, ctx)
              \/ Own(s, "stopAsGroup", FALSE) /\ ~Own(s, "killAsGroup", TRUE)
              \/ Collides(names)
           THEN Fail
           ELSE /\ resolved' = [n \in Range(names) |->
                                   ResolveListener(l, n, start - 1
                                       + CHOOSE i \in DOMAIN names : names[i] = n)]
                               @@ resolved
                /\ todo' = todo \ {l}
                /\ UNCHANGED <<cfg, file, phase, group, instances, streams>>

\* A loop over a hash map is over: the next phase begins.
NextPhase ==
    /\ todo = {}
    /\ \/ phase = "instances" /\ phase' = "resolve" /\ todo' = DOMAIN cfg.programs
       \/ phase = "resolve" /\ phase' = "listeners" /\ todo' = DOMAIN cfg.listeners
       \/ phase = "listeners" /\ phase' = "streams" /\ todo' = {}
    /\ UNCHANGED <<cfg, file, group, instances, resolved, streams>>

\* Phase 4.
CheckStreams ==
    /\ phase = "streams"
    /\ streams' = CollectStreams
    /\ phase' = IF Competing(streams') THEN "failed" ELSE "loaded"
    /\ UNCHANGED <<cfg, file, todo, group, instances, resolved>>

Next ==
    \/ Translate
    \/ Validate
    \/ \E b \in DOMAIN cfg.programs : NameInstances(b) \/ ResolveProgram(b)
    \/ \E l \in DOMAIN cfg.listeners : ResolvePool(l)
    \/ NextPhase
    \/ CheckStreams

Spec == Init /\ [][Next]_vars

-----------------------------------------------------------------------------
(* Properties.                                                              *)

Loaded == phase = "loaded"

Count(section, builtin) == IF section.numprocs # None THEN section.numprocs ELSE builtin

Sum(f) == FoldFunction(LAMBDA n, total : n + total, 0, f)

\* Whatever order the maps are visited in, a configuration that loads has as
\* many instances as its sections ask for: no name produced by two sections
\* hides an instance of one of them (the duplicate checks of resolve_programs).
InstancesComplete ==
    Loaded => Cardinality(DOMAIN resolved) =
                Sum([b \in DOMAIN file.programs |->
                        Count(file.programs[b], Count(file.defaults, 1))]) +
                Sum([l \in DOMAIN file.listeners |-> Count(file.listeners[l], 1)])

\* A program that depends on a section waits for every instance of it, however
\* the instances are named, and for nothing that its section does not name.
DependsOnAll ==
    Loaded =>
      \A n \in DOMAIN resolved : ~resolved[n].listener =>
        LET asked == Range(file.programs[resolved[n].base].dependsOn)
        IN  Range(resolved[n].dependsOn) =
              {m \in DOMAIN resolved : ~resolved[m].listener /\ resolved[m].base \in asked}
              \cup (asked \ DOMAIN file.programs)

\* Sections become instances under names that all refer to the right ones (the
\* naming and the collision check of resolve_programs).
NamesResolved == InstancesComplete /\ DependsOnAll

\* The files the daemon and its programs open while they run: the sinks built
\* by build_process_log_backends, none when logs are off or kept in memory.
Opened ==
    StreamsOf(<<>>, "main", cfg.log.file, cfg.log.rotates) \cup
    UNION {LET logs == resolved[n].logs
           IN  IF logs.mode # "on" THEN {}
               ELSE StreamsOf(n, "stdout", logs.stdout, logs.rotates) \cup
                    IF logs.redirect THEN {}
                    ELSE StreamsOf(n, "stderr", logs.stderr, logs.rotates)
           : n \in DOMAIN resolved}

\* In a configuration that loads (the check that ends resolve_programs), no two
\* streams that are open together write to one file when one of them rotates
\* it: independent rotators would rename the file under each other.
NoCompetingRotators == Loaded => ~Competing(Opened)

\* A path that needs only one of the two expansions: it has no escape, and it
\* does not start at `here' while it mentions a variable of the instance.
OnePass(value) ==
    \A text \in Range(value) :
        /\ \A t \in Range(text) : t[1] # "esc"
        /\ text # <<>> /\ Head(text) = Var("here") => ~Fails(value, FileContext)

\* What the documentation promises of a path: expanded, then anchored at the
\* directory of the file unless it is absolute or a sentinel.
Documented(value, ctx) ==
    LET expanded == Eval(value, ctx)
    IN  IF file.pathTranslation THEN Absolutize(expanded) ELSE expanded

ContextOf(n) ==
    LET b == resolved[n].base
        s == cfg.programs[b]
    IN  ProgramContext(b, resolved[n].group,
            NumProcsStart(s) - 1 + CHOOSE i \in DOMAIN instances[b] : instances[b][i] = n)

\* The two expansions of the stdout path of a section that sets one, when the
\* file is parsed (translate_paths) and for the instance (resolve_programs),
\* give what a single one would give wherever one of them is enough.
PathsAnchored ==
    Loaded =>
      \A n \in DOMAIN resolved :
        ~resolved[n].listener =>
          LET value == file.programs[resolved[n].base].stdout
          IN  value # None /\ OnePass(value) =>
                resolved[n].logs.stdout = Documented(value, ContextOf(n))
=============================================================================
