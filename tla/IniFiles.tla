------------------------------ MODULE IniFiles -------------------------------
(***************************************************************************)
(* Loading a configuration in INI form: the line-by-line parser and the    *)
(* files an [include] section names (compat/ini/parser.rs).  A line is     *)
(* already stripped of its comment; what is left is blank, a section       *)
(* header, a key with a value, or text without a delimiter.  A value is    *)
(* the sequence of its items [dir, name], where dir is "" for an item that *)
(* is no path.  File names and patterns are sequences of characters, which *)
(* are integers.                                                           *)
(***************************************************************************)
EXTENDS Integers, Sequences, FiniteSets, SequencesExt

CONSTANTS Trees     \* file systems: [main, files: functions from [dir, name] to lines]

\* The wildcards, and the macro that stands for a file's directory.
Star == -1
AnyChar == -2
Here == "%(here)s"

VARIABLES
    tree,
    file, pos,      \* the file being read, and its next line
    section,        \* current_section
    key, val,       \* current_key and current_val
    indent,         \* current_key_indent
    parsed,         \* the ParsedIni of this file: [entries, order]
    ini,            \* the main file, with what was merged into it
    patterns,       \* include patterns not resolved yet
    matched,        \* files of the current pattern not read yet
    visited,        \* visited_files
    result          \* "reading", "including", "ok" or "error"

parserVars == <<file, pos, section, key, val, indent, parsed>>
vars == <<tree, parserVars, ini, patterns, matched, visited, result>>

Empty == [entries |-> <<>>, order |-> <<>>]

-----------------------------------------------------------------------------
(* Finding the files.                                                      *)

\* wildcard_match: p and t are positions in the pattern and the text, star the
\* last `*' passed (0: none), match how much of the text it has taken.
WildcardMatch(pattern, text) ==
    LET States == [p : 1 .. Len(pattern) + 1, t : 1 .. Len(text) + 1,
                   star : 0 .. Len(pattern), match : 0 .. Len(text) + 1]
        here(s) == s.p <= Len(pattern)
        run[s \in States] ==
            IF s.t > Len(text)
            THEN \A i \in s.p .. Len(pattern) : pattern[i] = Star
            ELSE IF here(s) /\ pattern[s.p] \in {AnyChar, text[s.t]}
                 THEN run[[s EXCEPT !.p = @ + 1, !.t = @ + 1]]
            ELSE IF here(s) /\ pattern[s.p] = Star
                 THEN run[[s EXCEPT !.star = s.p, !.match = s.t, !.p = @ + 1]]
            ELSE IF s.star # 0
                 THEN run[[s EXCEPT !.p = s.star + 1, !.match = @ + 1, !.t = s.match + 1]]
            ELSE FALSE
    IN run[[p |-> 1, t |-> 1, star |-> 0, match |-> 0]]

Before(a, b) ==     \* the order of file names
    \/ \E i \in DOMAIN a \cap DOMAIN b :
          a[i] < b[i] /\ \A j \in 1 .. i - 1 : a[j] = b[j]
    \/ Len(a) < Len(b) /\ \A j \in DOMAIN a : a[j] = b[j]

Sorted(files) == SetToSortSeq(files, LAMBDA f, g : Before(f.name, g.name))

ResolveGlob(dir, pattern) ==
    IF \A i \in DOMAIN pattern : pattern[i] \notin {Star, AnyChar}
    THEN IF [dir |-> dir, name |-> pattern] \in DOMAIN tree.files
         THEN <<[dir |-> dir, name |-> pattern]>> ELSE <<>>
    ELSE Sorted({f \in DOMAIN tree.files : f.dir = dir /\ WildcardMatch(pattern, f.name)})

-----------------------------------------------------------------------------
(* The parser.                                                             *)

InsertEntry(p, s, k, v) ==
    [entries |-> [x \in DOMAIN p.entries \cup {<<s, k>>} |->
                     IF x = <<s, k>> THEN v ELSE p.entries[x]],
     order |-> IF Contains(p.order, s) THEN p.order ELSE Append(p.order, s)]

ReplaceHere(v, f) ==
    [i \in DOMAIN v |-> IF v[i].dir = Here THEN [v[i] EXCEPT !.dir = f.dir] ELSE v[i]]

\* flush_kv.
Flushed ==
    IF section # "" /\ key # "" THEN InsertEntry(parsed, section, key, ReplaceHere(val, file))
    ELSE parsed

Open(f) ==
    /\ file' = f /\ pos' = 1 /\ section' = "" /\ key' = "" /\ val' = <<>> /\ indent' = 0
    /\ parsed' = Empty /\ visited' = visited \cup {f}

Line == tree.files[file][pos]

Reading == result = "reading" /\ pos <= Len(tree.files[file])

\* Blank lines and comments end nothing.
SkipLine ==
    /\ Reading /\ Line.kind = "blank"
    /\ pos' = pos + 1
    /\ UNCHANGED <<tree, file, section, key, val, indent, parsed, ini, patterns, matched,
                   visited, result>>

HeaderLine ==
    /\ Reading /\ Line.kind = "header"
    /\ pos' = pos + 1
    /\ parsed' = Flushed /\ section' = Line.name /\ key' = "" /\ val' = <<>> /\ indent' = 0
    /\ UNCHANGED <<tree, file, ini, patterns, matched, visited, result>>

Continues == key # "" /\ Line.indent > indent

ContinuationLine ==
    /\ Reading /\ Line.kind \in {"pair", "text"} /\ Continues
    /\ pos' = pos + 1
    /\ val' = val \o Line.text
    /\ UNCHANGED <<tree, file, section, key, indent, parsed, ini, patterns, matched, visited,
                   result>>

\* Fault: a key leaves the depth of the one before it.
PairLineKeepsIndent ==
    /\ Reading /\ Line.kind = "pair" /\ ~Continues
    /\ pos' = pos + 1
    /\ parsed' = Flushed /\ key' = Line.name /\ val' = Line.val
    /\ UNCHANGED <<tree, file, section, indent, ini, patterns, matched, visited, result>>

PairLine ==
    /\ Reading /\ Line.kind = "pair" /\ ~Continues
    /\ pos' = pos + 1
    /\ parsed' = Flushed /\ key' = Line.name /\ val' = Line.val /\ indent' = Line.indent
    /\ UNCHANGED <<tree, file, section, ini, patterns, matched, visited, result>>

\* Text that continues nothing is ignored.
StrayLine ==
    /\ Reading /\ Line.kind = "text" /\ ~Continues
    /\ pos' = pos + 1
    /\ UNCHANGED <<tree, file, section, key, val, indent, parsed, ini, patterns, matched,
                   visited, result>>

-----------------------------------------------------------------------------
(* load_ini_file_with_includes.                                            *)

Merged(p, q) ==
    [entries |-> [x \in DOMAIN p.entries \cup DOMAIN q.entries |->
                     IF x \in DOMAIN q.entries THEN q.entries[x] ELSE p.entries[x]],
     order |-> p.order \o SelectSeq(q.order, LAMBDA s : ~Contains(p.order, s))]

EndOfFile == result = "reading" /\ pos > Len(tree.files[file])

MainRead ==
    /\ EndOfFile /\ file = tree.main
    /\ ini' = Flushed
    /\ patterns' = IF <<"include", "files">> \in DOMAIN ini'.entries
                   THEN ini'.entries[<<"include", "files">>] ELSE <<>>
    /\ result' = "including"
    /\ UNCHANGED <<tree, parserVars, matched, visited>>

IncludedRead ==
    /\ EndOfFile /\ file # tree.main
    /\ IF Contains(Flushed.order, "include")
       THEN result' = "error" /\ UNCHANGED ini
       ELSE result' = "including" /\ ini' = Merged(ini, Flushed)
    /\ UNCHANGED <<tree, parserVars, patterns, matched, visited>>

NextFile ==
    /\ result = "including" /\ matched # <<>>
    /\ IF Head(matched) \in visited
       THEN result' = "error" /\ UNCHANGED <<parserVars, visited>>
       ELSE result' = "reading" /\ Open(Head(matched))
    /\ matched' = Tail(matched)
    /\ UNCHANGED <<tree, ini, patterns>>

\* A relative pattern is resolved in the directory of the main file.
NextPattern ==
    /\ result = "including" /\ matched = <<>> /\ patterns # <<>>
    /\ LET p == Head(patterns)
       IN matched' = ResolveGlob(IF p.dir = "" THEN tree.main.dir ELSE p.dir, p.name)
    /\ patterns' = Tail(patterns)
    /\ UNCHANGED <<tree, parserVars, ini, visited, result>>

Loaded ==
    /\ result = "including" /\ matched = <<>> /\ patterns = <<>>
    /\ result' = "ok"
    /\ UNCHANGED <<tree, parserVars, ini, patterns, matched, visited>>

Init ==
    /\ tree \in Trees
    /\ file = tree.main /\ pos = 1 /\ section = "" /\ key = "" /\ val = <<>> /\ indent = 0
    /\ parsed = Empty /\ ini = Empty /\ patterns = <<>> /\ matched = <<>>
    /\ visited = {tree.main} /\ result = "reading"

Next ==
    \/ SkipLine \/ HeaderLine \/ ContinuationLine \/ PairLine \/ StrayLine
    \/ MainRead \/ IncludedRead \/ NextFile \/ NextPattern \/ Loaded

Spec == Init /\ [][Next]_vars

-----------------------------------------------------------------------------
(* What the file means, without a parser.                                  *)

\* A pattern matches when the text can be cut into one piece per character of
\* it: a single character for each but the stars.
Fits(pattern, text) ==
    \E cut \in [0 .. Len(pattern) -> 0 .. Len(text)] :
        /\ cut[0] = 0 /\ cut[Len(pattern)] = Len(text)
        /\ \A i \in DOMAIN pattern :
              IF pattern[i] = Star THEN cut[i] >= cut[i - 1]
              ELSE cut[i] = cut[i - 1] + 1 /\ pattern[i] \in {AnyChar, text[cut[i]]}

\* In the lines of a section a key is one that is not indented deeper than an
\* earlier one; what follows and is deeper than the key belongs to it.
Header(ls, i) ==
    LET before == {j \in 1 .. i - 1 : ls[j].kind = "header"}
    IN IF before = {} THEN 0 ELSE CHOOSE j \in before : \A k \in before : k <= j

IsKey(ls, i) ==
    /\ ls[i].kind = "pair"
    /\ \A j \in Header(ls, i) + 1 .. i - 1 : ls[j].kind = "pair" => ls[j].indent >= ls[i].indent

BelongsTo(ls, i, h) ==
    /\ h < i /\ ls[i].kind \in {"pair", "text"} /\ Header(ls, i) = Header(ls, h)
    /\ ls[i].indent > ls[h].indent
    /\ \A j \in h + 1 .. i : ~IsKey(ls, j)

Value(f, h) ==
    LET ls == tree.files[f]
        more == {i \in DOMAIN ls : BelongsTo(ls, i, h)}
    IN ReplaceHere(FoldLeft(LAMBDA v, i : v \o ls[i].text, ls[h].val,
                            SetToSortSeq(more, <)), f)

\* The lines that set an option in a file, and what the file says of it.
Setting(f, x) ==
    LET ls == tree.files[f]
    IN {h \in DOMAIN ls : /\ IsKey(ls, h) /\ ls[h].name = x[2]
                          /\ Header(ls, h) # 0 /\ ls[Header(ls, h)].name = x[1]}

FileSays(f, x) == Value(f, CHOOSE h \in Setting(f, x) : \A k \in Setting(f, x) : k <= h)

Options(f) ==
    LET ls == tree.files[f]
    IN {<<ls[Header(ls, h)].name, ls[h].name>> :
           h \in {h \in DOMAIN ls : IsKey(ls, h) /\ Header(ls, h) # 0
                                      /\ ls[Header(ls, h)].name # ""}}

\* The main file, then each pattern's files in the order of their names.
Files ==
    LET x == <<"include", "files">>
        asked == IF x \in Options(tree.main) THEN FileSays(tree.main, x) ELSE <<>>
    IN FoldLeft(LAMBDA fs, p :
                  fs \o Sorted({f \in DOMAIN tree.files :
                                  /\ f.dir = IF p.dir = "" THEN tree.main.dir ELSE p.dir
                                  /\ Fits(p.name, f.name)}),
                <<tree.main>>, asked)

Illegal ==
    \/ ~IsInjective(Files)
    \/ \E i \in 2 .. Len(Files) : \E x \in Options(Files[i]) : x[1] = "include"

\* Loading accepts exactly the trees in which no file is included twice and no
\* included file includes, and gives each option the value of the last of the
\* files that sets it, with all its continuation lines and no others, and lists
\* each of the sections once.
IniExact ==
    /\ result = "error" => Illegal
    /\ result = "ok" =>
        /\ ~Illegal
        /\ DOMAIN ini.entries = UNION {Options(Files[i]) : i \in DOMAIN Files}
        /\ \A x \in DOMAIN ini.entries :
              LET i == CHOOSE i \in DOMAIN Files :
                          /\ x \in Options(Files[i])
                          /\ \A j \in i + 1 .. Len(Files) : x \notin Options(Files[j])
              IN ini.entries[x] = FileSays(Files[i], x)
        /\ IsInjective(ini.order)
        /\ {ini.order[i] : i \in DOMAIN ini.order} = {x[1] : x \in DOMAIN ini.entries}
=============================================================================
