------------------------- MODULE MCDependencyGraph --------------------------
(***************************************************************************)
(* DependencyGraph on every map of at most four programs.  A depends_on    *)
(* list has up to two names, unknown ones and the program itself included; *)
(* the order of a list does not matter to the code, so only ascending      *)
(* lists are tried, and one list repeats a name.                           *)
(***************************************************************************)
EXTENDS DependencyGraph

MCNames == 1 .. 4

MCDependsOn ==
    {<<>>, <<1, 1>>}
        \cup {<<a>> : a \in MCNames}
        \cup {s \in MCNames \X MCNames : s[1] < s[2]}
=============================================================================
