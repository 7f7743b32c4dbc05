---- MODULE MCViewer ----
(* Projects of up to three packages, one of them below another, and up to two *)
(* violations: in a package, in a file of one, of a directory, of the project.*)
EXTENDS Viewer, FiniteSetsExt
MCSegment == {"a", "b", "f"}
MCModule == <<"f">>
Pool == {<<"f", "a">>, <<"f", "a", "b">>, <<"f", "a", "b", "a">>, <<"f", "b", "a">>}
Files == {<<>>, <<"a">>, <<"a", "f">>, <<"a", "b", "f">>, <<"f">>}
Violations == [file : Files, severity : {"error", "warning"}]
Loaded == {{<<"f">>, <<"b">>} \cup s : s \in UNION {kSubset(n, Pool) : n \in 0..2}} \cup {Pool}
MCInputs == [pkgs : Loaded, viols : kSubset(1, Violations)]
            \cup [pkgs : {{<<"f", "a">>, <<"f", "a", "b">>}}, viols : kSubset(2, Violations)]
            \cup [pkgs : {{<<"f", "a">>}}, viols : {{}}]
====
