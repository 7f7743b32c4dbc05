-------------------------------- MODULE Metrics --------------------------------
(***************************************************************************)
(* BuildMetricsIndex (src/tui/metrics.go): the numbers the viewer shows    *)
(* next to a package, beside those the blast radius rule judges by. Both   *)
(* count transitive dependents, each with its own search over its own set  *)
(* of packages: the viewer knows neither Layout.InternalRoot nor the       *)
(* exclude patterns and takes what is below "/internal/".                  *)
(***************************************************************************)
EXTENDS BlastRadius

internalPkgs(in) == in.shown
forward(in, p) == in.imports[p] \cap internalPkgs(in)
\* Mutant: an importer counts wherever it is.
reverseAny(in, p) == {q \in DOMAIN in.imports : p \in in.imports[q]}
reverse(in, p) == {q \in internalPkgs(in) : p \in forward(in, q)}

\* The breadth-first search, one round for each distance: the order of its
\* queue is that of a map.
TransitiveDependents(in, p) ==
    LET seen[n \in 0..Cardinality(internalPkgs(in))] ==
            IF n = 0 THEN {p}
            ELSE seen[n - 1] \cup UNION {reverse(in, q) : q \in seen[n - 1]}
    IN  Cardinality(seen[Cardinality(internalPkgs(in))]) - 1
-------------------------------------------------------------------------------
(* The viewer and the rule tell one story: with the default internal root, *)
(* the rule never counts more dependents than the viewer shows, and the    *)
(* same number when nothing is excluded (metrics.go 66-78, blast_radius.go *)
(* 122-144), although the rule excludes packages from both ends of an      *)
(* import.                                                                 *)
ViewerAgrees ==
    pc = "done" /\ input.shown = input.under =>
        \A p \in DOMAIN metrics :
            /\ metrics[p] <= TransitiveDependents(input, p)
            /\ input.excluded = {} => metrics[p] = TransitiveDependents(input, p)
================================================================================
