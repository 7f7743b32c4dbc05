------------------------------ MODULE BlastRadius ------------------------------
(***************************************************************************)
(* dependency.NewBlastRadius (src/rules/dependency/blast_radius.go): the   *)
(* packages with outlying numbers of transitive dependents.                *)
(*                                                                         *)
(* Every map is ranged over in any order. The queue of the breadth-first   *)
(* search is a set: its order depends on the order of a map, and any       *)
(* element may come first here. Messages, Ca, Ce and instability, which    *)
(* only messages show, are left out.                                       *)
(***************************************************************************)
EXTENDS Integers, FiniteSets

CONSTANTS Path,    \* import paths
          NoPackage,
          Inputs   \* the contexts: [module, under, excluded, imports]

\* module: what validateModule makes of the module; under: the loaded packages
\* below the internal root; excluded: those for which isExcludedPackage holds;
\* imports: Package.Imports of the loaded packages.
ASSUME InputsAssumption ==
    \A in \in Inputs :
        /\ in.module \in {"known", "unknown"}
        /\ in.under \in SUBSET Path /\ IsFiniteSet(in.under)
        /\ in.under \subseteq DOMAIN in.imports
        /\ \A p \in DOMAIN in.imports : in.imports[p] \subseteq Path

VARIABLES
    input,            \* never changes
    pc,
    todo,             \* packages whose metrics are not collected yet
    pkg,              \* the package whose dependents are searched
    visited, queue,   \* of that search
    metrics,          \* number of transitive dependents of the packages done
    report, warning   \* what Check returns: packages, or the ID of a meta violation

vars == <<input, pc, todo, pkg, visited, queue, metrics, report, warning>>

MinPackages == 5
Internal == input.under \ input.excluded
\* the packages that import p, among the internal ones
Reverse(p) == {q \in Internal : p \in input.imports[q]}
-------------------------------------------------------------------------------
(* The threshold, in eighths: the floating-point numbers of the code are   *)
(* multiples of 1/8 and exact. Quartiles are in quarters.                  *)

\* The values of td in ascending order.
Sorted(td) ==
    [i \in 1..Cardinality(DOMAIN td) |->
        CHOOSE v \in {td[p] : p \in DOMAIN td} :
            /\ Cardinality({p \in DOMAIN td : td[p] < v}) < i
            /\ Cardinality({p \in DOMAIN td : td[p] <= v}) >= i]
\* Mutant: the rank is rounded down before the quartile is taken.
QuartileLow(s, k) == 4 * s[((Cardinality(DOMAIN s) - 1) \div 4) * (k - 1) + 1]
Quartile(s, k) ==
    LET n == Cardinality(DOMAIN s)
        f == (k * (n - 1)) \div 4
        d == (k * (n - 1)) % 4
    IN  IF f + 1 >= n THEN 4 * s[f + 1] ELSE s[f + 1] * (4 - d) + s[f + 2] * d
NoThreshold == -1
\* Mutant: a spread above zero needs no floor.
ThresholdBare(s) ==
    IF Quartile(s, 3) = Quartile(s, 1) /\ s[Cardinality(DOMAIN s)] < 3 THEN NoThreshold
    ELSE 5 * Quartile(s, 3) - 3 * Quartile(s, 1)
Threshold(s) ==
    LET q3 == Quartile(s, 3)
        iqr == q3 - Quartile(s, 1)
        max == s[Cardinality(DOMAIN s)]
    IN  IF iqr = 0
        THEN IF 4 * max <= q3 \/ max < 3 THEN NoThreshold ELSE 2 * q3
        ELSE IF 2 * q3 + 3 * iqr < 16 THEN 16 ELSE 2 * q3 + 3 * iqr
Outliers(td) ==
    LET t == Threshold(Sorted(td))
    IN  IF t = NoThreshold THEN {} ELSE {p \in DOMAIN td : 8 * td[p] > t}
-------------------------------------------------------------------------------
Init == /\ input \in Inputs /\ pc = "start"
        /\ todo = {} /\ pkg = NoPackage /\ visited = {} /\ queue = {}
        /\ metrics = [p \in {} |-> 0] /\ report = {} /\ warning = "none"

\* A warning instead of a result, or nothing for a small project.
Return(meta) ==
    /\ pc = "start" /\ pc' = "done" /\ warning' = meta
    /\ UNCHANGED <<input, todo, pkg, visited, queue, metrics, report>>
Refuse == \/ input.module = "unknown" /\ Return("meta.no-matching-packages")
          \/ /\ input.module = "known" /\ input.under = {}
             /\ Return("meta.layout-not-supported")
Skip == /\ input.module = "known" /\ input.under # {}
        /\ Cardinality(Internal) < MinPackages
        /\ Return("none")

Begin == /\ pc = "start" /\ input.module = "known" /\ input.under # {}
         /\ Cardinality(Internal) >= MinPackages
         /\ pc' = "collect" /\ todo' = Internal
         /\ UNCHANGED <<input, pkg, visited, queue, metrics, report, warning>>

\* collectBlastMetrics
Search(p) == /\ pc = "collect"
             /\ pc' = "search" /\ pkg' = p
             /\ visited' = {p} /\ queue' = {p}
             /\ UNCHANGED <<input, todo, metrics, report, warning>>
\* Mutant: packages seen before are queued again.
ExpandAgain(cur) ==
    /\ pc = "search"
    /\ visited' = visited \cup Reverse(cur)
    /\ queue' = (queue \ {cur}) \cup Reverse(cur)
    /\ UNCHANGED <<input, pc, todo, pkg, metrics, report, warning>>
Expand(cur) == /\ pc = "search"
               /\ visited' = visited \cup Reverse(cur)
               /\ queue' = (queue \ {cur}) \cup (Reverse(cur) \ visited)
               /\ UNCHANGED <<input, pc, todo, pkg, metrics, report, warning>>
\* Mutant: the direct dependents are counted.
CountDirect(p, seen) == Cardinality(Reverse(p))
Count(p, seen) == Cardinality(seen) - 1
Record == /\ pc = "search" /\ queue = {}
          /\ pc' = "collect" /\ todo' = todo \ {pkg}
          /\ metrics' = [p \in DOMAIN metrics \cup {pkg} |->
                            IF p = pkg THEN Count(pkg, visited) ELSE metrics[p]]
          /\ UNCHANGED <<input, pkg, visited, queue, report, warning>>

Judge == /\ pc = "collect" /\ todo = {}
         /\ pc' = "done" /\ report' = Outliers(metrics)
         /\ UNCHANGED <<input, todo, pkg, visited, queue, metrics, warning>>

Next == \/ Refuse \/ Skip \/ Begin \/ Record \/ Judge
        \/ \E p \in todo : Search(p)
        \/ \E cur \in queue : Expand(cur)
Spec == Init /\ [][Next]_vars
FairSpec == Spec /\ WF_vars(Next)
-------------------------------------------------------------------------------
\* The README's definition, "full reverse-reachable set": the least set that
\* holds p and every internal package that imports one of its own.
Closed(S) == \A q \in S : Reverse(q) \subseteq S
Reaching(p) == LET around == {S \in SUBSET Internal : p \in S /\ Closed(S)}
               IN  {q \in Internal : \A S \in around : q \in S}

\* Types of the variables.
TypeOK ==
    /\ pc \in {"start", "collect", "search", "done"}
    /\ todo \subseteq Internal /\ pkg \in Path \cup {NoPackage}
    /\ visited \subseteq Internal /\ queue \subseteq visited
    /\ DOMAIN metrics \subseteq Internal
    /\ \A p \in DOMAIN metrics : metrics[p] \in Nat
    /\ report \subseteq Internal
    /\ warning \in {"none", "meta.no-matching-packages", "meta.layout-not-supported"}

\* The searches share nothing: in whatever order packages and importers come,
\* each package gets the size of its full reverse-reachable set.
DependentsExact ==
    pc \in {"collect", "done"} =>
        \A p \in DOMAIN metrics : metrics[p] = Cardinality(Reaching(p)) - 1

\* "unusually many": at most a quarter of the packages, rounded up, is unusual.
HotspotsAreFew ==
    pc = "done" /\ DOMAIN metrics # {} =>
        4 * Cardinality(report) <= Cardinality(Internal) + 2

\* What reaches a hotspot reaches its imports: they are hotspots too.
HotspotsImportHotspots ==
    pc = "done" /\ DOMAIN metrics # {} =>
        \A p \in report : input.imports[p] \cap Internal \subseteq report

\* A small project is left alone: whenever something is reported, a package with
\* three transitive dependents is.
HotspotsAreHot ==
    pc = "done" /\ DOMAIN metrics # {} /\ report # {} => \E p \in report : metrics[p] >= 3

-------------------------------------------------------------------------------
(* The inductive invariant *)

\* What was seen belongs to the reverse-reachable set; what was expanded has
\* no importer that was not seen.
SearchSound ==
    pc = "search" =>
        /\ pkg \in todo /\ pkg \in visited
        /\ visited \subseteq Reaching(pkg)
        /\ \A q \in visited \ queue : Reverse(q) \subseteq visited
\* Metrics are there for the packages done.
Collected ==
    /\ pc = "start" => DOMAIN metrics = {}
    /\ pc \in {"collect", "search"} =>
           DOMAIN metrics = Internal \ todo /\ Cardinality(Internal) >= MinPackages
    /\ pc = "done" /\ DOMAIN metrics # {} =>
           DOMAIN metrics = Internal /\ Cardinality(Internal) >= MinPackages
Exact == \A p \in DOMAIN metrics : metrics[p] = Cardinality(Reaching(p)) - 1
Reported == report = IF pc = "done" /\ DOMAIN metrics # {} THEN Outliers(metrics) ELSE {}
IInv == /\ input \in Inputs /\ TypeOK /\ metrics = [p \in DOMAIN metrics |-> metrics[p]]
        /\ SearchSound /\ Collected /\ Exact /\ Reported

\* The search ends, even when the packages given to NewContext import in a circle.
Terminates == <>(pc = "done")
===============================================================================
