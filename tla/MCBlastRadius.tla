----------------------------- MODULE MCBlastRadius -----------------------------
(* Five internal packages joined by up to three acyclic imports or by nearly  *)
(* all; rings and hubs of up to eight, some excluded; another internal root;  *)
(* contexts it refuses. Packages outside import packages inside.              *)
EXTENDS Metrics, FiniteSetsExt
MCPath == 1..8
Context(module, under, excluded, edges) ==
    [module |-> module, under |-> under, shown |-> under, excluded |-> excluded,
     imports |-> [p \in MCPath |-> {q \in MCPath : <<p, q>> \in edges}]]
Downward(n) == {e \in (1..n) \X (1..n) : e[1] > e[2]}
Dags == {Context("known", 1..5, {}, E) : E \in UNION {kSubset(n, Downward(5)) : n \in {0, 1, 2, 3, 9, 10}}}
\* chain below a hub: n packages import 1, the last m of them in a chain
Hub(n, m) == {<<p, 1>> : p \in 2..n} \cup {<<p + 1, p>> : p \in n - m..n - 1}
Hubs == {Context("known", 1..n, {}, Hub(n, m)) : n \in 6..7, m \in {1, 3}}
Ring(n) == {<<p, (p % n) + 1>> : p \in 1..n}
\* the hub imports a package of its own
Deep(n) == {<<p, 2>> : p \in 3..n} \cup {<<2, 1>>}
Others == {Context("known", 1..8, {}, Deep(8)), Context("known", 1..6, {}, {<<3, 2>>, <<2, 1>>}),
           Context("known", 1..5, {}, Ring(5)),
           Context("known", 1..6, {}, Ring(3) \cup {<<5, 1>>, <<6, 4>>}),
           Context("known", 1..7, {2}, Hub(7, 4)), Context("known", 1..6, {3}, Hub(8, 4)),
           Context("known", 1..5, {1}, Ring(5)), Context("unknown", {}, {}, {}),
           Context("known", {}, {}, {})}
\* packages 6 to 8 are outside the internal root and import what is inside
Importers == {Context("known", 1..5, {}, Deep(8)), Context("known", 1..6, {4}, Deep(8)),
              [Context("known", 1..5, {}, Ring(8)) EXCEPT !.shown = {3, 4, 5, 6}]}
MCInputs == Dags \cup Hubs \cup Others \cup Importers
===============================================================================
