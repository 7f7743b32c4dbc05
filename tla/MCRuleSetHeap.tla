---- MODULE MCRuleSetHeap ----
(* Two callers, rule lists with and without a nil, a doubled ID. *)
EXTENDS RuleSetHeap, TLC
CONSTANTS c1, c2, r1, r2, a, b
MCCaller == {c1, c2}
MCRule == {r1, r2}
MCID == {a, b}
MCRuleArgs == {<<r1>>, <<r2, NilRule, r1>>, <<>>}
MCIdArgs == {<<a>>, <<b, b>>, <<>>}
Symmetry == Permutations(MCCaller)
====
