------------------------------- MODULE RunAgain -------------------------------
(***************************************************************************)
(* Two calls of core.Run with the same arguments, one after the other: the *)
(* rules see the same packages but their map iterations may come in        *)
(* another order.  What Run may change between the two calls is what its   *)
(* callers (go test in CI, JSON reports, baselines) observe as flakiness.  *)
(***************************************************************************)
EXTENDS Report

VARIABLE previous   \* what the first call found and returned; <<>> before

InitTwice == Init /\ previous = <<>>

FirstCall == Next /\ UNCHANGED previous

\* The caller runs the same rule set on the same context again.
CallAgain ==
    /\ pc = "done"
    /\ previous = <<>>
    /\ previous' = <<[batch |-> batch, out |-> out]>>
    /\ pc' = "arch"
    /\ overrides' = <<>>
    /\ current' = 1 /\ pending' = <<>> /\ batch' = <<>> /\ out' = <<>>
    /\ read' = 1 /\ write' = 0 /\ seen' = {}
    /\ UNCHANGED request

SpecTwice == InitTwice /\ [][FirstCall \/ CallAgain]_<<vars, previous>>

\* The elements of one list are those of the other, in any order.
Reorders(s, t) ==
    Len(s) = Len(t) /\ \E p \in Permutation(Len(s)) : \A i \in DOMAIN s : s[i] = t[p[i]]

\* The second call is over, and every rule found, or panicked with, the same.
SecondDone ==
    /\ pc = "done" /\ previous # <<>>
    /\ \A k \in DOMAIN batch : Reorders(batch[k], previous[1].batch[k])
Before == previous[1].out

IsPlain(v) == ~IsMeta(v.rule)
PlainIn(s, n) == {i \in 1..n : IsPlain(s[i])}
Signals(s) == {[rule |-> s[i].rule, msg |-> s[i].msg, effective |-> s[i].effective] :
                  i \in {j \in DOMAIN s : IsMeta(s[j].rule)}}

\* s and t have equally many plain violations, and the same one as the n-th.
SamePlain(s, t) ==
    LET Nth(l, i) == Cardinality(PlainIn(l, i)) IN
    /\ Nth(s, Len(s)) = Nth(t, Len(t))
    /\ \A i \in PlainIn(s, Len(s)), j \in PlainIn(t, Len(t)) : Nth(s, i) = Nth(t, j) => s[i] = t[j]

\* Whatever order the rules emitted in, the second call returns the same
\* non-meta violations in the same order and the same meta.* signals at the
\* same severities (runner.go 129-142: stable sort on file, line, rule,
\* message).
SameUpToMetaPlace ==
    SecondDone => SamePlain(out, Before) /\ Signals(out) = Signals(Before)

\* runner.go 41-42: the sorted result is "deterministic output regardless of
\* map iteration order inside rules".
DeterministicOutput == SecondDone => out = Before

(* A baseline kept on the summary does not flake: two calls agree on the   *)
(* counts, on the rules that have something to report and on the verdict   *)
(* of the test, though files may differ when a meta signal was reported    *)
(* elsewhere (json.go 78-107, report.go 11-23).                            *)
SummariesAgree ==
    SecondDone =>
        LET one == BuildJSONReport(Before)
            two == BuildJSONReport(out)
        IN  /\ <<one.total, one.errors, one.warnings, one.rules>>
                 = <<two.total, two.errors, two.warnings, two.rules>>
            /\ TestFails(out) <=> TestFails(Before)

\* the keys of the sort
Keys(s) == [i \in DOMAIN s |-> <<s[i].file, s[i].line, s[i].rule, s[i].msg>>]
ToldApart(s) == \A i, j \in DOMAIN s : Keys(s)[i] = Keys(s)[j] => i = j

\* s as a caller may list it: any order of the same violations.
Listed(s, p) == [i \in DOMAIN s |-> s[p[i]]]

Summary(s) == LET r == BuildJSONReport(s) IN <<r.total, r.errors, r.warnings, r.files, r.rules>>

(* "core.Run already sorts the same way" (json.go 51): the report lists     *)
(* the violations as Run returned them.  In whatever order a caller lists   *)
(* the same violations, the report says the same of their number, files     *)
(* and rules and shows the same file, line, rule and message at each place, *)
(* and the same violations if no two agree in those four.  That is less     *)
(* than the "byte-stable regardless of the caller's input order" of json.go *)
(* 48-51: violations that agree in all four and differ in severity or fix   *)
(* stay in the caller's order, because the sort is stable.                  *)
ReportKeepsOrder ==
    pc = "done" =>
        /\ BuildJSONReport(out).violations = out
        /\ \A p \in Permutation(Len(out)) :
              LET shown == BuildJSONReport(Listed(out, p)).violations IN
              /\ Summary(Listed(out, p)) = Summary(out)
              /\ Keys(shown) = Keys(out)
              /\ ToldApart(out) => shown = out

\* The counts, rules and verdict do not change between two calls, and the
\* report does not depend on the order in which its caller lists the violations
\* but for those that agree in file, line, rule and message (json.go 48-109,
\* report.go 11-23).
ReportsAreStable == SummariesAgree /\ ReportKeepsOrder
===============================================================================
