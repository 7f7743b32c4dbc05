-------------------------------- MODULE Report --------------------------------
(***************************************************************************)
(* What callers make of the result of core.Run (src/report/): the JSON     *)
(* report and the verdict of the generated test. Marshalling, wording and  *)
(* the text of a fix are left out.                                         *)
(***************************************************************************)
EXTENDS RuleRunner, FiniteSets

\* Mutant: a file and a line are enough to sort by.
ReportBeforeByPlace(a, b) == SortsBeforeByPlace(a, b)

\* The less function of BuildJSONReport.
ReportBefore(a, b) ==
    IF a.file # b.file THEN FileRank[a.file] < FileRank[b.file]
    ELSE IF a.line # b.line THEN a.line < b.line
    ELSE IF a.rule # b.rule THEN IdRank[a.rule] < IdRank[b.rule]
    ELSE MsgRank[a.msg] < MsgRank[b.msg]

\* The defensive copy, sorted by a stable sort: as many violations come before
\* the i-th as are smaller, or equal and earlier.
ReportSorted(s) ==
    LET Before(i) == {j \in DOMAIN s : \/ ReportBefore(s[j], s[i])
                                       \/ j < i /\ ~ReportBefore(s[i], s[j])}
    IN  [k \in DOMAIN s |-> s[CHOOSE i \in DOMAIN s : Cardinality(Before(i)) = k - 1]]

IsError(v) == v.effective # "Warning"
Errors(s)  == Cardinality({i \in DOMAIN s : IsError(s[i])})

BuildJSONReport(s) ==
    [violations |-> ReportSorted(s),
     total |-> Len(s), errors |-> Errors(s), warnings |-> Len(s) - Errors(s),
     files |-> Cardinality({s[i].file : i \in DOMAIN s} \ {NoFile}),
     rules |-> {s[i].rule : i \in DOMAIN s} \ {NoId}]

\* AssertNoViolations
TestFails(s) == Errors(s) > 0
================================================================================
