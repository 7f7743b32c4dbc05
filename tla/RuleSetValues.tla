---------------------------- MODULE RuleSetValues ----------------------------
(***************************************************************************)
(* What src/core/ruleset.go promises ("an immutable collection of rules    *)
(* plus a set of violation IDs ... With and Without return copies"):       *)
(* a RuleSet is a value. Every value the program ever obtained stays what  *)
(* it was; With and Without only ever add one more, computed from one      *)
(* that is already there.                                                  *)
(***************************************************************************)
EXTENDS Sequences, SequencesExt

CONSTANTS
    NilRule,     \* a nil Rule passed to With
    RuleArgs,    \* argument lists With may be called with
    IdArgs       \* argument lists Without may be called with

VARIABLE values  \* the RuleSets obtained so far, each [rules, skip]

\* RuleSet{}
Zero == [rules |-> <<>>, skip |-> {}]

\* The rules of args without the nil ones, a recursive function rather than
\* SelectSeq, of which the provers have no definition.
NonNil(args) ==
    LET kept[n \in 0..Len(args)] ==
            IF n = 0 THEN <<>>
            ELSE IF args[n] = NilRule THEN kept[n - 1]
            ELSE Append(kept[n - 1], args[n])
    IN  kept[Len(args)]

Init == values = <<Zero>>

With(rs, args) ==
    values' = Append(values, [values[rs] EXCEPT !.rules = @ \o NonNil(args)])

Without(rs, ids) ==
    values' = Append(values, [values[rs] EXCEPT !.skip = @ \cup ToSet(ids)])

Next == \E rs \in DOMAIN values :
            \/ \E args \in RuleArgs : With(rs, args)
            \/ \E ids \in IdArgs : Without(rs, ids)

Spec == Init /\ [][Next]_values
==============================================================================
