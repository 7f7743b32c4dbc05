------------------------------ MODULE MCRunAgain ------------------------------
(***************************************************************************)
(* RunAgain in the small world of MCRuleRunner: rules that share findings  *)
(* and signals, one that may panic in one call and not in the other, and   *)
(* a filter for meta signals.                                              *)
(***************************************************************************)
EXTENDS MCRuleRunner, RunAgain

MCRequestTwice ==
    {Call(rules, skip, <<>>) : rules \in {<<"A", "B">>, <<"Anon", "A">>, <<"B", "Anon">>},
                               skip \in {{}, {"meta.unknown-violation-id"}}}
\* The rule reports its undeclared ID at two places with one message.
RequestOneRule == {Call(<<"A">>, {}, <<>>)}
===============================================================================
