---------------------------- MODULE MCRuleRunner ----------------------------
(***************************************************************************)
(* A small world for RuleRunner.  Rule "a" reports a declared ID and one   *)
(* undeclared ID at two files; rule "b" (single-ID, may panic) reports its *)
(* own ID and an environmental meta ID; the anonymous rule repeats both    *)
(* "a.x" at the same place with another severity and the same meta signal. *)
(***************************************************************************)
EXTENDS RuleRunner

RankOf(order) == [x \in {order[i] : i \in DOMAIN order} |->
                    CHOOSE i \in DOMAIN order : order[i] = x]

MCIdOrder == <<"", "a", "a.x", "b", "d", "meta.env", "meta.rule-panic",
               "meta.unknown-violation-id", "typo">>
MCId      == {MCIdOrder[i] : i \in DOMAIN MCIdOrder}
MCIdRank  == RankOf(MCIdOrder)
MCMetaId  == {"meta.env", "meta.rule-panic", "meta.unknown-violation-id"}

MCFileOrder == <<"", "f1", "f2">>
MCFile      == {"", "f1", "f2"}
MCFileRank  == RankOf(MCFileOrder)

MCPanicValue == {"nil map", "index"}
MCMsg == {<<"text", t>> : t \in {"m1", "m2"}}
            \cup {UndeclaredMsg(s, id) : s, id \in MCId}
            \cup {PanicMsg(s, p) : s \in MCId, p \in MCPanicValue}
\* As strings: m1, rule ... emitted, rule ... panicked, the other text.
MCMsgRank == [m \in MCMsg |->
    CASE m[1] = "text"       -> IF m[2] = "m1" THEN 0 ELSE 300
      [] m[1] = "undeclared" -> 10 * MCIdRank[m[2]] + MCIdRank[m[3]]
      [] m[1] = "panicked"   -> 200 + 2 * MCIdRank[m[2]] + (IF m[3] = "index" THEN 0 ELSE 1)]

Finding(f, l, id, m) == [file |-> f, line |-> l, rule |-> id, msg |-> <<"text", m>>]
Entry(id, s) == [id |-> id, severity |-> s]
ARule(id, s, cat) == [id |-> id, severity |-> s, violations |-> cat]

MCRuleInst == {"A", "B", "Anon", "Twin", "BadCatalog", "BadSeverity", "SpecBomb", "Typos"}
MCSpecOf == [r \in MCRuleInst |->
    CASE r = "A"    -> ARule("a", "Error", <<Entry("a.x", "Warning")>>)
      [] r = "B"    -> ARule("b", "Warning", <<>>)
      [] r = "Anon" -> ARule("", "Warning", <<Entry("a.x", "Warning"), Entry("a.x", "Error")>>)
      [] r = "Twin" -> ARule("a", "Error", <<>>)
      [] r = "BadCatalog"  -> ARule("d", "Error", <<Entry("d", "Error"), Entry("d", "Warning")>>)
      [] r = "BadSeverity" -> ARule("d", "Error", <<Entry("a.x", "Invalid")>>)
      [] r \in {"SpecBomb", "Typos"} -> ARule("d", "Error", <<>>)]
MCFindingsOf == [r \in MCRuleInst |->
    CASE r = "A"    -> <<Finding("f2", 1, "a.x", "m1"), Finding("f1", 2, "typo", "m1"),
                         Finding("f2", 1, "typo", "m2")>>
      [] r = "B"    -> <<Finding("f1", 2, "b", "m1"), Finding("", 0, "meta.env", "m1")>>
      [] r = "Anon" -> <<Finding("f2", 1, "a.x", "m1"), Finding("", 0, "meta.env", "m1")>>
      [] r = "Typos" -> <<Finding("f2", 1, "typo", "m1")>>
      [] OTHER       -> <<>>]
MCPanicsOf   == [r \in MCRuleInst |-> IF r = "B" THEN MCPanicValue ELSE {}]
MCSpecPanics == {"SpecBomb"}

Call(rules, skip, opts) == [archOk |-> TRUE, rules |-> rules, skip |-> skip, opts |-> opts]

\* Accepted and refused rule sets, filters that name meta and catalog IDs,
\* repeated and invalid overrides, unknown IDs.
MCRuleSets == {<<>>, <<"A", "B">>, <<"B", "A">>, <<"B", "Anon">>, <<"Anon", "A">>,
               <<"A", "Typos">>, <<"A", "Twin">>, <<"Typos", "SpecBomb">>, <<"BadCatalog">>, <<"BadSeverity">>}
MCSkips == {{}, {"a.x"}, {"meta.unknown-violation-id"}, {"typo"}}
MCOpts == {<<>>,
           <<Entry("a.x", "Warning"), Entry("a.x", "Error")>>,
           <<Entry("meta.rule-panic", "Warning")>>,
           <<Entry("b", "Invalid"), Entry("b", "Warning")>>,
           <<Entry("a.x", "Invalid")>>}
MCRequest == {Call(rules, skip, opts) : rules \in MCRuleSets, skip \in MCSkips, opts \in MCOpts}
                \cup {[Call(<<"A">>, {}, <<>>) EXCEPT !.archOk = FALSE]}
MCRequestWithBomb == {Call(rules, {}, <<>>) :
                        rules \in {<<"A", "SpecBomb">>, <<"B">>, <<"Anon", "B">>}}
===============================================================================
