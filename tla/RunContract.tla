----------------------------- MODULE RunContract -----------------------------
(***************************************************************************)
(* What core.Run promises its caller (doc comments of core.Run, RuleSet,   *)
(* Rule and README "core.Run"), without saying how: one step either        *)
(* refuses the configuration, or crashes on a Spec() that panics, or       *)
(* returns a result that is characterised from what the rules emitted.     *)
(* RuleRunner is shown to implement it.                                    *)
(***************************************************************************)
EXTENDS Naturals, Sequences, FiniteSets

CONSTANTS NoId, MetaId, RulePanic, UnknownId, NoFile,
          FileRank, IdRank, MsgRank,
          SpecOf, FindingsOf, PanicsOf, SpecPanics, Request

VARIABLES
    request,  \* the arguments of the call
    outcome,  \* "pending", then "rejected", "crashed" or "done"
    batch,    \* what each executed rule emitted, in registration order
    result    \* the returned violations

vars == <<request, outcome, batch, result>>

Blocking == {RulePanic, UnknownId}

SpecsOf(rules) == [k \in DOMAIN rules |-> SpecOf[rules[k]]]
Entries(spec)  == {spec.violations[i] : i \in DOMAIN spec.violations}

\* A rule may emit its own ID and those of its catalog.
Declares(spec, id) ==
    \/ id = spec.id /\ id # NoId
    \/ \E e \in Entries(spec) : e.id = id

\* The last override of an ID decides; none if there is no such option.
Overridden(opts, id) == \E i \in DOMAIN opts : opts[i].id = id
Override(opts, id) ==
    opts[CHOOSE i \in DOMAIN opts :
            opts[i].id = id /\ \A j \in i+1..Len(opts) : opts[j].id # id].severity

Legal(r) ==
    LET specs == SpecsOf(r.rules)
        MayName(id) == id \in MetaId \/ \E k \in DOMAIN specs : Declares(specs[k], id)
    IN  /\ r.archOk
        /\ \A k \in DOMAIN specs :
             /\ {specs[k].severity} \cup {e.severity : e \in Entries(specs[k])}
                    \subseteq {"Error", "Warning"}
             /\ specs[k].id # NoId =>
                  /\ Cardinality({e.id : e \in Entries(specs[k])})
                        = Len(specs[k].violations)
                  /\ \A l \in DOMAIN specs : specs[l].id = specs[k].id => l = k
        /\ \A id \in r.skip : MayName(id)
        /\ \A i \in DOMAIN r.opts :
             LET id == r.opts[i].id IN
             MayName(id) /\ Override(r.opts, id) \in {"Error", "Warning"}

\* What Check of a rule may leave the runner with.
MayEmit(rule, b) ==
    \/ LET found == FindingsOf[rule] IN
       /\ Len(b) = Len(found)
       /\ \A i \in DOMAIN b : Cardinality({j \in DOMAIN b : b[j] = b[i]})
                            = Cardinality({j \in DOMAIN found : found[j] = b[i]})
    \/ \E value \in PanicsOf[rule] :
         b = <<[file |-> NoFile, line |-> 0, rule |-> RulePanic,
                msg |-> <<"panicked", SpecOf[rule].id, value>>]>>

\* The documented precedence of severities.
Default(spec, id) ==
    LET own == {i \in DOMAIN spec.violations : spec.violations[i].id = id} IN
    IF own # {} THEN spec.violations[CHOOSE i \in own : \A j \in own : j <= i].severity
    ELSE IF id \in Blocking THEN "Error"
    ELSE IF id \in MetaId THEN "Warning"
    ELSE spec.severity

\* What finding v of a rule with this spec must look like to the caller.
Reported(r, spec, v) ==
    LET legal == Declares(spec, v.rule) \/ v.rule \in MetaId
        id    == IF legal THEN v.rule ELSE UnknownId
    IN  [file |-> v.file, line |-> v.line, rule |-> id,
         msg  |-> IF legal THEN v.msg ELSE <<"undeclared", spec.id, v.rule>>,
         declared  |-> Default(spec, id),
         effective |-> IF Overridden(r.opts, id) THEN Override(r.opts, id)
                       ELSE Default(spec, id)]

Before(a, b) ==
    LET ka == <<FileRank[a.file], a.line, IdRank[a.rule], MsgRank[a.msg]>>
        kb == <<FileRank[b.file], b.line, IdRank[b.rule], MsgRank[b.msg]>>
    IN  \E n \in 1..4 : ka[n] < kb[n] /\ \A m \in 1..n-1 : ka[m] = kb[m]

\* res is a correct answer to call r when the rules emitted bs.
Answers(r, bs, res) ==
    LET specs == SpecsOf(r.rules)
        Slot  == UNION {{<<k, i>> : i \in DOMAIN bs[k]} : k \in DOMAIN bs}
        At(s) == Reported(r, specs[s[1]], bs[s[1]][s[2]])
        Kept  == {s \in Slot : At(s).rule \notin r.skip}
        Earlier(s, t) == s[1] < t[1] \/ (s[1] = t[1] /\ s[2] < t[2])
        \* repeated meta.* signals are reported once, as first emitted
        First == {s \in Kept : At(s).rule \in MetaId =>
                    ~\E t \in Kept : /\ Earlier(t, s)
                                     /\ At(t).rule = At(s).rule
                                     /\ At(t).msg = At(s).msg}
    IN  /\ \A n \in 1..Len(res)-1 : ~Before(res[n+1], res[n])
        /\ Len(res) = Cardinality(First)
        /\ \A s \in First : Cardinality({n \in DOMAIN res : res[n] = At(s)})
                          = Cardinality({t \in First : At(t) = At(s)})
-------------------------------------------------------------------------------
Init ==
    /\ request \in Request
    /\ outcome = "pending"
    /\ batch = <<>> /\ result = <<>>

Refuse ==
    /\ outcome = "pending"
    /\ ~Legal(request)
    /\ outcome' = "rejected"
    /\ UNCHANGED <<request, batch, result>>

Crash ==
    /\ outcome = "pending"
    /\ request.archOk
    /\ \E k \in DOMAIN request.rules : request.rules[k] \in SpecPanics
    /\ outcome' = "crashed"
    /\ UNCHANGED <<request, batch, result>>

\* The answer is constrained by Answers, not computed.
Answer ==
    /\ outcome = "pending"
    /\ Legal(request)
    /\ \A k \in DOMAIN request.rules : request.rules[k] \notin SpecPanics
    /\ outcome' = "done"
    /\ Len(batch') = Len(request.rules)
    /\ \A k \in DOMAIN request.rules : MayEmit(request.rules[k], batch'[k])
    /\ Answers(request, batch', result')
    /\ UNCHANGED request

Next == Refuse \/ Crash \/ Answer

Spec == Init /\ [][Next]_vars
===============================================================================
