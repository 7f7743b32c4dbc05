--------------------------- MODULE RuleRunner_proofs ---------------------------
(***************************************************************************)
(* Theorems about core.Run for every rule set, option list and emission    *)
(* order: the types, that meta.* signals are reported once, that no        *)
(* finding is lost or invented on its way through the pipeline, that Run   *)
(* implements its contract, and that two calls that found the same return  *)
(* the same but for the place of meta.* signals.                           *)
(***************************************************************************)
EXTENDS RunAgain, NatLemmas, SequenceTheorems

\* The last catalog entry of a declared ID exists, so its default is a severity.
LEMMA CatalogDefaultType ==
  ASSUME NEW spec \in RuleSpec, NEW id \in CatalogIds(spec)
  PROVE  CatalogDefault(spec, id) \in AnySeverity
<1> DEFINE s == spec.violations
           S == {i \in DOMAIN s : s[i].id = id}
<1>1. s \in Seq([id : Id, severity : AnySeverity])
  BY DEF RuleSpec
<1>2. Len(s) \in Nat /\ DOMAIN s = 1..Len(s)
  BY <1>1, LenProperties
<1>3. S \subseteq 1..Len(s) /\ S # {}
  BY <1>2 DEF CatalogIds
<1>4. PICK m \in S : \A k \in S : k <= m
  BY <1>2, <1>3, GreatestElement
<1>5. \E i \in DOMAIN s : s[i].id = id /\ \A j \in DOMAIN s : s[j].id = id => j <= i
  BY <1>4
<1>6. \A i \in DOMAIN s : s[i].severity \in AnySeverity
  <2>1. s \in [1..Len(s) -> [id : Id, severity : AnySeverity]]
    BY <1>1, LenProperties
  <2>2. QED
    BY <2>1, <1>2
<1>7. QED
  BY <1>5, <1>6 DEF CatalogDefault

\* The same for the option that decides an override.
LEMMA OverrideMapType ==
  ASSUME NEW opts \in Seq([id : Id, severity : AnySeverity])
  PROVE  /\ DOMAIN OverrideMap(opts) \subseteq Id
         /\ \A id \in DOMAIN OverrideMap(opts) : OverrideMap(opts)[id] \in AnySeverity
<1>1. Len(opts) \in Nat /\ DOMAIN opts = 1..Len(opts)
  BY LenProperties
<1>2. \A i \in DOMAIN opts : opts[i].id \in Id /\ opts[i].severity \in AnySeverity
  <2>1. opts \in [1..Len(opts) -> [id : Id, severity : AnySeverity]]
    BY LenProperties
  <2>2. QED
    BY <2>1, <1>1
<1>3. DOMAIN OverrideMap(opts) = {opts[i].id : i \in DOMAIN opts}
  BY DEF OverrideMap
<1>4. ASSUME NEW id \in {opts[i].id : i \in DOMAIN opts}
      PROVE  OverrideMap(opts)[id] \in AnySeverity
  <2> DEFINE S == {i \in DOMAIN opts : opts[i].id = id}
  <2>1. S \subseteq 1..Len(opts) /\ S # {}
    BY <1>1
  <2>2. PICK m \in S : \A k \in S : k <= m
    BY <1>1, <2>1, GreatestElement
  <2>3. \E i \in DOMAIN opts : /\ opts[i].id = id
                               /\ \A j \in DOMAIN opts : opts[j].id = id => j <= i
    BY <2>2
  <2>4. QED
    BY <2>3, <1>2 DEF OverrideMap
<1>5. QED
  BY <1>2, <1>3, <1>4

\* Replacing an undeclared ID keeps a finding a finding.
LEMMA ReplacedType ==
  ASSUME NEW spec \in RuleSpec, NEW v \in Emitted
  PROVE  Replaced(spec, v) \in Emitted
<1>1. spec.id \in Id /\ v.rule \in Id /\ UnknownId \in Id
  BY RunnerAssumption DEF RuleSpec, Emitted
<1>2. UndeclaredMsg(spec.id, v.rule) \in Msg
  BY <1>1, RunnerAssumption
<1>3. QED
  BY <1>1, <1>2 DEF Replaced, Emitted

\* Judging a finding gives a violation.
LEMMA JudgedType ==
  ASSUME NEW spec \in RuleSpec, NEW v \in Emitted, NEW ovr,
         \A id \in DOMAIN ovr : ovr[id] \in AnySeverity
  PROVE  Judged(spec, ovr, v) \in Violation
<1>1. DeclaredSeverity(spec, v.rule) \in AnySeverity
  <2>1. spec.severity \in AnySeverity
    BY DEF RuleSpec
  <2>2. {"Error", "Warning"} \subseteq AnySeverity
    BY DEF AnySeverity, Severity
  <2>3. QED
    BY <2>1, <2>2, CatalogDefaultType DEF DeclaredSeverity
<1>2. QED
  BY <1>1 DEF Judged, Emitted, Violation

\* An injection of 1..n into itself reaches every number of 1..n.
LEMMA PermutationOnto ==
  ASSUME NEW n \in Nat, NEW p \in Permutation(n), NEW j \in 1..n
  PROVE  \E i \in 1..n : p[i] = j
<1> SUFFICES ASSUME \A i \in 1..n : p[i] # j
             PROVE  FALSE
  OBVIOUS
<1>1. p \in [1..n -> (1..n) \ {j}]
  BY DEF Permutation
<1>2. IsFiniteSet(1..n) /\ Cardinality(1..n) = n
  BY FS_Interval
<1>3. IsFiniteSet((1..n) \ {j}) /\ Cardinality((1..n) \ {j}) = n - 1
  BY <1>2, FS_RemoveElement
<1>4. \E x, y \in 1..n : x # y /\ p[x] = p[y]
  <2>1. Cardinality((1..n) \ {j}) < Cardinality(1..n)
    BY <1>2, <1>3
  <2>2. \A T : IsFiniteSet(T) /\ Cardinality(T) < Cardinality(1..n) /\ p \in [1..n -> T]
                 => \E x, y \in 1..n : x # y /\ p[x] = p[y]
    BY <1>2, FS_PigeonHole, Zenon
  <2>3. QED
    BY <2>1, <2>2, <1>1, <1>3, Zenon
<1>5. QED
  BY <1>4 DEF Permutation
-------------------------------------------------------------------------------
(* What a call consists of, from the type of Request. *)
LEMMA RequestType ==
  ASSUME request \in Request
  PROVE  /\ request.rules \in Seq(RuleInst)
         /\ request.skip \subseteq Id
         /\ request.opts \in Seq([id : Id, severity : AnySeverity])
         /\ Len(request.rules) \in Nat
         /\ DOMAIN request.rules = 1..Len(request.rules)
         /\ \A k \in 1..Len(request.rules) :
               request.rules[k] \in RuleInst /\ SpecOf[request.rules[k]] \in RuleSpec
<1>1. /\ request.rules \in Seq(RuleInst)
      /\ request.skip \subseteq Id
      /\ request.opts \in Seq([id : Id, severity : AnySeverity])
  BY RunnerAssumption
<1>2. /\ Len(request.rules) \in Nat
      /\ request.rules \in [1..Len(request.rules) -> RuleInst]
  BY <1>1, LenProperties
<1>3. SpecOf \in [RuleInst -> RuleSpec]
  BY RunnerAssumption
<1>4. QED
  BY <1>1, <1>2, <1>3

\* The first state satisfies the invariant: nothing has been emitted.
LEMMA InitIInv == Init => IInv
<1> SUFFICES ASSUME Init PROVE IInv
  OBVIOUS
<1>1. TypeOK
  BY EmptySeq DEF Init, TypeOK
<1>2. Progress /\ PrefixDeduped /\ MetaReportedOnce
  BY DEF Init, Progress, PrefixDeduped, MetaReportedOnce, Started
<1>3. Accounted /\ Sourced
  BY DEF Init, Accounted, Sourced
<1>4. QED
  BY <1>1, <1>2, <1>3 DEF IInv

\* Emissions depend on the request, the overrides and the batch alone.
LEMMA EmissionStable ==
  ASSUME NEW k, NEW i, request' = request, overrides' = overrides,
         batch'[k] = batch[k]
  PROVE  Emission(k, i)' = Emission(k, i)
BY DEF Emission

\* Validating changes no loop state, and no finding exists yet.
LEMMA ValidateStep ==
  ASSUME IInv, ValidateArch \/ ValidateRuleSet \/ ValidateOptions
  PROVE  IInv'
<1> USE DEF IInv
<1>1. /\ pc \in {"arch", "ruleset", "options"}
      /\ pc' \in {"ruleset", "options", "check", "rejected", "crashed"}
      /\ UNCHANGED <<request, current, pending, batch, out, read, write, seen>>
  BY DEF ValidateArch, ValidateRuleSet, ValidateOptions, Stop, loopVars, dedupeVars
<1>2. current = 1 /\ batch = <<>> /\ out = <<>> /\ read = 1 /\ write = 0 /\ seen = {}
  BY <1>1 DEF Progress, Started
<1>3. DOMAIN overrides' \subseteq Id /\ \A id \in DOMAIN overrides' : overrides'[id] \in AnySeverity
  <2>1. CASE ValidateOptions
    BY <2>1, OverrideMapType, RequestType DEF ValidateOptions, TypeOK
  <2>2. CASE ValidateArch \/ ValidateRuleSet
    BY <2>2 DEF ValidateArch, ValidateRuleSet, Stop, TypeOK
  <2>3. QED
    BY <2>1, <2>2
<1>4. TypeOK'
  BY <1>1, <1>3 DEF TypeOK
<1>5. Progress'
  <2>1. Len(request.rules) \in Nat
    BY RequestType DEF TypeOK
  <2>2. QED
    BY <1>1, <1>2, <2>1 DEF Progress, Started
<1>6. PrefixDeduped' /\ MetaReportedOnce'
  BY <1>1 DEF PrefixDeduped, MetaReportedOnce
<1>7. Accounted' /\ Sourced'
  BY <1>1, <1>2 DEF Accounted, Sourced
<1>8. QED
  BY <1>4, <1>5, <1>6, <1>7
\* A rule ran: its findings are registered but none is processed yet.
LEMMA ExecuteStep ==
  ASSUME IInv, pc = "check", current <= Len(request.rules),
         NEW result \in Seq(Emitted), Executes(result)
  PROVE  IInv'
<1> USE DEF IInv
<1>1. /\ pc' = "collect" /\ pending' = result /\ batch' = Append(batch, result)
      /\ UNCHANGED <<request, overrides, current, out, read, write, seen>>
  BY DEF Executes, dedupeVars
<1>2. /\ batch \in Seq(Seq(Emitted)) /\ Len(batch) = current - 1
      /\ current \in Nat \ {0} /\ Len(request.rules) \in Nat
  BY RequestType DEF TypeOK, Progress
<1>3. /\ batch' \in Seq(Seq(Emitted)) /\ Len(batch') = current
      /\ \A k \in 1..Len(batch) : batch'[k] = batch[k]
      /\ batch'[current] = result
      /\ DOMAIN batch = 1..Len(batch) /\ DOMAIN batch' = 1..current
  BY <1>1, <1>2, AppendProperties, LenProperties
<1>4. Len(result) \in Nat /\ DOMAIN result = 1..Len(result)
  BY LenProperties
<1>5. TypeOK'
  BY <1>1, <1>3 DEF TypeOK
<1>6. Progress'
  BY <1>1, <1>2, <1>3, <1>4 DEF Progress, Started
<1>7. PrefixDeduped' /\ MetaReportedOnce'
  BY <1>1 DEF PrefixDeduped, MetaReportedOnce
<1>8. \A k \in DOMAIN batch : \A i : Emission(k, i)' = Emission(k, i)
  BY <1>1, <1>3, EmissionStable
<1>9. Accounted'
  <2>1. SUFFICES ASSUME NEW k \in DOMAIN batch', NEW i \in Processed(k)',
                        Emission(k, i)'.rule \notin request'.skip
                 PROVE  \E j \in LiveSlots' : Shows(out[j], Emission(k, i))'
    BY DEF Accounted
  <2>2. k # current
    <3>1. SUFFICES ASSUME k = current PROVE FALSE
      OBVIOUS
    <3>2. Processed(k)' = 1..0
      BY <1>1, <1>3, <1>4, <3>1 DEF Processed
    <3>3. QED
      BY <3>2, <2>1
  <2>3. k \in DOMAIN batch /\ i \in Processed(k)
    BY <1>1, <1>2, <1>3, <2>2 DEF Processed
  <2>4. LiveSlots' = LiveSlots
    BY <1>1 DEF LiveSlots
  <2>5. QED
    BY <1>1, <1>8, <2>1, <2>3, <2>4 DEF Accounted, Shows
<1>10. Sourced'
  <2>1. SUFFICES ASSUME NEW j \in DOMAIN out
                 PROVE  /\ out[j].rule \notin request.skip
                        /\ \E k \in DOMAIN batch' : \E i \in DOMAIN batch'[k] :
                              out[j] = Emission(k, i)'
    BY <1>1 DEF Sourced
  <2>2. PICK k \in DOMAIN batch : \E i \in DOMAIN batch[k] : out[j] = Emission(k, i)
    BY DEF Sourced
  <2>3. k \in DOMAIN batch' /\ batch'[k] = batch[k]
    BY <1>2, <1>3
  <2>4. QED
    BY <2>2, <2>3, <1>8 DEF Sourced
<1>11. QED
  BY <1>5, <1>6, <1>7, <1>9, <1>10

\* Check returns, in some order, or panics.
LEMMA CheckStep ==
  ASSUME IInv, Check \/ CheckPanics
  PROVE  IInv'
<1>1. pc = "check" /\ current <= Len(request.rules)
  BY DEF Check, CheckPanics
<1>2. CurrentRule \in RuleInst /\ SpecOf[CurrentRule] \in RuleSpec
  <2>1. current \in 1..Len(request.rules)
    BY <1>1, RequestType DEF IInv, TypeOK
  <2>2. QED
    BY <2>1, RequestType DEF CurrentRule, IInv, TypeOK
<1>3. CASE Check
  <2> DEFINE found == FindingsOf[CurrentRule]
  <2>1. found \in Seq(Emitted)
    BY <1>2, RunnerAssumption
  <2>2. Len(found) \in Nat /\ found \in [1..Len(found) -> Emitted]
    BY <2>1, LenProperties
  <2>3. PICK p \in Permutation(Len(found)) :
               Executes([i \in 1..Len(found) |-> found[p[i]]])
    BY <1>3 DEF Check
  <2>4. [i \in 1..Len(found) |-> found[p[i]]] \in [1..Len(found) -> Emitted]
    BY <2>2 DEF Permutation
  <2>5. [i \in 1..Len(found) |-> found[p[i]]] \in Seq(Emitted)
    BY <2>2, <2>4, SeqDef
  <2>6. QED
    BY <1>1, <2>3, <2>5, ExecuteStep
<1>4. CASE CheckPanics
  <2>1. PICK value \in PanicsOf[CurrentRule] :
           Executes(<<[file |-> NoFile, line |-> 0, rule |-> RulePanic,
                       msg |-> PanicMsg(SpecOf[CurrentRule].id, value)]>>)
    BY <1>4 DEF CheckPanics
  <2>2. value \in PanicValue /\ SpecOf[CurrentRule].id \in Id
    BY <1>2, RunnerAssumption DEF RuleSpec
  <2>3. [file |-> NoFile, line |-> 0, rule |-> RulePanic,
         msg |-> PanicMsg(SpecOf[CurrentRule].id, value)] \in Emitted
    BY <2>2, RunnerAssumption DEF Emitted
  <2>4. <<[file |-> NoFile, line |-> 0, rule |-> RulePanic,
           msg |-> PanicMsg(SpecOf[CurrentRule].id, value)]>> \in Seq(Emitted)
    BY <2>3
  <2>5. QED
    BY <1>1, <2>1, <2>4, ExecuteStep
<1>5. QED
  BY <1>3, <1>4

\* Going to the next rule, or out of the loop: everything was processed.
LEMMA LoopStep ==
  ASSUME IInv, NextRule \/ RulesDone
  PROVE  IInv'
<1> USE DEF IInv
<1>1. /\ UNCHANGED <<request, overrides, pending, batch, out, read, write, seen>>
      /\ \/ pc = "collect" /\ pc' = "check" /\ pending = <<>> /\ current' = current + 1
         \/ pc = "check" /\ pc' = "dedupe" /\ current' = current
            /\ current > Len(request.rules)
  BY DEF NextRule, RulesDone, loopVars, dedupeVars
<1>2. /\ batch \in Seq(Seq(Emitted)) /\ out \in Seq(Violation)
      /\ current \in Nat \ {0} /\ Len(request.rules) \in Nat
      /\ Len(batch) \in Nat /\ DOMAIN batch = 1..Len(batch)
      /\ Len(out) \in Nat /\ DOMAIN out = 1..Len(out)
      /\ \A k \in DOMAIN batch : Len(batch[k]) \in Nat /\ DOMAIN batch[k] = 1..Len(batch[k])
  <2>1. batch \in Seq(Seq(Emitted)) /\ out \in Seq(Violation)
    BY DEF TypeOK
  <2>2. \A k \in 1..Len(batch) : batch[k] \in Seq(Emitted)
    BY <2>1, ElementOfSeq
  <2>3. QED
    BY <2>1, <2>2, LenProperties, RequestType DEF TypeOK
<1>3. read = 1 /\ write = 0 /\ seen = {}
  BY <1>1 DEF Progress
<1>4. TypeOK'
  BY <1>1 DEF TypeOK
<1>5. Progress'
  <2>1. CASE pc = "collect"
    <3>1. Len(batch) = current /\ current <= Len(request.rules)
      BY <2>1 DEF Progress
    <3>2. QED
      BY <2>1, <3>1, <1>1, <1>2, <1>3 DEF Progress, Started
  <2>2. CASE pc = "check"
    <3>1. Len(batch) = current - 1 /\ current <= Len(request.rules) + 1
      BY <2>2 DEF Progress
    <3>2. QED
      BY <2>2, <3>1, <1>1, <1>2, <1>3 DEF Progress, Started
  <2>3. QED
    BY <1>1, <2>1, <2>2
<1>6. PrefixDeduped' /\ MetaReportedOnce'
  BY <1>1, <1>2, <1>3 DEF PrefixDeduped, MetaReportedOnce
<1>7. \A k, i : Emission(k, i)' = Emission(k, i)
  BY <1>1 DEF Emission
<1>8. Accounted'
  <2>1. \A k \in DOMAIN batch : Processed(k)' = Processed(k)
    <3>1. TAKE k \in DOMAIN batch
    <3>2. pending = <<>> => Len(pending) = 0
      OBVIOUS
    <3>3. QED
      BY <1>1, <1>2, <3>2 DEF Processed
  <2>2. LiveSlots' = LiveSlots
    BY <1>1, <1>2, <1>3 DEF LiveSlots
  <2>3. QED
    BY <1>1, <1>7, <2>1, <2>2 DEF Accounted, Shows
<1>9. Sourced'
  BY <1>1, <1>7 DEF Sourced
<1>10. QED
  BY <1>4, <1>5, <1>6, <1>8, <1>9
\* Facts about the slices that every later step needs.
LEMMA SliceTypes ==
  ASSUME IInv
  PROVE  /\ batch \in Seq(Seq(Emitted)) /\ out \in Seq(Violation)
         /\ current \in Nat \ {0} /\ Len(request.rules) \in Nat
         /\ read \in Nat \ {0} /\ write \in Nat
         /\ Len(batch) \in Nat /\ DOMAIN batch = 1..Len(batch)
         /\ Len(out) \in Nat /\ DOMAIN out = 1..Len(out)
         /\ \A j \in 1..Len(out) : out[j] \in Violation
         /\ \A k \in DOMAIN batch : /\ batch[k] \in Seq(Emitted)
                                    /\ Len(batch[k]) \in Nat
                                    /\ DOMAIN batch[k] = 1..Len(batch[k])
<1>1. batch \in Seq(Seq(Emitted)) /\ out \in Seq(Violation)
  BY DEF IInv, TypeOK
<1>2. \A k \in 1..Len(batch) : batch[k] \in Seq(Emitted)
  BY <1>1, ElementOfSeq
<1>3. \A j \in 1..Len(out) : out[j] \in Violation
  BY <1>1, ElementOfSeq
<1>4. QED
  BY <1>1, <1>2, <1>3, LenProperties, RequestType DEF IInv, TypeOK

\* One finding goes through the pipeline: it is filtered out or appended.
LEMMA CollectStep ==
  ASSUME IInv, Collect
  PROVE  IInv'
<1> USE DEF IInv
<1> DEFINE taken == Len(batch[current]) - Len(pending)
           v == Replaced(SpecOf[CurrentRule], Head(pending))
           e == Judged(SpecOf[CurrentRule], overrides, v)
<1>1. /\ pc = "collect" /\ pc' = "collect" /\ pending # <<>> /\ pending' = Tail(pending)
      /\ out' = IF v.rule \in request.skip THEN out ELSE Append(out, e)
      /\ UNCHANGED <<request, overrides, current, batch, read, write, seen>>
  BY DEF Collect, dedupeVars, IsViolationSkipped
<1>2. /\ Len(batch) = current /\ current <= Len(request.rules)
      /\ Len(pending) <= Len(batch[current])
      /\ \A i \in 1..Len(pending) : pending[i] = batch[current][taken + i]
  BY <1>1 DEF Progress
<1>3. /\ pending \in Seq(Emitted) /\ Len(pending) \in Nat \ {0}
      /\ pending' \in Seq(Emitted) /\ Len(pending') = Len(pending) - 1
      /\ Head(pending) = pending[1] /\ Head(pending) \in Emitted
      /\ \A i \in 1..Len(pending') : pending'[i] = pending[i + 1]
  BY <1>1, HeadTailProperties, EmptySeq DEF TypeOK
<1>4. /\ current \in DOMAIN batch /\ Len(batch[current]) \in Nat
      /\ DOMAIN batch[current] = 1..Len(batch[current])
  BY <1>2, SliceTypes
<1>5. taken \in Nat /\ taken + 1 \in DOMAIN batch[current]
  BY <1>2, <1>3, <1>4
<1>6. e = Emission(current, taken + 1) /\ e.rule = v.rule
  BY <1>2, <1>3 DEF Emission, CurrentRule, Judged
<1>7. e \in Violation
  <2>1. current \in 1..Len(request.rules)
    BY <1>2, SliceTypes
  <2>2. SpecOf[CurrentRule] \in RuleSpec
    BY <2>1, RequestType DEF CurrentRule, TypeOK
  <2>3. v \in Emitted
    BY <2>2, <1>3, ReplacedType
  <2>4. QED
    BY <2>2, <2>3, JudgedType DEF TypeOK
<1> HIDE DEF v, e, taken
<1>o. out \in Seq(Violation) /\ DOMAIN out = 1..Len(out) /\ Len(out) \in Nat
  BY SliceTypes
<1>s. v.rule \in request.skip => out' = out
  BY <1>1
<1>a. ASSUME v.rule \notin request.skip
      PROVE  /\ out' \in Seq(Violation) /\ Len(out') = Len(out) + 1
             /\ DOMAIN out' = 1..Len(out')
             /\ \A j \in 1..Len(out) : out'[j] = out[j]
             /\ out'[Len(out) + 1] = e
  <2>1. out' = Append(out, e)
    BY <1>a, <1>1
  <2>2. /\ out' \in Seq(Violation) /\ Len(out') = Len(out) + 1
        /\ \A j \in 1..Len(out) : out'[j] = out[j]
        /\ out'[Len(out) + 1] = e
    BY <2>1, <1>7, <1>o, AppendProperties
  <2>3. DOMAIN out' = 1..Len(out')
    BY <2>2, LenProperties
  <2>4. QED
    BY <2>2, <2>3
<1>8. out' \in Seq(Violation)
  BY <1>s, <1>a, <1>o
<1>p. \A j \in DOMAIN out : j \in DOMAIN out' /\ out'[j] = out[j]
  BY <1>s, <1>a, <1>o
<1>9. TypeOK'
  BY <1>1, <1>3, <1>8 DEF TypeOK
<1>10. Progress'
  <2>1. \A i \in 1..Len(pending') :
           pending'[i] = batch[current][Len(batch[current]) - Len(pending') + i]
    <3>1. TAKE i \in 1..Len(pending')
    <3>2. pending'[i] = batch[current][taken + (i + 1)]
      BY <1>2, <1>3
    <3>3. taken + (i + 1) = Len(batch[current]) - Len(pending') + i
      BY <1>3, <1>4 DEF taken
    <3>4. QED
      BY <3>2, <3>3
  <2>2. Len(pending') <= Len(batch[current])
    BY <1>2, <1>3, <1>4
  <2>3. read = 1 /\ write = 0 /\ seen = {}
    BY <1>1 DEF Progress
  <2>4. QED
    BY <1>1, <1>2, <2>1, <2>2, <2>3 DEF Progress, Started
<1>11. PrefixDeduped' /\ MetaReportedOnce'
  BY <1>1 DEF PrefixDeduped, MetaReportedOnce
<1>12. \A k, i : Emission(k, i)' = Emission(k, i)
  BY <1>1 DEF Emission
<1>13. Accounted'
  <2> SUFFICES ASSUME NEW k \in DOMAIN batch, NEW i \in Processed(k)',
                      Emission(k, i).rule \notin request.skip
               PROVE  \E j \in DOMAIN out' : Shows(out'[j], Emission(k, i))
    <3>1. LiveSlots' = DOMAIN out'
      BY <1>1 DEF LiveSlots
    <3>2. QED
      BY <3>1, <1>1, <1>12 DEF Accounted, Shows
  <2>1. CASE i \in Processed(k)
    <3>1. PICK j \in DOMAIN out : Shows(out[j], Emission(k, i))
      BY <2>1, <1>1 DEF Accounted, LiveSlots
    <3>2. j \in DOMAIN out' /\ out'[j] = out[j]
      BY <1>p
    <3>3. QED
      BY <3>1, <3>2
  <2>2. CASE i \notin Processed(k)
    <3>1. k = current /\ i = taken + 1
      <4>1. k = current
        BY <1>1, <2>2 DEF Processed
      <4>2. i \in 1..(Len(batch[current]) - Len(pending')) /\ i \notin 1..taken
        BY <4>1, <1>1, <2>2 DEF Processed, taken
      <4>3. Len(batch[current]) - Len(pending') = taken + 1
        BY <1>3, <1>4 DEF taken
      <4>4. QED
        BY <4>1, <4>2, <4>3, <1>5
    <3>2. v.rule \notin request.skip
      BY <3>1, <1>6
    <3>3. out'[Len(out) + 1] = e /\ Len(out) + 1 \in DOMAIN out'
      BY <3>2, <1>a, <1>o
    <3>4. QED
      BY <3>1, <3>3, <1>6 DEF Shows
  <2>3. QED
    BY <2>1, <2>2
<1>14. Sourced'
  <2> SUFFICES ASSUME NEW j \in DOMAIN out'
               PROVE  /\ out'[j].rule \notin request.skip
                      /\ \E k \in DOMAIN batch : \E i \in DOMAIN batch[k] :
                            out'[j] = Emission(k, i)
    BY <1>1, <1>12 DEF Sourced
  <2>1. CASE j \in DOMAIN out
    <3>1. out'[j] = out[j]
      BY <2>1, <1>p
    <3>2. QED
      BY <2>1, <3>1 DEF Sourced
  <2>2. CASE j \notin DOMAIN out
    <3>1. v.rule \notin request.skip
      BY <2>2, <1>s
    <3>2. j = Len(out) + 1
      BY <2>2, <3>1, <1>a, <1>o
    <3>3. out'[j] = e
      BY <3>1, <3>2, <1>a
    <3>4. QED
      BY <3>1, <3>3, <1>4, <1>5, <1>6
  <2>3. QED
    BY <2>1, <2>2
<1>15. QED
  BY <1>9, <1>10, <1>11, <1>13, <1>14
\* One element of the in-place filter is dropped: its key was kept before.
LEMMA DropStep ==
  ASSUME IInv, Dedupe, IsMeta(out[read].rule), MetaKey(out[read]) \in seen
  PROVE  IInv'
<1> USE DEF IInv
<1>1. /\ pc = "dedupe" /\ pc' = "dedupe" /\ read <= Len(out) /\ read' = read + 1
      /\ UNCHANGED <<request, overrides, current, pending, batch, out, write, seen>>
  BY DEF Dedupe, IsRepeat
<1>2. /\ read \in Nat \ {0} /\ write \in Nat /\ Len(out) \in Nat
  BY SliceTypes
<1>3. TypeOK'
  BY <1>1, <1>2 DEF TypeOK
<1>4. Progress'
  BY <1>1 DEF Progress, Started
<1>5. PrefixDeduped'
  BY <1>1, <1>2 DEF PrefixDeduped
<1>6. MetaReportedOnce'
  BY <1>1 DEF MetaReportedOnce
<1>7. \A k, i : Emission(k, i)' = Emission(k, i)
  BY <1>1 DEF Emission
<1>8. Accounted'
  <2> SUFFICES ASSUME NEW k \in DOMAIN batch, NEW i \in DOMAIN batch[k],
                      Emission(k, i).rule \notin request.skip
               PROVE  \E j \in LiveSlots' : Shows(out[j], Emission(k, i))
    BY <1>1, <1>7 DEF Accounted, Processed, Shows
  <2>1. PICK j \in LiveSlots : Shows(out[j], Emission(k, i))
    BY <1>1 DEF Accounted, Processed
  <2>2. LiveSlots = 1..write \cup read..Len(out)
        /\ LiveSlots' = 1..write \cup (read + 1)..Len(out)
    BY <1>1 DEF LiveSlots
  <2>3. CASE j # read
    <3>1. j \in LiveSlots'
      BY <2>2, <2>3, <1>2
    <3>2. QED
      BY <2>1, <3>1
  <2>4. CASE j = read
    <3>1. PICK l \in 1..write : IsMeta(out[l].rule) /\ MetaKey(out[l]) = MetaKey(out[read])
      BY <1>1 DEF PrefixDeduped
    <3>2. out[l].rule = out[read].rule /\ out[l].msg = out[read].msg
      BY <3>1 DEF MetaKey
    <3>3. Shows(out[l], Emission(k, i))
      BY <2>1, <2>4, <3>2 DEF Shows
    <3>4. l \in LiveSlots'
      BY <2>2
    <3>5. QED
      BY <3>3, <3>4
  <2>5. QED
    BY <2>3, <2>4
<1>9. Sourced'
  BY <1>1, <1>7 DEF Sourced
<1>10. QED
  BY <1>3, <1>4, <1>5, <1>6, <1>8, <1>9

\* One element of the in-place filter is kept: it is written behind the reader.
LEMMA KeepStep ==
  ASSUME IInv, Dedupe, ~(IsMeta(out[read].rule) /\ MetaKey(out[read]) \in seen)
  PROVE  IInv'
<1> USE DEF IInv
<1>1. /\ pc = "dedupe" /\ pc' = "dedupe" /\ read <= Len(out) /\ read' = read + 1
      /\ write' = write + 1
      /\ out' = [out EXCEPT ![write + 1] = out[read]]
      /\ seen' = IF IsMeta(out[read].rule) THEN seen \cup {MetaKey(out[read])} ELSE seen
      /\ UNCHANGED <<request, overrides, current, pending, batch>>
  BY DEF Dedupe, IsRepeat, Recorded
<1>2. /\ read \in Nat \ {0} /\ write \in Nat /\ Len(out) \in Nat
      /\ out \in Seq(Violation) /\ DOMAIN out = 1..Len(out) /\ write < read
  BY <1>1, SliceTypes DEF PrefixDeduped
<1>3. read \in 1..Len(out) /\ write + 1 \in 1..Len(out)
  BY <1>1, <1>2
<1>4. out[read] \in Violation
  BY <1>2, <1>3, ElementOfSeq
<1>5. /\ out' \in Seq(Violation) /\ Len(out') = Len(out)
      /\ \A j \in 1..Len(out) : out'[j] = IF j = write + 1 THEN out[read] ELSE out[j]
  BY <1>1, <1>2, <1>3, <1>4, ExceptSeq
<1>6. DOMAIN out' = 1..Len(out)
  BY <1>5, LenProperties
<1>7. TypeOK'
  <2>1. MetaKey(out[read]) \in Id \X Msg
    BY <1>4 DEF MetaKey, Violation
  <2>2. seen' \subseteq MetaId \X Msg
    BY <1>1, <1>4, <2>1 DEF TypeOK, IsMeta, MetaKey, Violation
  <2>3. QED
    BY <1>1, <1>2, <1>5, <2>2 DEF TypeOK
<1>8. Progress'
  BY <1>1 DEF Progress, Started
<1>9. MetaReportedOnce'
  BY <1>1 DEF MetaReportedOnce
<1>10. \A j \in 1..write : out'[j] = out[j]
  BY <1>2, <1>3, <1>5
<1>11. out'[write + 1] = out[read]
  BY <1>3, <1>5
<1>12. PrefixDeduped'
  <2>1. write' < read' /\ read' <= Len(out') + 1
    BY <1>1, <1>2, <1>5
  <2>2. \A j \in 1..write : IsMeta(out[j].rule) => MetaKey(out[j]) \in seen
    BY <1>1 DEF PrefixDeduped
  <2>3. \A j \in 1..(write + 1) : IsMeta(out'[j].rule) => MetaKey(out'[j]) \in seen'
    <3>1. TAKE j \in 1..(write + 1)
    <3>2. CASE j \in 1..write
      BY <3>2, <2>2, <1>1, <1>10
    <3>3. CASE j = write + 1
      BY <3>3, <1>1, <1>11
    <3>4. QED
      BY <3>2, <3>3, <1>2
  <2>4. \A key \in seen' : \E j \in 1..(write + 1) :
            IsMeta(out'[j].rule) /\ MetaKey(out'[j]) = key
    <3>1. TAKE key \in seen'
    <3>2. CASE key \in seen
      <4>1. PICK j \in 1..write : IsMeta(out[j].rule) /\ MetaKey(out[j]) = key
        BY <3>2, <1>1 DEF PrefixDeduped
      <4>2. j \in 1..(write + 1) /\ out'[j] = out[j]
        BY <1>2, <1>10
      <4>3. QED
        BY <4>1, <4>2
    <3>3. CASE key \notin seen
      <4>1. IsMeta(out[read].rule) /\ key = MetaKey(out[read])
        BY <3>1, <3>3, <1>1
      <4>2. write + 1 \in 1..(write + 1)
        BY <1>2
      <4>3. QED
        BY <4>1, <4>2, <1>11
    <3>4. QED
      BY <3>2, <3>3
  <2>5. ASSUME NEW i \in 1..(write + 1), NEW j \in 1..(write + 1),
               IsMeta(out'[i].rule), MetaKey(out'[i]) = MetaKey(out'[j])
        PROVE  i = j
    <3>1. IsMeta(out'[j].rule)
      BY <2>5 DEF MetaKey
    <3>2. \A l \in 1..write : MetaKey(out'[l]) # MetaKey(out'[write + 1])
                              \/ ~IsMeta(out'[l].rule)
      <4>1. TAKE l \in 1..write
      <4>2. SUFFICES ASSUME IsMeta(out[l].rule), MetaKey(out[l]) = MetaKey(out[read])
                     PROVE  FALSE
        BY <1>10, <1>11
      <4>3. IsMeta(out[read].rule)
        BY <4>2 DEF MetaKey
      <4>4. QED
        BY <4>2, <4>3, <2>2
    <3>3. CASE i \in 1..write /\ j \in 1..write
      BY <3>3, <2>5, <1>1, <1>10 DEF PrefixDeduped
    <3>4. CASE i = write + 1 /\ j \in 1..write
      BY <3>4, <3>1, <3>2, <2>5
    <3>5. CASE j = write + 1 /\ i \in 1..write
      BY <3>5, <3>1, <3>2, <2>5
    <3>6. QED
      BY <3>3, <3>4, <3>5, <1>2
  <2>6. QED
    BY <1>1, <2>1, <2>3, <2>4, <2>5 DEF PrefixDeduped
<1>13. \A k, i : Emission(k, i)' = Emission(k, i)
  BY <1>1 DEF Emission
<1>14. Accounted'
  <2> SUFFICES ASSUME NEW k \in DOMAIN batch, NEW i \in DOMAIN batch[k],
                      Emission(k, i).rule \notin request.skip
               PROVE  \E j \in LiveSlots' : Shows(out'[j], Emission(k, i))
    BY <1>1, <1>13 DEF Accounted, Processed, Shows
  <2>1. PICK j \in LiveSlots : Shows(out[j], Emission(k, i))
    BY <1>1 DEF Accounted, Processed
  <2>2. LiveSlots = 1..write \cup read..Len(out)
        /\ LiveSlots' = 1..(write + 1) \cup (read + 1)..Len(out)
    BY <1>1, <1>5 DEF LiveSlots
  <2>3. CASE j \in 1..write
    BY <2>1, <2>2, <2>3, <1>2, <1>10
  <2>4. CASE j = read
    <3>1. write + 1 \in LiveSlots'
      BY <2>2, <1>2
    <3>2. QED
      BY <2>1, <2>4, <3>1, <1>11
  <2>5. CASE j \in (read + 1)..Len(out)
    <3>1. j \in 1..Len(out) /\ j # write + 1
      BY <2>5, <1>2
    <3>2. out'[j] = out[j]
      BY <3>1, <1>5
    <3>3. QED
      BY <2>1, <2>2, <2>5, <3>2
  <2>6. QED
    BY <2>2, <2>3, <2>4, <2>5, <1>2
<1>15. Sourced'
  <2>1. \A j \in DOMAIN out' : \E l \in DOMAIN out : out'[j] = out[l]
    BY <1>2, <1>3, <1>5, <1>6
  <2>2. QED
    BY SMTT(40), <2>1, <1>1, <1>13 DEF Sourced
<1>16. QED
  BY <1>7, <1>8, <1>9, <1>12, <1>14, <1>15
\* The filtered slice is the kept prefix.
LEMMA TruncateStep ==
  ASSUME IInv, DedupeDone
  PROVE  IInv'
<1> USE DEF IInv
<1>1. /\ pc = "dedupe" /\ pc' = "sort" /\ read > Len(out)
      /\ out' = SubSeq(out, 1, write)
      /\ UNCHANGED <<request, overrides, current, pending, batch, read, write, seen>>
  BY DEF DedupeDone, dedupeVars
<1>2. /\ read \in Nat \ {0} /\ write \in Nat /\ Len(out) \in Nat
      /\ out \in Seq(Violation) /\ DOMAIN out = 1..Len(out)
      /\ write < read /\ read <= Len(out) + 1
  BY <1>1, SliceTypes DEF PrefixDeduped
<1>3. \A j \in 1..write : j \in 1..Len(out) /\ out[j] \in Violation
  <2>1. \A j \in 1..write : j \in 1..Len(out)
    BY <1>2
  <2>2. QED
    BY <2>1, <1>2, ElementOfSeq
<1>4. out' \in Seq(Violation) /\ Len(out') = write
  BY <1>1, <1>2, <1>3, SubSeqProperties
<1>5. \A j \in 1..write : out'[j] = out[j]
  <2>1. \A j \in 1..(write - 1 + 1) : out'[j] = out[1 + j - 1]
    BY <1>1, <1>2, <1>3, SubSeqProperties
  <2>2. QED
    BY <2>1, <1>2
<1>6. DOMAIN out' = 1..write
  BY <1>4, LenProperties
<1>7. TypeOK'
  BY <1>1, <1>4 DEF TypeOK
<1>8. Progress' /\ PrefixDeduped'
  BY <1>1 DEF Progress, Started, PrefixDeduped
<1>9. MetaReportedOnce'
  BY ZenonT(40), <1>1, <1>5, <1>6 DEF MetaReportedOnce, PrefixDeduped
<1>10. \A k, i : Emission(k, i)' = Emission(k, i)
  BY <1>1 DEF Emission
<1>11. Accounted'
  <2> SUFFICES ASSUME NEW k \in DOMAIN batch, NEW i \in DOMAIN batch[k],
                      Emission(k, i).rule \notin request.skip
               PROVE  \E j \in DOMAIN out' : Shows(out'[j], Emission(k, i))
    <3>1. LiveSlots' = DOMAIN out'
      BY <1>1 DEF LiveSlots
    <3>2. \A k \in DOMAIN batch : Processed(k)' = DOMAIN batch[k]
      BY <1>1 DEF Processed
    <3>3. request' = request /\ batch' = batch
      BY <1>1
    <3>4. QED
      BY <3>1, <3>2, <3>3, <1>10 DEF Accounted, Shows
  <2>1. PICK j \in LiveSlots : Shows(out[j], Emission(k, i))
    BY <1>1 DEF Accounted, Processed
  <2>2. j \in 1..write
    BY <1>1, <1>2 DEF LiveSlots
  <2>3. QED
    BY <2>1, <2>2, <1>5, <1>6
<1>12. Sourced'
  <2>1. \A j \in DOMAIN out' : j \in DOMAIN out /\ out'[j] = out[j]
    BY <1>2, <1>3, <1>5, <1>6
  <2>2. QED
    BY <2>1, <1>1, <1>10 DEF Sourced
<1>13. QED
  BY <1>7, <1>8, <1>9, <1>11, <1>12

\* Sorting rearranges the slice.
LEMMA SortStep ==
  ASSUME IInv, Sort
  PROVE  IInv'
<1> USE DEF IInv
<1>1. /\ pc = "sort" /\ pc' = "done"
      /\ UNCHANGED <<request, overrides, current, pending, batch, read, write, seen>>
  BY DEF Sort, dedupeVars
<1>2. Len(out) \in Nat /\ out \in Seq(Violation) /\ DOMAIN out = 1..Len(out)
      /\ \A j \in 1..Len(out) : out[j] \in Violation
  BY SliceTypes
<1>3. PICK p \in Permutation(Len(out)) : out' = [i \in 1..Len(out) |-> out[p[i]]]
  BY DEF Sort
<1>4. /\ p \in [1..Len(out) -> 1..Len(out)]
      /\ \A i, j \in 1..Len(out) : p[i] = p[j] => i = j
  BY DEF Permutation
<1>5. out' \in Seq(Violation) /\ DOMAIN out' = 1..Len(out)
  <2>1. out' \in [1..Len(out) -> Violation]
    BY <1>2, <1>3, <1>4
  <2>2. QED
    BY <2>1, <1>2, SeqDef
<1>6. \A i \in 1..Len(out) : p[i] \in 1..Len(out) /\ out'[i] = out[p[i]]
  BY <1>3, <1>4
<1>7. TypeOK'
  BY <1>1, <1>5 DEF TypeOK
<1>8. Progress' /\ PrefixDeduped'
  BY <1>1 DEF Progress, Started, PrefixDeduped
<1>9. MetaReportedOnce'
  <2> SUFFICES ASSUME NEW i \in 1..Len(out), NEW j \in 1..Len(out),
                      IsMeta(out'[i].rule), MetaKey(out'[i]) = MetaKey(out'[j])
               PROVE  i = j
    BY <1>1, <1>5 DEF MetaReportedOnce
  <2>1. p[i] = p[j]
    BY <1>1, <1>2, <1>6 DEF MetaReportedOnce
  <2>2. QED
    BY <2>1, <1>4
<1>10. \A k, i : Emission(k, i)' = Emission(k, i)
  BY <1>1 DEF Emission
<1>11. Accounted'
  <2> SUFFICES ASSUME NEW k \in DOMAIN batch, NEW i \in DOMAIN batch[k],
                      Emission(k, i).rule \notin request.skip
               PROVE  \E j \in DOMAIN out' : Shows(out'[j], Emission(k, i))
    <3>1. LiveSlots' = DOMAIN out'
      BY <1>1 DEF LiveSlots
    <3>2. QED
      BY <3>1, <1>1, <1>10 DEF Accounted, Processed, Shows
  <2>1. PICK j \in DOMAIN out : Shows(out[j], Emission(k, i))
    BY <1>1 DEF Accounted, Processed, LiveSlots
  <2>2. PICK l \in 1..Len(out) : p[l] = j
    <3>1. j \in 1..Len(out)
      BY <2>1, <1>2
    <3>2. QED
      <4>1. Len(out) \in Nat /\ p \in Permutation(Len(out))
        BY <1>2, <1>3
      <4>2. \A q \in Permutation(Len(out)), m \in 1..Len(out) : \E l \in 1..Len(out) : q[l] = m
        BY <4>1, PermutationOnto, Zenon
      <4>3. QED
        BY <4>1, <4>2, <3>1, Zenon
  <2>3. QED
    BY <2>1, <2>2, <1>5, <1>6
<1>12. Sourced'
  <2>1. \A j \in DOMAIN out' : \E l \in DOMAIN out : out'[j] = out[l]
    BY <1>2, <1>5, <1>6
  <2>2. QED
    BY <2>1, <1>1, <1>10 DEF Sourced
<1>13. QED
  BY <1>7, <1>8, <1>9, <1>11, <1>12

\* Every step of Run keeps the invariant.
LEMMA NextIInv == IInv /\ [Next]_vars => IInv'
<1> SUFFICES ASSUME IInv, [Next]_vars PROVE IInv'
  OBVIOUS
<1>1. CASE ValidateArch \/ ValidateRuleSet \/ ValidateOptions
  BY <1>1, ValidateStep
<1>2. CASE Check \/ CheckPanics
  BY <1>2, CheckStep
<1>3. CASE Collect
  BY <1>3, CollectStep
<1>4. CASE NextRule \/ RulesDone
  BY <1>4, LoopStep
<1>5. CASE Dedupe
  BY <1>5, DropStep, KeepStep
<1>6. CASE DedupeDone
  BY <1>6, TruncateStep
<1>7. CASE Sort
  BY <1>7, SortStep
<1>8. CASE UNCHANGED vars
  <2>1. UNCHANGED <<request, pc, overrides, current, pending, batch, out, read, write, seen>>
    BY <1>8 DEF vars
  <2>2. TypeOK' /\ Progress' /\ PrefixDeduped' /\ MetaReportedOnce'
    BY <2>1 DEF IInv, TypeOK, Progress, Started, PrefixDeduped, MetaReportedOnce
  <2>3. \A k, i : Emission(k, i)' = Emission(k, i)
    BY <2>1 DEF Emission
  <2>4. Accounted' /\ Sourced'
    BY <2>1, <2>3 DEF IInv, Accounted, Sourced, Processed, LiveSlots, Shows
  <2>5. QED
    BY <2>2, <2>4 DEF IInv
<1>9. QED
  BY <1>1, <1>2, <1>3, <1>4, <1>5, <1>6, <1>7, <1>8 DEF Next, Over

\* The invariant holds throughout every call of Run.
THEOREM RunInvariant == Spec => []IInv
BY InitIInv, NextIInv, PTL DEF Spec

\* Type correctness of core.Run, for every rule set, options and emissions.
THEOREM RunTypeCorrect == Spec => []TypeOK
<1>1. IInv => TypeOK
  BY DEF IInv
<1>2. QED
  BY <1>1, RunInvariant, PTL

\* dedupeMetaViolations leaves every meta.* signal exactly once, although it
\* filters inside the array it is reading (runner.go 254-272).
THEOREM MetaSignalsAreReportedOnce == Spec => []MetaReportedOnce
<1>1. IInv => MetaReportedOnce
  BY DEF IInv
<1>2. QED
  BY <1>1, RunInvariant, PTL

\* Whatever the rules emit and in whatever order, whichever of them panic, no
\* finding that was not filtered out is missing from the result of core.Run.
THEOREM NoFindingIsLost == Spec => []NothingLost
<1>1. IInv => NothingLost
  BY DEF IInv, Accounted, NothingLost, Processed, LiveSlots
<1>2. QED
  BY <1>1, RunInvariant, PTL

\* And nothing else is in it: every returned violation is a finding of a rule
\* that ran, with the severities its spec and the options give.
THEOREM NoFindingIsInvented == Spec => []NothingInvented
<1>1. IInv => NothingInvented
  BY DEF IInv, Sourced, NothingInvented
<1>2. QED
  BY <1>1, RunInvariant, PTL
\* A panicking or misdeclaring rule always makes the result block: its signal
\* survives deduplication with severity Error unless the caller decided
\* otherwise (or a rule of the set declares the signal itself).
THEOREM FailuresAreLoud == Spec => []FailureIsLoud
<1>1. ASSUME IInv PROVE FailureIsLoud
  <2> SUFFICES ASSUME pc = "done", NEW k \in DOMAIN batch, NEW i \in DOMAIN batch[k],
                      Emission(k, i).rule \in {RulePanic, UnknownId},
                      Emission(k, i).rule \notin request.skip \cup DOMAIN overrides,
                      \A l \in DOMAIN request.rules :
                          Emission(k, i).rule \notin CatalogIds(SpecOf[request.rules[l]])
               PROVE  \E j \in DOMAIN out : /\ out[j].rule = Emission(k, i).rule
                                            /\ out[j].effective = "Error"
    BY DEF FailureIsLoud
  <2>1. PICK j \in DOMAIN out : Shows(out[j], Emission(k, i))
    BY <1>1 DEF IInv, Accounted, Processed, LiveSlots
  <2>2. out[j].rule = Emission(k, i).rule
    BY <2>1 DEF Shows
  <2>o. PICK l \in DOMAIN batch : \E m \in DOMAIN batch[l] : out[j] = Emission(l, m)
    BY <1>1 DEF IInv, Sourced
  <2>3. PICK m \in DOMAIN batch[l] : out[j] = Emission(l, m)
    BY <2>o
  <2>4. l \in DOMAIN request.rules
    <3>1. Len(batch) = Len(request.rules)
      BY <1>1 DEF IInv, Progress
    <3>2. QED
      BY <3>1, <2>o, <1>1, SliceTypes, RequestType DEF IInv, TypeOK
  <2> DEFINE spec == SpecOf[request.rules[l]]
             v == Replaced(spec, batch[l][m])
  <2>5. out[j] = Judged(spec, overrides, v)
    BY <2>3 DEF Emission
  <2>6. v.rule = Emission(k, i).rule
    BY <2>2, <2>5 DEF Judged
  <2>7. DeclaredSeverity(spec, v.rule) = "Error"
    BY <2>4, <2>6 DEF DeclaredSeverity
  <2>8. out[j].effective = "Error"
    BY <2>5, <2>6, <2>7 DEF Judged
  <2>9. QED
    BY <2>2, <2>8
<1>2. QED
  BY <1>1, RunInvariant, PTL

-------------------------------------------------------------------------------
(* Counting                                                                *)

\* f maps S to T, one element to one.
Pairs(f, S, T) == /\ f \in [S -> T]
                  /\ \A x, y \in S : f[x] = f[y] => x = y
                  /\ \A t \in T : \E x \in S : f[x] = t

\* A pairing witnesses that two finite sets have as many members.
LEMMA PairedSetsCountAlike ==
  ASSUME NEW S, NEW T, IsFiniteSet(S), NEW f, Pairs(f, S, T)
  PROVE  IsFiniteSet(T) /\ Cardinality(T) = Cardinality(S)
<1>1. f \in Bijection(S, T)
  BY DEF Pairs, Bijection, Injection, Surjection, IsInjective
<1>2. ExistsBijection(S, T)
  BY <1>1 DEF ExistsBijection
<1>3. QED
  BY <1>2, FS_Bijection

\* So do the parts that correspond.
LEMMA PairedPartsCountAlike ==
  ASSUME NEW S, NEW T, IsFiniteSet(S), NEW f, Pairs(f, S, T)
  PROVE  \A P \in SUBSET S, Q \in SUBSET T :
            (\A x \in S : x \in P <=> f[x] \in Q) => Cardinality(P) = Cardinality(Q)
<1> SUFFICES ASSUME NEW P \in SUBSET S, NEW Q \in SUBSET T,
                    \A x \in S : x \in P <=> f[x] \in Q
             PROVE  Cardinality(P) = Cardinality(Q)
  OBVIOUS
<1> DEFINE g == [x \in P |-> f[x]]
<1>1. g \in [P -> Q] /\ \A x, y \in P : g[x] = g[y] => x = y
  BY DEF Pairs
<1>2. ASSUME NEW t \in Q PROVE \E x \in P : g[x] = t
  <2>1. PICK x \in S : f[x] = t
    BY DEF Pairs
  <2>2. QED
    BY <2>1
<1>3. Pairs(g, P, Q)
  BY <1>1, <1>2 DEF Pairs
<1>4. IsFiniteSet(P)
  BY FS_Subset
<1>5. QED
  BY <1>3, <1>4, PairedSetsCountAlike

\* A permutation pairs the positions with themselves.
LEMMA PermutationPairs ==
  ASSUME NEW n \in Nat, NEW p \in Permutation(n)
  PROVE  Pairs(p, 1..n, 1..n)
<1>1. \A j \in 1..n : \E i \in 1..n : p[i] = j
  BY PermutationOnto
<1>2. QED
  BY <1>1 DEF Permutation, Pairs

\* The contract counts with its own copy of Cardinality.
LEMMA CountsAlike == \A S : Contract!Cardinality(S) = Cardinality(S)
BY Zenon DEF Contract!Cardinality, Cardinality

\* A list repeats no key exactly if it has as many keys as elements.
LEMMA NoRepeats ==
  ASSUME NEW s \in Seq([id : Id, severity : AnySeverity])
  PROVE  Cardinality({e.id : e \in {s[i] : i \in DOMAIN s}}) = Len(s) <=> ~Repeats(s)
<1> DEFINE f == [i \in 1..Len(s) |-> s[i].id]
           ids == {e.id : e \in {s[i] : i \in DOMAIN s}}
<1>1. Len(s) \in Nat /\ DOMAIN s = 1..Len(s)
  BY LenProperties
<1>2. ids = {s[i].id : i \in 1..Len(s)}
  BY <1>1
<1>3. f \in Surjection(1..Len(s), ids)
  <2>1. f \in [1..Len(s) -> ids]
    BY <1>2
  <2>2. \A x \in ids : \E i \in 1..Len(s) : f[i] = x
    BY <1>2
  <2>3. QED
    BY <2>1, <2>2 DEF Surjection
<1>4. IsFiniteSet(1..Len(s)) /\ Cardinality(1..Len(s)) = Len(s)
  <2> DEFINE n == Len(s)
  <2>1. n \in Nat /\ 1 \in Int /\ n \in Int
    BY <1>1
  <2> HIDE DEF n, f, ids
  <2>2. IsFiniteSet(1..n) /\ Cardinality(1..n) = n
    BY <2>1, FS_Interval
  <2>3. QED
    BY <2>2 DEF n
<1>5. Cardinality(ids) = Cardinality(1..Len(s)) <=> f \in Injection(1..Len(s), ids)
  BY <1>3, <1>4, FS_Surjection
<1>6. f \in Injection(1..Len(s), ids) <=> ~Repeats(s)
  <2>1. f \in [1..Len(s) -> ids]
    BY <1>2
  <2>2. f \in Injection(1..Len(s), ids) <=> \A i, j \in 1..Len(s) : f[i] = f[j] => i = j
    BY <2>1 DEF Injection, IsInjective
  <2>3. QED
    BY <2>2, <1>1 DEF Repeats
<1>7. QED
  BY <1>4, <1>5, <1>6
-------------------------------------------------------------------------------
(* What is legal                                                           *)

OptionsOk(r) ==
    LET ovr == OverrideMap(r.opts) IN
    /\ \A id \in DOMAIN ovr : ovr[id] \in Severity
    /\ AllKnown(r.skip, r.rules)
    /\ AllKnown(DOMAIN ovr, r.rules)

\* The last option for an ID, as both modules name it.
LEMMA OverrideAgrees ==
  ASSUME NEW opts \in Seq([id : Id, severity : AnySeverity])
  PROVE  /\ \A id : Contract!Overridden(opts, id) <=> id \in DOMAIN OverrideMap(opts)
         /\ \A id \in DOMAIN OverrideMap(opts) :
               Contract!Override(opts, id) = OverrideMap(opts)[id]
<1>1. Len(opts) \in Nat /\ DOMAIN opts = 1..Len(opts)
  BY LenProperties
<1>2. DOMAIN OverrideMap(opts) = {opts[i].id : i \in DOMAIN opts}
  BY DEF OverrideMap
<1>3. \A id : Contract!Overridden(opts, id) <=> id \in DOMAIN OverrideMap(opts)
  BY <1>2 DEF Contract!Overridden
<1>4. ASSUME NEW id \in DOMAIN OverrideMap(opts)
      PROVE  Contract!Override(opts, id) = OverrideMap(opts)[id]
  <2> DEFINE S == {i \in DOMAIN opts : opts[i].id = id}
             L(i) == opts[i].id = id /\ \A j \in DOMAIN opts : opts[j].id = id => j <= i
             M(i) == opts[i].id = id /\ \A j \in i+1..Len(opts) : opts[j].id # id
  <2>1. S \subseteq 1..Len(opts) /\ S # {}
    BY <1>1, <1>2
  <2>2. PICK m \in S : \A k \in S : k <= m
    BY <1>1, <2>1, GreatestElement
  <2>3. m \in DOMAIN opts /\ m \in Nat /\ opts[m].id = id
    BY <1>1, <2>1
  <2>4. \A i \in DOMAIN opts : L(i) <=> i = m
    BY <1>1, <2>2, <2>3
  <2>5. \A i \in DOMAIN opts : M(i) <=> i = m
    <3>1. \A j \in m+1..Len(opts) : opts[j].id # id
      BY <1>1, <2>2, <2>3
    <3>2. \A i \in DOMAIN opts : i # m /\ opts[i].id = id => m \in i+1..Len(opts)
      <4>1. \A i \in DOMAIN opts : opts[i].id = id => i <= m
        BY <2>2
      <4>2. QED
        BY <4>1, <1>1, <2>3
    <3>3. QED
      BY <3>1, <3>2, <2>3
  <2>6. (CHOOSE i \in DOMAIN opts : L(i)) = m
    BY <2>3, <2>4
  <2>7. (CHOOSE i \in DOMAIN opts : M(i)) = m
    BY <2>3, <2>5
  <2>8. OverrideMap(opts)[id] = opts[m].severity
    BY <1>2, <2>6 DEF OverrideMap
  <2>9. Contract!Override(opts, id) = opts[m].severity
    BY <2>7 DEF Contract!Override
  <2>10. QED
    BY <2>8, <2>9
<1>5. QED
  BY <1>3, <1>4

\* The default severity, as both modules name it.
LEMMA DefaultAgrees ==
  ASSUME NEW spec \in RuleSpec, NEW id
  PROVE  Contract!Default(spec, id) = DeclaredSeverity(spec, id)
<1> DEFINE s == spec.violations
           own == {i \in DOMAIN s : s[i].id = id}
<1>1. s \in Seq([id : Id, severity : AnySeverity])
  BY DEF RuleSpec
<1>2. Len(s) \in Nat /\ DOMAIN s = 1..Len(s)
  BY <1>1, LenProperties
<1>3. own # {} <=> id \in CatalogIds(spec)
  BY DEF CatalogIds
<1>4. CASE own # {}
  <2>1. own \subseteq 1..Len(s)
    BY <1>2
  <2>2. PICK m \in own : \A k \in own : k <= m
    BY <1>2, <1>4, <2>1, GreatestElement
  <2>3. \A i \in own : (\A j \in own : j <= i) <=> i = m
    BY <1>2, <2>1, <2>2
  <2>4. (CHOOSE i \in own : \A j \in own : j <= i) = m
    BY <2>2, <2>3
  <2>5. \A i \in DOMAIN s : (s[i].id = id /\ \A j \in DOMAIN s : s[j].id = id => j <= i) <=> i = m
    BY <1>2, <2>1, <2>2
  <2>6. (CHOOSE i \in DOMAIN s : s[i].id = id /\ \A j \in DOMAIN s : s[j].id = id => j <= i) = m
    BY <2>2, <2>5
  <2>7. CatalogDefault(spec, id) = s[m].severity
    BY <2>6 DEF CatalogDefault
  <2>8. Contract!Default(spec, id) = s[m].severity
    BY <1>4, <2>4 DEF Contract!Default
  <2>9. QED
    BY <1>3, <1>4, <2>7, <2>8 DEF DeclaredSeverity
<1>5. CASE own = {}
  <2>1. Contract!Default(spec, id) =
          IF id \in {RulePanic, UnknownId} THEN "Error"
          ELSE IF id \in MetaId THEN "Warning" ELSE spec.severity
    BY <1>5 DEF Contract!Default, Contract!Blocking
  <2>2. id \notin CatalogIds(spec) /\ RulePanic \in MetaId /\ UnknownId \in MetaId
    BY <1>3, <1>5, RunnerAssumption
  <2>3. QED
    BY <2>1, <2>2 DEF DeclaredSeverity
<1>6. QED
  BY <1>4, <1>5

\* The contract reads the same IDs out of a spec as the code.
LEMMA DeclaresKnown ==
  ASSUME NEW spec, NEW id
  PROVE  Contract!Declares(spec, id) <=> id \in KnownIds(spec)
BY DEF Contract!Declares, Contract!Entries, KnownIds, CatalogIds

\* What the three validations accept is what the contract calls legal.
LEMMA LegalExactly ==
  ASSUME NEW r \in Request
  PROVE  Contract!Legal(r) <=> r.archOk /\ ValidRuleSet(r.rules) /\ OptionsOk(r)
<1> DEFINE specs == Contract!SpecsOf(r.rules)
           MayName(id) == id \in MetaId \/ \E k \in DOMAIN specs : Contract!Declares(specs[k], id)
           Fine(k) == /\ {specs[k].severity} \cup {e.severity : e \in Contract!Entries(specs[k])}
                             \subseteq {"Error", "Warning"}
                      /\ specs[k].id # NoId =>
                            /\ Contract!Cardinality({e.id : e \in Contract!Entries(specs[k])})
                                  = Len(specs[k].violations)
                            /\ \A l \in DOMAIN specs : specs[l].id = specs[k].id => l = k
           ovr == OverrideMap(r.opts)
<1>1. /\ r.rules \in Seq(RuleInst) /\ r.opts \in Seq([id : Id, severity : AnySeverity])
  BY RunnerAssumption
<1>2. /\ DOMAIN specs = DOMAIN r.rules
      /\ \A k \in DOMAIN specs : specs[k] = SpecOf[r.rules[k]] /\ specs[k] \in RuleSpec
  <2>1. \A k \in DOMAIN r.rules : r.rules[k] \in RuleInst
    BY <1>1, LenProperties
  <2>2. QED
    BY <2>1, RunnerAssumption DEF Contract!SpecsOf
<1>3. Contract!Legal(r) <=>
        /\ r.archOk /\ \A k \in DOMAIN specs : Fine(k)
        /\ \A id \in r.skip : MayName(id)
        /\ \A i \in DOMAIN r.opts : /\ MayName(r.opts[i].id)
                                    /\ Contract!Override(r.opts, r.opts[i].id) \in {"Error", "Warning"}
  BY DEF Contract!Legal
<1>4. \A id : MayName(id) <=> id \in KnownViolationIds(r.rules) \cup MetaId
  <2>1. \A id : id \in KnownViolationIds(r.rules)
                  <=> \E k \in DOMAIN r.rules : id \in KnownIds(SpecOf[r.rules[k]])
    BY DEF KnownViolationIds
  <2>2. \A id : (\E k \in DOMAIN specs : Contract!Declares(specs[k], id))
                  <=> \E k \in DOMAIN r.rules : id \in KnownIds(SpecOf[r.rules[k]])
    BY <1>2, DeclaresKnown
  <2>3. QED
    BY <2>1, <2>2
<1>5. (\A k \in DOMAIN specs : Fine(k)) <=> ValidRuleSet(r.rules)
  <2> DEFINE spec(k) == SpecOf[r.rules[k]]
             Sound(k) == /\ spec(k).severity \in Severity
                         /\ \A i \in DOMAIN spec(k).violations :
                               spec(k).violations[i].severity \in Severity
             Sole(k) == \A l \in DOMAIN r.rules : spec(l).id = spec(k).id => l = k
  <2>1. ASSUME NEW k \in DOMAIN specs
        PROVE  Fine(k) <=> Sound(k) /\ (spec(k).id # NoId => ~Repeats(spec(k).violations) /\ Sole(k))
    <3>1. specs[k] = spec(k) /\ spec(k).violations \in Seq([id : Id, severity : AnySeverity])
      BY <1>2 DEF RuleSpec
    <3>2. Contract!Entries(specs[k]) = {spec(k).violations[i] : i \in DOMAIN spec(k).violations}
      BY <3>1 DEF Contract!Entries
    <3>3. {specs[k].severity} \cup {e.severity : e \in Contract!Entries(specs[k])}
             \subseteq {"Error", "Warning"} <=> Sound(k)
      BY <3>1, <3>2 DEF Severity
    <3>4. Contract!Cardinality({e.id : e \in Contract!Entries(specs[k])}) = Len(specs[k].violations)
             <=> ~Repeats(spec(k).violations)
      BY <3>1, <3>2, NoRepeats, CountsAlike
    <3>5. (\A l \in DOMAIN specs : specs[l].id = specs[k].id => l = k) <=> Sole(k)
      BY <1>2
    <3>6. QED
      BY <3>1, <3>3, <3>4, <3>5
  <2>2. ValidRuleSet(r.rules) <=>
          /\ \A k \in DOMAIN r.rules : Sound(k) /\ (spec(k).id # NoId => ~Repeats(spec(k).violations))
          /\ \A k \in DOMAIN r.rules : spec(k).id # NoId => Sole(k)
    <3>1. (\A k, l \in DOMAIN r.rules : k # l /\ spec(k).id = spec(l).id => spec(k).id = NoId)
             <=> \A k \in DOMAIN r.rules : spec(k).id # NoId => Sole(k)
      OBVIOUS
    <3>2. QED
      BY <3>1 DEF ValidRuleSet
  <2> HIDE DEF Fine, Sound, Sole
  <2>3. QED
    BY <2>1, <2>2, <1>2
<1>6. DOMAIN ovr = {r.opts[i].id : i \in DOMAIN r.opts}
  BY DEF OverrideMap
<1>7. \A i \in DOMAIN r.opts : Contract!Override(r.opts, r.opts[i].id) = ovr[r.opts[i].id]
  BY <1>1, <1>6, OverrideAgrees
<1>8. OptionsOk(r) <=>
        /\ \A id \in r.skip : MayName(id)
        /\ \A i \in DOMAIN r.opts : /\ MayName(r.opts[i].id)
                                    /\ Contract!Override(r.opts, r.opts[i].id) \in {"Error", "Warning"}
  <2> HIDE DEF MayName
  <2>1. AllKnown(r.skip, r.rules) <=> \A id \in r.skip : MayName(id)
    BY <1>4 DEF AllKnown
  <2>2. AllKnown(DOMAIN ovr, r.rules) <=> \A i \in DOMAIN r.opts : MayName(r.opts[i].id)
    BY <1>4, <1>6 DEF AllKnown
  <2>3. (\A id \in DOMAIN ovr : ovr[id] \in Severity)
          <=> \A i \in DOMAIN r.opts : Contract!Override(r.opts, r.opts[i].id) \in {"Error", "Warning"}
    BY <1>6, <1>7 DEF Severity
  <2>4. QED
    BY <2>1, <2>2, <2>3 DEF OptionsOk
<1>9. QED
  BY <1>3, <1>5, <1>8

-------------------------------------------------------------------------------
(* What the rules emit and how it is reported                              *)

\* A rule's findings in any order are what the contract lets it emit.
LEMMA AnyOrderIsAllowed ==
  ASSUME NEW rule \in RuleInst, NEW p \in Permutation(Len(FindingsOf[rule]))
  PROVE  Contract!MayEmit(rule, [i \in 1..Len(FindingsOf[rule]) |-> FindingsOf[rule][p[i]]])
<1> DEFINE found == FindingsOf[rule]
           n == Len(found)
           b == [i \in 1..n |-> found[p[i]]]
<1>1. found \in Seq(Emitted)
  BY RunnerAssumption
<1>2. n \in Nat /\ DOMAIN found = 1..n /\ found \in [1..n -> Emitted]
  BY <1>1, LenProperties
<1>3. Pairs(p, 1..n, 1..n) /\ p \in [1..n -> 1..n]
  BY <1>2, PermutationPairs DEF Permutation
<1>4. b \in [1..n -> Emitted]
  BY <1>2, <1>3
<1>5. Len(b) = n
  <2>1. b \in Seq(Emitted)
    BY <1>2, <1>4, SeqDef
  <2>2. Len(b) \in Nat /\ DOMAIN b = 1..Len(b) /\ DOMAIN b = 1..n
    BY <2>1, <1>4, LenProperties
  <2>3. QED
    BY <2>2, <1>2
<1>6. ASSUME NEW i \in 1..n
      PROVE  Cardinality({j \in 1..n : b[j] = b[i]}) = Cardinality({j \in 1..n : found[j] = b[i]})
  <2> DEFINE D == 1..n
             P == {j \in D : b[j] = b[i]}
             Q == {j \in D : found[j] = b[i]}
  <2>1. \A j \in D : j \in P <=> p[j] \in Q
    BY <1>3
  <2>2. IsFiniteSet(D) /\ Pairs(p, D, D)
    BY <1>2, <1>3, FS_Interval
  <2>3. P \in SUBSET D /\ Q \in SUBSET D
    OBVIOUS
  <2> HIDE DEF D, P, Q
  <2>4. Cardinality(P) = Cardinality(Q)
    BY <2>1, <2>2, <2>3, PairedPartsCountAlike
  <2>5. QED
    BY <2>4 DEF P, Q, D
<1>7. DOMAIN b = 1..n
  OBVIOUS
<1> HIDE DEF b, n
<1>8. Len(b) = Len(FindingsOf[rule])
  BY <1>5 DEF n
<1>9. \A i \in DOMAIN b :
         Contract!Cardinality({j \in DOMAIN b : b[j] = b[i]})
            = Contract!Cardinality({j \in DOMAIN FindingsOf[rule] : FindingsOf[rule][j] = b[i]})
  <2>1. TAKE i \in DOMAIN b
  <2>2. Cardinality({j \in 1..n : b[j] = b[i]}) = Cardinality({j \in 1..n : found[j] = b[i]})
    BY <1>6, <1>7
  <2>3. QED
    BY <2>2, <1>2, <1>7, CountsAlike
<1>10. Contract!MayEmit(rule, b)
  BY <1>8, <1>9 DEF Contract!MayEmit
<1>11. QED
  BY <1>10 DEF b, n

\* The pipeline makes of a finding what the contract reports.
LEMMA ReportedAgrees ==
  ASSUME request \in Request, overrides = OverrideMap(request.opts),
         NEW spec \in RuleSpec, NEW v \in Emitted
  PROVE  Judged(spec, overrides, Replaced(spec, v)) = Contract!Reported(request, spec, v)
<1> DEFINE legal == Contract!Declares(spec, v.rule) \/ v.rule \in MetaId
           id == IF legal THEN v.rule ELSE UnknownId
           w == Replaced(spec, v)
           declared == DeclaredSeverity(spec, id)
<1>1. legal <=> v.rule \in KnownIds(spec) \cup MetaId
  BY DeclaresKnown
<1>2. v = [file |-> v.file, line |-> v.line, rule |-> v.rule, msg |-> v.msg]
  BY DEF Emitted
<1>3. /\ w.file = v.file /\ w.line = v.line /\ w.rule = id
      /\ w.msg = IF legal THEN v.msg ELSE <<"undeclared", spec.id, v.rule>>
  <2>1. CASE legal
    BY <2>1, <1>1 DEF Replaced
  <2>2. CASE ~legal
    <3>1. w = [v EXCEPT !.rule = UnknownId, !.msg = UndeclaredMsg(spec.id, v.rule)]
      BY <2>2, <1>1 DEF Replaced
    <3>2. QED
      BY <3>1, <2>2 DEF UndeclaredMsg, Emitted
  <2>3. QED
    BY <2>1, <2>2
<1>4. Contract!Default(spec, id) = declared
  BY DefaultAgrees
<1>5. request.opts \in Seq([id : Id, severity : AnySeverity])
  BY RequestType
<1>6. (IF Contract!Overridden(request.opts, id) THEN Contract!Override(request.opts, id)
       ELSE Contract!Default(spec, id))
        = (IF id \in DOMAIN overrides THEN overrides[id] ELSE declared)
  BY <1>4, <1>5, OverrideAgrees
<1>7. Judged(spec, overrides, w) =
        [file |-> v.file, line |-> v.line, rule |-> id,
         msg |-> IF legal THEN v.msg ELSE <<"undeclared", spec.id, v.rule>>,
         declared |-> declared,
         effective |-> IF id \in DOMAIN overrides THEN overrides[id] ELSE declared]
  BY <1>3 DEF Judged
<1>8. Contract!Reported(request, spec, v) =
        [file |-> v.file, line |-> v.line, rule |-> id,
         msg |-> IF legal THEN v.msg ELSE <<"undeclared", spec.id, v.rule>>,
         declared |-> Contract!Default(spec, id),
         effective |-> IF Contract!Overridden(request.opts, id)
                       THEN Contract!Override(request.opts, id)
                       ELSE Contract!Default(spec, id)]
  BY DEF Contract!Reported
<1> HIDE DEF legal, id, w, declared
<1>9. QED
  BY <1>4, <1>6, <1>7, <1>8 DEF w

\* The two orders agree: no two files and no two IDs have one rank.
LEMMA OrdersAgree ==
  ASSUME NEW a \in Violation, NEW b \in Violation
  PROVE  Contract!Before(a, b) <=> SortsBefore(a, b)
<1> DEFINE ka == <<FileRank[a.file], a.line, IdRank[a.rule], MsgRank[a.msg]>>
           kb == <<FileRank[b.file], b.line, IdRank[b.rule], MsgRank[b.msg]>>
<1>1. /\ a.file \in File /\ b.file \in File /\ a.rule \in Id /\ b.rule \in Id
      /\ a.line \in Nat /\ b.line \in Nat /\ a.msg \in Msg /\ b.msg \in Msg
  BY DEF Violation
<1>2. /\ FileRank[a.file] = FileRank[b.file] <=> a.file = b.file
      /\ IdRank[a.rule] = IdRank[b.rule] <=> a.rule = b.rule
  BY <1>1, RunnerAssumption
<1>3. Contract!Before(a, b) <=> \E n \in 1..4 : ka[n] < kb[n] /\ \A m \in 1..n-1 : ka[m] = kb[m]
  BY DEF Contract!Before
<1>4. (\E n \in 1..4 : ka[n] < kb[n] /\ \A m \in 1..n-1 : ka[m] = kb[m])
        <=> \/ ka[1] < kb[1]
            \/ ka[2] < kb[2] /\ ka[1] = kb[1]
            \/ ka[3] < kb[3] /\ ka[1] = kb[1] /\ ka[2] = kb[2]
            \/ ka[4] < kb[4] /\ ka[1] = kb[1] /\ ka[2] = kb[2] /\ ka[3] = kb[3]
  <2> DEFINE Holds(n) == ka[n] < kb[n] /\ \A m \in 1..n-1 : ka[m] = kb[m]
  <2>1. /\ Holds(1) <=> ka[1] < kb[1]
        /\ Holds(2) <=> ka[2] < kb[2] /\ ka[1] = kb[1]
    OBVIOUS
  <2>2. Holds(3) <=> ka[3] < kb[3] /\ ka[1] = kb[1] /\ ka[2] = kb[2]
    <3>1. 1..3-1 = {1, 2}
      OBVIOUS
    <3> HIDE DEF ka, kb
    <3>2. QED
      BY <3>1
  <2>3. Holds(4) <=> ka[4] < kb[4] /\ ka[1] = kb[1] /\ ka[2] = kb[2] /\ ka[3] = kb[3]
    <3>1. 1..4-1 = {1, 2, 3}
      OBVIOUS
    <3> HIDE DEF ka, kb
    <3>2. QED
      BY <3>1
  <2>4. 1..4 = {1, 2, 3, 4}
    OBVIOUS
  <2> HIDE DEF Holds, ka, kb
  <2>5. (\E n \in 1..4 : Holds(n)) <=> Holds(1) \/ Holds(2) \/ Holds(3) \/ Holds(4)
    BY <2>4
  <2>6. QED
    BY <2>1, <2>2, <2>3, <2>5 DEF Holds
<1>5. /\ ka[1] = FileRank[a.file] /\ ka[2] = a.line /\ ka[3] = IdRank[a.rule] /\ ka[4] = MsgRank[a.msg]
      /\ kb[1] = FileRank[b.file] /\ kb[2] = b.line /\ kb[3] = IdRank[b.rule] /\ kb[4] = MsgRank[b.msg]
  OBVIOUS
<1> HIDE DEF ka, kb
<1>6. QED
  BY <1>2, <1>3, <1>4, <1>5 DEF SortsBefore

-------------------------------------------------------------------------------
(* The slots of the batch that went through the pipeline, and the list the *)
(* result slice is of them.                                                *)
Slot == UNION {{<<k, i>> : i \in Processed(k)} : k \in DOMAIN batch}
At(s) == Emission(s[1], s[2])
Kept == {s \in Slot : At(s).rule \notin request.skip}
Earlier(s, t) == s[1] < t[1] \/ (s[1] = t[1] /\ s[2] < t[2])
Repeated(s) == /\ IsMeta(At(s).rule)
               /\ \E t \in Kept : Earlier(t, s) /\ MetaKey(At(t)) = MetaKey(At(s))
First == {s \in Kept : ~Repeated(s)}

\* Validation has decided what the contract calls legal.
Validated ==
    /\ pc \notin {"arch", "rejected", "crashed"} => request.archOk
    /\ pc = "options" \/ Started =>
         /\ ValidRuleSet(request.rules)
         /\ \A k \in DOMAIN request.rules : request.rules[k] \notin SpecPanics
    /\ Started => OptionsOk(request) /\ overrides = OverrideMap(request.opts)

\* The rules emitted what they may emit.
BatchAllowed ==
    \A k \in DOMAIN batch : Contract!MayEmit(request.rules[k], batch[k])

\* m lists the kept findings in the order they were emitted in.
InOrder(m) == /\ Pairs(m, 1..Len(out), Kept)
              /\ \A i, j \in 1..Len(out) : i < j => Earlier(m[i], m[j])

CollectsInOrder ==
    pc \in {"check", "collect"} =>
        \E m : InOrder(m) /\ \A i \in 1..Len(out) : out[i] = At(m[i])

InEmissionOrder(g, n) == \A i, j \in 1..n : i < j => Earlier(g[i], g[j])

\* g lists the kept findings before read that nothing before them repeats.
Filters(m, g) ==
    /\ InOrder(m)
    /\ \A j \in read..Len(out) : out[j] = At(m[j])
    /\ Pairs(g, 1..write, First \cap {m[j] : j \in 1..read-1})
    /\ \A j \in 1..write : out[j] = At(g[j])
    /\ InEmissionOrder(g, write)
    /\ \A key : key \in seen <=> \E j \in 1..read-1 : /\ IsMeta(At(m[j]).rule)
                                                      /\ MetaKey(At(m[j])) = key
FiltersInPlace == pc = "dedupe" => \E m, g : Filters(m, g)

ListsFirst(g) == Pairs(g, 1..Len(out), First) /\ \A i \in 1..Len(out) : out[i] = At(g[i])
\* Ties are in emission order.
StablySorted(g) ==
    \A i, j \in 1..Len(out) : i < j =>
        /\ ~SortsBefore(out[j], out[i])
        /\ ~SortsBefore(out[i], out[j]) => Earlier(g[i], g[j])
ListsAll ==
    /\ pc = "sort" => \E g : ListsFirst(g) /\ InEmissionOrder(g, Len(out))
    /\ pc = "done" => \E g : ListsFirst(g) /\ StablySorted(g)

ListInv == /\ IInv /\ Validated /\ BatchAllowed
           /\ CollectsInOrder /\ FiltersInPlace /\ ListsAll

\* A slot is a rule that was executed and a finding of it that was collected.
LEMMA SlotIn ==
  ASSUME NEW s
  PROVE  s \in Slot <=> \E k \in DOMAIN batch : \E i \in Processed(k) : s = <<k, i>>
BY DEF Slot

\* Slots are ordered.
LEMMA SlotsOrdered ==
  ASSUME IInv, NEW s \in Slot, NEW t \in Slot
  PROVE  /\ s = <<s[1], s[2]>> /\ s[1] \in Nat /\ s[2] \in Nat
         /\ s[1] \in DOMAIN batch /\ s[2] \in DOMAIN batch[s[1]]
         /\ s # t => Earlier(s, t) \/ Earlier(t, s)
         /\ ~(Earlier(s, t) /\ Earlier(t, s)) /\ ~Earlier(s, s)
<1>1. \A k \in DOMAIN batch : k \in Nat /\ \A i \in Processed(k) : i \in Nat /\ i \in DOMAIN batch[k]
  <2>1. TAKE k \in DOMAIN batch
  <2>2. k \in Nat /\ Len(batch[k]) \in Nat /\ DOMAIN batch[k] = 1..Len(batch[k])
    BY SliceTypes
  <2>3. Processed(k) \subseteq DOMAIN batch[k]
    <3>1. pc = "collect" => Len(pending) \in Nat
      BY LenProperties DEF IInv, TypeOK
    <3>2. QED
      BY <2>2, <3>1 DEF Processed
  <2>4. QED
    BY <2>2, <2>3
<1>2. PICK k \in DOMAIN batch : \E i \in Processed(k) : s = <<k, i>>
  BY SlotIn
<1>3. PICK i \in Processed(k) : s = <<k, i>>
  BY <1>2
<1>4. PICK l \in DOMAIN batch : \E j \in Processed(l) : t = <<l, j>>
  BY SlotIn
<1>5. PICK j \in Processed(l) : t = <<l, j>>
  BY <1>4
<1>6. k \in Nat /\ i \in Nat /\ l \in Nat /\ j \in Nat
  BY <1>1
<1>7. QED
  BY <1>1, <1>3, <1>5, <1>6 DEF Earlier

\* The same slots with the same findings: the same list.
LEMMA SameView ==
  ASSUME Slot' = Slot, request' = request, \A s \in Slot : At(s)' = At(s)
  PROVE  Kept' = Kept /\ First' = First
<1>1. Kept' = Kept
  BY DEF Kept
<1>2. \A s \in Kept : Repeated(s)' <=> Repeated(s)
  <2>1. Kept \subseteq Slot
    BY DEF Kept
  <2>2. QED
    BY <1>1, <2>1 DEF Repeated, Earlier, MetaKey, IsMeta
<1>3. QED
  BY <1>1, <1>2 DEF First

\* Finitely many.
LEMMA SlotsFinite ==
  ASSUME IInv
  PROVE  IsFiniteSet(Slot) /\ IsFiniteSet(Kept) /\ IsFiniteSet(First)
<1>1. IsFiniteSet(DOMAIN batch)
  BY SliceTypes, FS_Interval
<1> DEFINE SlotsOf == [k \in DOMAIN batch |-> {<<k, i>> : i \in Processed(k)}]
           Parts == {SlotsOf[k] : k \in DOMAIN batch}
<1>2. IsFiniteSet(Parts)
  <2>1. SlotsOf \in Surjection(DOMAIN batch, Parts)
    BY DEF Surjection
  <2>2. QED
    BY <1>1, <2>1, FS_Surjection
<1>3. ASSUME NEW k \in DOMAIN batch PROVE IsFiniteSet(SlotsOf[k])
  <2> DEFINE f == [i \in Processed(k) |-> <<k, i>>]
  <2>1. IsFiniteSet(Processed(k))
    <3>1. Len(batch[k]) \in Nat /\ DOMAIN batch[k] = 1..Len(batch[k])
      BY SliceTypes
    <3>2. pc = "collect" => Len(pending) \in Nat
      BY LenProperties DEF IInv, TypeOK
    <3>3. Processed(k) = 1..Len(batch[k])
            \/ (pc = "collect" /\ Processed(k) = 1..(Len(batch[k]) - Len(pending)))
      BY <3>1 DEF Processed
    <3>4. CASE Processed(k) = 1..Len(batch[k])
      BY <3>1, <3>4, FS_Interval
    <3>5. CASE pc = "collect" /\ Processed(k) = 1..(Len(batch[k]) - Len(pending))
      <4>1. Len(batch[k]) - Len(pending) \in Int
        BY <3>1, <3>2, <3>5
      <4>2. QED
        BY <4>1, <3>5, FS_Interval
    <3>6. QED
      BY <3>3, <3>4, <3>5
  <2>2. f \in Surjection(Processed(k), SlotsOf[k])
    BY DEF Surjection
  <2>3. QED
    BY <2>1, <2>2, FS_Surjection
<1>4. UNION Parts = Slot
  BY DEF Slot
<1>5. IsFiniteSet(UNION Parts)
  <2>1. \A T \in Parts : IsFiniteSet(T)
    BY <1>3
  <2> HIDE DEF Parts
  <2>2. QED
    BY <1>2, <2>1, FS_UNION
<1>6. IsFiniteSet(Slot)
  BY <1>4, <1>5
<1>7. Kept \in SUBSET Slot /\ First \in SUBSET Slot
  BY DEF Kept, First
<1>8. QED
  BY <1>6, <1>7, FS_Subset
-------------------------------------------------------------------------------
(* Every step keeps the list                                               *)

\* Before the first step nothing is collected and nothing filtered.
LEMMA InitListInv == Init => ListInv
<1> SUFFICES ASSUME Init PROVE ListInv
  OBVIOUS
<1>1. pc = "arch" /\ batch = <<>>
  BY DEF Init
<1>2. Validated /\ CollectsInOrder /\ FiltersInPlace /\ ListsAll
  BY <1>1 DEF Validated, Started, CollectsInOrder, FiltersInPlace, ListsAll
<1>3. BatchAllowed
  BY <1>1 DEF BatchAllowed
<1>4. QED
  BY <1>2, <1>3, InitIInv DEF ListInv

\* What validation decided stays decided.
LEMMA StepValidated == IInv /\ Validated /\ [Next]_vars => Validated'
<1> SUFFICES ASSUME IInv, Validated, [Next]_vars PROVE Validated'
  OBVIOUS
<1>1. CASE ValidateArch
  BY <1>1 DEF ValidateArch, Stop, Validated, Started
<1>2. CASE ValidateRuleSet
  BY <1>2 DEF ValidateRuleSet, Stop, Validated, Started
<1>3. CASE ValidateOptions
  BY <1>3 DEF ValidateOptions, Validated, Started, OptionsOk
<1>4. CASE Check \/ CheckPanics \/ Collect \/ NextRule \/ RulesDone
  BY <1>4 DEF Check, CheckPanics, Executes, Collect, NextRule, RulesDone, Validated, Started
<1>5. CASE Dedupe \/ DedupeDone \/ Sort
  BY <1>5 DEF Dedupe, DedupeDone, Sort, Validated, Started
<1>6. CASE UNCHANGED vars
  BY <1>6 DEF vars, Validated, Started
<1>7. QED
  BY <1>1, <1>2, <1>3, <1>4, <1>5, <1>6 DEF Next, Over

\* Rules emit what they may.
LEMMA StepBatchAllowed == IInv /\ BatchAllowed /\ [Next]_vars => BatchAllowed'
<1> SUFFICES ASSUME IInv, BatchAllowed, [Next]_vars PROVE BatchAllowed'
  OBVIOUS
<1>1. ASSUME pc = "check", current <= Len(request.rules), NEW res, Executes(res),
             Contract!MayEmit(CurrentRule, res), res \in Seq(Emitted)
      PROVE  BatchAllowed'
  <2>1. batch' = Append(batch, res) /\ request' = request
    BY <1>1 DEF Executes
  <2>2. batch \in Seq(Seq(Emitted)) /\ Len(batch) = current - 1 /\ current \in Nat \ {0}
    BY <1>1, SliceTypes DEF IInv, Progress
  <2>3. /\ DOMAIN batch = 1..Len(batch) /\ DOMAIN batch' = 1..current
        /\ \A k \in 1..Len(batch) : batch'[k] = batch[k]
        /\ batch'[current] = res
    BY <1>1, <2>1, <2>2, AppendProperties, LenProperties
  <2>4. ASSUME NEW k \in DOMAIN batch'
        PROVE  Contract!MayEmit(request.rules[k], batch'[k])
    <3>1. CASE k = current
      BY <3>1, <1>1, <2>3 DEF CurrentRule
    <3>2. CASE k # current
      BY <3>2, <2>2, <2>3 DEF BatchAllowed
    <3>3. QED
      BY <3>1, <3>2
  <2>5. QED
    BY <2>1, <2>4 DEF BatchAllowed
<1>2. ASSUME pc = "check", current <= Len(request.rules)
      PROVE  CurrentRule \in RuleInst /\ SpecOf[CurrentRule] \in RuleSpec
  <2>1. current \in 1..Len(request.rules)
    BY <1>2, RequestType DEF IInv, TypeOK
  <2>2. QED
    BY <2>1, RequestType DEF CurrentRule, IInv, TypeOK
<1>3. CASE Check
  <2> DEFINE found == FindingsOf[CurrentRule]
  <2>1. pc = "check" /\ current <= Len(request.rules)
    BY <1>3 DEF Check
  <2>2. found \in Seq(Emitted)
    BY <1>2, <2>1, RunnerAssumption
  <2>3. PICK p \in Permutation(Len(found)) :
               Executes([i \in 1..Len(found) |-> found[p[i]]])
    BY <1>3 DEF Check
  <2>4. Len(found) \in Nat /\ found \in [1..Len(found) -> Emitted]
    BY <2>2, LenProperties
  <2>5. [i \in 1..Len(found) |-> found[p[i]]] \in [1..Len(found) -> Emitted]
    BY <2>4 DEF Permutation
  <2>6. [i \in 1..Len(found) |-> found[p[i]]] \in Seq(Emitted)
    BY <2>4, <2>5, SeqDef
  <2>7. Contract!MayEmit(CurrentRule, [i \in 1..Len(found) |-> found[p[i]]])
    BY <1>2, <2>1, AnyOrderIsAllowed
  <2>8. QED
    BY <1>1, <2>1, <2>3, <2>6, <2>7
<1>4. CASE CheckPanics
  <2>1. pc = "check" /\ current <= Len(request.rules)
    BY <1>4 DEF CheckPanics
  <2>2. PICK value \in PanicsOf[CurrentRule] :
           Executes(<<[file |-> NoFile, line |-> 0, rule |-> RulePanic,
                       msg |-> PanicMsg(SpecOf[CurrentRule].id, value)]>>)
    BY <1>4 DEF CheckPanics
  <2> DEFINE v == [file |-> NoFile, line |-> 0, rule |-> RulePanic,
                   msg |-> PanicMsg(SpecOf[CurrentRule].id, value)]
  <2>3. Contract!MayEmit(CurrentRule, <<v>>)
    BY <2>2 DEF Contract!MayEmit, PanicMsg
  <2>4. value \in PanicValue /\ SpecOf[CurrentRule].id \in Id
    BY <1>2, <2>1, RunnerAssumption DEF RuleSpec
  <2>5. v \in Emitted
    BY <2>4, RunnerAssumption DEF Emitted
  <2>6. <<v>> \in Seq(Emitted)
    BY <2>5
  <2>7. QED
    BY <1>1, <2>1, <2>2, <2>3, <2>6
<1>5. CASE UNCHANGED <<request, batch>>
  BY <1>5 DEF BatchAllowed
<1>6. CASE ~(Check \/ CheckPanics)
  <2>1. UNCHANGED <<request, batch>>
    BY <1>6 DEF Next, Over, vars, loopVars, dedupeVars, ValidateArch, ValidateRuleSet, Stop,
                ValidateOptions, Collect, NextRule, RulesDone, Dedupe, DedupeDone, Sort
  <2>2. QED
    BY <1>5, <2>1
<1>7. QED
  BY <1>3, <1>4, <1>6

\* Before the first rule nothing is listed.
LEMMA StartInOrder ==
  ASSUME IInv, ValidateArch \/ ValidateRuleSet \/ ValidateOptions
  PROVE  CollectsInOrder' /\ FiltersInPlace' /\ ListsAll'
<1>1. pc' \in {"ruleset", "options", "check", "rejected", "crashed"} /\ pc \in {"arch", "ruleset", "options"}
      /\ batch' = batch /\ out' = out
  BY DEF ValidateArch, ValidateRuleSet, ValidateOptions, Stop, loopVars
<1>2. batch = <<>> /\ out = <<>>
  BY <1>1 DEF IInv, Progress, Started
<1>3. Slot' = {}
  <2>1. DOMAIN batch' = {}
    BY <1>1, <1>2
  <2>2. QED
    BY <2>1 DEF Slot
<1>4. Kept' = {}
  BY <1>3 DEF Kept
<1>5. Len(out') = 0
  BY <1>1, <1>2
<1>6. CollectsInOrder'
  <2>1. \E m : Pairs(m, {}, {})
    <3>1. Pairs([x \in {} |-> x], {}, {})
      BY DEF Pairs
    <3>2. QED
      BY <3>1
  <2>2. PICK m : Pairs(m, {}, {})
    BY <2>1
  <2>3. 1..Len(out') = {}
    BY <1>5
  <2>4. QED
    BY <1>4, <2>2, <2>3 DEF CollectsInOrder, InOrder
<1>7. QED
  BY <1>1, <1>6 DEF FiltersInPlace, ListsAll

\* A rule ran: no finding of it is processed yet.
LEMMA ExecuteKeepsSlots ==
  ASSUME IInv, Check \/ CheckPanics
  PROVE  Slot' = Slot /\ \A s \in Slot : At(s)' = At(s)
<1>1. PICK res : Executes(res)
  BY DEF Check, CheckPanics
<1>2. /\ pc = "check" /\ pc' = "collect" /\ pending' = res /\ batch' = Append(batch, res)
      /\ UNCHANGED <<current, request, overrides>>
  BY <1>1 DEF Check, CheckPanics, Executes
<1>3. /\ batch \in Seq(Seq(Emitted)) /\ Len(batch) = current - 1 /\ current \in Nat \ {0}
      /\ res \in Seq(Emitted)
  <2>1. IInv'
    BY CheckStep
  <2>2. QED
    BY <1>2, <2>1, SliceTypes DEF IInv, TypeOK, Progress
<1>4. /\ DOMAIN batch = 1..Len(batch) /\ DOMAIN batch' = 1..current
      /\ \A k \in 1..Len(batch) : batch'[k] = batch[k]
      /\ batch'[current] = res
  BY <1>2, <1>3, AppendProperties, LenProperties
<1>5. Processed(current)' = {}
  <2>1. Len(res) \in Nat
    BY <1>3, LenProperties
  <2>2. Processed(current)' = 1..(Len(res) - Len(res))
    BY <1>2, <1>4 DEF Processed
  <2>3. QED
    BY <2>1, <2>2
<1>6. \A k \in DOMAIN batch : Processed(k)' = Processed(k)
  BY <1>2, <1>3, <1>4 DEF Processed
<1>7. DOMAIN batch' = DOMAIN batch \cup {current}
  BY <1>3, <1>4
<1>8. ASSUME NEW s
      PROVE  s \in Slot' <=> s \in Slot
  <2>1. s \in Slot' <=> \E k \in DOMAIN batch' : \E i \in Processed(k)' : s = <<k, i>>
    BY DEF Slot
  <2>2. s \in Slot <=> \E k \in DOMAIN batch : \E i \in Processed(k) : s = <<k, i>>
    BY SlotIn
  <2>3. QED
    BY <2>1, <2>2, <1>2, <1>5, <1>6, <1>7
<1>9. Slot' = Slot
  BY <1>8
<1>10. ASSUME NEW s \in Slot PROVE At(s)' = At(s)
  <2>1. s[1] \in DOMAIN batch
    BY SlotsOrdered
  <2>2. batch'[s[1]] = batch[s[1]]
    BY <2>1, <1>4
  <2>3. QED
    BY <2>2, <1>2, EmissionStable DEF At
<1>11. QED
  BY <1>9, <1>10

\* The loop goes on, or ends: everything of this rule was processed.
LEMMA LoopKeepsSlots ==
  ASSUME IInv, NextRule \/ RulesDone
  PROVE  Slot' = Slot /\ \A s \in Slot : At(s)' = At(s)
<1>1. /\ UNCHANGED <<batch, pending, request, overrides>>
      /\ \/ (pc = "collect" /\ pc' = "check" /\ pending = <<>>)
         \/ (pc = "check" /\ pc' = "dedupe")
  BY DEF NextRule, RulesDone, loopVars
<1>2. \A k \in DOMAIN batch : Processed(k)' = Processed(k)
  <2>1. TAKE k \in DOMAIN batch
  <2>2. (pending = <<>> => Len(pending) = 0) /\ Len(batch[k]) \in Nat /\ DOMAIN batch[k] = 1..Len(batch[k])
    BY SliceTypes
  <2>3. QED
    BY <1>1, <2>2 DEF Processed
<1>3. Slot' = Slot
  BY <1>1, <1>2 DEF Slot
<1>4. \A s \in Slot : At(s)' = At(s)
  BY <1>1 DEF At, Emission
<1>5. QED
  BY <1>3, <1>4

\* Between two findings the result slice and what it shows stay as they are.
LEMMA LoopInOrder ==
  ASSUME IInv, CollectsInOrder, Check \/ CheckPanics \/ NextRule
  PROVE  CollectsInOrder' /\ FiltersInPlace' /\ ListsAll'
<1>1. /\ UNCHANGED <<request, out>>
      /\ pc \in {"check", "collect"} /\ pc' \in {"check", "collect"}
  BY DEF Check, CheckPanics, Executes, NextRule, dedupeVars
<1>2. Slot' = Slot /\ \A s \in Slot : At(s)' = At(s)
  BY ExecuteKeepsSlots, LoopKeepsSlots
<1>3. Kept' = Kept
  BY <1>1, <1>2, SameView
<1>4. PICK m : InOrder(m) /\ \A i \in 1..Len(out) : out[i] = At(m[i])
  BY <1>1 DEF CollectsInOrder
<1>5. InOrder(m)'
  BY <1>1, <1>3, <1>4 DEF InOrder, Earlier
<1>6. \A i \in 1..Len(out) : At(m[i])' = At(m[i])
  <2>1. \A i \in 1..Len(out) : m[i] \in Slot
    BY <1>4 DEF InOrder, Pairs, Kept
  <2>2. QED
    BY <2>1, <1>2
<1>7. QED
  BY <1>1, <1>4, <1>5, <1>6 DEF CollectsInOrder, FiltersInPlace, ListsAll

\* What Collect does, in terms of slots: the next one is processed.
LEMMA CollectEffect ==
  ASSUME IInv, Collect
  PROVE  \E n \in Nat :
           /\ n \in DOMAIN batch[current] /\ current \in DOMAIN batch
           /\ Len(batch) = current
           /\ Processed(current) = 1..n-1 /\ Processed(current)' = 1..n
           /\ \A k \in DOMAIN batch : k # current => Processed(k)' = Processed(k)
           /\ out' = IF Emission(current, n).rule \in request.skip
                     THEN out ELSE Append(out, Emission(current, n))
           /\ Emission(current, n) \in Violation
           /\ UNCHANGED <<request, batch, overrides, current>>
           /\ pc' = "collect" /\ pc = "collect"
<1> DEFINE taken == Len(batch[current]) - Len(pending)
           v == Replaced(SpecOf[CurrentRule], Head(pending))
           e == Judged(SpecOf[CurrentRule], overrides, v)
<1>1. /\ pc = "collect" /\ pc' = "collect" /\ pending # <<>> /\ pending' = Tail(pending)
      /\ out' = IF v.rule \in request.skip THEN out ELSE Append(out, e)
      /\ UNCHANGED <<request, overrides, current, batch>>
  BY DEF Collect, IsViolationSkipped
<1>2. /\ Len(batch) = current /\ current <= Len(request.rules)
      /\ Len(pending) <= Len(batch[current])
      /\ \A i \in 1..Len(pending) : pending[i] = batch[current][taken + i]
  BY <1>1 DEF IInv, Progress
<1>3. /\ Len(pending) \in Nat \ {0} /\ Len(pending') = Len(pending) - 1
      /\ Head(pending) = pending[1] /\ Head(pending) \in Emitted
  BY <1>1, HeadTailProperties, EmptySeq DEF IInv, TypeOK
<1>4. /\ current \in DOMAIN batch /\ Len(batch[current]) \in Nat
      /\ DOMAIN batch[current] = 1..Len(batch[current])
  BY <1>2, SliceTypes
<1>5. taken \in Nat /\ taken + 1 \in DOMAIN batch[current]
  BY <1>2, <1>3, <1>4
<1>6. e = Emission(current, taken + 1) /\ e.rule = v.rule
  BY <1>2, <1>3 DEF Emission, CurrentRule, Judged
<1>7. e \in Violation
  <2>1. current \in 1..Len(request.rules)
    BY <1>2, SliceTypes
  <2>2. SpecOf[CurrentRule] \in RuleSpec
    BY <2>1, RequestType DEF CurrentRule, IInv, TypeOK
  <2>3. v \in Emitted
    BY <2>2, <1>3, ReplacedType
  <2>4. QED
    BY <2>2, <2>3, JudgedType DEF IInv, TypeOK
<1> HIDE DEF v, e
<1>8. /\ Processed(current) = 1..taken /\ Processed(current)' = 1..taken + 1
      /\ \A k \in DOMAIN batch : k # current => Processed(k)' = Processed(k)
  <2>1. Len(batch[current]) - Len(pending') = taken + 1
    BY <1>3, <1>4
  <2>2. QED
    BY <1>1, <2>1 DEF Processed
<1> HIDE DEF taken
<1>9. taken + 1 \in Nat /\ (taken + 1) - 1 = taken
  BY <1>5
<1>10. QED
  BY <1>1, <1>2, <1>4, <1>5, <1>6, <1>7, <1>8, <1>9

\* f is the pairing m of D with S, and one pair more.
OneMore(f, m, D, S, x, t) == /\ Pairs(f, D \cup {x}, S \cup {t})
                             /\ \A i \in D : f[i] = m[i]
                             /\ f[x] = t

\* A pairing grows by one position and one member.
LEMMA PairsOneMore ==
  ASSUME NEW D, NEW x, x \notin D, NEW S, NEW t, t \notin S, NEW m, Pairs(m, D, S)
  PROVE  \E f : OneMore(f, m, D, S, x, t)
<1> DEFINE f == [i \in D \cup {x} |-> IF i = x THEN t ELSE m[i]]
<1>1. (\A i \in D : f[i] = m[i]) /\ f[x] = t
  OBVIOUS
<1>2. \A i \in D : m[i] \in S
  BY DEF Pairs
<1>3. f \in [D \cup {x} -> S \cup {t}]
  BY <1>2
<1> HIDE DEF f
<1>4. \A i, j \in D \cup {x} : f[i] = f[j] => i = j
  <2>1. \A i, j \in D : f[i] = f[j] => i = j
    BY <1>1 DEF Pairs
  <2>2. \A i \in D : f[i] # f[x]
    BY <1>1, <1>2
  <2>3. QED
    BY <2>1, <2>2
<1>5. \A u \in S \cup {t} : \E i \in D \cup {x} : f[i] = u
  BY <1>1 DEF Pairs
<1>6. Pairs(f, D \cup {x}, S \cup {t})
  BY <1>3, <1>4, <1>5 DEF Pairs
<1>7. QED
  BY <1>1, <1>6 DEF OneMore

\* A finding is filtered out, or goes to the end of the list.
LEMMA CollectInOrder ==
  ASSUME IInv, CollectsInOrder, Collect
  PROVE  CollectsInOrder' /\ FiltersInPlace' /\ ListsAll'
<1>1. PICK n \in Nat :
           /\ n \in DOMAIN batch[current] /\ current \in DOMAIN batch
           /\ Len(batch) = current
           /\ Processed(current) = 1..n-1 /\ Processed(current)' = 1..n
           /\ \A k \in DOMAIN batch : k # current => Processed(k)' = Processed(k)
           /\ out' = IF Emission(current, n).rule \in request.skip
                     THEN out ELSE Append(out, Emission(current, n))
           /\ Emission(current, n) \in Violation
           /\ UNCHANGED <<request, batch, overrides, current>>
           /\ pc' = "collect" /\ pc = "collect"
  BY CollectEffect
<1> DEFINE new == <<current, n>>
<1>2. /\ DOMAIN batch = 1..current /\ current \in Nat /\ n \in Nat \ {0}
      /\ out \in Seq(Violation) /\ Len(out) \in Nat
  BY <1>1, SliceTypes
<1>3. Slot' = Slot \cup {new}
  <2>1. ASSUME NEW s PROVE s \in Slot' <=> s \in Slot \cup {new}
    <3>1. s \in Slot' <=> \E k \in DOMAIN batch : \E i \in Processed(k)' : s = <<k, i>>
      BY <1>1 DEF Slot
    <3>2. s \in Slot <=> \E k \in DOMAIN batch : \E i \in Processed(k) : s = <<k, i>>
      BY SlotIn
    <3>3. 1..n = (1..n-1) \cup {n}
      BY <1>2
    <3>4. QED
      BY <3>1, <3>2, <3>3, <1>1
  <2>2. QED
    BY <2>1
<1>4. \A s : At(s)' = At(s)
  BY <1>1 DEF At, Emission
<1>5. At(new) = Emission(current, n)
  BY DEF At
<1>6. \A s \in Slot : Earlier(s, new) /\ s # new
  <2>1. TAKE s \in Slot
  <2>2. PICK k \in DOMAIN batch : \E i \in Processed(k) : s = <<k, i>>
    BY SlotIn
  <2>3. PICK i \in Processed(k) : s = <<k, i>>
    BY <2>2
  <2>4. s[1] = k /\ s[2] = i /\ new[1] = current /\ new[2] = n
    BY <2>3
  <2>5. k < current \/ (k = current /\ i < n /\ i \in Nat)
    BY <1>1, <1>2
  <2>6. QED
    BY <2>4, <2>5, <1>2 DEF Earlier
<1>7. PICK m : InOrder(m) /\ \A i \in 1..Len(out) : out[i] = At(m[i])
  BY <1>1 DEF CollectsInOrder
<1>8. Pairs(m, 1..Len(out), Kept)
  BY <1>7 DEF InOrder
<1>9. CASE At(new).rule \in request.skip
  <2>1. out' = out
    BY <1>1, <1>5, <1>9
  <2>2. Kept' = Kept
    BY <1>1, <1>3, <1>4, <1>9 DEF Kept
  <2>3. InOrder(m)'
    BY <1>7, <2>1, <2>2 DEF InOrder, Earlier
  <2>4. QED
    BY <1>1, <1>4, <1>7, <2>1, <2>3 DEF CollectsInOrder, FiltersInPlace, ListsAll
<1>10. CASE At(new).rule \notin request.skip
  <2> DEFINE len == Len(out)
  <2>1. out' = Append(out, At(new)) /\ At(new) \in Violation
    BY <1>1, <1>5, <1>10
  <2>2. /\ Len(out') = len + 1
        /\ \A i \in 1..len : out'[i] = out[i]
        /\ out'[len + 1] = At(new)
    BY <2>1, <1>2, AppendProperties
  <2>3. Kept' = Kept \cup {new}
    BY <1>1, <1>3, <1>4, <1>10 DEF Kept
  <2>4. new \notin Kept
    BY <1>6 DEF Kept
  <2>5. PICK f : OneMore(f, m, 1..len, Kept, len + 1, new)
    <3>1. len + 1 \notin 1..len /\ new \notin Kept
      BY <1>2, <2>4
    <3>2. QED
      BY <1>8, <3>1, PairsOneMore
  <2>p. /\ Pairs(f, (1..len) \cup {len + 1}, Kept \cup {new})
        /\ \A i \in 1..len : f[i] = m[i]
        /\ f[len + 1] = new
    BY <2>5 DEF OneMore
  <2>r. 1..len+1 = (1..len) \cup {len + 1}
    BY <1>2
  <2> HIDE DEF new
  <2>6. ASSUME NEW i \in 1..len+1, NEW j \in 1..len+1, i < j
        PROVE  Earlier(f[i], f[j])
    <3>1. i \in 1..len /\ (j \in 1..len \/ j = len + 1)
      BY <2>6, <1>2
    <3>2. CASE j \in 1..len
      BY <3>1, <3>2, <2>p, <2>6, <1>7 DEF InOrder
    <3>3. CASE j = len + 1
      <4>1. m[i] \in Slot
        BY <3>1, <1>8 DEF Pairs, Kept
      <4>2. QED
        BY <3>1, <3>3, <4>1, <2>p, <1>6
    <3>4. QED
      BY <3>1, <3>2, <3>3
  <2>7. InOrder(f)'
    <3>1. Pairs(f, 1..Len(out'), Kept')
      BY <2>2, <2>3, <2>p, <2>r
    <3>2. \A i, j \in 1..Len(out') : i < j => Earlier(f[i], f[j])
      BY <2>2, <2>6
    <3>3. QED
      BY <3>1, <3>2 DEF InOrder, Earlier, Pairs
  <2>8. \A i \in 1..Len(out') : out'[i] = At(f[i])'
    <3>1. TAKE i \in 1..Len(out')
    <3>2. i \in 1..len \/ i = len + 1
      BY <2>2, <1>2
    <3>3. CASE i \in 1..len
      <4>1. out'[i] = At(m[i]) /\ f[i] = m[i]
        BY <3>3, <2>2, <2>p, <1>7
      <4>2. At(m[i])' = At(m[i])
        BY <1>4
      <4>3. QED
        BY <4>1, <4>2 DEF At
    <3>4. CASE i = len + 1
      <4>1. out'[i] = At(new) /\ f[i] = new
        BY <3>4, <2>2, <2>p
      <4>2. QED
        BY <4>1, <1>4 DEF At
    <3>5. QED
      BY <3>2, <3>3, <3>4
  <2>9. QED
    BY <1>1, <2>7, <2>8 DEF CollectsInOrder, FiltersInPlace, ListsAll
<1>11. QED
  BY <1>9, <1>10

\* In the filter the slots and what they hold stay what they are.
LEMMA FilterKeepsSlots ==
  ASSUME IInv, Dedupe \/ DedupeDone \/ Sort
  PROVE  /\ Slot' = Slot /\ Kept' = Kept /\ First' = First /\ request' = request
         /\ \A s \in Slot : At(s)' = At(s)
<1>1. /\ UNCHANGED <<request, overrides, batch>>
      /\ pc \in {"dedupe", "sort"} /\ pc' \in {"dedupe", "sort", "done"}
  BY DEF Dedupe, DedupeDone, Sort
<1>2. \A k \in DOMAIN batch : Processed(k)' = Processed(k)
  BY <1>1 DEF Processed
<1>3. Slot' = Slot
  BY <1>1, <1>2 DEF Slot
<1>4. \A s \in Slot : At(s)' = At(s)
  BY <1>1 DEF At, Emission
<1>5. QED
  BY <1>1, <1>3, <1>4, SameView

\* All findings are collected, and none is filtered yet.
LEMMA DoneInOrder ==
  ASSUME IInv, CollectsInOrder, RulesDone
  PROVE  CollectsInOrder' /\ FiltersInPlace' /\ ListsAll'
<1>1. /\ UNCHANGED <<request, out, read, write, seen>> /\ pc = "check" /\ pc' = "dedupe"
  BY DEF RulesDone, loopVars, dedupeVars
<1>2. read = 1 /\ write = 0 /\ seen = {}
  BY <1>1 DEF IInv, Progress
<1>3. Slot' = Slot /\ \A s \in Slot : At(s)' = At(s)
  BY LoopKeepsSlots
<1>4. Kept' = Kept
  BY <1>1, <1>3, SameView
<1>5. PICK m : InOrder(m) /\ \A i \in 1..Len(out) : out[i] = At(m[i])
  BY <1>1 DEF CollectsInOrder
<1>6. InOrder(m)'
  BY <1>1, <1>4, <1>5 DEF InOrder, Earlier
<1>7. \A i \in 1..Len(out) : At(m[i])' = At(m[i])
  <2>1. \A i \in 1..Len(out) : m[i] \in Slot
    BY <1>5 DEF InOrder, Pairs, Kept
  <2>2. QED
    BY <2>1, <1>3
<1>8. PICK g : g = [x \in {} |-> x]
  OBVIOUS
<1>9. Pairs(g, {}, {})
  BY <1>8 DEF Pairs
<1>10. Filters(m, g)'
  <2>1. (\A j \in read..Len(out) : out[j] = At(m[j]))'
    BY <1>1, <1>2, <1>5, <1>7
  <2>2. First' \cap {m[j] : j \in 1..read'-1} = {} /\ 1..write' = {}
    BY <1>1, <1>2
  <2>3. \A key : key \notin seen'
    BY <1>1, <1>2
  <2>4. 1..read'-1 = {}
    BY <1>1, <1>2
  <2>5. QED
    BY <1>2, <1>1, <1>6, <1>9, <2>1, <2>2, <2>3, <2>4 DEF Filters, InEmissionOrder
<1>11. QED
  BY <1>1, <1>10 DEF CollectsInOrder, FiltersInPlace, ListsAll

\* The seen map tells whether an earlier kept finding has this signal.
LEMMA SeenIsRepeated ==
  ASSUME IInv, pc = "dedupe", read <= Len(out), NEW m, NEW g, Filters(m, g)
  PROVE  /\ read \in 1..Len(out) /\ out[read] = At(m[read]) /\ m[read] \in Kept
         /\ IsRepeat(out[read]) <=> m[read] \notin First
<1>1. /\ read \in 1..Len(out) /\ Len(out) \in Nat /\ read \in read..Len(out)
  BY SliceTypes
<1>2. /\ Pairs(m, 1..Len(out), Kept)
      /\ \A i, j \in 1..Len(out) : i < j => Earlier(m[i], m[j])
  BY DEF Filters, InOrder
<1>3. out[read] = At(m[read])
  BY <1>1 DEF Filters
<1>4. m[read] \in Kept /\ \A j \in 1..Len(out) : m[j] \in Slot
  BY <1>1, <1>2 DEF Pairs, Kept
<1>5. IsRepeat(out[read]) <=>
        /\ IsMeta(At(m[read]).rule)
        /\ \E j \in 1..read-1 : IsMeta(At(m[j]).rule) /\ MetaKey(At(m[j])) = MetaKey(At(m[read]))
  BY <1>3 DEF IsRepeat, Filters
<1>6. ASSUME NEW j \in 1..read-1, MetaKey(At(m[j])) = MetaKey(At(m[read]))
      PROVE  \E t \in Kept : Earlier(t, m[read]) /\ MetaKey(At(t)) = MetaKey(At(m[read]))
  <2>1. j \in 1..Len(out) /\ j < read
    BY <1>1
  <2>2. m[j] \in Kept /\ Earlier(m[j], m[read])
    BY <1>1, <1>2, <2>1 DEF Pairs
  <2>3. QED
    BY <1>6, <2>2
<1>7. ASSUME NEW t \in Kept, Earlier(t, m[read]), MetaKey(At(t)) = MetaKey(At(m[read])),
             IsMeta(At(m[read]).rule)
      PROVE  \E j \in 1..read-1 : IsMeta(At(m[j]).rule) /\ MetaKey(At(m[j])) = MetaKey(At(m[read]))
  <2>1. PICK j \in 1..Len(out) : m[j] = t
    BY <1>2 DEF Pairs
  <2>2. ~(read < j) /\ j # read
    <3>1. ~Earlier(m[read], t) /\ t # m[read]
      BY <1>1, <1>4, <1>7, <2>1, SlotsOrdered
    <3>2. QED
      BY <1>1, <1>2, <2>1, <3>1
  <2>3. j \in 1..read-1
    BY <1>1, <2>2
  <2>4. IsMeta(At(t).rule)
    BY <1>7 DEF MetaKey
  <2>5. QED
    BY <1>7, <2>1, <2>3, <2>4
<1>8. IsRepeat(out[read]) <=> Repeated(m[read])
  BY <1>5, <1>6, <1>7 DEF Repeated
<1>9. QED
  BY <1>1, <1>3, <1>4, <1>8 DEF First

\* One finding is dropped, or written to the end of the kept prefix.
LEMMA FilterInOrder ==
  ASSUME IInv, FiltersInPlace, Dedupe
  PROVE  CollectsInOrder' /\ FiltersInPlace' /\ ListsAll'
<1>1. pc = "dedupe" /\ pc' = "dedupe" /\ read <= Len(out) /\ read' = read + 1
  BY DEF Dedupe
<1>2. PICK m, g : Filters(m, g)
  BY <1>1 DEF FiltersInPlace
<1>3. /\ Slot' = Slot /\ Kept' = Kept /\ First' = First
      /\ \A s \in Slot : At(s)' = At(s)
  BY FilterKeepsSlots
<1>4. /\ read \in 1..Len(out) /\ out[read] = At(m[read]) /\ m[read] \in Kept
      /\ IsRepeat(out[read]) <=> m[read] \notin First
  BY <1>1, <1>2, SeenIsRepeated
<1>5. /\ write \in Nat /\ Len(out) \in Nat /\ write < read /\ read \in Nat
      /\ out \in Seq(Violation) /\ DOMAIN out = 1..Len(out)
  BY <1>1, SliceTypes DEF IInv, PrefixDeduped
<1>6. /\ Pairs(m, 1..Len(out), Kept) /\ InOrder(m)
      /\ \A i \in 1..Len(out) : m[i] \in Slot
  BY <1>2 DEF Filters, InOrder, Pairs, Kept
<1>7. /\ Pairs(g, 1..write, First \cap {m[j] : j \in 1..read-1})
      /\ \A j \in 1..write : out[j] = At(g[j])
      /\ \A j \in read..Len(out) : out[j] = At(m[j])
      /\ \A key : key \in seen <=> \E j \in 1..read-1 : /\ IsMeta(At(m[j]).rule)
                                                        /\ MetaKey(At(m[j])) = key
  BY <1>2 DEF Filters
<1>8. 1..read'-1 = (1..read-1) \cup {read}
  BY <1>1, <1>5
<1>9. {m[j] : j \in 1..read'-1} = {m[j] : j \in 1..read-1} \cup {m[read]}
  BY <1>8
<1>a. \A j \in 1..read'-1 : At(m[j])' = At(m[j])
  BY <1>3, <1>4, <1>5, <1>6, <1>8
<1>g. \A j \in 1..write : g[j] \in Slot
  BY <1>7 DEF Pairs, First, Kept
<1>10. CASE IsRepeat(out[read])
  <2>1. UNCHANGED <<out, write, seen>>
    BY <1>10 DEF Dedupe
  <2>2. First' \cap {m[j] : j \in 1..read'-1} = First \cap {m[j] : j \in 1..read-1}
    BY <1>3, <1>4, <1>9, <1>10
  <2>3. InOrder(m)'
    BY <1>3, <1>6, <2>1 DEF InOrder, Earlier
  <2>4. \A j \in read'..Len(out') : out'[j] = At(m[j])'
    <3>1. TAKE j \in read'..Len(out')
    <3>2. j \in read..Len(out) /\ j \in 1..Len(out)
      BY <1>1, <1>5, <2>1
    <3>3. QED
      BY <3>2, <2>1, <1>3, <1>6, <1>7
  <2>5. \A j \in 1..write' : out'[j] = At(g[j])'
    BY <2>1, <1>3, <1>7, <1>g
  <2>6. \A key : key \in seen' <=> \E j \in 1..read'-1 : /\ IsMeta(At(m[j])'.rule)
                                                         /\ MetaKey(At(m[j])') = key
    <3>1. MetaKey(At(m[read])) \in seen
      BY <1>4, <1>10 DEF IsRepeat
    <3>2. \A key : key \in seen <=> \E j \in 1..read'-1 : /\ IsMeta(At(m[j]).rule)
                                                          /\ MetaKey(At(m[j])) = key
      BY <3>1, <1>7, <1>8
    <3>3. QED
      BY <3>2, <2>1, <1>a DEF IsMeta, MetaKey
  <2>e. InEmissionOrder(g, write)'
    BY <1>2, <2>1 DEF Filters, InEmissionOrder, Earlier
  <2>7. Filters(m, g)'
    BY <1>7, <2>1, <2>2, <2>3, <2>4, <2>5, <2>6, <2>e DEF Filters, IsMeta, MetaKey
  <2>8. QED
    BY <1>1, <2>7 DEF CollectsInOrder, FiltersInPlace, ListsAll
<1>11. CASE ~IsRepeat(out[read])
  <2>1. /\ write' = write + 1
        /\ out' = [out EXCEPT ![write + 1] = out[read]]
        /\ seen' = seen \cup Recorded(out[read])
    BY <1>11 DEF Dedupe
  <2>2. write + 1 \in 1..Len(out) /\ out[read] \in Violation
    BY <1>4, <1>5, ElementOfSeq
  <2>3. /\ Len(out') = Len(out)
        /\ \A j \in 1..Len(out) : out'[j] = IF j = write + 1 THEN out[read] ELSE out[j]
    BY <2>1, <2>2, <1>5, ExceptSeq
  <2>4. m[read] \notin {m[j] : j \in 1..read-1}
    <3>1. \A j \in 1..read-1 : j \in 1..Len(out) /\ j # read
      BY <1>4, <1>5
    <3>2. QED
      BY <3>1, <1>4, <1>6 DEF Pairs
  <2>5. PICK f : OneMore(f, g, 1..write, First \cap {m[j] : j \in 1..read-1}, write + 1, m[read])
    <3>1. write + 1 \notin 1..write
      BY <1>5
    <3>2. m[read] \notin First \cap {m[j] : j \in 1..read-1}
      BY <2>4
    <3>3. QED
      BY <3>1, <3>2, <1>7, PairsOneMore
  <2>6. 1..write' = (1..write) \cup {write + 1}
    BY <2>1, <1>5
  <2>7. First' \cap {m[j] : j \in 1..read'-1} = (First \cap {m[j] : j \in 1..read-1}) \cup {m[read]}
    BY <1>3, <1>4, <1>9, <1>11
  <2>8. Pairs(f, 1..write', First' \cap {m[j] : j \in 1..read'-1})
    BY <2>5, <2>6, <2>7 DEF OneMore
  <2>9. InOrder(m)'
    BY <1>3, <1>6, <2>3 DEF InOrder, Earlier
  <2>10. \A j \in read'..Len(out') : out'[j] = At(m[j])'
    <3>1. TAKE j \in read'..Len(out')
    <3>2. j \in read..Len(out) /\ j \in 1..Len(out) /\ j # write + 1
      BY <1>1, <1>5, <2>3
    <3>3. QED
      BY <3>2, <2>3, <1>3, <1>6, <1>7
  <2>11. \A j \in 1..write' : out'[j] = At(f[j])'
    <3>1. TAKE j \in 1..write'
    <3>2. CASE j \in 1..write
      <4>1. j \in 1..Len(out) /\ j # write + 1
        BY <3>2, <1>1, <1>5
      <4>2. f[j] = g[j]
        BY <3>2, <2>5 DEF OneMore
      <4>3. QED
        BY <3>2, <4>1, <4>2, <2>3, <1>3, <1>7, <1>g
    <3>3. CASE j = write + 1
      <4>1. f[j] = m[read] /\ out'[j] = out[read]
        BY <3>3, <2>2, <2>3, <2>5 DEF OneMore
      <4>2. m[read] \in Slot
        BY <1>4, <1>6
      <4>3. At(f[j])' = At(f[j])
        BY <4>1, <4>2, <1>3
      <4>4. QED
        BY <4>1, <4>3, <1>4
    <3>4. QED
      BY <3>2, <3>3, <2>6
  <2>12. \A key : key \in seen' <=> \E j \in 1..read'-1 : /\ IsMeta(At(m[j])'.rule)
                                                          /\ MetaKey(At(m[j])') = key
    <3>1. \A key : key \in seen' <=> \/ key \in seen
                                     \/ IsMeta(At(m[read]).rule) /\ MetaKey(At(m[read])) = key
      BY <2>1, <1>4 DEF Recorded
    <3>2. \A key : key \in seen' <=> \E j \in 1..read'-1 : /\ IsMeta(At(m[j]).rule)
                                                           /\ MetaKey(At(m[j])) = key
      BY <3>1, <1>7, <1>8
    <3>3. QED
      BY <3>2, <1>a DEF IsMeta, MetaKey
  <2>e. InEmissionOrder(f, write + 1)
    <3> SUFFICES ASSUME NEW i \in 1..write + 1, NEW j \in 1..write + 1, i < j
                 PROVE  Earlier(f[i], f[j])
      BY DEF InEmissionOrder
    <3>1. i \in 1..write /\ f[i] = g[i]
      BY <2>5, <1>5 DEF OneMore
    <3>2. CASE j \in 1..write
      BY <3>1, <3>2, <2>5, <1>2 DEF OneMore, Filters, InEmissionOrder
    <3>3. CASE j = write + 1
      <4>1. f[j] = m[read] /\ g[i] \in {m[l] : l \in 1..read-1}
        BY <3>1, <3>3, <2>5, <1>7 DEF OneMore, Pairs
      <4>2. PICK l \in 1..read-1 : g[i] = m[l]
        BY <4>1
      <4>3. l \in 1..Len(out) /\ l < read
        BY <1>4, <1>5
      <4>4. QED
        BY <3>1, <4>1, <4>2, <4>3, <1>4, <1>6 DEF InOrder
    <3>4. QED
      BY <3>2, <3>3, <1>5
  <2>13. Filters(m, f)'
    <3>1. InEmissionOrder(f, write)'
      BY <2>e, <2>1 DEF InEmissionOrder, Earlier
    <3>2. QED
      BY <3>1, <2>8, <2>9, <2>10, <2>11, <2>12 DEF Filters, IsMeta, MetaKey
  <2>14. QED
    BY <1>1, <2>13 DEF CollectsInOrder, FiltersInPlace, ListsAll
<1>12. QED
  BY <1>10, <1>11

\* The prefix the filter kept is the first of each.
LEMMA PrefixListsFirst ==
  ASSUME IInv, FiltersInPlace, DedupeDone
  PROVE  CollectsInOrder' /\ FiltersInPlace' /\ ListsAll'
<1>1. pc = "dedupe" /\ pc' = "sort" /\ read > Len(out) /\ out' = SubSeq(out, 1, write)
  BY DEF DedupeDone
<1>2. PICK m, g : Filters(m, g)
  BY <1>1 DEF FiltersInPlace
<1>3. First' = First /\ \A s \in Slot : At(s)' = At(s)
  BY FilterKeepsSlots
<1>4. /\ write \in Nat /\ Len(out) \in Nat /\ write < read /\ read = Len(out) + 1
      /\ out \in Seq(Violation) /\ DOMAIN out = 1..Len(out)
  BY <1>1, SliceTypes DEF IInv, PrefixDeduped
<1>5. /\ Pairs(m, 1..Len(out), Kept)
      /\ Pairs(g, 1..write, First \cap {m[j] : j \in 1..read-1})
      /\ \A j \in 1..write : out[j] = At(g[j])
  BY <1>2 DEF Filters, InOrder
<1>6. First \cap {m[j] : j \in 1..read-1} = First
  <2>1. 1..read-1 = 1..Len(out)
    BY <1>4
  <2>2. Kept \subseteq {m[j] : j \in 1..Len(out)}
    BY <1>5 DEF Pairs
  <2>3. QED
    BY <2>1, <2>2 DEF First
<1>7. /\ Len(out') = write
      /\ \A j \in 1..write : out'[j] = out[j]
  <2>1. \A j \in 1..write : j \in 1..Len(out) /\ out[j] \in Violation
    BY <1>4, ElementOfSeq
  <2>2. /\ Len(out') = write
        /\ \A j \in 1..(write - 1 + 1) : out'[j] = out[1 + j - 1]
    BY <1>1, <1>4, <2>1, SubSeqProperties
  <2>3. QED
    BY <2>2, <1>4
<1>8. ListsFirst(g)'
  <2>1. Pairs(g, 1..Len(out'), First')
    BY <1>3, <1>5, <1>6, <1>7
  <2>2. \A j \in 1..write : g[j] \in Slot
    BY <1>5 DEF Pairs, First, Kept
  <2>3. \A j \in 1..Len(out') : out'[j] = At(g[j])'
    BY <1>3, <1>5, <1>7, <2>2
  <2>4. QED
    BY <2>1, <2>3 DEF ListsFirst
<1>10. InEmissionOrder(g, Len(out))'
  BY <1>2, <1>7 DEF Filters, InEmissionOrder, Earlier
<1>9. QED
  BY <1>1, <1>8, <1>10 DEF CollectsInOrder, FiltersInPlace, ListsAll

\* A pairing after a permutation.
Shuffled(h, g, p, D) == \A i \in D : h[i] = g[p[i]]

\* Sorting changes the positions of a pairing, not what it pairs.
LEMMA PairsShuffled ==
  ASSUME NEW D, NEW S, NEW p, Pairs(p, D, D), NEW g, Pairs(g, D, S)
  PROVE  \E h : Pairs(h, D, S) /\ Shuffled(h, g, p, D)
<1> DEFINE h == [i \in D |-> g[p[i]]]
<1>1. \A i \in D : p[i] \in D /\ h[i] = g[p[i]]
  BY DEF Pairs
<1>2. h \in [D -> S] /\ \A i, j \in D : h[i] = h[j] => i = j
  BY DEF Pairs
<1>3. ASSUME NEW t \in S PROVE \E i \in D : h[i] = t
  <2>1. PICK j \in D : g[j] = t
    BY DEF Pairs
  <2>2. PICK i \in D : p[i] = j
    BY DEF Pairs
  <2>3. QED
    BY <1>1, <2>1, <2>2
<1>4. Pairs(h, D, S)
  BY <1>2, <1>3 DEF Pairs
<1>5. Shuffled(h, g, p, D)
  BY <1>1 DEF Shuffled
<1>6. QED
  BY <1>4, <1>5

\* Sorting rearranges the list.
LEMMA SortListsFirst ==
  ASSUME IInv, ListsAll, Sort
  PROVE  CollectsInOrder' /\ FiltersInPlace' /\ ListsAll'
<1>1. pc = "sort" /\ pc' = "done"
  BY DEF Sort
<1>2. PICK g : ListsFirst(g) /\ InEmissionOrder(g, Len(out))
  BY <1>1 DEF ListsAll
<1>3. First' = First /\ \A s \in Slot : At(s)' = At(s)
  BY FilterKeepsSlots
<1>4. Len(out) \in Nat
  BY SliceTypes
<1>5. PICK p \in Permutation(Len(out)) : /\ SortsStably(p, out)
                                        /\ out' = [i \in 1..Len(out) |-> out[p[i]]]
  BY DEF Sort
<1>6. Pairs(p, 1..Len(out), 1..Len(out))
  <2>1. \A n \in Nat : \A q \in Permutation(n) : Pairs(q, 1..n, 1..n)
    BY PermutationPairs
  <2>2. QED
    BY <2>1, <1>4, <1>5
<1>7. Pairs(g, 1..Len(out), First) /\ \A i \in 1..Len(out) : out[i] = At(g[i])
  BY <1>2 DEF ListsFirst
<1>8. PICK h : Pairs(h, 1..Len(out), First) /\ Shuffled(h, g, p, 1..Len(out))
  BY <1>6, <1>7, PairsShuffled
<1>9. Len(out') = Len(out)
  <2>1. IInv'
    BY SortStep
  <2>2. DOMAIN out' = 1..Len(out') /\ Len(out') \in Nat
    BY <2>1, SliceTypes DEF IInv, TypeOK
  <2>3. DOMAIN out' = 1..Len(out)
    BY <1>5
  <2>4. QED
    BY <2>2, <2>3, <1>4
<1>10. ASSUME NEW i \in 1..Len(out) PROVE out'[i] = At(h[i])'
  <2>1. p[i] \in 1..Len(out) /\ out'[i] = out[p[i]]
    BY <1>5 DEF Permutation
  <2>2. h[i] = g[p[i]] /\ h[i] \in Slot
    BY <1>8 DEF Shuffled, Pairs, First, Kept
  <2>3. QED
    BY <2>1, <2>2, <1>3, <1>7
<1>11. ListsFirst(h)'
  BY <1>3, <1>8, <1>9, <1>10 DEF ListsFirst
<1>12. StablySorted(h)'
  <2> SUFFICES ASSUME NEW i \in 1..Len(out), NEW j \in 1..Len(out), i < j
               PROVE  /\ ~SortsBefore(out'[j], out'[i])
                      /\ ~SortsBefore(out'[i], out'[j]) => Earlier(h[i], h[j])
    BY <1>9 DEF StablySorted, SortsBefore, Earlier
  <2>1. /\ p[i] \in 1..Len(out) /\ p[j] \in 1..Len(out)
        /\ out'[i] = out[p[i]] /\ out'[j] = out[p[j]] /\ h[i] = g[p[i]] /\ h[j] = g[p[j]]
    BY <1>5, <1>8 DEF Permutation, Shuffled
  <2>2. /\ ~SortsBefore(out[p[j]], out[p[i]])
        /\ ~SortsBefore(out[p[i]], out[p[j]]) => p[i] < p[j]
    BY <1>5 DEF SortsStably
  <2>3. QED
    BY <2>1, <2>2, <1>2 DEF InEmissionOrder
<1>13. QED
  BY <1>1, <1>11, <1>12 DEF CollectsInOrder, FiltersInPlace, ListsAll

\* Every step keeps the result slice in emission order and complete.
LEMMA NextListInv == ListInv /\ [Next]_vars => ListInv'
<1> SUFFICES ASSUME ListInv, [Next]_vars PROVE ListInv'
  OBVIOUS
<1> USE DEF ListInv
<1>1. IInv' /\ Validated' /\ BatchAllowed'
  BY NextIInv, StepValidated, StepBatchAllowed
<1>2. CASE ValidateArch \/ ValidateRuleSet \/ ValidateOptions
  BY <1>1, <1>2, StartInOrder
<1>3. CASE Check \/ CheckPanics \/ NextRule
  BY <1>1, <1>3, LoopInOrder
<1>4. CASE Collect
  BY <1>1, <1>4, CollectInOrder
<1>5. CASE RulesDone
  BY <1>1, <1>5, DoneInOrder
<1>6. CASE Dedupe
  BY <1>1, <1>6, FilterInOrder
<1>7. CASE DedupeDone
  BY <1>1, <1>7, PrefixListsFirst
<1>8. CASE Sort
  BY <1>1, <1>8, SortListsFirst
<1>9. CASE UNCHANGED vars
  <2>1. UNCHANGED <<request, pc, overrides, current, pending, batch, out, read, write, seen>>
    BY <1>9 DEF vars
  <2>2. \A k : Processed(k)' = Processed(k)
    BY <2>1 DEF Processed
  <2>3. Slot' = Slot
    BY <2>1, <2>2 DEF Slot
  <2>4. \A s : At(s)' = At(s)
    BY <2>1 DEF At, Emission
  <2>5. Kept' = Kept /\ First' = First
    BY <2>1, <2>3, <2>4, SameView
  <2>6. \A m : InOrder(m)' <=> InOrder(m)
    BY <2>1, <2>5 DEF InOrder, Earlier
  <2>7. CollectsInOrder'
    BY <2>1, <2>4, <2>6 DEF CollectsInOrder
  <2>8. \A m, g : Filters(m, g)' <=> Filters(m, g)
    BY <2>1, <2>4, <2>5, <2>6 DEF Filters, IsMeta, MetaKey, InEmissionOrder, Earlier
  <2>9. FiltersInPlace'
    BY <2>1, <2>8 DEF FiltersInPlace
  <2>10. \A g : /\ ListsFirst(g)' <=> ListsFirst(g)
                /\ InEmissionOrder(g, Len(out))' <=> InEmissionOrder(g, Len(out))
                /\ StablySorted(g)' <=> StablySorted(g)
    BY <2>1, <2>4, <2>5 DEF ListsFirst, InEmissionOrder, StablySorted, Earlier, SortsBefore
  <2>11. ListsAll'
    BY <2>1, <2>10 DEF ListsAll
  <2>12. QED
    BY <1>1, <2>7, <2>9, <2>11
<1>10. QED
  BY <1>2, <1>3, <1>4, <1>5, <1>6, <1>7, <1>8, <1>9 DEF Next, Over

-------------------------------------------------------------------------------
(* The list is the answer the contract asks for                            *)

\* A sorted list of the first findings is a right answer.
LEMMA FirstIsAnswer ==
  ASSUME IInv, pc = "sort", overrides = OverrideMap(request.opts),
         NEW res, NEW len \in Nat, Len(res) = len, DOMAIN res = 1..len,
         NEW g, Pairs(g, 1..len, First), \A i \in 1..len : res[i] = At(g[i]),
         \A n \in 1..len-1 : ~Contract!Before(res[n + 1], res[n])
  PROVE  Contract!Answers(request, batch, res)
<1> DEFINE specs == Contract!SpecsOf(request.rules)
           CSlot == UNION {{<<k, i>> : i \in DOMAIN batch[k]} : k \in DOMAIN batch}
           CAt(s) == Contract!Reported(request, specs[s[1]], batch[s[1]][s[2]])
           CKept == {s \in CSlot : CAt(s).rule \notin request.skip}
           CEarlier(s, t) == s[1] < t[1] \/ (s[1] = t[1] /\ s[2] < t[2])
           CFirst == {s \in CKept : CAt(s).rule \in MetaId =>
                        ~\E t \in CKept : /\ CEarlier(t, s)
                                          /\ CAt(t).rule = CAt(s).rule
                                          /\ CAt(t).msg = CAt(s).msg}
<1>1. /\ request \in Request /\ batch \in Seq(Seq(Emitted))
      /\ Len(batch) = Len(request.rules)
  BY DEF IInv, TypeOK, Progress
<1>2. CSlot = Slot
  <2>1. \A k \in DOMAIN batch : Processed(k) = DOMAIN batch[k]
    BY DEF Processed
  <2>2. QED
    BY <2>1 DEF Slot
<1>3. ASSUME NEW s \in Slot PROVE CAt(s) = At(s)
  <2> DEFINE k == s[1]
             v == batch[s[1]][s[2]]
  <2>1. k \in DOMAIN batch /\ s[2] \in DOMAIN batch[k]
    BY SlotsOrdered
  <2>2. k \in DOMAIN request.rules /\ SpecOf[request.rules[k]] \in RuleSpec
    BY <1>1, <2>1, SliceTypes, RequestType
  <2>3. v \in Emitted
    <3>1. batch[k] \in Seq(Emitted)
      BY <2>1, SliceTypes
    <3>2. QED
      BY <2>1, <3>1, LenProperties
  <2>4. specs[k] = SpecOf[request.rules[k]]
    BY <2>2 DEF Contract!SpecsOf
  <2> HIDE DEF k, v, specs
  <2>5. Judged(SpecOf[request.rules[k]], overrides, Replaced(SpecOf[request.rules[k]], v))
          = Contract!Reported(request, SpecOf[request.rules[k]], v)
    BY <1>1, <2>2, <2>3, ReportedAgrees
  <2>6. At(s) = Judged(SpecOf[request.rules[k]], overrides, Replaced(SpecOf[request.rules[k]], v))
    BY DEF At, Emission, k, v
  <2>7. QED
    BY <2>4, <2>5, <2>6 DEF k, v
<1> HIDE DEF CAt, CSlot
<1>4. CKept = Kept
  BY <1>2, <1>3 DEF Kept
<1>5. CFirst = First
  <2>1. Kept \subseteq Slot
    BY DEF Kept
  <2>2. \A s, t \in Kept : MetaKey(At(t)) = MetaKey(At(s))
                             <=> CAt(t).rule = CAt(s).rule /\ CAt(t).msg = CAt(s).msg
    BY <2>1, <1>3 DEF MetaKey
  <2>3. \A s \in Kept : IsMeta(At(s).rule) <=> CAt(s).rule \in MetaId
    BY <2>1, <1>3 DEF IsMeta
  <2>4. \A s, t \in Kept : Earlier(t, s) <=> CEarlier(t, s)
    BY DEF Earlier
  <2> HIDE DEF CKept, CEarlier
  <2>5. ASSUME NEW s \in Kept
        PROVE  ~Repeated(s) <=> (CAt(s).rule \in MetaId =>
                                   ~\E t \in CKept : /\ CEarlier(t, s)
                                                     /\ CAt(t).rule = CAt(s).rule
                                                     /\ CAt(t).msg = CAt(s).msg)
    BY <1>4, <2>2, <2>3, <2>4 DEF Repeated
  <2>6. QED
    BY <1>4, <2>5 DEF First
<1> HIDE DEF CFirst, CKept, CEarlier
<1>6. First \subseteq Slot
  BY DEF First, Kept
<1> DEFINE D == 1..len
<1>7. IsFiniteSet(D) /\ Cardinality(D) = len /\ Pairs(g, D, First)
  BY FS_Interval
<1>8. Contract!Cardinality(CFirst) = len
  <2> HIDE DEF D
  <2>1. Cardinality(First) = Cardinality(D)
    BY <1>7, PairedSetsCountAlike
  <2>2. QED
    BY <1>5, <1>7, <2>1, CountsAlike
<1>9. ASSUME NEW s \in CFirst
      PROVE  Contract!Cardinality({n \in DOMAIN res : res[n] = CAt(s)})
               = Contract!Cardinality({t \in CFirst : CAt(t) = CAt(s)})
  <2> DEFINE P == {n \in D : res[n] = CAt(s)}
             Q == {t \in First : CAt(t) = CAt(s)}
  <2>1. \A n \in D : n \in P <=> g[n] \in Q
    <3>1. TAKE n \in D
    <3>2. g[n] \in First /\ g[n] \in Slot
      BY <1>6 DEF Pairs
    <3>3. res[n] = CAt(g[n])
      BY <1>3, <3>2
    <3>4. QED
      BY <3>2, <3>3
  <2>2. P \in SUBSET D /\ Q \in SUBSET First
    OBVIOUS
  <2> HIDE DEF D, P, Q
  <2>3. Cardinality(P) = Cardinality(Q)
    BY <1>7, <2>1, <2>2, PairedPartsCountAlike
  <2>4. QED
    BY <1>5, <2>3, CountsAlike DEF P, Q, D
<1>10. Contract!Answers(request, batch, res) <=>
         /\ \A n \in 1..Len(res)-1 : ~Contract!Before(res[n + 1], res[n])
         /\ Len(res) = Contract!Cardinality(CFirst)
         /\ \A s \in CFirst : Contract!Cardinality({n \in DOMAIN res : res[n] = CAt(s)})
                                = Contract!Cardinality({t \in CFirst : CAt(t) = CAt(s)})
  BY DEF Contract!Answers, CFirst, CKept, CSlot, CAt, CEarlier
<1>11. QED
  BY <1>8, <1>9, <1>10

\* What Sort returns is sorted and lists the first findings.
LEMMA SortAnswers ==
  ASSUME ListInv, Sort
  PROVE  Contract!Answers(request, batch, out')
<1> USE DEF ListInv
<1>1. pc = "sort" /\ overrides = OverrideMap(request.opts) /\ pc' = "done"
  BY DEF Sort, Validated, Started
<1>2. First' = First /\ \A s \in Slot : At(s)' = At(s)
  BY FilterKeepsSlots
<1>3. ListsAll' /\ IInv'
  BY SortListsFirst, SortStep
<1>4. PICK g : ListsFirst(g)'
  BY <1>1, <1>3 DEF ListsAll
<1>5. Pairs(g, 1..Len(out'), First) /\ \A i \in 1..Len(out') : out'[i] = At(g[i])'
  BY <1>2, <1>4 DEF ListsFirst
<1>6. \A i \in 1..Len(out') : out'[i] = At(g[i])
  <2>1. \A i \in 1..Len(out') : g[i] \in Slot
    BY <1>5 DEF Pairs, First, Kept
  <2>2. QED
    BY <1>2, <1>5, <2>1
<1>7. Len(out) \in Nat /\ \A j \in 1..Len(out) : out[j] \in Violation
  BY SliceTypes
<1>8. Len(out') \in Nat /\ DOMAIN out' = 1..Len(out')
  BY <1>3, SliceTypes DEF IInv, TypeOK
<1>9. ASSUME NEW n \in 1..Len(out')-1
      PROVE  ~Contract!Before(out'[n + 1], out'[n])
  <2>1. PICK p \in Permutation(Len(out)) :
              SortsStably(p, out) /\ out' = [i \in 1..Len(out) |-> out[p[i]]]
    BY DEF Sort
  <2>2. n \in 1..Len(out) /\ n + 1 \in 1..Len(out) /\ n < n + 1
    BY <1>8, <2>1, <1>7
  <2>3. ~SortsBefore(out[p[n + 1]], out[p[n]])
    BY <2>1, <2>2 DEF SortsStably
  <2>4. p[n] \in 1..Len(out) /\ p[n + 1] \in 1..Len(out)
    BY <2>1, <2>2 DEF Permutation
  <2>5. out[p[n]] \in Violation /\ out[p[n + 1]] \in Violation
    BY <2>4, <1>7
  <2>6. QED
    BY <2>1, <2>2, <2>3, <2>5, OrdersAgree
<1>10. QED
  BY <1>1, <1>5, <1>6, <1>8, <1>9, FirstIsAnswer

\* At every moment of core.Run the result slice holds, in emission order, exactly
\* the findings kept so far, and the filtered prefix those nothing before repeats.
THEOREM ListInvariant == Spec => []ListInv
BY InitListInv, NextListInv, PTL DEF Spec

\* core.Run does in all its steps what RunContract does in one: it refuses
\* exactly the configurations that are not legal, crashes only on a Spec()
\* that panics, and otherwise returns, sorted, the first copy of every kept
\* finding of what the rules emitted, with the severities the options give it.
THEOREM RunImplementsContract == Spec => Refines
<1>1. Init => Contract!Init
  <2> SUFFICES ASSUME Init PROVE Contract!Init
    OBVIOUS
  <2>1. request \in Request /\ pc = "arch"
    BY DEF Init
  <2>2. QED
    BY <2>1 DEF Contract!Init
<1>2. ListInv /\ [Next]_vars => [Contract!Next]_Contract!vars
  <2> SUFFICES ASSUME ListInv, [Next]_vars
               PROVE  [Contract!Next]_Contract!vars
    OBVIOUS
  <2> USE DEF ListInv
  <2>1. request \in Request /\ request' = request
    BY DEF IInv, TypeOK, Next, Over, vars, ValidateArch, ValidateRuleSet, Stop, ValidateOptions,
           Check, CheckPanics, Executes, Collect, NextRule, RulesDone, Dedupe, DedupeDone, Sort
  <2> DEFINE Quiet(p) == p \notin {"done", "rejected", "crashed"}
             Same == UNCHANGED Contract!vars
  <2>2. ASSUME Quiet(pc), Quiet(pc') PROVE Same
    BY <2>1, <2>2 DEF Contract!vars
  <2>3. CASE ValidateArch
    <3>1. CASE request.archOk
      <4>1. Quiet(pc) /\ Quiet(pc')
        BY <2>3, <3>1 DEF ValidateArch, Stop
      <4>2. QED
        BY <4>1, <2>2
    <3>2. CASE ~request.archOk
      <4>1. pc = "arch" /\ pc' = "rejected"
        BY <2>3, <3>2 DEF ValidateArch, Stop
      <4>2. ~Contract!Legal(request)
        BY <2>1, <3>2, LegalExactly
      <4>3. Contract!Refuse
        BY <2>1, <4>1, <4>2 DEF Contract!Refuse
      <4>4. QED
        BY <4>3 DEF Contract!Next
    <3>3. QED
      BY <3>1, <3>2
  <2>4. CASE ValidateRuleSet
    <3>1. pc = "ruleset" /\ pc' \in {"crashed", "options", "rejected"} /\ request.archOk
      BY <2>4 DEF ValidateRuleSet, Stop, Validated
    <3>2. CASE pc' = "crashed"
      <4>1. \E k \in DOMAIN request.rules : request.rules[k] \in SpecPanics
        BY <2>4, <3>2 DEF ValidateRuleSet, Stop
      <4>2. Contract!Crash
        BY <2>1, <3>1, <3>2, <4>1 DEF Contract!Crash
      <4>3. QED
        BY <4>2 DEF Contract!Next
    <3>3. CASE pc' = "rejected"
      <4>1. ~ValidRuleSet(request.rules)
        BY <2>4, <3>3 DEF ValidateRuleSet, Stop
      <4>2. ~Contract!Legal(request)
        BY <2>1, <4>1, LegalExactly
      <4>3. Contract!Refuse
        BY <2>1, <3>1, <3>3, <4>2 DEF Contract!Refuse
      <4>4. QED
        BY <4>3 DEF Contract!Next
    <3>4. CASE pc' = "options"
      BY <2>2, <3>1, <3>4
    <3>5. QED
      BY <3>1, <3>2, <3>3, <3>4
  <2>5. CASE ValidateOptions
    <3>1. pc = "options" /\ pc' = IF OptionsOk(request) THEN "check" ELSE "rejected"
      BY <2>5 DEF ValidateOptions, OptionsOk
    <3>2. CASE OptionsOk(request)
      BY <2>2, <3>1, <3>2
    <3>3. CASE ~OptionsOk(request)
      <4>1. ~Contract!Legal(request)
        BY <2>1, <3>3, LegalExactly
      <4>2. Contract!Refuse
        BY <2>1, <3>1, <3>3, <4>1 DEF Contract!Refuse
      <4>3. QED
        BY <4>2 DEF Contract!Next
    <3>4. QED
      BY <3>2, <3>3
  <2>6. CASE Check \/ CheckPanics \/ Collect \/ NextRule \/ RulesDone \/ Dedupe \/ DedupeDone
    <3>1. Quiet(pc) /\ Quiet(pc')
      BY <2>6 DEF Check, CheckPanics, Executes, Collect, NextRule, RulesDone, Dedupe, DedupeDone
    <3>2. QED
      BY <3>1, <2>2
  <2>7. CASE Sort
    <3>1. pc = "sort" /\ pc' = "done" /\ batch' = batch
      BY <2>7 DEF Sort
    <3>2. Contract!Legal(request)
      BY <2>1, <3>1, LegalExactly DEF Validated, Started
    <3>3. \A k \in DOMAIN request.rules : request.rules[k] \notin SpecPanics
      BY <3>1 DEF Validated, Started
    <3>4. Len(batch') = Len(request.rules)
      BY <3>1 DEF IInv, Progress
    <3>5. \A k \in DOMAIN request.rules : Contract!MayEmit(request.rules[k], batch'[k])
      <4>1. DOMAIN request.rules = DOMAIN batch
        BY <2>1, <3>1, <3>4, SliceTypes, RequestType
      <4>2. QED
        BY <3>1, <4>1 DEF BatchAllowed
    <3>6. Contract!Answers(request, batch', out')
      BY <2>7, <3>1, SortAnswers
    <3>7. Contract!Answer
      BY <2>1, <3>1, <3>2, <3>3, <3>4, <3>5, <3>6 DEF Contract!Answer
    <3>8. QED
      BY <3>7 DEF Contract!Next
  <2>8. CASE UNCHANGED vars
    BY <2>8 DEF vars, Contract!vars
  <2>9. QED
    BY <2>3, <2>4, <2>5, <2>6, <2>7, <2>8 DEF Next, Over
<1>3. QED
  BY <1>1, <1>2, ListInvariant, PTL DEF Spec, Refines, Contract!Spec
-------------------------------------------------------------------------------
(* Two calls: what one call found and returned, as in previous.            *)

ShownAt(c, s) == LET spec == SpecOf[request.rules[s[1]]]
                 IN  Judged(spec, OverrideMap(request.opts), Replaced(spec, c.batch[s[1]][s[2]]))
SlotsOf(c) == UNION {{<<k, i>> : i \in DOMAIN c.batch[k]} : k \in DOMAIN c.batch}
KeptOf(c) == {s \in SlotsOf(c) : ShownAt(c, s).rule \notin request.skip}
FirstOf(c) ==
    {s \in KeptOf(c) : IsMeta(ShownAt(c, s).rule) =>
        ~\E t \in KeptOf(c) : Earlier(t, s) /\ MetaKey(ShownAt(c, t)) = MetaKey(ShownAt(c, s))}

\* Violation v of rule k comes before w of rule l, which the sort keeps in
\* registration order when it cannot tell them apart.
TagBefore(v, k, w, l) == SortsBefore(v, w) \/ (~SortsBefore(w, v) /\ k < l)

\* g tells which finding each returned violation is.
Returned(c, g) ==
    /\ Pairs(g, DOMAIN c.out, FirstOf(c))
    /\ \A i \in DOMAIN c.out : c.out[i] = ShownAt(c, g[i])
    /\ \A i, j \in DOMAIN c.out : i < j => ~TagBefore(c.out[j], g[j][1], c.out[i], g[i][1])

\* What is known of a call that is over.
Whole(c) ==
    /\ c.batch \in Seq(Seq(Emitted)) /\ Len(c.batch) = Len(request.rules)
    /\ c.out \in Seq(Violation)
    /\ \E g : Returned(c, g)
    /\ \A s \in KeptOf(c) : \E j \in DOMAIN c.out : Shows(c.out[j], ShownAt(c, s))
    /\ \A i, j \in DOMAIN c.out :
           IsMeta(c.out[i].rule) /\ MetaKey(c.out[i]) = MetaKey(c.out[j]) => i = j

\* The sort is one by four numbers.
Lex(fa, la, ia, ma, fb, lb, ib, mb) ==
    \/ fa < fb
    \/ /\ fa = fb
       /\ \/ la < lb
          \/ /\ la = lb
             /\ \/ ia < ib
                \/ ia = ib /\ ma < mb

\* The sort compares file, line, rule and message by their ranks.
LEMMA SortsByRanks ==
  ASSUME NEW a \in Violation, NEW b \in Violation
  PROVE  SortsBefore(a, b)
           <=> Lex(FileRank[a.file], a.line, IdRank[a.rule], MsgRank[a.msg],
                   FileRank[b.file], b.line, IdRank[b.rule], MsgRank[b.msg])
<1>1. /\ a.file \in File /\ b.file \in File /\ a.rule \in Id /\ b.rule \in Id
      /\ a.line \in Nat /\ b.line \in Nat /\ a.msg \in Msg /\ b.msg \in Msg
  BY DEF Violation
<1>2. /\ a.file = b.file <=> FileRank[a.file] = FileRank[b.file]
      /\ a.rule = b.rule <=> IdRank[a.rule] = IdRank[b.rule]
  BY <1>1, RunnerAssumption
<1>3. QED
  BY <1>2 DEF SortsBefore, Lex

\* Ranks are numbers, and tell violations apart.
LEMMA RanksOf ==
  ASSUME NEW a \in Violation, NEW b \in Violation
  PROVE  /\ FileRank[a.file] \in Nat /\ a.line \in Nat /\ IdRank[a.rule] \in Nat /\ MsgRank[a.msg] \in Nat
         /\ FileRank[a.file] = FileRank[b.file] => a.file = b.file
         /\ IdRank[a.rule] = IdRank[b.rule] => a.rule = b.rule
         /\ MsgRank[a.msg] = MsgRank[b.msg] => a.msg = b.msg
<1>1. /\ a.file \in File /\ b.file \in File /\ a.rule \in Id /\ b.rule \in Id
      /\ a.line \in Nat /\ b.line \in Nat /\ a.msg \in Msg /\ b.msg \in Msg
  BY DEF Violation
<1>2. QED
  BY <1>1, RunnerAssumption

\* What the sort and the registration order cannot tell apart is the same.
LEMMA TagsDiffer ==
  ASSUME NEW a \in Violation, NEW b \in Violation, NEW k \in Nat, NEW l \in Nat,
         ~TagBefore(a, k, b, l), ~TagBefore(b, l, a, k)
  PROVE  k = l /\ a.file = b.file /\ a.line = b.line /\ a.rule = b.rule /\ a.msg = b.msg
<1>1. ~SortsBefore(a, b) /\ ~SortsBefore(b, a) /\ k = l
  BY DEF TagBefore
<1>2. /\ FileRank[a.file] = FileRank[b.file] /\ a.line = b.line
      /\ IdRank[a.rule] = IdRank[b.rule] /\ MsgRank[a.msg] = MsgRank[b.msg]
  BY <1>1, SortsByRanks, RanksOf DEF Lex
<1>3. QED
  BY <1>1, <1>2, RanksOf

\* The order of tags is a linear one up to that.
LEMMA TagsOrdered ==
  ASSUME NEW a \in Violation, NEW b \in Violation, NEW c \in Violation,
         NEW k \in Nat, NEW l \in Nat, NEW m \in Nat
  PROVE  /\ ~TagBefore(b, l, a, k) /\ TagBefore(b, l, c, m) => TagBefore(a, k, c, m)
         /\ ~(TagBefore(a, k, b, l) /\ TagBefore(b, l, a, k))
         /\ ~TagBefore(a, k, a, k)
<1> DEFINE F(v) == FileRank[v.file]
           I(v) == IdRank[v.rule]
           M(v) == MsgRank[v.msg]
<1>1. /\ F(a) \in Nat /\ a.line \in Nat /\ I(a) \in Nat /\ M(a) \in Nat
      /\ F(b) \in Nat /\ b.line \in Nat /\ I(b) \in Nat /\ M(b) \in Nat
      /\ F(c) \in Nat /\ c.line \in Nat /\ I(c) \in Nat /\ M(c) \in Nat
  BY RanksOf
<1>2. \A v, w \in {a, b, c} : SortsBefore(v, w) <=> Lex(F(v), v.line, I(v), M(v), F(w), w.line, I(w), M(w))
  BY SortsByRanks
<1> HIDE DEF F, I, M
<1>3. SortsBefore(b, c) /\ ~SortsBefore(b, a) => SortsBefore(a, c)
  BY <1>1, <1>2 DEF Lex
<1>4. ~SortsBefore(a, b) /\ ~SortsBefore(b, c) => ~SortsBefore(a, c)
  BY <1>1, <1>2 DEF Lex
<1>5. ~SortsBefore(c, b) /\ ~SortsBefore(b, a) => ~SortsBefore(c, a)
  BY <1>1, <1>2 DEF Lex
<1>6. ~(SortsBefore(a, b) /\ SortsBefore(b, a)) /\ ~SortsBefore(a, a)
  BY <1>1, <1>2 DEF Lex
<1>7. SortsBefore(a, b) /\ ~SortsBefore(c, b) => SortsBefore(a, c)
  BY <1>1, <1>2 DEF Lex
<1>8. QED
  BY <1>3, <1>4, <1>5, <1>6, <1>7 DEF TagBefore
-------------------------------------------------------------------------------
\* A pairing goes both ways.
LEMMA PairsBack ==
  ASSUME NEW f, NEW S, NEW T, Pairs(f, S, T)
  PROVE  \E g : Pairs(g, T, S) /\ \A t \in T : f[g[t]] = t
<1> DEFINE g == [t \in T |-> CHOOSE s \in S : f[s] = t]
<1>1. \A t \in T : g[t] \in S /\ f[g[t]] = t
  BY DEF Pairs
<1>2. \A s \in S : f[s] \in T
  BY DEF Pairs
<1>3. \A s \in S : g[f[s]] = s
  BY <1>1, <1>2 DEF Pairs
<1> HIDE DEF g
<1>4. g \in [T -> S]
  BY <1>1 DEF g
<1>5. Pairs(g, T, S)
  BY <1>1, <1>2, <1>3, <1>4 DEF Pairs
<1>6. QED
  BY <1>1, <1>5

SameFound(c, d) == \A k \in DOMAIN c.batch : Reorders(c.batch[k], d.batch[k])

\* m takes the findings of one call to those of the other.
Matches(m, c, d) == /\ Pairs(m, SlotsOf(c), SlotsOf(d))
                    /\ \A s \in SlotsOf(c) : m[s][1] = s[1] /\ ShownAt(d, m[s]) = ShownAt(c, s)

\* A slot is a rule of the request and a finding of it.
LEMMA SlotOf ==
  ASSUME NEW c, Whole(c)
  PROVE  /\ \A s : s \in SlotsOf(c) <=> \E k \in 1..Len(request.rules) :
                                          \E i \in 1..Len(c.batch[k]) : s = <<k, i>>
         /\ \A k \in 1..Len(request.rules) : Len(c.batch[k]) \in Nat
<1>1. DOMAIN c.batch = 1..Len(request.rules)
  BY LenProperties DEF Whole
<1>2. \A k \in 1..Len(request.rules) : c.batch[k] \in Seq(Emitted)
  BY <1>1, ElementOfSeq DEF Whole
<1>3. \A k \in 1..Len(request.rules) : Len(c.batch[k]) \in Nat /\ DOMAIN c.batch[k] = 1..Len(c.batch[k])
  BY <1>2, LenProperties
<1>4. QED
  BY <1>1, <1>3 DEF SlotsOf

\* Findings that are the same in any order correspond one to one.
LEMMA SameFoundMatches ==
  ASSUME NEW c, NEW d, Whole(c), Whole(d), SameFound(c, d)
  PROVE  \E m : Matches(m, c, d)
<1> DEFINE rs == 1..Len(request.rules)
           n == [k \in rs |-> Len(c.batch[k])]
           Fits(p, k) == \A i \in 1..n[k] : c.batch[k][i] = d.batch[k][p[i]]
           p == [k \in rs |-> CHOOSE q \in Permutation(n[k]) : Fits(q, k)]
           m == [s \in SlotsOf(c) |-> <<s[1], p[s[1]][s[2]]>>]
<1>1. DOMAIN c.batch = rs /\ \A k \in rs : n[k] \in Nat /\ DOMAIN c.batch[k] = 1..n[k]
  <2>1. DOMAIN c.batch = rs /\ \A k \in rs : c.batch[k] \in Seq(Emitted)
    BY LenProperties, ElementOfSeq DEF Whole
  <2>2. QED
    BY <2>1, LenProperties
<1>2. \A k \in rs : /\ Len(d.batch[k]) = n[k]
                    /\ \E q \in Permutation(n[k]) : Fits(q, k)
  <2> TAKE k \in rs
  <2>1. Reorders(c.batch[k], d.batch[k]) /\ n[k] = Len(c.batch[k]) /\ DOMAIN c.batch[k] = 1..n[k]
    BY <1>1 DEF SameFound
  <2>2. PICK q \in Permutation(n[k]) : \A i \in 1..n[k] : c.batch[k][i] = d.batch[k][q[i]]
    BY <2>1 DEF Reorders
  <2>3. QED
    BY <2>1, <2>2 DEF Reorders
<1>3. \A k \in rs : p[k] \in Permutation(n[k]) /\ Fits(p[k], k)
  BY <1>2
<1>a. \A k \in rs : n[k] = Len(c.batch[k]) /\ n[k] = Len(d.batch[k])
  BY <1>2
<1>b. \A e : Whole(e) => \A s : s \in SlotsOf(e) <=> \E k \in rs : \E i \in 1..Len(e.batch[k]) : s = <<k, i>>
  BY SlotOf
<1> HIDE DEF n
<1>c. ASSUME NEW e, Whole(e), \A k \in rs : n[k] = Len(e.batch[k])
      PROVE  \A s : s \in SlotsOf(e) <=> \E k \in rs : \E i \in 1..n[k] : s = <<k, i>>
  <2>1. \A s : s \in SlotsOf(e) <=> \E k \in rs : \E i \in 1..Len(e.batch[k]) : s = <<k, i>>
    BY <1>b, <1>c
  <2> HIDE DEF rs
  <2>2. QED
    BY <1>c, <2>1
<1>4. \A s : s \in SlotsOf(c) <=> \E k \in rs : \E i \in 1..n[k] : s = <<k, i>>
  BY <1>a, <1>c
<1>5. \A s : s \in SlotsOf(d) <=> \E k \in rs : \E i \in 1..n[k] : s = <<k, i>>
  BY <1>a, <1>c
<1> HIDE DEF rs, n, p
<1>6. \A k \in rs : Pairs(p[k], 1..n[k], 1..n[k])
  BY <1>1, <1>3, PermutationPairs
<1>7. \A k \in rs : \A i \in 1..n[k] : m[<<k, i>>] = <<k, p[k][i]>> /\ p[k][i] \in 1..n[k]
  BY <1>4, <1>6 DEF Pairs
<1> HIDE DEF m
<1>8. m \in [SlotsOf(c) -> SlotsOf(d)]
  <2>1. \A s \in SlotsOf(c) : m[s] \in SlotsOf(d)
    BY <1>4, <1>5, <1>7
  <2>2. QED
    BY <2>1 DEF m
<1>9. \A s, t \in SlotsOf(c) : m[s] = m[t] => s = t
  <2> SUFFICES ASSUME NEW s \in SlotsOf(c), NEW t \in SlotsOf(c), m[s] = m[t] PROVE s = t
    OBVIOUS
  <2>1. PICK k \in rs : \E i \in 1..n[k] : s = <<k, i>>
    BY <1>4
  <2>2. PICK i \in 1..n[k] : s = <<k, i>>
    BY <2>1
  <2>3. PICK l \in rs : \E j \in 1..n[l] : t = <<l, j>>
    BY <1>4
  <2>4. PICK j \in 1..n[l] : t = <<l, j>>
    BY <2>3
  <2>5. k = l /\ p[k][i] = p[k][j]
    BY <1>7, <2>2, <2>4
  <2>6. QED
    BY <1>6, <2>2, <2>4, <2>5 DEF Pairs
<1>10. \A t \in SlotsOf(d) : \E s \in SlotsOf(c) : m[s] = t
  <2> SUFFICES ASSUME NEW t \in SlotsOf(d) PROVE \E s \in SlotsOf(c) : m[s] = t
    OBVIOUS
  <2>1. PICK k \in rs : \E j \in 1..n[k] : t = <<k, j>>
    BY <1>5
  <2>2. PICK j \in 1..n[k] : t = <<k, j>>
    BY <2>1
  <2>3. PICK i \in 1..n[k] : p[k][i] = j
    BY <1>6 DEF Pairs
  <2>4. QED
    BY <1>4, <1>7, <2>2, <2>3
<1>11. ASSUME NEW s \in SlotsOf(c) PROVE m[s][1] = s[1] /\ ShownAt(d, m[s]) = ShownAt(c, s)
  <2>1. PICK k \in rs : \E i \in 1..n[k] : s = <<k, i>>
    BY <1>4
  <2>2. PICK i \in 1..n[k] : s = <<k, i>>
    BY <2>1
  <2>3. m[s] = <<k, p[k][i]>> /\ c.batch[k][i] = d.batch[k][p[k][i]]
    BY <1>3, <1>7, <2>2
  <2>4. QED
    BY <2>2, <2>3 DEF ShownAt
<1>12. QED
  BY <1>8, <1>9, <1>10, <1>11 DEF Matches, Pairs

\* And back.
LEMMA MatchesBack ==
  ASSUME NEW c, NEW d, NEW m, Matches(m, c, d)
  PROVE  \E b : Matches(b, d, c)
<1>1. PICK b : Pairs(b, SlotsOf(d), SlotsOf(c)) /\ \A t \in SlotsOf(d) : m[b[t]] = t
  BY PairsBack DEF Matches
<1>2. \A t \in SlotsOf(d) : b[t] \in SlotsOf(c)
  BY <1>1 DEF Pairs
<1>3. QED
  BY <1>1, <1>2 DEF Matches

\* What the returned list is, for those that use it.
LEMMA ReturnedFacts ==
  ASSUME NEW c, NEW g, Whole(c), Returned(c, g)
  PROVE  /\ Len(c.out) \in Nat /\ DOMAIN c.out = 1..Len(c.out) /\ IsFiniteSet(DOMAIN c.out)
         /\ \A i \in DOMAIN c.out :
               /\ c.out[i] \in Violation /\ c.out[i] = ShownAt(c, g[i])
               /\ g[i] \in FirstOf(c) /\ g[i] \in KeptOf(c) /\ g[i] \in SlotsOf(c)
               /\ g[i][1] \in Nat
<1>1. Len(c.out) \in Nat /\ DOMAIN c.out = 1..Len(c.out)
  BY LenProperties DEF Whole
<1>2. IsFiniteSet(DOMAIN c.out)
  BY <1>1, FS_Interval
<1>3. \A i \in DOMAIN c.out : c.out[i] \in Violation
  BY <1>1, ElementOfSeq DEF Whole
<1>4. \A i \in DOMAIN c.out : g[i] \in FirstOf(c) /\ c.out[i] = ShownAt(c, g[i])
  BY DEF Returned, Pairs
<1>5. \A s \in FirstOf(c) : s \in KeptOf(c) /\ s \in SlotsOf(c)
  BY DEF FirstOf, KeptOf
<1>6. \A s \in SlotsOf(c) : s[1] \in Nat
  BY SlotOf DEF SlotsOf
<1>7. QED
  BY <1>1, <1>2, <1>3, <1>4, <1>5, <1>6

\* A violation is its fields.
LEMMA SameFields ==
  ASSUME NEW a \in Violation, NEW b \in Violation,
         a.file = b.file, a.line = b.line, a.rule = b.rule, a.msg = b.msg,
         a.declared = b.declared, a.effective = b.effective
  PROVE  a = b
BY DEF Violation

\* The severities are those of the rule it is a finding of.
LEMMA ShownSeverity ==
  ASSUME NEW c, NEW s
  PROVE  /\ ShownAt(c, s).declared
              = DeclaredSeverity(SpecOf[request.rules[s[1]]], ShownAt(c, s).rule)
         /\ ShownAt(c, s).effective
              = LET id == ShownAt(c, s).rule
                    ovr == OverrideMap(request.opts)
                IN  IF id \in DOMAIN ovr THEN ovr[id]
                    ELSE DeclaredSeverity(SpecOf[request.rules[s[1]]], id)
BY DEF ShownAt, Judged

PlainOf(c) == {i \in DOMAIN c.out : IsPlain(c.out[i])}

\* h takes the plain violations of one call to the same ones of the other.
FitsPlain(h, c, g, d, f) ==
    /\ Pairs(h, PlainOf(c), PlainOf(d))
    /\ \A i \in PlainOf(c) : d.out[h[i]] = c.out[i] /\ f[h[i]][1] = g[i][1]

\* So do the plain violations that were returned, rule by rule.
LEMMA PlainMatches ==
  ASSUME NEW c, NEW d, Whole(c), Whole(d), NEW g, NEW f, Returned(c, g), Returned(d, f),
         NEW m, Matches(m, c, d)
  PROVE  \E h : FitsPlain(h, c, g, d, f)
<1> DEFINE h == [i \in PlainOf(c) |-> CHOOSE j \in DOMAIN d.out : f[j] = m[g[i]]]
<1>1. /\ \A i \in DOMAIN c.out : /\ g[i] \in FirstOf(c) /\ g[i] \in KeptOf(c) /\ g[i] \in SlotsOf(c)
                                 /\ c.out[i] = ShownAt(c, g[i])
      /\ \A i \in DOMAIN d.out : /\ f[i] \in FirstOf(d) /\ f[i] \in KeptOf(d) /\ f[i] \in SlotsOf(d)
                                 /\ d.out[i] = ShownAt(d, f[i])
  BY ReturnedFacts
<1>2. \A s \in SlotsOf(c) : m[s] \in SlotsOf(d) /\ m[s][1] = s[1] /\ ShownAt(d, m[s]) = ShownAt(c, s)
  BY DEF Matches, Pairs
<1>3. \A i \in PlainOf(c) : m[g[i]] \in FirstOf(d)
  <2> TAKE i \in PlainOf(c)
  <2>1. g[i] \in KeptOf(c) /\ g[i] \in SlotsOf(c) /\ ~IsMeta(ShownAt(c, g[i]).rule)
    BY <1>1 DEF PlainOf, IsPlain
  <2>2. m[g[i]] \in KeptOf(d) /\ ~IsMeta(ShownAt(d, m[g[i]]).rule)
    BY <1>2, <2>1 DEF KeptOf
  <2>3. QED
    BY <2>2 DEF FirstOf
<1>4. \A i \in PlainOf(c) : h[i] \in DOMAIN d.out /\ f[h[i]] = m[g[i]]
  BY <1>3 DEF Returned, Pairs
<1> HIDE DEF h
<1>5. \A i \in PlainOf(c) : /\ h[i] \in PlainOf(d)
                            /\ d.out[h[i]] = c.out[i] /\ f[h[i]][1] = g[i][1]
  <2> TAKE i \in PlainOf(c)
  <2>1. i \in DOMAIN c.out /\ IsPlain(c.out[i])
    BY DEF PlainOf
  <2>2. d.out[h[i]] = ShownAt(d, m[g[i]]) /\ f[h[i]][1] = m[g[i]][1]
    BY <1>1, <1>4
  <2>3. d.out[h[i]] = c.out[i] /\ f[h[i]][1] = g[i][1]
    BY <1>1, <1>2, <2>1, <2>2
  <2>4. QED
    BY <1>4, <2>1, <2>3 DEF PlainOf
<1>6. h \in [PlainOf(c) -> PlainOf(d)]
  <2>1. h = [i \in PlainOf(c) |-> h[i]]
    BY DEF h
  <2>2. QED
    BY <1>5, <2>1
<1>7. \A i, j \in PlainOf(c) : h[i] = h[j] => i = j
  <2> SUFFICES ASSUME NEW i \in PlainOf(c), NEW j \in PlainOf(c), h[i] = h[j] PROVE i = j
    OBVIOUS
  <2>1. i \in DOMAIN c.out /\ j \in DOMAIN c.out
    BY DEF PlainOf
  <2>2. m[g[i]] = m[g[j]]
    BY <1>4
  <2>3. g[i] = g[j]
    BY <1>1, <2>1, <2>2 DEF Matches, Pairs
  <2>4. QED
    BY <2>1, <2>3 DEF Returned, Pairs
<1>8. \A j \in PlainOf(d) : \E i \in PlainOf(c) : h[i] = j
  <2> SUFFICES ASSUME NEW j \in PlainOf(d) PROVE \E i \in PlainOf(c) : h[i] = j
    OBVIOUS
  <2>1. j \in DOMAIN d.out /\ ~IsMeta(d.out[j].rule)
    BY DEF PlainOf, IsPlain
  <2>2. PICK s \in SlotsOf(c) : m[s] = f[j]
    BY <1>1, <2>1 DEF Matches, Pairs
  <2>3. ShownAt(c, s) = d.out[j] /\ f[j] \in KeptOf(d)
    BY <1>1, <1>2, <2>1, <2>2
  <2>4. s \in FirstOf(c)
    <3>1. ShownAt(c, s).rule \notin request.skip /\ ~IsMeta(ShownAt(c, s).rule)
      BY <1>1, <2>1, <2>3 DEF KeptOf
    <3>2. QED
      BY <3>1 DEF FirstOf, KeptOf
  <2>5. PICK i \in DOMAIN c.out : g[i] = s
    BY <2>4 DEF Returned, Pairs
  <2>6. i \in PlainOf(c)
    BY <1>1, <2>1, <2>3, <2>5 DEF PlainOf, IsPlain
  <2>7. f[h[i]] = f[j] /\ h[i] \in DOMAIN d.out
    BY <1>4, <2>2, <2>5, <2>6
  <2>8. QED
    BY <2>1, <2>6, <2>7 DEF Returned, Pairs
<1>9. QED
  BY <1>5, <1>6, <1>7, <1>8 DEF FitsPlain, Pairs

\* A plain violation before another one is so by its place among the plain ones.
LEMMA FewerBefore ==
  ASSUME NEW c, NEW d, Whole(c), Whole(d), NEW g, NEW f, Returned(c, g), Returned(d, f),
         NEW h, FitsPlain(h, c, g, d, f), NEW i \in PlainOf(c), NEW j \in PlainOf(d),
         TagBefore(c.out[i], g[i][1], d.out[j], f[j][1])
  PROVE  Cardinality(PlainIn(c.out, i)) < Cardinality(PlainIn(d.out, j))
<1> DEFINE S == PlainIn(c.out, i)
           T == PlainIn(d.out, j)
           e == [x \in S |-> h[x]]
           Tag(x) == TagBefore(c.out[x], g[x][1], d.out[j], f[j][1])
<1>1. /\ DOMAIN c.out = 1..Len(c.out) /\ DOMAIN d.out = 1..Len(d.out)
      /\ Len(c.out) \in Nat /\ Len(d.out) \in Nat
      /\ \A x \in DOMAIN c.out : c.out[x] \in Violation /\ g[x][1] \in Nat
      /\ \A x \in DOMAIN d.out : d.out[x] \in Violation /\ f[x][1] \in Nat
  BY ReturnedFacts
<1>2. i \in 1..Len(c.out) /\ j \in 1..Len(d.out) /\ IsPlain(d.out[j])
  BY <1>1 DEF PlainOf
<1>3. ASSUME NEW x \in S PROVE x \in PlainOf(c) /\ x <= i /\ h[x] \in PlainOf(d)
  <2>1. x \in PlainOf(c) /\ x <= i
    BY <1>1, <1>2 DEF PlainIn, PlainOf
  <2>2. QED
    BY <2>1 DEF FitsPlain, Pairs
<1>4. ASSUME NEW x \in S PROVE Tag(x)
  <2>1. CASE x = i
    BY <2>1
  <2>2. CASE x # i
    <3>1. x \in 1..Len(c.out) /\ x < i
      BY <1>1, <1>2, <1>3, <2>2 DEF PlainOf
    <3>2. ~TagBefore(c.out[i], g[i][1], c.out[x], g[x][1])
      BY <1>1, <1>2, <3>1 DEF Returned
    <3>3. /\ c.out[x] \in Violation /\ c.out[i] \in Violation /\ d.out[j] \in Violation
          /\ g[x][1] \in Nat /\ g[i][1] \in Nat /\ f[j][1] \in Nat
      BY <1>1, <1>2, <3>1
    <3>4. QED
      BY <3>2, <3>3, TagsOrdered
  <2>3. QED
    BY <2>1, <2>2
<1>5. ASSUME NEW x \in S PROVE h[x] \in T \ {j}
  <2>1. h[x] \in 1..Len(d.out) /\ IsPlain(d.out[h[x]])
    BY <1>1, <1>3 DEF PlainOf
  <2>2. TagBefore(d.out[h[x]], f[h[x]][1], d.out[j], f[j][1])
    BY <1>3, <1>4 DEF FitsPlain
  <2>3. h[x] # j
    BY <1>1, <1>2, <2>2, TagsOrdered
  <2>4. ~(j < h[x])
    BY <1>1, <1>2, <2>1, <2>2 DEF Returned
  <2>5. h[x] \in 1..j
    BY <1>2, <2>1, <2>4
  <2>6. QED
    BY <2>1, <2>3, <2>5 DEF PlainIn
<1>6. e \in Injection(S, T \ {j})
  <2>1. \A x, y \in S : h[x] = h[y] => x = y
    BY <1>3 DEF FitsPlain, Pairs
  <2>2. QED
    BY <1>5, <2>1 DEF Injection, IsInjective
<1>7. IsFiniteSet(T) /\ j \in T
  <2>1. IsFiniteSet(1..j)
    BY <1>2, FS_Interval
  <2>2. T \in SUBSET (1..j)
    BY DEF PlainIn
  <2>3. IsFiniteSet(T)
    BY <2>1, <2>2, FS_Subset
  <2>4. QED
    BY <1>2, <2>3 DEF PlainIn
<1> HIDE DEF S, T, e
<1>8. IsFiniteSet(T \ {j}) /\ Cardinality(T \ {j}) = Cardinality(T) - 1
  BY <1>7, FS_RemoveElement
<1>9. IsFiniteSet(S) /\ Cardinality(S) <= Cardinality(T \ {j})
  BY <1>6, <1>8, FS_Injection
<1>10. Cardinality(S) \in Nat /\ Cardinality(T) \in Nat
  BY <1>7, <1>9, FS_CardinalityType
<1>11. Cardinality(S) < Cardinality(T)
  BY <1>8, <1>9, <1>10
<1>12. QED
  BY <1>11 DEF S, T

\* Two calls that found the same return the same plain violations in one order.
LEMMA PlainAlike ==
  ASSUME NEW c, NEW d, Whole(c), Whole(d), SameFound(c, d)
  PROVE  SamePlain(c.out, d.out)
<1>1. PICK g : Returned(c, g)
  BY DEF Whole
<1>2. PICK f : Returned(d, f)
  BY DEF Whole
<1>3. PICK m : Matches(m, c, d)
  BY SameFoundMatches
<1>4. PICK b : Matches(b, d, c)
  BY <1>3, MatchesBack
<1>5. PICK h : FitsPlain(h, c, g, d, f)
  BY <1>1, <1>2, <1>3, PlainMatches
<1>6. PICK k : FitsPlain(k, d, f, c, g)
  BY <1>1, <1>2, <1>4, PlainMatches
<1>7. /\ DOMAIN c.out = 1..Len(c.out) /\ DOMAIN d.out = 1..Len(d.out)
      /\ IsFiniteSet(DOMAIN c.out) /\ IsFiniteSet(DOMAIN d.out)
      /\ \A x \in DOMAIN c.out : /\ c.out[x] \in Violation /\ g[x][1] \in Nat
                                 /\ c.out[x] = ShownAt(c, g[x])
      /\ \A x \in DOMAIN d.out : /\ d.out[x] \in Violation /\ f[x][1] \in Nat
                                 /\ d.out[x] = ShownAt(d, f[x])
  BY <1>1, <1>2, ReturnedFacts
<1>8. PlainIn(c.out, Len(c.out)) = PlainOf(c) /\ PlainIn(d.out, Len(d.out)) = PlainOf(d)
  BY <1>7 DEF PlainIn, PlainOf
<1>9. IsFiniteSet(PlainOf(c)) /\ PlainOf(d) \subseteq DOMAIN d.out
  <2>1. PlainOf(c) \in SUBSET DOMAIN c.out
    BY DEF PlainOf
  <2>2. QED
    BY <1>7, <2>1, FS_Subset DEF PlainOf
<1>10. Cardinality(PlainOf(c)) = Cardinality(PlainOf(d))
  BY <1>5, <1>9, PairedSetsCountAlike DEF FitsPlain
<1>11. ASSUME NEW i \in PlainOf(c), NEW j \in PlainOf(d),
              Cardinality(PlainIn(c.out, i)) = Cardinality(PlainIn(d.out, j))
       PROVE  c.out[i] = d.out[j]
  <2>1. i \in DOMAIN c.out /\ j \in DOMAIN d.out
    BY DEF PlainOf
  <2>a. Cardinality(PlainIn(c.out, i)) \in Nat
    <3>1. IsFiniteSet(1..i) /\ PlainIn(c.out, i) \in SUBSET (1..i)
      BY <1>7, <2>1, FS_Interval DEF PlainIn
    <3>2. QED
      BY <3>1, FS_Subset, FS_CardinalityType
  <2>2. ~TagBefore(c.out[i], g[i][1], d.out[j], f[j][1])
    <3>1. SUFFICES ASSUME TagBefore(c.out[i], g[i][1], d.out[j], f[j][1]) PROVE FALSE
      OBVIOUS
    <3>2. Cardinality(PlainIn(c.out, i)) < Cardinality(PlainIn(d.out, j))
      BY <1>1, <1>2, <1>5, <3>1, FewerBefore
    <3>3. QED
      BY <1>11, <2>a, <3>2
  <2>3. ~TagBefore(d.out[j], f[j][1], c.out[i], g[i][1])
    <3>1. SUFFICES ASSUME TagBefore(d.out[j], f[j][1], c.out[i], g[i][1]) PROVE FALSE
      OBVIOUS
    <3>2. Cardinality(PlainIn(d.out, j)) < Cardinality(PlainIn(c.out, i))
      BY <1>1, <1>2, <1>6, <3>1, FewerBefore
    <3>3. QED
      BY <1>11, <2>a, <3>2
  <2>4. /\ g[i][1] = f[j][1] /\ c.out[i].file = d.out[j].file /\ c.out[i].line = d.out[j].line
        /\ c.out[i].rule = d.out[j].rule /\ c.out[i].msg = d.out[j].msg
    <3> DEFINE v == c.out[i]
               w == d.out[j]
               k1 == g[i][1]
               l1 == f[j][1]
    <3>1. v \in Violation /\ w \in Violation /\ k1 \in Nat /\ l1 \in Nat
      BY <1>7, <2>1
    <3>2. ~TagBefore(v, k1, w, l1) /\ ~TagBefore(w, l1, v, k1)
      BY <2>2, <2>3
    <3> HIDE DEF v, w, k1, l1
    <3>3. k1 = l1 /\ v.file = w.file /\ v.line = w.line /\ v.rule = w.rule /\ v.msg = w.msg
      BY <3>1, <3>2, TagsDiffer
    <3>4. QED
      BY <3>3 DEF v, w, k1, l1
  <2>5. c.out[i].declared = d.out[j].declared /\ c.out[i].effective = d.out[j].effective
    <3> DEFINE Asked(n, id) == DeclaredSeverity(SpecOf[request.rules[n]], id)
               ovr == OverrideMap(request.opts)
               Judges(v, n) == /\ v.declared = Asked(n, v.rule)
                               /\ v.effective = IF v.rule \in DOMAIN ovr THEN ovr[v.rule] ELSE Asked(n, v.rule)
    <3>1. c.out[i] = ShownAt(c, g[i]) /\ d.out[j] = ShownAt(d, f[j])
      BY <1>7, <2>1
    <3>2. Judges(c.out[i], g[i][1])
      BY <3>1, ShownSeverity
    <3>3. Judges(d.out[j], f[j][1])
      BY <3>1, ShownSeverity
    <3> HIDE DEF Asked, ovr
    <3>4. QED
      BY <2>4, <3>2, <3>3
  <2>6. c.out[i] \in Violation /\ d.out[j] \in Violation
    BY <1>7, <2>1
  <2>7. QED
    BY <2>4, <2>5, <2>6, SameFields
<1>12. QED
  BY <1>8, <1>10, <1>11 DEF SamePlain

\* The first of the same signals is of the same rule in both calls, so it has
\* the same severity.
LEMMA SignalFound ==
  ASSUME NEW c, NEW d, Whole(c), Whole(d), SameFound(c, d),
         NEW i \in DOMAIN c.out, IsMeta(c.out[i].rule)
  PROVE  \E j \in DOMAIN d.out : /\ d.out[j].rule = c.out[i].rule /\ d.out[j].msg = c.out[i].msg
                                 /\ d.out[j].effective = c.out[i].effective
<1>1. PICK g : Returned(c, g)
  BY DEF Whole
<1>2. PICK f : Returned(d, f)
  BY DEF Whole
<1>3. PICK m : Matches(m, c, d)
  BY SameFoundMatches
<1> DEFINE s == g[i]
<1>4. s \in FirstOf(c) /\ s \in KeptOf(c) /\ s \in SlotsOf(c) /\ c.out[i] = ShownAt(c, s)
  BY <1>1, ReturnedFacts
<1>5. /\ \A r \in SlotsOf(c) : m[r] \in SlotsOf(d) /\ m[r][1] = r[1] /\ ShownAt(d, m[r]) = ShownAt(c, r)
      /\ \A t \in SlotsOf(d) : \E r \in SlotsOf(c) : m[r] = t
  BY <1>3 DEF Matches, Pairs
<1>6. m[s] \in KeptOf(d) /\ ShownAt(d, m[s]) = c.out[i] /\ m[s][1] = s[1]
  BY <1>4, <1>5 DEF KeptOf
<1>7. PICK j \in DOMAIN d.out : Shows(d.out[j], ShownAt(d, m[s]))
  BY <1>6 DEF Whole
<1>8. d.out[j].rule = c.out[i].rule /\ d.out[j].msg = c.out[i].msg
  BY <1>6, <1>7 DEF Shows
<1> DEFINE t == f[j]
<1>9. t \in FirstOf(d) /\ t \in KeptOf(d) /\ t \in SlotsOf(d) /\ d.out[j] = ShownAt(d, t)
  BY <1>2, ReturnedFacts
<1>10. PICK r \in SlotsOf(c) : m[r] = t
  BY <1>5, <1>9
<1> HIDE DEF s, t
<1>11. r \in KeptOf(c) /\ r[1] = t[1] /\ ShownAt(c, r) = d.out[j]
  BY <1>5, <1>9, <1>10 DEF KeptOf
<1>12. s[1] \in Nat /\ t[1] \in Nat
  BY <1>1, <1>2, ReturnedFacts DEF s, t
<1>13. ~(s[1] < t[1])
  <2>1. SUFFICES ASSUME s[1] < t[1] PROVE FALSE
    OBVIOUS
  <2>2. Earlier(m[s], t) /\ MetaKey(ShownAt(d, m[s])) = MetaKey(ShownAt(d, t))
    BY <1>6, <1>8, <1>9, <2>1 DEF Earlier, MetaKey
  <2>3. IsMeta(ShownAt(d, t).rule)
    BY <1>8, <1>9
  <2>4. QED
    BY <1>6, <1>9, <2>2, <2>3 DEF FirstOf
<1>14. ~(t[1] < s[1])
  <2>1. SUFFICES ASSUME t[1] < s[1] PROVE FALSE
    OBVIOUS
  <2>2. Earlier(r, s) /\ MetaKey(ShownAt(c, r)) = MetaKey(ShownAt(c, s))
    BY <1>4, <1>8, <1>11, <2>1 DEF Earlier, MetaKey
  <2>3. QED
    BY <1>4, <1>11, <2>2 DEF FirstOf
<1>15. s[1] = t[1]
  BY <1>12, <1>13, <1>14
<1>16. d.out[j].effective = c.out[i].effective
  BY <1>4, <1>8, <1>9, <1>15, ShownSeverity
<1>17. QED
  BY <1>8, <1>16

\* What was found the same is found the same the other way.
LEMMA SameFoundBack ==
  ASSUME NEW c, NEW d, Whole(c), Whole(d), SameFound(c, d)
  PROVE  SameFound(d, c)
<1> DEFINE rs == 1..Len(request.rules)
<1>1. DOMAIN c.batch = rs /\ DOMAIN d.batch = rs
  BY LenProperties DEF Whole
<1>2. ASSUME NEW k \in rs PROVE Reorders(d.batch[k], c.batch[k])
  <2> DEFINE n == Len(c.batch[k])
  <2>1. c.batch[k] \in Seq(Emitted) /\ d.batch[k] \in Seq(Emitted)
    BY <1>1, <1>2, LenProperties, ElementOfSeq DEF Whole
  <2>2. n \in Nat /\ DOMAIN c.batch[k] = 1..n /\ DOMAIN d.batch[k] = 1..Len(d.batch[k])
    BY <2>1, LenProperties
  <2>3. Reorders(c.batch[k], d.batch[k])
    BY <1>1, <1>2 DEF SameFound
  <2>4. PICK p \in Permutation(n) : \A i \in 1..n : c.batch[k][i] = d.batch[k][p[i]]
    BY <2>2, <2>3 DEF Reorders
  <2>5. Len(d.batch[k]) = n
    BY <2>3 DEF Reorders
  <2> HIDE DEF n
  <2>6. Pairs(p, 1..n, 1..n)
    BY <2>2, <2>4, PermutationPairs
  <2>7. PICK q : Pairs(q, 1..n, 1..n) /\ \A i \in 1..n : p[q[i]] = i
    <3> DEFINE D == 1..n
    <3>1. Pairs(p, D, D)
      BY <2>6
    <3> HIDE DEF D
    <3>2. \E q : Pairs(q, D, D) /\ \A i \in D : p[q[i]] = i
      BY <3>1, PairsBack
    <3>3. QED
      BY <3>2 DEF D
  <2>8. q \in Permutation(n) /\ \A i \in 1..n : q[i] \in 1..n
    BY <2>7 DEF Permutation, Pairs
  <2>9. \A i \in 1..n : d.batch[k][i] = c.batch[k][q[i]]
    BY <2>4, <2>7, <2>8
  <2>10. QED
    BY <2>2, <2>5, <2>8, <2>9 DEF Reorders, n
<1>3. QED
  BY <1>1, <1>2 DEF SameFound

\* The same signals, both ways.
LEMMA SignalsAlike ==
  ASSUME NEW c, NEW d, Whole(c), Whole(d), SameFound(c, d)
  PROVE  Signals(c.out) = Signals(d.out)
<1>1. ASSUME NEW a, NEW b, Whole(a), Whole(b), SameFound(a, b)
      PROVE  Signals(a.out) \subseteq Signals(b.out)
  <2>1. SUFFICES ASSUME NEW i \in DOMAIN a.out, IsMeta(a.out[i].rule)
                 PROVE  [rule |-> a.out[i].rule, msg |-> a.out[i].msg,
                         effective |-> a.out[i].effective] \in Signals(b.out)
    BY DEF Signals
  <2>2. PICK j \in DOMAIN b.out : /\ b.out[j].rule = a.out[i].rule /\ b.out[j].msg = a.out[i].msg
                                  /\ b.out[j].effective = a.out[i].effective
    BY <1>1, <2>1, SignalFound
  <2>3. QED
    BY <2>1, <2>2 DEF Signals
<1>2. SameFound(d, c)
  BY SameFoundBack
<1>3. Signals(c.out) \subseteq Signals(d.out)
  BY <1>1
<1>4. Signals(d.out) \subseteq Signals(c.out)
  BY <1>1, <1>2
<1>5. QED
  BY <1>3, <1>4

\* h takes the violations of one call to those of the other that say the same,
\* maybe elsewhere.
Corresponds(h, c, d) ==
    /\ Pairs(h, DOMAIN c.out, DOMAIN d.out)
    /\ \A i \in DOMAIN c.out : /\ d.out[h[i]].rule = c.out[i].rule
                               /\ d.out[h[i]].effective = c.out[i].effective

\* Every returned violation has a counterpart of the same ID and severity.
LEMMA AllAlike ==
  ASSUME NEW c, NEW d, Whole(c), Whole(d), SameFound(c, d)
  PROVE  \E h : Corresponds(h, c, d)
<1>1. PICK g : Returned(c, g)
  BY DEF Whole
<1>2. PICK f : Returned(d, f)
  BY DEF Whole
<1>3. PICK m : Matches(m, c, d)
  BY SameFoundMatches
<1>4. PICK k : FitsPlain(k, c, g, d, f)
  BY <1>1, <1>2, <1>3, PlainMatches
<1>5. SameFound(d, c)
  BY SameFoundBack
<1> DEFINE Alike(i, j) == /\ d.out[j].rule = c.out[i].rule /\ d.out[j].msg = c.out[i].msg
                          /\ d.out[j].effective = c.out[i].effective
           Meta(i) == IsMeta(c.out[i].rule)
           h == [i \in DOMAIN c.out |-> IF Meta(i) THEN CHOOSE j \in DOMAIN d.out : Alike(i, j)
                                        ELSE k[i]]
<1>6. \A i \in DOMAIN c.out : Meta(i) => \E j \in DOMAIN d.out : Alike(i, j)
  BY SignalFound
<1>7. \A j \in DOMAIN d.out : IsMeta(d.out[j].rule) => \E i \in DOMAIN c.out : Alike(i, j)
  <2>1. \A j \in DOMAIN d.out : IsMeta(d.out[j].rule) =>
           \E i \in DOMAIN c.out : /\ c.out[i].rule = d.out[j].rule /\ c.out[i].msg = d.out[j].msg
                                   /\ c.out[i].effective = d.out[j].effective
    BY <1>5, SignalFound
  <2>2. QED
    BY <2>1
<1>8. \A i \in DOMAIN c.out : Meta(i) => h[i] \in DOMAIN d.out /\ Alike(i, h[i])
  BY <1>6
<1>9. \A i \in DOMAIN c.out : ~Meta(i) => i \in PlainOf(c) /\ h[i] = k[i]
  BY DEF PlainOf, IsPlain
<1>a. h = [i \in DOMAIN c.out |-> h[i]]
  OBVIOUS
<1> HIDE DEF h
<1>10. \A i \in DOMAIN c.out : ~Meta(i) => /\ h[i] \in PlainOf(d) /\ d.out[h[i]] = c.out[i]
  BY <1>4, <1>9 DEF FitsPlain, Pairs
<1>11. \A i \in DOMAIN c.out : /\ h[i] \in DOMAIN d.out /\ d.out[h[i]].rule = c.out[i].rule
                               /\ d.out[h[i]].effective = c.out[i].effective
  <2> TAKE i \in DOMAIN c.out
  <2>1. CASE Meta(i)
    BY <1>8, <2>1
  <2>2. CASE ~Meta(i)
    BY <1>10, <2>2 DEF PlainOf
  <2>3. QED
    BY <2>1, <2>2
<1>12. h \in [DOMAIN c.out -> DOMAIN d.out]
  BY <1>11, <1>a
<1>13. ASSUME NEW i \in DOMAIN c.out, NEW j \in DOMAIN c.out, h[i] = h[j]
       PROVE  i = j
  <2>1. c.out[i].rule = c.out[j].rule
    BY <1>11, <1>13
  <2>2. CASE Meta(i)
    <3>1. Meta(j)
      BY <2>1, <2>2
    <3>2. c.out[i].msg = c.out[j].msg
      BY <1>8, <1>13, <2>2, <3>1
    <3>3. QED
      BY <2>1, <2>2, <3>2 DEF Whole, MetaKey
  <2>3. CASE ~Meta(i)
    <3>1. ~Meta(j)
      BY <2>1, <2>3
    <3>2. i \in PlainOf(c) /\ j \in PlainOf(c) /\ k[i] = k[j]
      BY <1>9, <1>13, <2>3, <3>1
    <3>3. QED
      BY <1>4, <3>2 DEF FitsPlain, Pairs
  <2>4. QED
    BY <2>2, <2>3
<1>14. ASSUME NEW j \in DOMAIN d.out
       PROVE  \E i \in DOMAIN c.out : h[i] = j
  <2>1. CASE IsMeta(d.out[j].rule)
    <3>1. PICK i \in DOMAIN c.out : Alike(i, j)
      BY <1>7, <2>1
    <3>2. Meta(i) /\ Alike(i, h[i]) /\ h[i] \in DOMAIN d.out
      BY <1>8, <2>1, <3>1
    <3>3. MetaKey(d.out[j]) = MetaKey(d.out[h[i]])
      BY <3>1, <3>2 DEF MetaKey
    <3>4. j = h[i]
      BY <2>1, <3>2, <3>3 DEF Whole
    <3>5. QED
      BY <3>4
  <2>2. CASE ~IsMeta(d.out[j].rule)
    <3>1. j \in PlainOf(d)
      BY <2>2 DEF PlainOf, IsPlain
    <3>2. PICK i \in PlainOf(c) : k[i] = j
      BY <1>4, <3>1 DEF FitsPlain, Pairs
    <3>3. i \in DOMAIN c.out /\ ~Meta(i)
      BY DEF PlainOf, IsPlain
    <3>4. QED
      BY <1>9, <3>2, <3>3
  <2>3. QED
    BY <2>1, <2>2
<1>15. Pairs(h, DOMAIN c.out, DOMAIN d.out)
  BY <1>12, <1>13, <1>14 DEF Pairs
<1>16. QED
  BY <1>11, <1>15 DEF Corresponds

RulesIn(s) == {s[i].rule : i \in DOMAIN s}

\* So the summaries of the two calls agree.
LEMMA SummariesAlike ==
  ASSUME NEW c, NEW d, Whole(c), Whole(d), SameFound(c, d)
  PROVE  /\ Len(c.out) = Len(d.out) /\ Errors(c.out) = Errors(d.out)
         /\ RulesIn(c.out) = RulesIn(d.out)
<1>1. PICK h : Corresponds(h, c, d)
  BY AllAlike
<1>2. Pairs(h, DOMAIN c.out, DOMAIN d.out)
  BY <1>1 DEF Corresponds
<1>3. /\ \A i \in DOMAIN c.out : /\ h[i] \in DOMAIN d.out /\ d.out[h[i]].rule = c.out[i].rule
                                 /\ d.out[h[i]].effective = c.out[i].effective
      /\ \A j \in DOMAIN d.out : \E i \in DOMAIN c.out : h[i] = j
  BY <1>1 DEF Corresponds, Pairs
<1>4. /\ Len(c.out) \in Nat /\ DOMAIN c.out = 1..Len(c.out) /\ IsFiniteSet(DOMAIN c.out)
      /\ Len(d.out) \in Nat /\ DOMAIN d.out = 1..Len(d.out)
  <2>1. /\ Len(c.out) \in Nat /\ DOMAIN c.out = 1..Len(c.out)
        /\ Len(d.out) \in Nat /\ DOMAIN d.out = 1..Len(d.out)
    BY LenProperties DEF Whole
  <2>2. QED
    BY <2>1, FS_Interval
<1>5. Len(c.out) = Len(d.out)
  <2>1. Cardinality(DOMAIN d.out) = Cardinality(DOMAIN c.out)
    BY <1>2, <1>4, PairedSetsCountAlike
  <2>2. \A n \in Nat : Cardinality(1..n) = n
    BY FS_Interval
  <2>3. QED
    BY <1>4, <2>1, <2>2
<1>6. Errors(c.out) = Errors(d.out)
  <2> DEFINE P == {i \in DOMAIN c.out : IsError(c.out[i])}
             Q == {i \in DOMAIN d.out : IsError(d.out[i])}
  <2>1. \A i \in DOMAIN c.out : i \in P <=> h[i] \in Q
    BY <1>3 DEF IsError
  <2>2. P \in SUBSET DOMAIN c.out /\ Q \in SUBSET DOMAIN d.out
    OBVIOUS
  <2> HIDE DEF P, Q
  <2>3. Cardinality(P) = Cardinality(Q)
    BY <1>2, <1>4, <2>1, <2>2, PairedPartsCountAlike
  <2>4. QED
    BY <2>3 DEF Errors, P, Q
<1>7. RulesIn(c.out) = RulesIn(d.out)
  <2>1. \A i \in DOMAIN c.out : \E j \in DOMAIN d.out : c.out[i].rule = d.out[j].rule
    BY <1>3
  <2>2. \A j \in DOMAIN d.out : \E i \in DOMAIN c.out : d.out[j].rule = c.out[i].rule
    BY <1>3
  <2>3. QED
    BY <2>1, <2>2 DEF RulesIn
<1>8. QED
  BY <1>5, <1>6, <1>7
-------------------------------------------------------------------------------
(* The report's sort                                                       *)

\* s is sorted as Run sorts.
SortedUp(s) == \A i, j \in DOMAIN s : i < j => ~SortsBefore(s[j], s[i])

Tied(a, b) == ~SortsBefore(a, b) /\ ~SortsBefore(b, a)

\* The report and Run compare alike.
LEMMA ReportSortsAlike ==
  ASSUME NEW a \in Violation, NEW b \in Violation
  PROVE  ReportBefore(a, b) <=> SortsBefore(a, b)
<1>1. /\ a.file \in File /\ b.file \in File /\ a.rule \in Id /\ b.rule \in Id
      /\ a.line \in Nat /\ b.line \in Nat /\ a.msg \in Msg /\ b.msg \in Msg
  BY DEF Violation
<1>2. /\ FileRank[a.file] \in Nat /\ FileRank[b.file] \in Nat
      /\ IdRank[a.rule] \in Nat /\ IdRank[b.rule] \in Nat
      /\ a.file # b.file => FileRank[a.file] # FileRank[b.file]
      /\ a.rule # b.rule => IdRank[a.rule] # IdRank[b.rule]
  BY <1>1, RunnerAssumption
<1>3. QED
  BY <1>1, <1>2 DEF ReportBefore, SortsBefore

\* What is tied has the same keys, and ties are transitive.
LEMMA TiesAreEqual ==
  ASSUME NEW a \in Violation, NEW b \in Violation
  PROVE  /\ Tied(a, b) <=> /\ a.file = b.file /\ a.line = b.line
                           /\ a.rule = b.rule /\ a.msg = b.msg
         /\ ~(SortsBefore(a, b) /\ SortsBefore(b, a))
         /\ \A c \in Violation : /\ Tied(a, b) => (SortsBefore(a, c) <=> SortsBefore(b, c))
                                 /\ Tied(a, b) => (SortsBefore(c, a) <=> SortsBefore(c, b))
<1>1. Tied(a, b) => /\ a.file = b.file /\ a.line = b.line
                    /\ a.rule = b.rule /\ a.msg = b.msg
  <2>1. Tied(a, b) => ~TagBefore(a, 0, b, 0) /\ ~TagBefore(b, 0, a, 0)
    BY DEF Tied, TagBefore
  <2>2. QED
    BY <2>1, TagsDiffer
<1>2. /\ a.file \in File /\ a.rule \in Id /\ a.line \in Nat /\ a.msg \in Msg
      /\ FileRank[a.file] \in Nat /\ IdRank[a.rule] \in Nat /\ MsgRank[a.msg] \in Nat
  BY RanksOf DEF Violation
<1>3. a.file = b.file /\ a.line = b.line /\ a.rule = b.rule /\ a.msg = b.msg => Tied(a, b)
  BY <1>2 DEF Tied, SortsBefore
<1>4. ~(SortsBefore(a, b) /\ SortsBefore(b, a))
  BY SortsByRanks, RanksOf DEF Lex
<1>5. \A c \in Violation : a.file = b.file /\ a.line = b.line /\ a.rule = b.rule /\ a.msg = b.msg
         => (SortsBefore(a, c) <=> SortsBefore(b, c)) /\ (SortsBefore(c, a) <=> SortsBefore(c, b))
  BY DEF SortsBefore
<1>6. QED
  BY <1>1, <1>3, <1>4, <1>5

\* as many as come before the i-th of s in a stable sort
Fewer(s, i) == {j \in DOMAIN s : \/ ReportBefore(s[j], s[i])
                                 \/ j < i /\ ~ReportBefore(s[i], s[j])}

\* What is sorted already is left as it is.
LEMMA SortedStays ==
  ASSUME NEW s \in Seq(Violation), SortedUp(s)
  PROVE  ReportSorted(s) = s
<1>1. Len(s) \in Nat /\ DOMAIN s = 1..Len(s) /\ \A i \in DOMAIN s : s[i] \in Violation
  BY LenProperties, ElementOfSeq
<1>2. ASSUME NEW i \in DOMAIN s PROVE Cardinality(Fewer(s, i)) = i - 1
  <2>1. i \in 1..Len(s)
    BY <1>1
  <2>2. \A j \in DOMAIN s : j \in Fewer(s, i) <=> j < i
    <3> TAKE j \in DOMAIN s
    <3>1. s[i] \in Violation /\ s[j] \in Violation
      BY <1>1
    <3>2. CASE j < i
      <4>1. ~SortsBefore(s[i], s[j])
        BY <3>2 DEF SortedUp
      <4>2. QED
        BY <3>1, <3>2, <4>1, ReportSortsAlike DEF Fewer
    <3>3. CASE ~(j < i)
      <4>1. i < j \/ i = j
        BY <1>1, <3>3
      <4>2. ~SortsBefore(s[j], s[i])
        BY <3>1, <4>1, TiesAreEqual DEF SortedUp
      <4>3. QED
        BY <3>1, <3>3, <4>2, ReportSortsAlike DEF Fewer
    <3>4. QED
      BY <3>2, <3>3
  <2>3. Fewer(s, i) = 1..(i - 1)
    BY <1>1, <2>1, <2>2 DEF Fewer
  <2>4. i - 1 \in Nat
    BY <2>1
  <2>5. Cardinality(1..(i - 1)) = i - 1
    BY <2>4, FS_Interval
  <2>6. QED
    BY <2>3, <2>5
<1>3. ASSUME NEW k \in DOMAIN s
      PROVE  (CHOOSE i \in DOMAIN s : Cardinality(Fewer(s, i)) = k - 1) = k
  <2>1. \A i \in DOMAIN s : Cardinality(Fewer(s, i)) = k - 1 <=> i = k
    BY <1>1, <1>2
  <2>2. QED
    BY <2>1
<1>4. ReportSorted(s) = [k \in DOMAIN s |-> s[CHOOSE i \in DOMAIN s : Cardinality(Fewer(s, i)) = k - 1]]
  BY DEF ReportSorted, Fewer
<1>5. ReportSorted(s) = [k \in DOMAIN s |-> s[k]]
  BY <1>3, <1>4
<1>6. s = [k \in DOMAIN s |-> s[k]]
  BY <1>1, LenProperties
<1>7. QED
  BY <1>5, <1>6

\* The elements that tie with the p-th of a sorted list are those from a to b.
TiesFrom(s, p, a, b) ==
    /\ a \in DOMAIN s /\ b \in DOMAIN s /\ a <= p /\ p <= b
    /\ \A q \in DOMAIN s : a <= q /\ q <= b <=> Tied(s[q], s[p])

\* In a sorted list what ties stands together.
LEMMA TiesTogether ==
  ASSUME NEW s \in Seq(Violation), SortedUp(s), NEW p \in DOMAIN s
  PROVE  \E a, b \in DOMAIN s : TiesFrom(s, p, a, b)
<1>1. Len(s) \in Nat /\ DOMAIN s = 1..Len(s) /\ \A i \in DOMAIN s : s[i] \in Violation
  BY LenProperties, ElementOfSeq
<1> DEFINE C == {q \in DOMAIN s : Tied(s[q], s[p])}
<1>2. p \in C
  BY <1>1, TiesAreEqual
<1>3. C \subseteq 1..Len(s) /\ C \subseteq Nat
  BY <1>1
<1> HIDE DEF C
<1>4. PICK a \in C : \A q \in C : a <= q
  BY <1>2, <1>3, LeastElement
<1>5. PICK b \in C : \A q \in C : q <= b
  BY <1>1, <1>2, <1>3, GreatestElement
<1>6. a \in DOMAIN s /\ b \in DOMAIN s /\ Tied(s[a], s[p]) /\ Tied(s[b], s[p])
  BY DEF C
<1>7. ASSUME NEW q \in DOMAIN s, a <= q, q <= b
      PROVE  Tied(s[q], s[p])
  <2>1. s[a] \in Violation /\ s[b] \in Violation /\ s[p] \in Violation /\ s[q] \in Violation
    BY <1>1, <1>6
  <2>2. a = q \/ a < q
    BY <1>1, <1>6, <1>7
  <2>3. q = b \/ q < b
    BY <1>1, <1>6, <1>7
  <2>4. ~SortsBefore(s[q], s[a])
    BY <1>6, <2>1, <2>2, TiesAreEqual DEF SortedUp
  <2>5. ~SortsBefore(s[b], s[q])
    BY <1>6, <2>1, <2>3, TiesAreEqual DEF SortedUp
  <2>6. SortsBefore(s[q], s[a]) <=> SortsBefore(s[q], s[p])
    BY <1>6, <2>1, TiesAreEqual
  <2>7. SortsBefore(s[b], s[q]) <=> SortsBefore(s[p], s[q])
    BY <1>6, <2>1, TiesAreEqual
  <2>8. QED
    BY <2>4, <2>5, <2>6, <2>7 DEF Tied
<1>8. \A q \in DOMAIN s : Tied(s[q], s[p]) => a <= q /\ q <= b
  BY <1>4, <1>5 DEF C
<1>9. TiesFrom(s, p, a, b)
  BY <1>2, <1>4, <1>5, <1>6, <1>7, <1>8 DEF TiesFrom
<1>10. QED
  BY <1>6, <1>9

\* Of t, some listing of s, the i-th comes after what is smaller than it, and
\* before what is greater: its place is among those of what ties with it.
LEMMA ListedPlace ==
  ASSUME NEW s \in Seq(Violation), SortedUp(s), NEW p \in Permutation(Len(s)),
         NEW i \in 1..Len(s), NEW a, NEW b, TiesFrom(s, p[i], a, b)
  PROVE  /\ Cardinality(Fewer(Listed(s, p), i)) \in Nat
         /\ a <= Cardinality(Fewer(Listed(s, p), i)) + 1
         /\ Cardinality(Fewer(Listed(s, p), i)) + 1 <= b
<1> DEFINE n == Len(s)
           t == Listed(s, p)
           F == Fewer(t, i)
           L == {j \in 1..n : p[j] \in 1..(a - 1)}
           H == {j \in 1..n : p[j] \in 1..b}
<1>1. n \in Nat /\ DOMAIN s = 1..n /\ \A j \in 1..n : s[j] \in Violation
  BY LenProperties, ElementOfSeq
<1>2. DOMAIN t = 1..n /\ \A j \in 1..n : t[j] = s[p[j]] /\ p[j] \in 1..n
  BY <1>1 DEF Listed, Permutation
<1>3. /\ a \in 1..n /\ b \in 1..n /\ a <= p[i] /\ p[i] <= b
      /\ \A q \in 1..n : a <= q /\ q <= b <=> Tied(s[q], s[p[i]])
  BY <1>1 DEF TiesFrom
<1>13. i \in 1..n
  OBVIOUS
<1> HIDE DEF n, t
<1>4. ASSUME NEW j \in 1..n
      PROVE  /\ p[j] < a => j \in Fewer(t, i)
             /\ j \in Fewer(t, i) => p[j] <= b /\ j # i
  <2>1. p[j] \in 1..n /\ p[i] \in 1..n /\ t[j] = s[p[j]] /\ t[i] = s[p[i]]
    BY <1>2, <1>13
  <2>2. s[p[j]] \in Violation /\ s[p[i]] \in Violation
    BY <1>1, <2>1
  <2>3. j \in Fewer(t, i) <=> \/ SortsBefore(s[p[j]], s[p[i]])
                              \/ j < i /\ ~SortsBefore(s[p[i]], s[p[j]])
    BY <1>2, <2>1, <2>2, ReportSortsAlike DEF Fewer
  <2>4. p[j] < p[i] => ~SortsBefore(s[p[i]], s[p[j]])
    BY <1>1, <2>1 DEF SortedUp
  <2>5. p[i] < p[j] => ~SortsBefore(s[p[j]], s[p[i]])
    BY <1>1, <2>1 DEF SortedUp
  <2>6. Tied(s[p[j]], s[p[i]]) <=> a <= p[j] /\ p[j] <= b
    BY <1>3, <2>1
  <2>7. p[j] < a => SortsBefore(s[p[j]], s[p[i]])
    BY <1>1, <1>3, <2>1, <2>4, <2>6 DEF Tied
  <2>8. b < p[j] => SortsBefore(s[p[i]], s[p[j]])
    BY <1>1, <1>3, <2>1, <2>5, <2>6 DEF Tied
  <2>9. b < p[j] => p[i] < p[j]
    BY <1>1, <1>3, <2>1
  <2>10. ~(p[j] <= b) => b < p[j]
    BY <1>1, <1>3, <2>1
  <2>11. ~SortsBefore(s[p[i]], s[p[i]])
    BY <2>2, TiesAreEqual
  <2>12. j # i \/ j \notin Fewer(t, i)
    BY <2>1, <2>3, <2>11, <1>1
  <2>13. QED
    BY <2>3, <2>5, <2>7, <2>8, <2>9, <2>10, <2>12
<1>5. L \subseteq F /\ F \subseteq H \ {i} /\ i \in H
  <2>1. F \subseteq 1..n
    BY <1>2 DEF Fewer
  <2> HIDE DEF F
  <2>2. \A j \in 1..n : p[j] \in 1..n
    BY <1>2
  <2>3. \A j \in 1..n : /\ p[j] \in 1..(a - 1) <=> p[j] < a
                        /\ p[j] \in 1..b <=> p[j] <= b
    BY <1>1, <1>3, <2>2
  <2>4. \A j \in 1..n : j \in L => j \in F
    BY <1>4, <2>3 DEF F
  <2>5. \A j \in 1..n : j \in F => j \in H \ {i}
    BY <1>4, <2>3 DEF F
  <2>6. i \in 1..n
    BY <1>13
  <2>7. i \in H
    BY <1>3, <2>3, <2>6
  <2>8. L \subseteq 1..n
    OBVIOUS
  <2> HIDE DEF L, H
  <2>9. QED
    BY <2>1, <2>4, <2>5, <2>7, <2>8
<1>6. IsFiniteSet(1..n) /\ Pairs(p, 1..n, 1..n)
  BY <1>1, FS_Interval, PermutationPairs DEF n
<1>7. Cardinality(L) = a - 1 /\ Cardinality(H) = b
  <2>1. 1..(a - 1) \in SUBSET (1..n) /\ 1..b \in SUBSET (1..n)
    BY <1>1, <1>3
  <2>2. L \in SUBSET (1..n) /\ H \in SUBSET (1..n)
    OBVIOUS
  <2> DEFINE S == 1..n
  <2> HIDE DEF S
  <2>3. \A P \in SUBSET S, Q \in SUBSET S :
            (\A x \in S : x \in P <=> p[x] \in Q) => Cardinality(P) = Cardinality(Q)
    <3>1. IsFiniteSet(S) /\ Pairs(p, S, S)
      BY <1>6 DEF S
    <3>2. QED
      BY <3>1, PairedPartsCountAlike
  <2>4. /\ \A x \in 1..n : x \in L <=> p[x] \in 1..(a - 1)
        /\ \A x \in 1..n : x \in H <=> p[x] \in 1..b
    OBVIOUS
  <2> HIDE DEF L, H
  <2>5. Cardinality(L) = Cardinality(1..(a - 1)) /\ Cardinality(H) = Cardinality(1..b)
    BY <2>1, <2>2, <2>3, <2>4 DEF S
  <2>6. a - 1 \in Nat /\ b \in Nat
    BY <1>1, <1>3
  <2>7. Cardinality(1..(a - 1)) = a - 1
    <3>1. PICK c : c = a - 1 /\ c \in Nat
      BY <2>6
    <3>2. Cardinality(1..c) = c
      BY <3>1, FS_Interval
    <3>3. QED
      BY <3>1, <3>2
  <2>8. Cardinality(1..b) = b
    <3>1. Cardinality(1..b) = IF 1 > b THEN 0 ELSE b - 1 + 1
      BY <2>6, FS_Interval
    <3>2. QED
      BY <1>1, <1>3, <2>6, <3>1
  <2>9. QED
    BY <2>5, <2>7, <2>8
<1>8. IsFiniteSet(H)
  BY <1>6, FS_Subset
<1> HIDE DEF L, H, F
<1>9. IsFiniteSet(H \ {i}) /\ Cardinality(H \ {i}) = b - 1
  BY <1>5, <1>7, <1>8, FS_RemoveElement
<1>10. IsFiniteSet(F) /\ Cardinality(F) \in Nat /\ Cardinality(F) <= b - 1
  <2>1. F \subseteq H \ {i}
    BY <1>5
  <2>2. IsFiniteSet(F) /\ Cardinality(F) <= Cardinality(H \ {i})
    BY <1>9, <2>1, FS_Subset
  <2>3. Cardinality(F) \in Nat
    BY <2>2, FS_CardinalityType
  <2>4. QED
    BY <1>9, <2>2, <2>3
<1>11. a - 1 <= Cardinality(F)
  <2>1. Cardinality(L) <= Cardinality(F)
    BY <1>5, <1>10, FS_Subset
  <2>2. QED
    BY <1>7, <2>1
<1>12. QED
  BY <1>3, <1>10, <1>11 DEF F, t

\* A stable sort gives no place twice.
LEMMA PlacesDiffer ==
  ASSUME NEW t \in Seq(Violation)
  PROVE  \A i, j \in DOMAIN t : Cardinality(Fewer(t, i)) = Cardinality(Fewer(t, j)) => i = j
<1>1. Len(t) \in Nat /\ DOMAIN t = 1..Len(t) /\ \A i \in DOMAIN t : t[i] \in Violation
  BY LenProperties, ElementOfSeq
<1>2. \A i, j \in DOMAIN t :
          j \in Fewer(t, i) <=> (SortsBefore(t[j], t[i]) \/ (j < i /\ ~SortsBefore(t[i], t[j])))
  <2> TAKE i, j \in DOMAIN t
  <2>1. t[i] \in Violation /\ t[j] \in Violation
    BY <1>1
  <2>2. QED
    BY <2>1, ReportSortsAlike DEF Fewer
<1>3. ASSUME NEW i \in DOMAIN t, NEW j \in DOMAIN t, i # j
      PROVE  i \in Fewer(t, j) \/ j \in Fewer(t, i)
  BY <1>1, <1>2, <1>3
<1>4. ASSUME NEW i \in DOMAIN t, NEW j \in DOMAIN t, i \in Fewer(t, j)
      PROVE  Fewer(t, i) \subseteq Fewer(t, j) /\ i \notin Fewer(t, i)
  <2>1. i \notin Fewer(t, i)
    BY <1>1, <1>2, TiesAreEqual
  <2>2. ASSUME NEW k \in DOMAIN t, k \in Fewer(t, i)
        PROVE  k \in Fewer(t, j)
    <3>1. t[i] \in Violation /\ t[j] \in Violation /\ t[k] \in Violation
      BY <1>1
    <3>2. \/ SortsBefore(t[k], t[i])
          \/ k < i /\ ~SortsBefore(t[i], t[k])
      BY <1>2, <2>2
    <3>3. \/ SortsBefore(t[i], t[j])
          \/ i < j /\ ~SortsBefore(t[j], t[i])
      BY <1>2, <1>4
    <3>4. \/ SortsBefore(t[k], t[j])
          \/ k < j /\ ~SortsBefore(t[j], t[k])
      <4> DEFINE fk == FileRank[t[k].file] lk == t[k].line ik == IdRank[t[k].rule] mk == MsgRank[t[k].msg]
                 fi == FileRank[t[i].file] li == t[i].line ii == IdRank[t[i].rule] mi == MsgRank[t[i].msg]
                 fj == FileRank[t[j].file] lj == t[j].line ij == IdRank[t[j].rule] mj == MsgRank[t[j].msg]
      <4>1. /\ fk \in Nat /\ lk \in Nat /\ ik \in Nat /\ mk \in Nat
            /\ fi \in Nat /\ li \in Nat /\ ii \in Nat /\ mi \in Nat
            /\ fj \in Nat /\ lj \in Nat /\ ij \in Nat /\ mj \in Nat
        BY <3>1, RanksOf
      <4>2. /\ SortsBefore(t[k], t[i]) <=> Lex(fk, lk, ik, mk, fi, li, ii, mi)
            /\ SortsBefore(t[i], t[k]) <=> Lex(fi, li, ii, mi, fk, lk, ik, mk)
            /\ SortsBefore(t[i], t[j]) <=> Lex(fi, li, ii, mi, fj, lj, ij, mj)
            /\ SortsBefore(t[j], t[i]) <=> Lex(fj, lj, ij, mj, fi, li, ii, mi)
            /\ SortsBefore(t[k], t[j]) <=> Lex(fk, lk, ik, mk, fj, lj, ij, mj)
            /\ SortsBefore(t[j], t[k]) <=> Lex(fj, lj, ij, mj, fk, lk, ik, mk)
        BY <3>1, SortsByRanks
      <4> HIDE DEF fk, lk, ik, mk, fi, li, ii, mi, fj, lj, ij, mj
      <4>3. i \in Nat /\ j \in Nat /\ k \in Nat
        BY <1>1
      <4>4. QED
        BY <3>2, <3>3, <4>1, <4>2, <4>3 DEF Lex
    <3>5. QED
      BY <1>2, <3>4
  <2>3. Fewer(t, i) \subseteq DOMAIN t
    BY DEF Fewer
  <2>4. QED
    BY <2>1, <2>2, <2>3
<1>5. ASSUME NEW i \in DOMAIN t, NEW j \in DOMAIN t, i \in Fewer(t, j)
      PROVE  Cardinality(Fewer(t, i)) # Cardinality(Fewer(t, j))
  <2>1. IsFiniteSet(Fewer(t, j))
    <3>1. Fewer(t, j) \subseteq 1..Len(t)
      BY <1>1 DEF Fewer
    <3>2. IsFiniteSet(1..Len(t))
      BY <1>1, FS_Interval
    <3>3. QED
      BY <3>1, <3>2, FS_Subset
  <2>2. Fewer(t, i) \subseteq Fewer(t, j) /\ Fewer(t, i) # Fewer(t, j)
    BY <1>4, <1>5
  <2>3. QED
    BY <2>1, <2>2, FS_Subset
<1>6. QED
  BY <1>3, <1>5

\* However the violations of a sorted list are listed, their report shows the
\* same keys, and the same violations if the keys tell them apart.
LEMMA ListedSortsAlike ==
  ASSUME NEW s \in Seq(Violation), SortedUp(s), NEW p \in Permutation(Len(s))
  PROVE  /\ Keys(ReportSorted(Listed(s, p))) = Keys(s)
         /\ ToldApart(s) => ReportSorted(Listed(s, p)) = s
<1> DEFINE n == Len(s)
           t == Listed(s, p)
           r == ReportSorted(t)
           Key(v) == <<v.file, v.line, v.rule, v.msg>>
           At1(k) == CHOOSE i \in DOMAIN t : Cardinality(Fewer(t, i)) = k - 1
           f == [i \in 1..n |-> Cardinality(Fewer(t, i)) + 1]
<1>1. n \in Nat /\ DOMAIN s = 1..n /\ \A j \in 1..n : s[j] \in Violation
  BY LenProperties, ElementOfSeq
<1>2. DOMAIN t = 1..n /\ \A j \in 1..n : t[j] = s[p[j]] /\ p[j] \in 1..n
  BY <1>1 DEF Listed, Permutation
<1>3. r = [k \in DOMAIN t |-> t[At1(k)]]
  BY DEF ReportSorted, Fewer
<1>4. ASSUME NEW i \in 1..n
      PROVE  /\ Cardinality(Fewer(t, i)) \in Nat /\ Cardinality(Fewer(t, i)) + 1 \in 1..n
             /\ Tied(s[Cardinality(Fewer(t, i)) + 1], s[p[i]])
  <2>1. p[i] \in DOMAIN s
    BY <1>1, <1>2
  <2>2. PICK a \in DOMAIN s, b \in DOMAIN s : TiesFrom(s, p[i], a, b)
    BY <2>1, TiesTogether
  <2> DEFINE c == Cardinality(Fewer(t, i))
  <2>3. c \in Nat /\ a <= c + 1 /\ c + 1 <= b
    BY <2>2, ListedPlace
  <2> HIDE DEF c, t
  <2>4. a \in 1..n /\ b \in 1..n
    BY <1>1
  <2>5. c + 1 \in 1..n
    BY <1>1, <2>3, <2>4
  <2>6. Tied(s[c + 1], s[p[i]])
    BY <1>1, <2>2, <2>3, <2>5 DEF TiesFrom
  <2>7. QED
    BY <2>3, <2>5, <2>6 DEF c
<1> HIDE DEF r
<1>5. f \in Permutation(n)
  <2>1. t = [j \in 1..n |-> t[j]] /\ \A j \in 1..n : t[j] \in Violation
    BY <1>1, <1>2 DEF Listed
  <2>2. t \in Seq(Violation)
    BY <1>1, <2>1
  <2> HIDE DEF t
  <2>3. \A i, j \in 1..n : Cardinality(Fewer(t, i)) = Cardinality(Fewer(t, j)) => i = j
    BY <1>2, <2>2, PlacesDiffer
  <2>4. \A i, j \in 1..n : f[i] = f[j] => i = j
    BY <1>4, <2>3
  <2>5. f \in [1..n -> 1..n]
    BY <1>4
  <2>6. QED
    BY <2>4, <2>5 DEF Permutation
<1> HIDE DEF t
<1>6. \A k \in 1..n : \E i \in 1..n : Cardinality(Fewer(t, i)) = k - 1
  <2> TAKE k \in 1..n
  <2> HIDE DEF f
  <2>1. PICK i \in 1..n : f[i] = k
    BY <1>1, <1>5, PermutationOnto
  <2> USE DEF f
  <2>2. Cardinality(Fewer(t, i)) \in Nat /\ Cardinality(Fewer(t, i)) + 1 = k
    BY <1>4, <2>1
  <2>3. Cardinality(Fewer(t, i)) = k - 1
    BY <2>2
  <2>4. QED
    BY <2>3
<1>7. ASSUME NEW k \in 1..n
      PROVE  \E i \in 1..n : r[k] = t[i] /\ Cardinality(Fewer(t, i)) = k - 1
  <2> DEFINE j == At1(k)
  <2>1. j \in 1..n /\ Cardinality(Fewer(t, j)) = k - 1
    BY <1>2, <1>6
  <2>2. r[k] = t[j]
    BY <1>2, <1>3
  <2> HIDE DEF j
  <2>3. QED
    BY <2>1, <2>2
<1>8. ASSUME NEW k \in 1..n
      PROVE  \E q \in 1..n : r[k] = s[q] /\ Tied(s[k], s[q])
  <2>1. PICK i \in 1..n : r[k] = t[i] /\ Cardinality(Fewer(t, i)) = k - 1
    BY <1>7
  <2>2. Cardinality(Fewer(t, i)) + 1 = k
    BY <2>1
  <2>3. Tied(s[k], s[p[i]])
    BY <1>4, <2>2
  <2>4. p[i] \in 1..n /\ r[k] = s[p[i]]
    BY <1>2, <2>1
  <2>5. QED
    BY <2>3, <2>4
<1>9. DOMAIN r = 1..n
  BY <1>2, <1>3
<1>10. /\ Keys(r) = [k \in 1..n |-> Key(r[k])] /\ Keys(s) = [k \in 1..n |-> Key(s[k])]
       /\ r = [k \in 1..n |-> r[k]] /\ s = [k \in 1..n |-> s[k]]
  <2>1. Keys(r) = [k \in 1..n |-> Key(r[k])]
    BY <1>9 DEF Keys
  <2>2. Keys(s) = [k \in 1..n |-> Key(s[k])]
    BY <1>1 DEF Keys
  <2>3. r = [k \in 1..n |-> r[k]]
    BY <1>2, <1>3, <1>9
  <2>4. s = [k \in 1..n |-> s[k]]
    BY <1>1, LenProperties
  <2>5. QED
    BY <2>1, <2>2, <2>3, <2>4
<1>11. ASSUME NEW k \in 1..n, NEW q \in 1..n, Tied(s[k], s[q])
       PROVE  Key(s[k]) = Key(s[q])
  <2>1. s[k] \in Violation /\ s[q] \in Violation
    BY <1>1
  <2>2. QED
    BY <1>11, <2>1, TiesAreEqual
<1>12. Keys(r) = Keys(s)
  <2>1. \A k \in 1..n : Key(r[k]) = Key(s[k])
    <3> TAKE k \in 1..n
    <3>1. PICK q \in 1..n : r[k] = s[q] /\ Tied(s[k], s[q])
      BY <1>8
    <3>2. Key(s[k]) = Key(s[q])
      BY <1>11, <3>1
    <3> HIDE DEF Key
    <3>3. QED
      BY <3>1, <3>2
  <2> HIDE DEF Key
  <2>2. QED
    BY <1>10, <2>1
<1>13. ASSUME ToldApart(s) PROVE r = s
  <2>1. \A k \in 1..n : r[k] = s[k]
    <3> TAKE k \in 1..n
    <3>1. PICK q \in 1..n : r[k] = s[q] /\ Tied(s[k], s[q])
      BY <1>8
    <3>2. Key(s[k]) = Key(s[q])
      BY <1>11, <3>1
    <3>3. Keys(s)[k] = Keys(s)[q]
      BY <1>10, <3>2
    <3>4. k = q
      BY <1>1, <1>13, <3>3 DEF ToldApart
    <3>5. QED
      BY <3>1, <3>4
  <2>2. QED
    BY <1>10, <2>1
<1>14. QED
  BY <1>12, <1>13 DEF r, t

\* The order of a list changes nothing of what its report says in sum.
LEMMA ListedCountsAlike ==
  ASSUME NEW s \in Seq(Violation), NEW p \in Permutation(Len(s))
  PROVE  Summary(Listed(s, p)) = Summary(s)
<1> DEFINE n == Len(s)
           t == Listed(s, p)
<1>1. n \in Nat /\ DOMAIN s = 1..n
  BY LenProperties
<1>2. DOMAIN t = 1..n /\ \A j \in 1..n : t[j] = s[p[j]] /\ p[j] \in 1..n
  BY <1>1 DEF Listed, Permutation
<1>3. Len(t) = n
  <2>1. \A j \in 1..n : s[p[j]] \in Violation
    BY <1>1, <1>2, ElementOfSeq
  <2>2. t \in Seq(Violation)
    BY <1>1, <2>1 DEF Listed
  <2> HIDE DEF t
  <2>3. DOMAIN t = 1..Len(t) /\ Len(t) \in Nat
    BY <2>2, LenProperties
  <2>4. QED
    BY <1>1, <1>2, <2>3
<1>4. IsFiniteSet(1..n) /\ Pairs(p, 1..n, 1..n)
  BY <1>1, FS_Interval, PermutationPairs
<1> HIDE DEF n, t
<1>5. Errors(t) = Errors(s)
  <2> DEFINE P == {i \in 1..n : IsError(t[i])}
             Q == {i \in 1..n : IsError(s[i])}
  <2>1. \A i \in 1..n : i \in P <=> p[i] \in Q
    BY <1>2
  <2>2. P \in SUBSET (1..n) /\ Q \in SUBSET (1..n)
    OBVIOUS
  <2>3. Errors(t) = Cardinality(P) /\ Errors(s) = Cardinality(Q)
    BY <1>1, <1>2 DEF Errors
  <2> DEFINE S == 1..n
  <2> HIDE DEF P, Q, S
  <2>4. Cardinality(P) = Cardinality(Q)
    <3>1. IsFiniteSet(S) /\ Pairs(p, S, S)
      BY <1>4 DEF S
    <3>2. P \in SUBSET S /\ Q \in SUBSET S /\ \A i \in S : i \in P <=> p[i] \in Q
      BY <2>1, <2>2 DEF S
    <3>3. QED
      BY <3>1, <3>2, PairedPartsCountAlike
  <2>5. QED
    BY <2>3, <2>4
<1>6. \A i \in 1..n : \E j \in 1..n : t[j] = s[i]
  <2> TAKE i \in 1..n
  <2>1. PICK j \in 1..n : p[j] = i
    BY <1>1, PermutationOnto DEF n
  <2>2. t[j] = s[i]
    BY <1>2, <2>1
  <2>3. QED
    BY <2>2
<1>7. /\ {t[i].file : i \in DOMAIN t} = {s[i].file : i \in DOMAIN s}
      /\ {t[i].rule : i \in DOMAIN t} = {s[i].rule : i \in DOMAIN s}
  <2>1. /\ \A j \in 1..n : \E i \in 1..n : s[i] = t[j]
        /\ \A i \in 1..n : \E j \in 1..n : t[j] = s[i]
    BY <1>2, <1>6
  <2>2. DOMAIN t = 1..n /\ DOMAIN s = 1..n
    BY <1>1, <1>2
  <2>3. \A j \in 1..n : /\ t[j].file \in {s[i].file : i \in 1..n}
                        /\ t[j].rule \in {s[i].rule : i \in 1..n}
    BY <1>2
  <2>4. \A i \in 1..n : /\ s[i].file \in {t[j].file : j \in 1..n}
                        /\ s[i].rule \in {t[j].rule : j \in 1..n}
    <3> TAKE i \in 1..n
    <3>1. PICK j \in 1..n : t[j] = s[i]
      BY <2>1
    <3>2. QED
      BY <3>1
  <2>5. {t[j].file : j \in 1..n} = {s[i].file : i \in 1..n}
    BY <2>3, <2>4
  <2>6. {t[j].rule : j \in 1..n} = {s[i].rule : i \in 1..n}
    BY <2>3, <2>4
  <2>7. QED
    BY <2>2, <2>5, <2>6
<1>8. Len(s) = n
  BY DEF n
<1>9. Summary(t) = Summary(s)
  BY <1>3, <1>5, <1>7, <1>8 DEF Summary, BuildJSONReport
<1>10. QED
  BY <1>9 DEF t
-------------------------------------------------------------------------------
(* Two calls in a row                                                      *)

\* Of a call that is over all that is known that the comparison needs.
LEMMA DoneIsWhole ==
  ASSUME ListInv, pc = "done"
  PROVE  Whole([batch |-> batch, out |-> out])
<1> DEFINE c == [batch |-> batch, out |-> out]
<1> USE DEF ListInv
<1>1. c.batch = batch /\ c.out = out
  OBVIOUS
<1> HIDE DEF c
<1>2. overrides = OverrideMap(request.opts)
  BY DEF Validated, Started
<1>3. \A s : ShownAt(c, s) = At(s)
  BY <1>1, <1>2 DEF ShownAt, At, Emission
<1>4. SlotsOf(c) = Slot
  <2>1. \A k \in DOMAIN batch : Processed(k) = DOMAIN batch[k]
    BY DEF Processed
  <2>2. QED
    BY <1>1, <2>1 DEF SlotsOf, Slot
<1>5. KeptOf(c) = Kept
  BY <1>3, <1>4 DEF KeptOf, Kept
<1>6. FirstOf(c) = First
  BY <1>3, <1>5 DEF FirstOf, First, Repeated
<1>7. PICK g : ListsFirst(g) /\ StablySorted(g)
  BY DEF ListsAll
<1>8. batch \in Seq(Seq(Emitted)) /\ Len(batch) = Len(request.rules) /\ out \in Seq(Violation)
  BY DEF IInv, TypeOK, Progress
<1>9. DOMAIN out = 1..Len(out)
  BY SliceTypes
<1>10. \A i \in DOMAIN out : g[i] \in Slot
  BY <1>7, <1>9 DEF ListsFirst, Pairs, First, Kept
<1>11. ASSUME NEW i \in DOMAIN out, NEW j \in DOMAIN out, i < j
       PROVE  ~TagBefore(out[j], g[j][1], out[i], g[i][1])
  <2>1. /\ ~SortsBefore(out[j], out[i])
        /\ ~SortsBefore(out[i], out[j]) => Earlier(g[i], g[j])
    BY <1>7, <1>9, <1>11 DEF StablySorted
  <2>2. g[i][1] \in Nat /\ g[j][1] \in Nat
    BY <1>10, SlotsOrdered
  <2>3. Earlier(g[i], g[j]) => ~(g[j][1] < g[i][1])
    BY <2>2 DEF Earlier
  <2>4. QED
    BY <2>1, <2>3 DEF TagBefore
<1>12. Returned(c, g)
  BY <1>1, <1>3, <1>6, <1>7, <1>9, <1>11 DEF Returned, ListsFirst
<1>13. \A s \in KeptOf(c) : \E j \in DOMAIN c.out : Shows(c.out[j], ShownAt(c, s))
  <2> SUFFICES ASSUME NEW s \in Kept PROVE \E j \in DOMAIN out : Shows(out[j], At(s))
    BY <1>1, <1>3, <1>5
  <2>1. PICK k \in DOMAIN batch : \E i \in Processed(k) : s = <<k, i>>
    BY SlotIn DEF Kept
  <2>2. PICK i \in Processed(k) : s = <<k, i>>
    BY <2>1
  <2>3. At(s) = Emission(k, i) /\ At(s).rule \notin request.skip
    BY <2>2 DEF At, Kept
  <2>4. LiveSlots = DOMAIN out
    BY DEF LiveSlots
  <2>5. QED
    BY <2>3, <2>4 DEF IInv, Accounted
<1>14. \A i, j \in DOMAIN c.out :
           IsMeta(c.out[i].rule) /\ MetaKey(c.out[i]) = MetaKey(c.out[j]) => i = j
  BY <1>1 DEF IInv, MetaReportedOnce
<1>15. Whole(c)
  BY <1>1, <1>8, <1>12, <1>13, <1>14 DEF Whole
<1>16. QED
  BY <1>15 DEF c

\* It stays so as long as the request does.
LEMMA WholeStays ==
  ASSUME NEW c, Whole(c), request' = request
  PROVE  Whole(c)'
<1>1. \A s : ShownAt(c, s)' = ShownAt(c, s)
  BY DEF ShownAt
<1>2. KeptOf(c)' = KeptOf(c)
  BY <1>1 DEF KeptOf, SlotsOf
<1>3. FirstOf(c)' = FirstOf(c)
  BY <1>1, <1>2 DEF FirstOf, Earlier, MetaKey, IsMeta
<1>4. \A g : Returned(c, g)' <=> Returned(c, g)
  BY <1>1, <1>3 DEF Returned, TagBefore, SortsBefore
<1>5. QED
  BY <1>1, <1>2, <1>4 DEF Whole, Shows, IsMeta, MetaKey

\* The first call, while the second runs, is a whole one.
TwiceInv == ListInv /\ (previous # <<>> => Whole(previous[1]))

\* Both calls keep what is known of them.
LEMMA NextTwiceInv == TwiceInv /\ [FirstCall \/ CallAgain]_<<vars, previous>> => TwiceInv'
<1> SUFFICES ASSUME TwiceInv, [FirstCall \/ CallAgain]_<<vars, previous>>
             PROVE  TwiceInv'
  OBVIOUS
<1> USE DEF TwiceInv
<1>1. CASE FirstCall \/ UNCHANGED <<vars, previous>>
  <2>1. [Next]_vars /\ previous' = previous
    BY <1>1 DEF FirstCall
  <2>2. ListInv'
    BY <2>1, NextListInv
  <2>3. request' = request
    BY <2>1 DEF vars, Next, Over, ValidateArch, ValidateRuleSet, Stop, ValidateOptions,
           Check, CheckPanics, Executes, Collect, NextRule, RulesDone, Dedupe, DedupeDone, Sort
  <2>4. ASSUME previous' # <<>> PROVE Whole(previous[1])'
    <3>1. PICK c : c = previous[1]
      OBVIOUS
    <3>2. Whole(c)
      BY <2>1, <2>4, <3>1
    <3>3. Whole(c)'
      BY <2>3, <3>2, WholeStays
    <3>4. c = previous'[1]
      BY <2>1, <3>1
    <3>5. QED
      BY <3>3, <3>4
  <2>5. QED
    BY <2>2, <2>4
<1>2. CASE CallAgain
  <2>1. request' = request /\ request \in Request /\ pc = "done"
    BY <1>2 DEF CallAgain, ListInv, IInv, TypeOK
  <2>2. Init'
    BY <1>2, <2>1 DEF CallAgain, Init
  <2>3. ListInv'
    BY <2>2, InitListInv, PTL
  <2>4. PICK c : c = [batch |-> batch, out |-> out]
    OBVIOUS
  <2>5. Whole(c)
    BY <2>1, <2>4, DoneIsWhole
  <2>6. Whole(c)'
    BY <2>1, <2>5, WholeStays
  <2>7. c = previous'[1]
    BY <1>2, <2>4 DEF CallAgain
  <2>8. Whole(previous[1])'
    BY <2>6, <2>7
  <2>9. QED
    BY <2>3, <2>8
<1>3. QED
  BY <1>1, <1>2

\* In both calls the result list is right, and the first one stays whole.
LEMMA TwiceInvariant == SpecTwice => []TwiceInv
<1>1. InitTwice => TwiceInv
  BY InitListInv DEF InitTwice, TwiceInv
<1>2. QED
  BY <1>1, NextTwiceInv, PTL DEF SpecTwice

\* The second call found what the first one found.
LEMMA SecondIsLikeFirst ==
  ASSUME TwiceInv, SecondDone
  PROVE  /\ Whole([batch |-> batch, out |-> out]) /\ Whole(previous[1])
         /\ SameFound([batch |-> batch, out |-> out], previous[1])
<1>1. pc = "done" /\ previous # <<>>
  BY DEF SecondDone
<1>2. Whole([batch |-> batch, out |-> out]) /\ Whole(previous[1])
  BY <1>1, DoneIsWhole DEF TwiceInv
<1>3. QED
  BY <1>2 DEF SecondDone, SameFound

\* Two calls of core.Run that found the same, in whatever order, return the
\* same non-meta violations in the same order and the same meta.* signals.
THEOREM CallsAgree == SpecTwice => []SameUpToMetaPlace
<1>1. TwiceInv => SameUpToMetaPlace
  <2> SUFFICES ASSUME TwiceInv, SecondDone
               PROVE  SamePlain(out, Before) /\ Signals(out) = Signals(Before)
    BY DEF SameUpToMetaPlace
  <2> DEFINE c == [batch |-> batch, out |-> out]
             d == previous[1]
  <2>1. Whole(c) /\ Whole(d) /\ SameFound(c, d)
    BY SecondIsLikeFirst
  <2>2. c.out = out /\ d.out = Before
    BY DEF Before
  <2> HIDE DEF c, d
  <2>3. QED
    BY <2>1, <2>2, PlainAlike, SignalsAlike
<1>2. QED
  BY <1>1, TwiceInvariant, PTL

\* What callers make of a result, the counts, the rules and the verdict, does
\* not change between two such calls; the report of a result lists it as Run
\* returned it, and in whatever order a caller lists the same violations, their
\* report says the same in sum, shows the same file, line, rule and message at
\* each place, and the same violations if no two agree in those four.
THEOREM ReportsStayStable == SpecTwice => []ReportsAreStable
<1>1. TwiceInv => SummariesAgree
  <2> SUFFICES ASSUME TwiceInv, SecondDone
               PROVE  LET one == BuildJSONReport(Before)
                          two == BuildJSONReport(out)
                      IN  /\ <<one.total, one.errors, one.warnings, one.rules>>
                               = <<two.total, two.errors, two.warnings, two.rules>>
                          /\ TestFails(out) <=> TestFails(Before)
    BY DEF SummariesAgree
  <2> DEFINE c == [batch |-> batch, out |-> out]
             d == previous[1]
  <2>1. Whole(c) /\ Whole(d) /\ SameFound(c, d)
    BY SecondIsLikeFirst
  <2>2. c.out = out /\ d.out = Before
    BY DEF Before
  <2> HIDE DEF c, d
  <2>3. /\ Len(out) = Len(Before) /\ Errors(out) = Errors(Before)
        /\ {out[i].rule : i \in DOMAIN out} = {Before[i].rule : i \in DOMAIN Before}
    <3>1. /\ Len(c.out) = Len(d.out) /\ Errors(c.out) = Errors(d.out)
          /\ RulesIn(c.out) = RulesIn(d.out)
      BY <2>1, SummariesAlike
    <3>2. RulesIn(out) = RulesIn(Before) /\ Len(out) = Len(Before) /\ Errors(out) = Errors(Before)
      BY <2>2, <3>1
    <3>3. QED
      BY <3>2 DEF RulesIn
  <2>4. QED
    BY <2>3 DEF BuildJSONReport, TestFails
<1>2. TwiceInv => ReportKeepsOrder
  <2> SUFFICES ASSUME TwiceInv, pc = "done"
               PROVE  ReportKeepsOrder
    BY DEF ReportKeepsOrder
  <2>1. out \in Seq(Violation) /\ DOMAIN out = 1..Len(out)
    BY SliceTypes DEF TwiceInv, ListInv, IInv, TypeOK
  <2>2. SortedUp(out)
    <3>1. PICK g : StablySorted(g)
      BY DEF TwiceInv, ListInv, ListsAll
    <3>2. QED
      BY <2>1, <3>1 DEF StablySorted, SortedUp
  <2>3. BuildJSONReport(out).violations = out
    BY <2>1, <2>2, SortedStays DEF BuildJSONReport
  <2>4. ASSUME NEW p \in Permutation(Len(out))
        PROVE  /\ Summary(Listed(out, p)) = Summary(out)
               /\ Keys(BuildJSONReport(Listed(out, p)).violations) = Keys(out)
               /\ ToldApart(out) => BuildJSONReport(Listed(out, p)).violations = out
    <3>1. /\ Keys(ReportSorted(Listed(out, p))) = Keys(out)
          /\ ToldApart(out) => ReportSorted(Listed(out, p)) = out
      BY <2>1, <2>2, ListedSortsAlike
    <3>2. BuildJSONReport(Listed(out, p)).violations = ReportSorted(Listed(out, p))
      BY DEF BuildJSONReport
    <3>3. QED
      BY <2>1, <3>1, <3>2, ListedCountsAlike
  <2>5. QED
    BY <2>3, <2>4 DEF ReportKeepsOrder
<1>3. TwiceInv => ReportsAreStable
  BY <1>1, <1>2 DEF ReportsAreStable
<1>4. QED
  BY <1>3, TwiceInvariant, PTL
===============================================================================
