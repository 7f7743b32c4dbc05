------------------------------ MODULE RuleRunner ------------------------------
(***************************************************************************)
(* core.Run (src/core/runner.go) as a state machine.                       *)
(*                                                                         *)
(* One behaviour is one call of Run: the configuration is validated (and   *)
(* the call panics when it is illegal), every registered rule is executed  *)
(* in registration order under a recover, each emitted violation goes      *)
(* through the replace / filter / severity pipeline, meta.* duplicates are *)
(* collapsed in place, and the result is sorted.                           *)
(*                                                                         *)
(* Go map iteration is random, so the order in which a rule returns its    *)
(* findings is a nondeterministic choice; so is whether a rule that can    *)
(* panic does so in this call.                                             *)
(***************************************************************************)
EXTENDS Naturals, Sequences

CONSTANTS
    Id,           \* violation and rule-type IDs (strings)
    NoId,         \* the empty ID ""
    MetaId,       \* the IDs that start with "meta."
    RulePanic,    \* "meta.rule-panic"
    UnknownId,    \* "meta.unknown-violation-id"
    File, NoFile, \* file names; NoFile is "", the file of a panic violation
    Msg,          \* message texts
    PanicValue,   \* values a rule can panic with
    FileRank, IdRank, MsgRank, \* string order of files, IDs and messages
    RuleInst,     \* rule values a caller can register
    SpecOf,       \* RuleInst -> what Spec() returns
    FindingsOf,   \* RuleInst -> the findings of Check, in some order
    PanicsOf,     \* RuleInst -> the values Check may panic with
    SpecPanics,   \* rules whose Spec() panics
    Request       \* calls of Run: [archOk, rules, skip, opts]

Severity == {"Error", "Warning"}
\* Severity is an int in Go: any other value is "Invalid".
AnySeverity == Severity \cup {"Invalid"}

Emitted   == [file : File, line : Nat, rule : Id, msg : Msg]
Violation == [file : File, line : Nat, rule : Id, msg : Msg,
              declared : AnySeverity, effective : AnySeverity]
RuleSpec  == [id : Id, severity : AnySeverity,
              violations : Seq([id : Id, severity : AnySeverity])]

\* fmt.Sprintf("rule %q emitted undeclared violation ID %q", ...): %q makes
\* the text an injective function of the two IDs.
UndeclaredMsg(ruleId, id) == <<"undeclared", ruleId, id>>
\* fmt.Sprintf("rule %q panicked: %v", ...)
PanicMsg(ruleId, value) == <<"panicked", ruleId, value>>

ASSUME RunnerAssumption ==
    /\ NoId \in Id /\ MetaId \subseteq Id
    /\ NoId \notin MetaId
    /\ RulePanic \in MetaId /\ UnknownId \in MetaId
    /\ NoFile \in File
    /\ FileRank \in [File -> Nat] /\ IdRank \in [Id -> Nat]
    /\ MsgRank \in [Msg -> Nat]
    /\ \A f, g \in File : FileRank[f] = FileRank[g] => f = g
    /\ \A a, b \in Id : IdRank[a] = IdRank[b] => a = b
    /\ \A m, n \in Msg : MsgRank[m] = MsgRank[n] => m = n
    /\ \A s, id \in Id : UndeclaredMsg(s, id) \in Msg
    /\ \A s \in Id, p \in PanicValue : PanicMsg(s, p) \in Msg
    /\ SpecOf \in [RuleInst -> RuleSpec]
    /\ FindingsOf \in [RuleInst -> Seq(Emitted)]
    /\ PanicsOf \in [RuleInst -> SUBSET PanicValue]
    /\ SpecPanics \subseteq RuleInst
    /\ Request \subseteq [archOk : BOOLEAN, rules : Seq(RuleInst),
                          skip : SUBSET Id,
                          opts : Seq([id : Id, severity : AnySeverity])]

VARIABLES
    request,    \* the arguments of the call; never changes
    pc,         \* where Run is
    overrides,  \* runOpts.severityOverrides, a map from IDs to severities
    current,    \* number of the rule being executed (loop variable)
    pending,    \* emitted violations of the current rule still to process
    batch,      \* history: what safeCheck returned for each rule so far
    out,        \* the result slice
    read, write, seen   \* dedupeMetaViolations: range index, len(out), seen map

vars == <<request, pc, overrides, current, pending, batch, out, read, write, seen>>
dedupeVars == <<read, write, seen>>
loopVars   == <<current, pending, batch, out>>
-------------------------------------------------------------------------------
(* Configuration: what is rejected before any rule runs. *)

IsMeta(id) == id \in MetaId

CatalogIds(spec) == {spec.violations[i].id : i \in DOMAIN spec.violations}

\* ruleKnownIDs: the IDs a rule may emit without declaring more.
KnownIds(spec) == CatalogIds(spec) \cup ({spec.id} \ {NoId})

KnownViolationIds(rules) == UNION {KnownIds(SpecOf[rules[k]]) : k \in DOMAIN rules}

\* defaultsByID: a map, so the last entry of a repeated ID stays.
CatalogDefault(spec, id) ==
    LET i == CHOOSE i \in DOMAIN spec.violations :
                 /\ spec.violations[i].id = id
                 /\ \A j \in DOMAIN spec.violations :
                        spec.violations[j].id = id => j <= i
    IN  spec.violations[i].severity

Repeats(s) == \E i, j \in DOMAIN s : i # j /\ s[i].id = s[j].id

\* validateRuleSet: empty rule IDs are exempt from both duplicate checks.
ValidRuleSet(rules) ==
    /\ \A k \in DOMAIN rules :
         LET spec == SpecOf[rules[k]] IN
         /\ spec.severity \in Severity
         /\ \A i \in DOMAIN spec.violations :
                spec.violations[i].severity \in Severity
         /\ spec.id # NoId => ~Repeats(spec.violations)
    /\ \A k, l \in DOMAIN rules :
         k # l /\ SpecOf[rules[k]].id = SpecOf[rules[l]].id
            => SpecOf[rules[k]].id = NoId

\* newRunOpts: options are applied in order to one map.
OverrideMap(opts) ==
    [id \in {opts[i].id : i \in DOMAIN opts} |->
        opts[CHOOSE i \in DOMAIN opts :
                /\ opts[i].id = id
                /\ \A j \in DOMAIN opts : opts[j].id = id => j <= i].severity]

\* checkUnknown: meta.* IDs are nobody's catalog entry and always pass.
AllKnown(ids, rules) == ids \subseteq KnownViolationIds(rules) \cup MetaId
-------------------------------------------------------------------------------
(* The pipeline of one emitted violation. *)

Replaced(spec, v) ==
    IF v.rule \in KnownIds(spec) \cup MetaId
    THEN v
    ELSE [v EXCEPT !.rule = UnknownId, !.msg = UndeclaredMsg(spec.id, v.rule)]

\* Mutant: every meta.* ID is an environmental warning.
DeclaredSeverityAllMetaWarn(spec, id) ==
    CASE id \in CatalogIds(spec)          -> CatalogDefault(spec, id)
      [] id \in MetaId \ CatalogIds(spec) -> "Warning"
      [] OTHER                            -> spec.severity

DeclaredSeverity(spec, id) ==
    CASE id \in CatalogIds(spec)                         -> CatalogDefault(spec, id)
      [] id \in {RulePanic, UnknownId} \ CatalogIds(spec) -> "Error"
      [] id \in MetaId \ ({RulePanic, UnknownId} \cup CatalogIds(spec)) -> "Warning"
      [] OTHER                                           -> spec.severity

Judged(spec, ovr, v) ==
    LET declared == DeclaredSeverity(spec, v.rule)
    IN  [file |-> v.file, line |-> v.line, rule |-> v.rule, msg |-> v.msg,
         declared  |-> declared,
         effective |-> IF v.rule \in DOMAIN ovr THEN ovr[v.rule] ELSE declared]

\* Mutant: only file and line are compared.
SortsBeforeByPlace(a, b) ==
    \/ FileRank[a.file] < FileRank[b.file]
    \/ a.file = b.file /\ a.line < b.line

\* The less function given to sort.SliceStable.
SortsBefore(a, b) ==
    \/ FileRank[a.file] < FileRank[b.file]
    \/ /\ a.file = b.file
       /\ \/ a.line < b.line
          \/ /\ a.line = b.line
             /\ \/ IdRank[a.rule] < IdRank[b.rule]
                \/ a.rule = b.rule /\ MsgRank[a.msg] < MsgRank[b.msg]

Permutation(n) ==
    {p \in [1..n -> 1..n] : \A i, j \in 1..n : p[i] = p[j] => i = j}

\* Mutant: sort.Slice in place of sort.SliceStable.
SortsUnstably(p, s) ==
    \A i, j \in 1..Len(s) : i < j => ~SortsBefore(s[p[j]], s[p[i]])

\* p lists s in a stable sorted order: no inversion, ties keep their order.
SortsStably(p, s) ==
    \A i, j \in 1..Len(s) : i < j =>
        /\ ~SortsBefore(s[p[j]], s[p[i]])
        /\ ~SortsBefore(s[p[i]], s[p[j]]) => p[i] < p[j]
-------------------------------------------------------------------------------
Init ==
    /\ request \in Request
    /\ pc = "arch"
    /\ overrides = <<>>
    /\ current = 1 /\ pending = <<>> /\ batch = <<>> /\ out = <<>>
    /\ read = 1 /\ write = 0 /\ seen = {}

\* A panic of Run itself: nothing is returned to the caller.
Stop(how) ==
    /\ pc' = how
    /\ UNCHANGED <<request, overrides, loopVars, dedupeVars>>

ValidateArch ==
    /\ pc = "arch"
    /\ Stop(IF request.archOk THEN "ruleset" ELSE "rejected")

\* r.Spec() is called here outside safeCheck's recover, and before the first
\* Check: a Spec() that panics takes the whole call down.
ValidateRuleSet ==
    /\ pc = "ruleset"
    /\ Stop(IF \E k \in DOMAIN request.rules : request.rules[k] \in SpecPanics
            THEN "crashed"
            ELSE IF ValidRuleSet(request.rules) THEN "options" ELSE "rejected")

ValidateOptions ==
    /\ pc = "options"
    /\ LET ovr == OverrideMap(request.opts) IN
       /\ overrides' = ovr
       /\ pc' = IF /\ \A id \in DOMAIN ovr : ovr[id] \in Severity
                   /\ AllKnown(request.skip, request.rules)
                   /\ AllKnown(DOMAIN ovr, request.rules)
                THEN "check" ELSE "rejected"
    /\ UNCHANGED <<request, loopVars, dedupeVars>>

CurrentRule == request.rules[current]

Executes(result) ==
    /\ pending' = result
    /\ batch' = Append(batch, result)
    /\ pc' = "collect"
    /\ UNCHANGED <<request, overrides, current, out, dedupeVars>>

\* safeCheck, normal return: the findings in whatever order the rule's map
\* iterations gave.
Check ==
    /\ pc = "check"
    /\ current <= Len(request.rules)
    /\ LET found == FindingsOf[CurrentRule] IN
       \E p \in Permutation(Len(found)) :
           Executes([i \in 1..Len(found) |-> found[p[i]]])

\* safeCheck, recovered panic: whatever the rule had gathered is gone and one
\* violation without file or line stands for the rule.
CheckPanics ==
    /\ pc = "check"
    /\ current <= Len(request.rules)
    /\ \E value \in PanicsOf[CurrentRule] :
           Executes(<<[file |-> NoFile, line |-> 0, rule |-> RulePanic,
                       msg |-> PanicMsg(SpecOf[CurrentRule].id, value)]>>)

\* Mutant: meta.* signals cannot be filtered out.
SkippedUnlessMeta(id) == id \in request.skip \ MetaId

\* RuleSet.IsViolationSkipped.
IsViolationSkipped(id) == id \in request.skip

\* One iteration of the inner loop: replace, filter, judge, append.
Collect ==
    /\ pc = "collect"
    /\ pending # <<>>
    /\ LET spec == SpecOf[CurrentRule]
           v    == Replaced(spec, Head(pending))
       IN  out' = IF IsViolationSkipped(v.rule)
                  THEN out
                  ELSE Append(out, Judged(spec, overrides, v))
    /\ pending' = Tail(pending)
    /\ UNCHANGED <<request, pc, overrides, current, batch, dedupeVars>>

NextRule ==
    /\ pc = "collect"
    /\ pending = <<>>
    /\ current' = current + 1
    /\ pc' = "check"
    /\ UNCHANGED <<request, overrides, pending, batch, out, dedupeVars>>

RulesDone ==
    /\ pc = "check"
    /\ current > Len(request.rules)
    /\ pc' = "dedupe"
    /\ UNCHANGED <<request, overrides, loopVars, dedupeVars>>

MetaKey(v) == <<v.rule, v.msg>>

\* Mutant: the key is the ID alone, as the comment of Run says.
IsRepeatById(v) == IsMeta(v.rule) /\ \E key \in seen : key[1] = v.rule
IsRepeat(v) == IsMeta(v.rule) /\ MetaKey(v) \in seen

Recorded(v) == IF IsMeta(v.rule) THEN {MetaKey(v)} ELSE {}

\* Mutant: a dropped element does not advance the range.
DedupeStuck ==
    /\ pc = "dedupe"
    /\ read <= Len(out)
    /\ LET v == out[read] IN
       IF IsRepeat(v)
       THEN UNCHANGED <<out, write, seen, read>>
       ELSE /\ write' = write + 1
            /\ out' = [out EXCEPT ![write + 1] = v]
            /\ seen' = seen \cup Recorded(v)
            /\ read' = read + 1
    /\ UNCHANGED <<request, pc, overrides, current, pending, batch>>

\* One iteration of dedupeMetaViolations. The kept prefix is written into the
\* array that is still being ranged over (out := in[:0]).
Dedupe ==
    /\ pc = "dedupe"
    /\ read <= Len(out)
    /\ LET v == out[read] IN
       IF IsRepeat(v)
       THEN UNCHANGED <<out, write, seen>>
       ELSE /\ write' = write + 1
            /\ out' = [out EXCEPT ![write + 1] = v]
            /\ seen' = seen \cup Recorded(v)
    /\ read' = read + 1
    /\ UNCHANGED <<request, pc, overrides, current, pending, batch>>

DedupeDone ==
    /\ pc = "dedupe"
    /\ read > Len(out)
    /\ out' = SubSeq(out, 1, write)
    /\ pc' = "sort"
    /\ UNCHANGED <<request, overrides, current, pending, batch, dedupeVars>>

Sort ==
    /\ pc = "sort"
    /\ \E p \in Permutation(Len(out)) :
           /\ SortsStably(p, out)
           /\ out' = [i \in 1..Len(out) |-> out[p[i]]]
    /\ pc' = "done"
    /\ UNCHANGED <<request, overrides, current, pending, batch, dedupeVars>>

\* Run has returned or panicked: the call is over.
Over == pc \in {"done", "rejected", "crashed"} /\ UNCHANGED vars

Next ==
    \/ ValidateArch \/ ValidateRuleSet \/ ValidateOptions
    \/ Check \/ CheckPanics \/ Collect \/ NextRule \/ RulesDone
    \/ Dedupe \/ DedupeDone \/ Sort \/ Over

Spec == Init /\ [][Next]_vars
\* Run is a straight-line sequential call: it keeps executing until it returns.
FairSpec == Spec /\ WF_vars(Next)
-------------------------------------------------------------------------------
(* Properties *)

\* Every variable keeps its type; in particular Run never indexes outside the
\* slices it walks.
TypeOK ==
    /\ request \in Request
    /\ pc \in {"arch", "ruleset", "options", "check", "collect", "dedupe",
               "sort", "done", "rejected", "crashed"}
    /\ DOMAIN overrides \subseteq Id
    /\ \A id \in DOMAIN overrides : overrides[id] \in AnySeverity
    /\ current \in Nat \ {0}
    /\ pending \in Seq(Emitted)
    /\ batch \in Seq(Seq(Emitted))
    /\ out \in Seq(Violation)
    /\ read \in Nat \ {0} /\ write \in Nat
    /\ seen \subseteq MetaId \X Msg

\* What the i-th finding of the k-th rule must look like in the result.
Emission(k, i) ==
    LET spec == SpecOf[request.rules[k]]
    IN  Judged(spec, overrides, Replaced(spec, batch[k][i]))

\* o stands for finding e: the finding itself, or for a meta.* signal the copy
\* that was kept.
Shows(o, e) == o.rule = e.rule /\ o.msg = e.msg /\ (~IsMeta(e.rule) => o = e)

\* Every meta.* signal of the result is there once (runner.go 249-272), even
\* when several rules, or one rule at several files, emitted it.  The filter
\* works inside the array it reads: a write that overtakes the reader would
\* lose a finding and could keep a duplicate.
MetaReportedOnce ==
    pc \in {"sort", "done"} =>
        \A i, j \in DOMAIN out :
            IsMeta(out[i].rule) /\ MetaKey(out[i]) = MetaKey(out[j]) => i = j

\* Nothing is lost: once Run returns, every finding of every rule that ran,
\* panicked rules included, is in the result unless its final ID was filtered
\* out with Without; replacing, deduplicating in place and sorting never drop
\* or alter another rule's finding.
NothingLost ==
    pc = "done" =>
        \A k \in DOMAIN batch : \A i \in DOMAIN batch[k] :
            Emission(k, i).rule \notin request.skip
                => \E j \in DOMAIN out : Shows(out[j], Emission(k, i))

\* Nothing is invented: every returned violation is a finding of some executed
\* rule with the severities that rule's spec and the options give it, and its
\* ID was not filtered out.
NothingInvented ==
    pc = "done" =>
        \A j \in DOMAIN out :
            /\ out[j].rule \notin request.skip
            /\ \E k \in DOMAIN batch : \E i \in DOMAIN batch[k] : out[j] = Emission(k, i)

\* A rule that failed makes the run loud: if any executed rule panicked or
\* used an ID it does not declare, the result holds a violation with effective
\* severity Error, unless the caller filtered or overrode that meta ID, or the
\* rule itself put the meta ID into its catalog.
FailureIsLoud ==
    pc = "done" =>
        \A k \in DOMAIN batch : \A i \in DOMAIN batch[k] :
            LET id == Emission(k, i).rule IN
            /\ id \in {RulePanic, UnknownId}
            /\ id \notin request.skip \cup DOMAIN overrides
            /\ \A l \in DOMAIN request.rules :
                   id \notin CatalogIds(SpecOf[request.rules[l]])
            => \E j \in DOMAIN out : out[j].rule = id /\ out[j].effective = "Error"

\* Every call ends: Run returns or panics, whatever the rules emit.
Terminates == <>(pc \in {"done", "rejected", "crashed"})

\* Run implements its contract: the abstract result is the out slice at the
\* moment Run returns it.
Contract == INSTANCE RunContract WITH
    outcome <- IF pc \in {"done", "rejected", "crashed"} THEN pc ELSE "pending",
    batch   <- IF pc = "done" THEN batch ELSE <<>>,
    result  <- IF pc = "done" THEN out ELSE <<>>
Refines == Contract!Spec

-------------------------------------------------------------------------------
(* The inductive invariant of the three safety properties above. *)

Started == pc \in {"check", "collect", "dedupe", "sort", "done"}

\* The two loops are where their counters say.
Progress ==
    /\ ~Started => current = 1 /\ batch = <<>> /\ out = <<>>
    /\ pc = "check"   => Len(batch) = current - 1 /\ current <= Len(request.rules) + 1
    /\ pc = "collect" =>
         /\ Len(batch) = current /\ current <= Len(request.rules)
         /\ Len(pending) <= Len(batch[current])
         /\ \A i \in 1..Len(pending) :
                pending[i] = batch[current][Len(batch[current]) - Len(pending) + i]
    /\ pc \in {"dedupe", "sort", "done"} => Len(batch) = Len(request.rules)
    /\ pc \notin {"dedupe", "sort", "done"} => read = 1 /\ write = 0 /\ seen = {}

\* The kept prefix of the in-place filter stays behind the reader, and seen
\* holds exactly the meta keys of that prefix, each of which is there once.
PrefixDeduped ==
    pc = "dedupe" =>
        /\ write < read /\ read <= Len(out) + 1
        /\ \A j \in 1..write : IsMeta(out[j].rule) => MetaKey(out[j]) \in seen
        /\ \A key \in seen : \E j \in 1..write : IsMeta(out[j].rule) /\ MetaKey(out[j]) = key
        /\ \A i, j \in 1..write :
               IsMeta(out[i].rule) /\ MetaKey(out[i]) = MetaKey(out[j]) => i = j

\* Slots of the array whose content still counts.
LiveSlots == IF pc = "dedupe" THEN 1..write \cup read..Len(out) ELSE DOMAIN out

\* Findings of rule k that went through the pipeline.
Processed(k) == IF pc = "collect" /\ k = current
                THEN 1..(Len(batch[k]) - Len(pending)) ELSE DOMAIN batch[k]

Accounted ==
    \A k \in DOMAIN batch : \A i \in Processed(k) :
        Emission(k, i).rule \notin request.skip
            => \E j \in LiveSlots : Shows(out[j], Emission(k, i))

Sourced ==
    \A j \in DOMAIN out :
        /\ out[j].rule \notin request.skip
        /\ \E k \in DOMAIN batch : \E i \in DOMAIN batch[k] : out[j] = Emission(k, i)

IInv == TypeOK /\ Progress /\ PrefixDeduped /\ MetaReportedOnce /\ Accounted /\ Sourced
===============================================================================
