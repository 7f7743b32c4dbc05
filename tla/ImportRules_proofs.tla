--------------------------- MODULE ImportRules_proofs ---------------------------
(***************************************************************************)
(* For every project and every architecture that Validate accepts: what    *)
(* Isolation and LayerDirection report is exactly their verdict on each    *)
(* import they inspect, and from two silent rules follow the isolation of  *)
(* the domains over chains of imports and the layering of each domain, and *)
(* with each preset that its inner layers stay inner. The exclude patterns *)
(* leave out what they name and nothing else, whichever way they are       *)
(* written; and the rules that walk directories find a layer where the     *)
(* import rules find it.                                                   *)
(***************************************************************************)
EXTENDS Structure, SequenceTheorems, TLAPS

-----------------------------------------------------------------------------
(* Classification                                                          *)

LEMMA InputFacts ==
    ASSUME NEW in \in Inputs
    PROVE  /\ in.pkgs \in Seq(Path)
           /\ Loaded(in) \subseteq Path
           /\ \A p \in Loaded(in) : in.imports[p] \subseteq Path
           /\ in.arch.root \in Seq(Segment) /\ Len(in.arch.root) >= 1
           /\ in.arch.root[1] # "cmd"
<1>1. in.pkgs \in Seq(Path) /\ in.imports \in [Loaded(in) -> SUBSET Path]
      BY InputsAssumption
<1>2. Loaded(in) \subseteq Path
      BY <1>1 DEF Loaded
<1>3. \A p \in Loaded(in) : in.imports[p] \subseteq Path
      BY <1>1
<1>4. in.arch.root \in Seq(Segment) /\ in.arch.root # <<>> /\ in.arch.root[1] # "cmd"
      BY InputsAssumption
<1>5. Len(in.arch.root) >= 1
      BY <1>4
<1> QED BY <1>1, <1>2, <1>3, <1>4, <1>5

LEMMA PathFacts ==
    ASSUME NEW p \in Path
    PROVE  p \in Seq(Segment) /\ p # <<>> /\ \A i \in 1..Len(p) : p[i] \in Segment
<1>1. p \in Seq(Segment) /\ p # <<>>
      BY InputsAssumption DEF NoImport
<1> QED BY <1>1

\* The path below the internal root has at least one segment, none empty.
LEMMA RelSegments ==
    ASSUME NEW in \in Inputs, NEW p \in Path, IsInternal(in, p)
    PROVE  LET r == Rel(in.arch, in.module, p)
           IN  /\ r \in Seq(Segment) /\ Len(r) >= 1
               /\ \A i \in 1..Len(r) : r[i] \in Segment
<1> DEFINE n == Len(InternalPrefix(in.arch, in.module))
           r == Rel(in.arch, in.module, p)
<1>1. n \in Nat /\ n >= 1
      BY InputFacts DEF InternalPrefix
<1>2. Len(p) > n
      BY DEF IsInternal, Internal, Under
<1>3. p \in Seq(Segment) /\ \A i \in 1..Len(p) : p[i] \in Segment
      BY PathFacts
<1>4. r = SubSeq(p, n + 1, Len(p))
      BY DEF Rel
<1>5. n + 1 \in 1..Len(p) + 1 /\ Len(p) \in n..Len(p) /\ Len(p) \in Nat
  <2> HIDE DEF n, r
  <2> QED BY <1>1, <1>2, <1>3, LenProperties
<1>6. /\ SubSeq(p, n + 1, Len(p)) \in Seq(Segment)
      /\ Len(SubSeq(p, n + 1, Len(p))) = Len(p) - (n + 1) + 1
      /\ \A i \in 1..Len(p) - (n + 1) + 1 : SubSeq(p, n + 1, Len(p))[i] = p[n + 1 + i - 1]
  <2> HIDE DEF n, r
  <2> QED BY <1>1, <1>2, <1>3, <1>5, SubSeqProperties
<1>7. r \in Seq(Segment) /\ Len(r) = Len(p) - n
  <2> HIDE DEF n, r
  <2> QED BY <1>1, <1>4, <1>5, <1>6
<1>8. \A i \in 1..Len(r) : r[i] \in Segment
  <2> HIDE DEF n, r
  <2>1. SUFFICES ASSUME NEW i \in 1..Len(r) PROVE r[i] \in Segment
        OBVIOUS
  <2>2. i \in 1..Len(p) - (n + 1) + 1 /\ n + 1 + i - 1 \in 1..Len(p)
        BY <1>1, <1>5, <1>7
  <2>3. r[i] = p[n + 1 + i - 1]
        BY <1>4, <1>6, <2>2
  <2> QED BY <1>3, <2>2, <2>3
<1>9. Len(r) >= 1
  <2> HIDE DEF n, r
  <2> QED BY <1>1, <1>2, <1>5, <1>7
<1> QED BY <1>7, <1>8, <1>9

\* cmd and the internal tree are apart.
LEMMA InternalIsNotCmd ==
    ASSUME NEW in \in Inputs, NEW p \in Path, IsInternal(in, p)
    PROVE  ~IsCmd(in.module, p)
<1> DEFINE prefix == InternalPrefix(in.arch, in.module)
<1>1. prefix[2] = in.arch.root[1] /\ Len(prefix) >= 2 /\ Len(prefix) \in Nat
      BY InputFacts DEF InternalPrefix
<1>2. Len(p) > Len(prefix) /\ \A i \in 1..Len(prefix) : p[i] = prefix[i]
      BY DEF IsInternal, Internal, Under
<1> HIDE DEF prefix
<1>3. p[2] # "cmd"
      BY <1>1, <1>2, InputFacts
<1>4. <<in.module, "cmd">>[2] = "cmd" /\ Len(<<in.module, "cmd">>) = 2
      OBVIOUS
<1> QED BY <1>3, <1>4 DEF IsCmd, Under

\* What the kinds say of the other two fields.
WellClassed(in, c) ==
    /\ c = Class(c.kind, c.domain, c.sublayer)
    /\ c.kind \in Kinds
    /\ ~DomainKind(c) => c.domain = NoDomain
    /\ c.kind # "domain" => c.sublayer = NoSublayer
    /\ DomainKind(c) /\ in.arch.domainDir # NoDir => c.domain # NoDomain
    /\ in.arch.domainDir = NoDir => c.kind # "root"

LEMMA WellClassedKinds ==
    ASSUME NEW in
    PROVE  /\ \A k \in Kinds \ {"domain", "root"} :
                  WellClassed(in, Class(k, NoDomain, NoSublayer))
           /\ \A d : in.arch.domainDir # NoDir /\ d # NoDomain =>
                  WellClassed(in, Class("root", d, NoSublayer))
           /\ \A d, s : (in.arch.domainDir # NoDir => d # NoDomain) =>
                  WellClassed(in, Class("domain", d, s))
BY DEF WellClassed, Class, Kinds, DomainKind

LEMMA ClassFacts ==
    ASSUME NEW in \in Inputs, NEW p \in Path
    PROVE  /\ WellClassed(in, ClassOf(in, p))
           /\ ~IsInternal(in, p) => ClassOf(in, p) = Unclassified
<1> DEFINE r == Rel(in.arch, in.module, p)
<1>1. ASSUME ~IsInternal(in, p)
      PROVE  ClassOf(in, p) = Unclassified
      BY <1>1 DEF ClassOf, Classify, IsInternal
<1>2. WellClassed(in, Unclassified)
      BY WellClassedKinds DEF Unclassified, Kinds
<1>3. ASSUME IsInternal(in, p)
      PROVE  WellClassed(in, ClassOf(in, p))
  <2>1. ClassOf(in, p) = ClassifyRel(in.arch, r)
        BY <1>3 DEF ClassOf, Classify, IsInternal
  <2>2. r \in Seq(Segment) /\ Len(r) >= 1 /\ \A i \in 1..Len(r) : r[i] \in Segment
        BY <1>3, RelSegments
  <2> HIDE DEF r
  <2>3. Len(r) \in Nat
        BY <2>2, LenProperties
  <2>4. Len(r) # 1 => r[2] # NoDomain
    <3>0. Len(r) \in Nat /\ Len(r) >= 1
          BY <2>2, <2>3
    <3>1. Len(r) # 1 => 2 \in 1..Len(r)
      <4>1. \A m \in Nat : m >= 1 /\ m # 1 => 2 \in 1..m
            OBVIOUS
      <4> QED BY <3>0, <4>1
    <3>2. "" \notin Segment
          BY InputsAssumption
    <3> QED BY <2>2, <3>1, <3>2 DEF NoDomain
  <2>5. ASSUME in.arch.domainDir # NoDir
        PROVE  WellClassed(in, ClassifyInDomains(in.arch, r))
        BY <1>2, <2>4, <2>5, WellClassedKinds DEF ClassifyInDomains
  <2>6. ASSUME in.arch.domainDir = NoDir
        PROVE  WellClassed(in, ClassifyFlat(in.arch, r))
        BY <1>2, <2>6, WellClassedKinds DEF ClassifyFlat
  <2>7. \A k \in {"shared", "app", "transport", "orchestration"} :
            WellClassed(in, Class(k, NoDomain, NoSublayer))
        BY WellClassedKinds DEF Kinds
  <2>8. WellClassed(in, ClassifyRel(in.arch, r))
        BY <2>5, <2>6, <2>7 DEF ClassifyRel
  <2> QED BY <2>1, <2>8
<1> QED BY <1>1, <1>2, <1>3
-----------------------------------------------------------------------------
(* Verdicts                                                                *)

LEMMA VerdictOfInternal ==
    ASSUME NEW in \in Inputs, NEW p \in Path, NEW q, IsInternal(in, p), IsInternal(in, q)
    PROVE  /\ Verdict(in, "isolation", p, q) = InternalVerdict(in, ClassOf(in, p), ClassOf(in, q))
           /\ Verdict(in, "direction", p, q) = LayerVerdict(in, ClassOf(in, p), ClassOf(in, q))
BY InternalIsNotCmd DEF Verdict, IsolationVerdict, DirectionVerdict

\* What Isolation lets through stays among one domain's packages and those of
\* no domain, until it enters the composition root or transport.
LEMMA AllowedStaysInDomain ==
    ASSUME NEW in, NEW d, d # NoDomain, in.arch.domainDir # NoDir,
           NEW a, NEW b, WellClassed(in, a), WellClassed(in, b),
           a.kind \in {"shared", "unclassified"} \/ (DomainKind(a) /\ a.domain = d),
           b.kind \notin {"app", "transport"},
           InternalVerdict(in, a, b) = Allowed
    PROVE  b.kind \in {"shared", "unclassified"} \/ (DomainKind(b) /\ b.domain = d)
<1>1. b.kind \in {"shared", "unclassified", "domain", "root", "orchestration"}
      BY DEF WellClassed, Kinds
<1>2. CASE b.kind \in {"shared", "unclassified"}
      BY <1>2
<1>3. CASE b.kind = "orchestration"
      BY <1>3 DEF InternalVerdict, Allowed, DomainKind, SameDomain, CrossDomain
<1>4. CASE b.kind \in {"domain", "root"}
  <2>1. b.domain # NoDomain
        BY <1>4 DEF WellClassed, DomainKind
  <2>2. CASE DomainKind(a) /\ a.domain = d
        BY <1>4, <2>1, <2>2 DEF InternalVerdict, Allowed, DomainKind, SameDomain, CrossDomain
  <2>3. CASE a.kind \in {"shared", "unclassified"}
        BY <1>4, <2>1, <2>3 DEF InternalVerdict, Allowed, DomainKind, SameDomain, CrossDomain
  <2> QED BY <2>2, <2>3
<1> QED BY <1>1, <1>2, <1>3, <1>4

\* What LayerDirection lets through between two sublayers of one domain is an
\* entry of Direction.
LEMMA AllowedFollowsDirection ==
    ASSUME NEW in, NEW d, NEW x, NEW y, x # y, y # NoSublayer,
           x \in DOMAIN in.arch.direction,
           in.arch.domainDir # NoDir => KnownSublayer(in.arch, y),
           LayerVerdict(in, Class("domain", d, x), Class("domain", d, y)) = Allowed
    PROVE  Edge(in.arch.direction, x, y)
<1>1. LayerVerdict(in, Class("domain", d, x), Class("domain", d, y))
        = SublayerVerdict(in, Class("domain", d, x), Class("domain", d, y))
      BY DEF LayerVerdict, Class, Allowed
<1> QED BY <1>1 DEF SublayerVerdict, Class, Allowed

\* An import that LayerDirection reports is none of Isolation's.
LEMMA OneRulePerImport ==
    ASSUME NEW in \in Inputs, NEW a, NEW b, WellClassed(in, a), WellClassed(in, b),
           in.arch.domainDir # NoDir,
           a.kind = "domain", LayerVerdict(in, a, b) # Allowed
    PROVE  InternalVerdict(in, a, b) = Allowed
<1>1. a.domain # NoDomain
      BY DEF WellClassed, DomainKind
<1>2. b.kind \in Kinds
      BY DEF WellClassed
<1>3. CASE b.kind = "shared"
      BY <1>3 DEF InternalVerdict, DomainKind, Allowed
<1>4. CASE b.kind # "shared"
  <2>1. b.domain = a.domain
        BY <1>4 DEF LayerVerdict, Allowed
  <2>2. DomainKind(b)
        BY <1>1, <2>1 DEF WellClassed
  <2>3. SameDomain(a, b)
        BY <1>1, <2>1, <2>2 DEF SameDomain, DomainKind
  <2> QED BY <2>2, <2>3 DEF InternalVerdict, DomainKind, Allowed
<1> QED BY <1>3, <1>4
-----------------------------------------------------------------------------
(* The invariant                                                           *)

LEMMA InitInvariant == Init => IInv
<1> SUFFICES ASSUME Init PROVE IInv
    OBVIOUS
<1>1. input \in Inputs /\ rule = "isolation" /\ phase = "start" /\ at = 1 /\ todo = {} /\ report = {}
      BY DEF Init
<1>2. Len(input.pkgs) \in Nat
      BY <1>1, InputFacts, LenProperties
<1>3. TypeOK
      BY <1>1, <1>2 DEF TypeOK, Rules
<1>4. \A r \in Rules : ~Passed(r)
      BY <1>1 DEF Passed, Rules
<1>5. Complete
      BY <1>1, <1>4 DEF Complete, Judged, Ran
<1>6. Sound /\ RefusalsReported
      BY <1>1, <1>4 DEF Sound, RefusalsReported
<1> QED BY <1>1, <1>3, <1>5, <1>6 DEF IInv, Started

\* The report only grows.
LEMMA ReportGrows ==
    ASSUME IInv, [Next]_vars
    PROVE  report \subseteq report' /\ input' = input
BY DEF Next, vars, Refuse, Begin, SkipPackage, EnterPackage, CheckImport, LeavePackage, Return

LEMMA TypeStep ==
    ASSUME IInv, [Next]_vars
    PROVE  TypeOK'
<1>1. /\ TypeOK /\ input \in Inputs /\ Len(input.pkgs) \in Nat
      BY InputFacts, LenProperties DEF IInv
<1>2. at \in Nat
      BY <1>1 DEF TypeOK
<1>3. CASE Refuse
  <2>1. \A v \in report' : v.rule \in Rules
        BY <1>1, <1>3 DEF TypeOK, Refuse, Violation
  <2>2. After(rule) \in Rules \cup {"done"}
        BY DEF After, Rules
  <2> QED BY <1>1, <1>3, <2>1, <2>2 DEF TypeOK, Refuse, Package
<1>4. CASE Begin
  <2>1. \A v \in report' : v.rule \in Rules
        BY <1>1, <1>4 DEF TypeOK, Begin, Partial, Violation
  <2>2. at' \in 1..Len(input.pkgs) + 1 /\ input' = input
        BY <1>1, <1>4 DEF Begin
  <2>3. /\ phase' = "packages" /\ rule' = rule /\ rule \in Rules /\ todo' = {} /\ rule # "done"
        BY <1>1, <1>4 DEF TypeOK, Begin, Rules
  <2> QED BY <2>1, <2>2, <2>3 DEF TypeOK
<1>5. CASE SkipPackage
  <2>1. \A v \in report' : v.rule \in Rules
    <3>1. rule \in Rules
          BY <1>1, <1>5 DEF TypeOK, SkipPackage
    <3> QED BY <1>1, <1>5, <3>1 DEF TypeOK, SkipPackage, Violation
  <2>2. at' \in 1..Len(input.pkgs) + 1
        BY <1>1, <1>2, <1>5 DEF TypeOK, SkipPackage
  <2> QED BY <1>1, <1>5, <2>1, <2>2 DEF TypeOK, SkipPackage, Package
<1>6. CASE EnterPackage
      BY <1>1, <1>2, <1>6 DEF TypeOK, EnterPackage, Package
<1>7. CASE CheckImport
  <2>1. \A v \in report' : v.rule \in Rules
    <3>1. rule \in Rules
          BY <1>1, <1>7 DEF TypeOK, CheckImport
    <3> QED BY <1>1, <1>7, <3>1 DEF TypeOK, CheckImport, Judgement, Violation
  <2> QED BY <1>1, <1>7, <2>1 DEF TypeOK, CheckImport, Package
<1>8. CASE LeavePackage
      BY <1>1, <1>2, <1>8 DEF TypeOK, LeavePackage, Package
<1>9. CASE Return
  <2>1. After(rule) \in Rules \cup {"done"}
        BY DEF After, Rules
  <2> QED BY <1>1, <1>9, <2>1 DEF TypeOK, Return, Package
<1>10. CASE UNCHANGED vars
      BY <1>1, <1>10 DEF TypeOK, vars, Package
<1> QED BY <1>3, <1>4, <1>5, <1>6, <1>7, <1>8, <1>9, <1>10 DEF Next

\* Which rules have passed changes only when a Check returns.
LEMMA PassedStep ==
    ASSUME IInv, [Next]_vars, NEW r \in Rules
    PROVE  /\ rule' = rule => (Passed(r)' <=> Passed(r))
           /\ rule' # rule => rule \in Rules /\ rule' = After(rule)
           /\ rule' = After(rule) /\ rule \in Rules => (Passed(r)' <=> Passed(r) \/ r = rule)
<1>1. rule' = rule => (Passed(r)' <=> Passed(r))
      BY DEF Passed
<1>2. rule \in Rules \/ rule = "done"
      BY DEF IInv, TypeOK
<1>3. rule' # rule => rule \in Rules /\ rule' = After(rule)
      BY <1>2 DEF IInv, TypeOK, Next, vars, Refuse, Begin, SkipPackage, EnterPackage, CheckImport, LeavePackage, Return
<1>4. rule' = After(rule) /\ rule \in Rules => (Passed(r)' <=> Passed(r) \/ r = rule)
      BY DEF Passed, After, Rules
<1> QED BY <1>1, <1>3, <1>4

LEMMA RefusalsStep ==
    ASSUME IInv, [Next]_vars
    PROVE  RefusalsReported'
<1> SUFFICES ASSUME NEW r \in Rules, Passed(r)', (Refusal(input, r) # Allowed)'
             PROVE  \E v \in report' : v.rule = r
    BY DEF RefusalsReported
<1>1. report \subseteq report' /\ input' = input
      BY ReportGrows
<1>2. Refusal(input, r) # Allowed
      BY <1>1
<1>3. CASE Passed(r)
      BY <1>1, <1>2, <1>3 DEF IInv, RefusalsReported
<1>4. CASE ~Passed(r)
  <2>1. rule' # rule /\ rule = r
        BY <1>4, PassedStep
  <2>2. Refuse \/ Return
        BY <2>1 DEF Next, vars, Begin, SkipPackage, EnterPackage, CheckImport, LeavePackage
  <2>3. CASE Refuse
    <3> DEFINE v == Violation(rule, Refusal(input, rule), NoImport, NoImport)
    <3>1. v \in report'
          BY <2>3 DEF Refuse
    <3>2. v.rule = rule
          BY DEF Violation
    <3> QED BY <2>1, <3>1, <3>2
  <2>4. CASE Return
        BY <1>2, <2>1, <2>4 DEF Return, IInv, Started
  <2> QED BY <2>2, <2>3, <2>4
<1> QED BY <1>3, <1>4
LEMMA StartedStep ==
    ASSUME IInv, [Next]_vars
    PROVE  Started'
<1>1. Started /\ input' = input
      BY ReportGrows DEF IInv
<1>2. CASE Refuse \/ Return
  <2>1. phase' = "start"
        BY <1>2 DEF Refuse, Return
  <2> QED BY <2>1 DEF Started
<1>3. CASE Begin
      BY <1>1, <1>3 DEF Started, Begin
<1>4. CASE SkipPackage \/ LeavePackage
      BY <1>1, <1>4 DEF Started, SkipPackage, LeavePackage
<1>5. CASE EnterPackage
      BY <1>1, <1>5 DEF Started, EnterPackage, Package
<1>6. CASE CheckImport
      BY <1>1, <1>6 DEF Started, CheckImport, Package
<1>7. CASE UNCHANGED vars
      BY <1>1, <1>7 DEF Started, vars, Package
<1> QED BY <1>2, <1>3, <1>4, <1>5, <1>6, <1>7 DEF Next

\* What a step adds to the imports judged is what it adds to the report.
LEMMA CompleteStep ==
    ASSUME IInv, [Next]_vars
    PROVE  Complete'
<1>1. report \subseteq report' /\ input' = input
      BY ReportGrows
<1> SUFFICES ASSUME NEW r \in Rules, NEW p \in Loaded(input), NEW q \in input.imports[p],
                    Judged(r, p, q)', Inspects(input, r, p)
             PROVE  Judgement(input, r, p, q) \subseteq report'
    BY <1>1 DEF Complete
<1>2. CASE Judged(r, p, q)
      BY <1>1, <1>2 DEF IInv, Complete
<1>3. CASE ~Judged(r, p, q)
  <2>0. ~Ran(r)
        BY <1>3 DEF Judged
  <2>1. CASE Ran(r)'
    <3>1. Passed(r)' /\ Refusal(input, r) = Allowed /\ ~Passed(r)
          BY <1>1, <2>0, <2>1 DEF Ran
    <3>2. rule' # rule /\ rule = r
          BY <3>1, PassedStep
    <3>3. Refuse \/ Return
          BY <3>2 DEF Next, vars, Begin, SkipPackage, EnterPackage, CheckImport, LeavePackage
    <3>4. Return
          BY <3>1, <3>2, <3>3 DEF Refuse
    <3>5. PICK i \in DOMAIN input.pkgs : input.pkgs[i] = p
          BY DEF Loaded
    <3>6. i \in 1..Len(input.pkgs) /\ Len(input.pkgs) \in Nat /\ at \in Nat
          BY <3>5, InputFacts, LenProperties DEF IInv, TypeOK
    <3>7. i < at /\ phase # "start"
          BY <3>4, <3>6 DEF Return
    <3> QED BY <1>3, <3>2, <3>5, <3>7 DEF Judged
  <2>2. CASE ~Ran(r)'
    <3>1. rule' = r /\ phase' # "start"
          BY <1>1, <2>2 DEF Judged
    <3>2. PICK i \in DOMAIN input.pkgs :
              /\ input.pkgs[i] = p
              /\ i < at' \/ (i = at' /\ phase' = "imports" /\ q \notin todo')
          BY <1>1, <2>2 DEF Judged
    <3>3. i \in Nat /\ at \in Nat
          BY InputFacts, LenProperties DEF IInv, TypeOK
    <3>4. ~(rule = r /\ phase # "start" /\ (i < at \/ (i = at /\ phase = "imports" /\ q \notin todo)))
          BY <1>3, <3>2 DEF Judged
    <3>5. CASE Refuse \/ Return
      <4>1. phase' = "start"
            BY <3>5 DEF Refuse, Return, IInv, Started, TypeOK
      <4> QED BY <3>1, <4>1
    <3>6. CASE Begin
          BY <3>2, <3>3, <3>6, InputFacts DEF Begin, IInv
    <3>7. CASE SkipPackage
      <4>1. i = at /\ rule = r
            BY <3>1, <3>2, <3>3, <3>4, <3>7 DEF SkipPackage
      <4> QED BY <3>2, <3>7, <4>1 DEF SkipPackage, Package
    <3>8. CASE EnterPackage
          BY <3>1, <3>2, <3>3, <3>4, <3>8 DEF EnterPackage, Package
    <3>9. CASE CheckImport
      <4>1. i = at /\ rule = r /\ q \in todo /\ q \notin todo' /\ p = Package
            BY <3>1, <3>2, <3>3, <3>4, <3>9 DEF CheckImport, Package
      <4> QED BY <3>9, <4>1 DEF CheckImport
    <3>10. CASE LeavePackage
          BY <3>1, <3>2, <3>3, <3>4, <3>10 DEF LeavePackage
    <3>11. CASE UNCHANGED vars
          BY <3>1, <3>2, <3>4, <3>11 DEF vars
    <3> QED BY <3>5, <3>6, <3>7, <3>8, <3>9, <3>10, <3>11 DEF Next
  <2> QED BY <2>1, <2>2
<1> QED BY <1>2, <1>3

LEMMA SoundStep ==
    ASSUME IInv, [Next]_vars
    PROVE  Sound'
<1>1. input' = input /\ Sound
      BY ReportGrows DEF IInv
<1> SUFFICES ASSUME NEW v \in report', v.imp # NoImport
             PROVE  /\ v.pkg \in Loaded(input) /\ v.imp \in input.imports[v.pkg]
                    /\ Refusal(input, v.rule) = Allowed /\ Inspects(input, v.rule, v.pkg)
                    /\ v \in Judgement(input, v.rule, v.pkg, v.imp)
    BY <1>1 DEF Sound
<1>2. CASE v \in report
      BY <1>1, <1>2 DEF Sound
<1>3. CASE v \notin report
  <2>1. ~(Refuse \/ Begin \/ SkipPackage)
    <3>1. \A r, id, p : Violation(r, id, p, NoImport).imp = NoImport
          BY DEF Violation
    <3>2. CASE Refuse
          BY <1>3, <3>1, <3>2 DEF Refuse
    <3>3. CASE Begin
          BY <1>3, <3>1, <3>3 DEF Begin, Partial
    <3>4. CASE SkipPackage
          BY <1>3, <3>1, <3>4 DEF SkipPackage
    <3> QED BY <3>2, <3>3, <3>4
  <2>2. CheckImport
        BY <1>3, <2>1 DEF Next, vars, EnterPackage, LeavePackage, Return
  <2>3. PICK q \in todo : v \in Judgement(input, rule, Package, q)
        BY <1>3, <2>2 DEF CheckImport
  <2>4. v = Violation(rule, Verdict(input, rule, Package, q), Package, q)
        BY <2>3 DEF Judgement
  <2>5. v.rule = rule /\ v.pkg = Package /\ v.imp = q
        BY <2>4 DEF Violation
  <2>6. Inspects(input, rule, Package) /\ Refusal(input, rule) = Allowed
        BY <2>2 DEF CheckImport, IInv, Started
  <2>7. at \in DOMAIN input.pkgs /\ todo \subseteq input.imports[Package]
    <3>1. at \in 1..Len(input.pkgs) + 1 /\ at <= Len(input.pkgs) /\ todo \subseteq input.imports[Package]
          BY <2>2 DEF CheckImport, IInv, TypeOK
    <3>2. input.pkgs \in Seq(Path)
          BY InputFacts DEF IInv
    <3> QED BY <3>1, <3>2
  <2>8. Package \in Loaded(input)
        BY <2>7 DEF Package, Loaded
  <2> QED BY <2>3, <2>5, <2>6, <2>7, <2>8
<1> QED BY <1>2, <1>3

LEMMA StepInvariant == IInv /\ [Next]_vars => IInv'
<1> SUFFICES ASSUME IInv, [Next]_vars PROVE IInv'
    OBVIOUS
<1>1. (input \in Inputs)'
      BY ReportGrows DEF IInv
<1> QED BY <1>1, TypeStep, StartedStep, CompleteStep, SoundStep, RefusalsStep DEF IInv

\* Both loops report exactly their verdicts on the imports they inspect.
THEOREM ReportInvariant == Spec => []IInv
<1>1. Init => IInv
      BY InitInvariant
<1>2. IInv /\ [Next]_vars => IInv'
      BY StepInvariant
<1> QED BY <1>1, <1>2, PTL DEF Spec

\* Type correctness of the two Check loops.
THEOREM ImportRulesTypeCorrect == Spec => []TypeOK
<1>1. IInv => TypeOK
      BY DEF IInv
<1> QED BY <1>1, ReportInvariant, PTL
-----------------------------------------------------------------------------
(* What silence means                                                      *)

LEMMA CleanVerdicts ==
    ASSUME IInv, NEW r \in Rules, Clean(r),
           NEW p \in Loaded(input), Inspects(input, r, p), NEW q \in input.imports[p]
    PROVE  Verdict(input, r, p, q) = Allowed
<1>1. Refusal(input, r) = Allowed
      BY DEF IInv, RefusalsReported, Clean
<1>2. Judged(r, p, q)
      BY <1>1 DEF Judged, Ran, Clean
<1>3. Judgement(input, r, p, q) \subseteq report
      BY <1>2 DEF IInv, Complete
<1>4. Violation(r, Verdict(input, r, p, q), p, q).rule = r
      BY DEF Violation
<1> QED BY <1>3, <1>4 DEF Judgement, Clean

LEMMA InvariantIsolates == IInv => CleanMeansIsolated
<1> SUFFICES ASSUME IInv, Clean("isolation"),
                    NEW p \in Loaded(input), IsInternal(input, p), DomainKind(ClassOf(input, p)),
                    NEW q \in Reachable(input, p)
             PROVE  /\ ClassOf(input, q).kind # "orchestration"
                    /\ DomainKind(ClassOf(input, q)) =>
                           ClassOf(input, q).domain = ClassOf(input, p).domain
    BY DEF CleanMeansIsolated
<1> DEFINE All == Loaded(input) \cup UNION {input.imports[x] : x \in Loaded(input)}
           d == ClassOf(input, p).domain
           Home(c) == c.kind \in {"shared", "unclassified"} \/ (DomainKind(c) /\ c.domain = d)
           S == {x \in All : IsInternal(input, x) /\ Home(ClassOf(input, x))}
<1>1. input \in Inputs /\ "isolation" \in Rules
      BY DEF IInv, Rules
<1>2. Loaded(input) \subseteq Path /\ \A x \in Loaded(input) : input.imports[x] \subseteq Path
      BY <1>1, InputFacts
<1>3. All \subseteq Path
      BY <1>2
<1>4. input.arch.domainDir # NoDir
  <2>1. Refusal(input, "isolation") = Allowed
        BY <1>1 DEF IInv, RefusalsReported, Clean
  <2> QED BY <2>1 DEF Refusal, Allowed
<1>5. d # NoDomain
      BY <1>1, <1>2, <1>4, ClassFacts DEF WellClassed
<1>6. Closed(input, S)
  <2> SUFFICES ASSUME NEW x \in S, x \in Loaded(input), NEW y \in input.imports[x],
                      x \notin input.excluded, IsInternal(input, y),
                      ClassOf(input, y).kind \notin {"app", "transport"}
               PROVE  y \in S
      BY DEF Closed
  <2>1. y \in All /\ x \in Path /\ y \in Path
        BY <1>2
  <2>2. IsInternal(input, x) /\ Home(ClassOf(input, x))
        OBVIOUS
  <2>3. Inspects(input, "isolation", x)
        BY <2>2 DEF Inspects, DomainKind
  <2>4. Verdict(input, "isolation", x, y) = Allowed
        BY <1>1, <2>3, CleanVerdicts
  <2>5. InternalVerdict(input, ClassOf(input, x), ClassOf(input, y)) = Allowed
        BY <1>1, <2>1, <2>2, <2>4, VerdictOfInternal
  <2>6. WellClassed(input, ClassOf(input, x)) /\ WellClassed(input, ClassOf(input, y))
        BY <1>1, <2>1, ClassFacts
  <2>7. Home(ClassOf(input, y))
    <3>1. \A a, b : /\ WellClassed(input, a) /\ WellClassed(input, b) /\ Home(a)
                    /\ b.kind \notin {"app", "transport"}
                    /\ InternalVerdict(input, a, b) = Allowed
                    => Home(b)
      <4> SUFFICES ASSUME NEW a, NEW b, WellClassed(input, a), WellClassed(input, b), Home(a),
                          b.kind \notin {"app", "transport"},
                          InternalVerdict(input, a, b) = Allowed
                   PROVE  Home(b)
          OBVIOUS
      <4>1. a.kind \in {"shared", "unclassified"} \/ (DomainKind(a) /\ a.domain = d)
            OBVIOUS
      <4> HIDE DEF d
      <4>2. b.kind \in {"shared", "unclassified"} \/ (DomainKind(b) /\ b.domain = d)
            BY SMTT(40), <1>4, <1>5, <4>1, AllowedStaysInDomain
      <4> QED BY <4>2
    <3> HIDE DEF Home
    <3> QED BY <2>2, <2>5, <2>6, <3>1
  <2> QED BY <2>1, <2>7
<1>7. p \in S
      OBVIOUS
<1>8. S \in SUBSET All
      OBVIOUS
<1>9. q \in S
      BY <1>6, <1>7, <1>8 DEF Reachable
<1> QED BY <1>9 DEF DomainKind

LEMMA InvariantLayers == IInv => CleanMeansLayered
<1> SUFFICES ASSUME IInv, Clean("direction"),
                    \A S \in SUBSET SublayersOf(input) : ~Trap(input.arch.direction, S),
                    NEW p \in Loaded(input), NEW S \in SUBSET SublayersOf(input), S # {},
                    \A a \in S : \E b \in S \ {a} : Uses(input, ClassOf(input, p).domain, a, b)
             PROVE  FALSE
    BY DEF CleanMeansLayered
<1> DEFINE d == ClassOf(input, p).domain
<1>1. input \in Inputs /\ "direction" \in Rules
      BY DEF IInv, Rules
<1>2. Loaded(input) \subseteq Path /\ \A x \in Loaded(input) : input.imports[x] \subseteq Path
      BY <1>1, InputFacts
<1>3. \A a \in S : a # NoSublayer /\ a \in DOMAIN input.arch.direction /\ KnownSublayer(input.arch, a)
      BY ZenonT(40), <1>1, InputsAssumption DEF SublayersOf, KnownSublayer
<1>4. ASSUME NEW a \in S
      PROVE  \E b \in S : Edge(input.arch.direction, a, b)
  <2>1. PICK b \in S \ {a} : Uses(input, d, a, b)
        OBVIOUS
  <2>2. PICK x \in Loaded(input) \ input.excluded : \E y \in input.imports[x] :
            /\ IsInternal(input, x) /\ ClassOf(input, x) = Class("domain", d, a)
            /\ IsInternal(input, y) /\ ClassOf(input, y) = Class("domain", d, b)
        BY <2>1 DEF Uses
  <2>3. PICK y \in input.imports[x] :
            /\ IsInternal(input, x) /\ ClassOf(input, x) = Class("domain", d, a)
            /\ IsInternal(input, y) /\ ClassOf(input, y) = Class("domain", d, b)
        BY <2>2
  <2>4. Inspects(input, "direction", x)
        BY <1>3, <2>3 DEF Inspects, Class
  <2>5. Verdict(input, "direction", x, y) = Allowed
        BY <1>1, <2>2, <2>4, CleanVerdicts
  <2>6. LayerVerdict(input, Class("domain", d, a), Class("domain", d, b)) = Allowed
        BY <1>1, <1>2, <2>2, <2>3, <2>5, VerdictOfInternal
  <2> HIDE DEF d
  <2>7. Edge(input.arch.direction, a, b)
        BY <1>3, <2>6, AllowedFollowsDirection
  <2> QED BY <2>7
<1>5. Trap(input.arch.direction, S)
      BY <1>4 DEF Trap
<1> QED BY <1>5

LEMMA InvariantSingleVerdict == IInv => OneVerdictPerImport
<1> SUFFICES ASSUME IInv, NEW v \in report, NEW w \in report,
                    v.imp # NoImport, v.pkg = w.pkg, v.imp = w.imp
             PROVE  v = w
    BY DEF OneVerdictPerImport
<1> DEFINE p == v.pkg
           q == v.imp
<1>1. \A x \in {v, w} :
          /\ Refusal(input, x.rule) = Allowed /\ Inspects(input, x.rule, p)
          /\ x \in Judgement(input, x.rule, p, q)
      BY DEF IInv, Sound
<1>2. v.rule \in Rules /\ w.rule \in Rules
      BY DEF IInv, TypeOK
<1>3. CASE v.rule = w.rule
      BY <1>1, <1>3 DEF Judgement
<1>4. ASSUME NEW x \in {v, w}, NEW y \in {v, w}, x.rule = "isolation", y.rule = "direction"
      PROVE  FALSE
  <2>1. input \in Inputs /\ p \in Path /\ q \in Path
    <3>1. input \in Inputs /\ p \in Loaded(input) /\ q \in input.imports[p]
          BY DEF IInv, Sound
    <3> QED BY <3>1, InputFacts
  <2>2. /\ Verdict(input, "isolation", p, q) # Allowed
        /\ Verdict(input, "direction", p, q) # Allowed
        BY <1>1, <1>4 DEF Judgement
  <2>3. input.arch.domainDir # NoDir
        BY <1>1, <1>4 DEF Refusal, Allowed
  <2>4. IsInternal(input, p) /\ ClassOf(input, p).kind = "domain"
        BY <1>1, <1>4 DEF Inspects
  <2>5. IsInternal(input, q)
        BY <2>2 DEF Verdict, DirectionVerdict
  <2>6. /\ InternalVerdict(input, ClassOf(input, p), ClassOf(input, q)) # Allowed
        /\ LayerVerdict(input, ClassOf(input, p), ClassOf(input, q)) # Allowed
        BY <2>1, <2>2, <2>4, <2>5, VerdictOfInternal
  <2>7. WellClassed(input, ClassOf(input, p)) /\ WellClassed(input, ClassOf(input, q))
        BY <2>1, ClassFacts
  <2> QED BY <2>1, <2>3, <2>4, <2>6, <2>7, OneRulePerImport
<1> QED BY <1>2, <1>3, <1>4 DEF Rules

LEMMA ReportedExactly ==
    ASSUME IInv, NEW r \in Rules, Ran(r), NEW p \in Loaded(input), NEW q \in input.imports[p]
    PROVE  Reported(r, p, q) <=> Inspects(input, r, p) /\ Verdict(input, r, p, q) # Allowed
<1>1. q # NoImport
  <2>1. q \in Path
        BY InputFacts DEF IInv
  <2> QED BY <2>1, PathFacts DEF NoImport
<1>2. ASSUME NEW v \in report, v.rule = r, v.pkg = p, v.imp = q
      PROVE  Inspects(input, r, p) /\ Verdict(input, r, p, q) # Allowed
  <2>1. Inspects(input, r, p) /\ v \in Judgement(input, r, p, q)
        BY <1>1, <1>2 DEF IInv, Sound
  <2> QED BY <2>1 DEF Judgement
<1>3. ASSUME Inspects(input, r, p), Verdict(input, r, p, q) # Allowed
      PROVE  Reported(r, p, q)
  <2> DEFINE v == Violation(r, Verdict(input, r, p, q), p, q)
  <2>1. Judged(r, p, q)
        BY DEF Judged
  <2>2. v \in report
        BY <1>3, <2>1 DEF IInv, Complete, Judgement
  <2>3. v.rule = r /\ v.pkg = p /\ v.imp = q
        BY DEF Violation
  <2> QED BY <2>2, <2>3 DEF Reported
<1> QED BY <1>2, <1>3 DEF Reported

\* Line by line, checkInternalImport against the matrix.
LEMMA MatrixVerdicts ==
    ASSUME NEW in \in Inputs, NEW p \in Path, NEW q \in Path, in.arch.domainDir # NoDir,
           IsInternal(in, p), InMatrix(in, p, q), ClassOf(in, p).kind # "app",
           ClassOf(in, q).kind \in {"root", "domain", "orchestration"}
    PROVE  InternalVerdict(in, ClassOf(in, p), ClassOf(in, q)) # Allowed <=> ~MatrixYes(in, p, q)
<1> DEFINE a == ClassOf(in, p)
           b == ClassOf(in, q)
<1>1. WellClassed(in, a) /\ WellClassed(in, b) /\ ~IsCmd(in.module, p)
      BY ClassFacts, InternalIsNotCmd
<1>2. MatrixRow(in, p) = a.kind /\ a.kind \in Kinds
      BY <1>1 DEF MatrixRow, WellClassed
<1>3. a.kind = "orchestration" => in.arch.requireAlias
      BY <1>2 DEF InMatrix
<1>4. (DomainKind(a) => a.domain # NoDomain) /\ (DomainKind(b) => b.domain # NoDomain)
      BY <1>1 DEF WellClassed
<1>5. CASE DomainKind(a)
  <2>1. MatrixYes(in, p, q) <=> SameDomain(a, b)
        BY <1>1, <1>2, <1>5 DEF MatrixYes, DomainKind
  <2>2. CASE b.kind = "orchestration"
        BY <1>5, <2>1, <2>2 DEF InternalVerdict, Allowed, DomainKind, SameDomain
  <2>3. CASE DomainKind(b) /\ a.domain = b.domain
    <3>1. SameDomain(a, b)
          BY <1>4, <1>5, <2>3 DEF SameDomain
    <3> QED BY <1>5, <2>1, <2>3, <3>1 DEF InternalVerdict, DomainKind
  <2>4. CASE DomainKind(b) /\ a.domain # b.domain
    <3>1. ~SameDomain(a, b) /\ CrossDomain(a, b)
          BY <1>4, <1>5, <2>4 DEF SameDomain, CrossDomain
    <3> QED BY <1>5, <2>1, <2>4, <3>1 DEF InternalVerdict, Allowed, DomainKind
  <2> QED BY <2>2, <2>3, <2>4 DEF DomainKind
<1>6. CASE a.kind = "orchestration"
      BY <1>1, <1>2, <1>3, <1>6
         DEF MatrixYes, InternalVerdict, OrchestrationVerdict, Allowed, DomainKind, SameDomain
<1>7. CASE a.kind = "shared"
      BY <1>1, <1>2, <1>7 DEF MatrixYes, InternalVerdict, Allowed, DomainKind, SameDomain
<1>8. CASE a.kind = "transport"
      BY <1>1, <1>2, <1>8
         DEF MatrixYes, InternalVerdict, TransportVerdict, Allowed, DomainKind, SameDomain
<1>9. CASE a.kind = "unclassified"
      BY <1>1, <1>2, <1>9
         DEF MatrixYes, InternalVerdict, Allowed, DomainKind, SameDomain, CrossDomain
<1> QED BY <1>2, <1>5, <1>6, <1>7, <1>8, <1>9 DEF Kinds, DomainKind

LEMMA InvariantHoldsMatrix == IInv => MatrixHeld
<1> SUFFICES ASSUME IInv, Ran("isolation"),
                    NEW p \in Loaded(input), NEW q \in input.imports[p], InMatrix(input, p, q),
                    ClassOf(input, q).kind \in {"root", "domain", "orchestration"}
             PROVE  Reported("isolation", p, q) <=> ~MatrixYes(input, p, q)
    BY DEF MatrixHeld
<1>1. input \in Inputs /\ p \in Path /\ q \in Path
  <2>1. input \in Inputs
        BY DEF IInv
  <2> QED BY <2>1, InputFacts
<1>2. input.arch.domainDir # NoDir
      BY DEF Ran, Refusal, Allowed
<1>3. Reported("isolation", p, q) <=>
          Inspects(input, "isolation", p) /\ Verdict(input, "isolation", p, q) # Allowed
      BY ReportedExactly DEF Rules
<1>4. p \notin input.excluded /\ IsInternal(input, q)
      BY DEF InMatrix
<1>5. CASE IsInternal(input, p) /\ ClassOf(input, p).kind # "app"
  <2>1. Inspects(input, "isolation", p)
        BY <1>4, <1>5 DEF Inspects
  <2> QED BY <1>1, <1>2, <1>3, <1>4, <1>5, <2>1, VerdictOfInternal, MatrixVerdicts
<1>6. CASE IsInternal(input, p) /\ ClassOf(input, p).kind = "app"
  <2>1. ~IsCmd(input.module, p)
        BY <1>1, <1>6, InternalIsNotCmd
  <2>2. ~Inspects(input, "isolation", p)
        BY <1>6, <2>1 DEF Inspects
  <2>3. MatrixYes(input, p, q)
        BY <1>6, <2>1 DEF MatrixYes, MatrixRow
  <2> QED BY <1>3, <2>2, <2>3
<1>7. CASE ~IsInternal(input, p)
  <2>1. IsCmd(input.module, p)
        BY <1>7 DEF InMatrix
  <2>2. MatrixRow(input, p) = "cmd" /\ input.arch.requireAlias
        BY <2>1 DEF InMatrix, MatrixRow
  <2>3. Inspects(input, "isolation", p)
        BY <1>4, <2>1 DEF Inspects
  <2>4. Verdict(input, "isolation", p, q) = CmdVerdict(input, ClassOf(input, q))
        BY <1>4, <2>1 DEF Verdict, IsolationVerdict
  <2>5. MatrixYes(input, p, q) <=> ClassOf(input, q).kind # "domain"
        BY <2>1, <2>2 DEF MatrixYes
  <2> QED BY <1>3, <2>2, <2>3, <2>4, <2>5 DEF CmdVerdict, Allowed
<1> QED BY <1>5, <1>6, <1>7

(* Isolation reports an import of a domain or of orchestration exactly     *)
(* when the published import matrix forbids it.                            *)
THEOREM MatrixIsHeld == Spec => []MatrixHeld
BY InvariantHoldsMatrix, ReportInvariant, PTL

(* No chain of imports leads from one domain into another, or into         *)
(* orchestration, in any project Isolation is silent about.                *)
THEOREM DomainsAreIsolated == Spec => []CleanMeansIsolated
BY InvariantIsolates, ReportInvariant, PTL

(* In any project LayerDirection is silent about, under any acyclic        *)
(* Direction, no sublayers of one domain import each other in a circle.    *)
THEOREM DomainsAreLayered == Spec => []CleanMeansLayered
BY InvariantLayers, ReportInvariant, PTL

(* Of the two rules at most one reports a given import.                    *)
THEOREM ImportsAreReportedOnce == Spec => []OneVerdictPerImport
BY InvariantSingleVerdict, ReportInvariant, PTL
-----------------------------------------------------------------------------
(* The presets                                                             *)

\* Direction has an entry for every restricted layer and leads from those to
\* restricted layers only.
RestrictedClosed(arch) ==
    \A l \in arch.pkgRestricted :
        /\ KnownSublayer(arch, l) /\ l \in DOMAIN arch.direction
        /\ \A t : Edge(arch.direction, l, t) => t \in arch.pkgRestricted

\* The core of a preset without layers below layers: an entity or model
\* layer that imports nothing.
LEMMA LoneLayer ==
    ASSUME NEW arch, NEW l, WellFormed(arch, <<>>),
           arch.pkgRestricted = {l}, arch.direction[l] = <<>>
    PROVE  RestrictedClosed(arch)
<1>1. l \in DOMAIN arch.direction /\ KnownSublayer(arch, l)
      BY DEF WellFormed, Entries, KnownSublayer
<1>2. \A t : ~Edge(arch.direction, l, t)
      BY DEF Edge, Imports
<1> QED BY <1>1, <1>2 DEF RestrictedClosed

LEMMA PresetsAreRestricted ==
    ASSUME NEW arch \in Architectures
    PROVE  RestrictedClosed(arch)
<1>1. WellFormed(arch, <<>>)
      BY DEF Architectures
<1>2. CASE arch = CleanArch
  <2>1. CleanArch.pkgRestricted = {<<"entity">>} /\ CleanArch.direction[<<"entity">>] = <<>>
        BY DEF CleanArch, Merged, domainLayout, Layout, Set, Entries, Dirs, Table
  <2> QED BY <1>1, <1>2, <2>1, LoneLayer
<1>3. CASE arch = Layered
  <2>1. Layered.pkgRestricted = {<<"model">>} /\ Layered.direction[<<"model">>] = <<>>
        BY DEF Layered, Merged, domainLayout, Layout, Set, Entries, Dirs, Table
  <2> QED BY <1>1, <1>3, <2>1, LoneLayer
<1>4. CASE arch = Hexagonal
  <2>1. Hexagonal.pkgRestricted = {<<"domain">>} /\ Hexagonal.direction[<<"domain">>] = <<>>
        BY DEF Hexagonal, Merged, domainLayout, Layout, Set, Entries, Dirs, Table
  <2> QED BY <1>1, <1>4, <2>1, LoneLayer
<1>5. CASE arch = ModularMonolith
  <2>1. ModularMonolith.pkgRestricted = {<<"core">>} /\ ModularMonolith.direction[<<"core">>] = <<>>
        BY DEF ModularMonolith, Merged, domainLayout, Layout, Set, Entries, Dirs, Table
  <2> QED BY <1>1, <1>5, <2>1, LoneLayer
<1>6. CASE arch = ConsumerWorker
  <2>1. ConsumerWorker.pkgRestricted = {<<"model">>} /\ ConsumerWorker.direction[<<"model">>] = <<>>
        BY DEF ConsumerWorker, Pipeline, Merged, FlatLayout, Layout, Set, Entries, Dirs, Table
  <2> QED BY <1>1, <1>6, <2>1, LoneLayer
<1>7. CASE arch = Batch
  <2>1. Batch.pkgRestricted = {<<"model">>} /\ Batch.direction[<<"model">>] = <<>>
        BY DEF Batch, Pipeline, Merged, FlatLayout, Layout, Set, Entries, Dirs, Table
  <2> QED BY <1>1, <1>7, <2>1, LoneLayer
<1>8. CASE arch = EventPipeline
  <2>1. EventPipeline.pkgRestricted = {<<"model">>, <<"event">>}
        BY DEF EventPipeline, Merged, FlatLayout, Layout, Set, Entries, Dirs
  <2>2. EventPipeline.direction[<<"model">>] = <<>>
        BY DEF EventPipeline, Merged, FlatLayout, Layout, Dirs, Table
  <2>3. EventPipeline.direction[<<"event">>] = <<<<"model">>>>
        BY SMTT(30) DEF EventPipeline, Merged, FlatLayout, Layout, Dirs, Table
  <2>4. \A l \in arch.pkgRestricted : KnownSublayer(arch, l) /\ l \in DOMAIN arch.direction
        BY <1>1 DEF WellFormed, Entries, KnownSublayer
  <2>5. \A t : ~Edge(arch.direction, <<"model">>, t)
        BY <1>8, <2>2 DEF Edge, Imports
  <2>6. \A t : Edge(arch.direction, <<"event">>, t) => t = <<"model">>
        BY <1>8, <2>3 DEF Edge, Imports
  <2> QED BY <1>8, <2>1, <2>4, <2>5, <2>6 DEF RestrictedClosed
<1>9. CASE arch = DDD
  <2> DEFINE model == <<"core", "model">>
             repo == <<"core", "repo">>
             svc == <<"core", "svc">>
  <2>1. DDD.pkgRestricted = {<<"core">>, model, repo, svc, <<"event">>}
        BY DEF DDD, DDDRestricted, Merged, Layout
  <2>2. DDD.direction[model] = <<>>
        BY DEF DDD, Merged, Layout, Set, Entries, Dirs
  <2>3. \A l \in {<<"core">>, repo, svc, <<"event">>} : DDD.direction[l] = <<model>>
        BY SMTT(30) DEF DDD, Merged, Layout, Set, Entries, Dirs
  <2> HIDE DEF model, repo, svc
  <2>4. \A l \in arch.pkgRestricted : KnownSublayer(arch, l) /\ l \in DOMAIN arch.direction
        BY <1>1 DEF WellFormed, Entries, KnownSublayer
  <2>5. \A t : ~Edge(arch.direction, model, t)
        BY <1>9, <2>2 DEF Edge, Imports
  <2>6. \A l \in {<<"core">>, repo, svc, <<"event">>} : \A t :
            Edge(arch.direction, l, t) => t = model
        BY <1>9, <2>3 DEF Edge, Imports
  <2> QED BY <1>9, <2>1, <2>4, <2>5, <2>6 DEF RestrictedClosed
<1> QED BY <1>2, <1>3, <1>4, <1>5, <1>6, <1>7, <1>8, <1>9 DEF Architectures

\* A package in a domain is in a layer.
LEMMA DomainPackagesHaveLayers ==
    ASSUME NEW in \in Inputs, NEW p \in Path, ClassOf(in, p).kind = "domain"
    PROVE  ClassOf(in, p).sublayer # NoSublayer
<1> DEFINE r == Rel(in.arch, in.module, p)
           inside == SubSeq(r, 3, Len(r))
<1>1. IsInternal(in, p) /\ ClassOf(in, p) = ClassifyRel(in.arch, r)
  <2>1. Unclassified.kind # "domain"
        BY DEF Unclassified, Class
  <2> QED BY <2>1, ClassFacts DEF ClassOf, Classify, IsInternal
<1>2. r \in Seq(Segment) /\ Len(r) \in Nat /\ Len(r) >= 1
      BY <1>1, RelSegments, LenProperties
<1> HIDE DEF r
<1>3. CASE ClassOf(in, p) = ClassifyFlat(in.arch, r)
  <2>1. ClassOf(in, p).sublayer = <<r[1]>>
        BY <1>3 DEF ClassifyFlat, Class, Unclassified
  <2> QED BY <2>1 DEF NoSublayer
<1>4. CASE ClassOf(in, p) = ClassifyInDomains(in.arch, r)
  <2>1. Len(r) # 1 /\ Len(r) # 2 /\ ClassOf(in, p).sublayer = IdentifySublayer(in.arch, inside)
        BY <1>4 DEF ClassifyInDomains, Class, Unclassified
  <2>2. Len(r) >= 3
    <3>1. \A n \in Nat : n >= 1 /\ n # 1 /\ n # 2 => n >= 3
          OBVIOUS
    <3> QED BY <1>2, <2>1, <3>1
  <2>3. inside \in Seq(Segment) /\ Len(inside) = Len(r) - 2
    <3>1. 3 \in Int /\ Len(r) \in Int /\ \A i \in 3..Len(r) : r[i] \in Segment
          BY <1>2
    <3>2. SubSeq(r, 3, Len(r)) \in Seq(Segment)
          BY <3>1, SubSeqProperties
    <3>3. Len(SubSeq(r, 3, Len(r))) = IF 3 <= Len(r) THEN Len(r) - 3 + 1 ELSE 0
          BY <3>1, SubSeqProperties
    <3> QED BY <1>2, <2>2, <3>2, <3>3
  <2> HIDE DEF inside
  <2>4. \A k \in 1..2 : Len(inside) >= k => SubSeq(inside, 1, k) # <<>>
    <3> SUFFICES ASSUME NEW k \in 1..2, Len(inside) >= k PROVE SubSeq(inside, 1, k) # <<>>
        OBVIOUS
    <3>1. 1 \in 1..Len(inside) + 1 /\ k \in 1 - 1..Len(inside)
          BY <1>2, <2>2, <2>3
    <3>2. Len(SubSeq(inside, 1, k)) = k - 1 + 1
          BY <2>3, <3>1, SubSeqProperties
    <3>3. Len(SubSeq(inside, 1, k)) # 0
          BY <3>2
    <3> QED BY <3>3
  <2>5. SubSeq(inside, 1, 1) # <<>>
        BY <1>2, <2>2, <2>3, <2>4
  <2>6. Len(inside) >= 2 => SubSeq(inside, 1, 2) # <<>>
        BY <2>4
  <2> QED BY <2>1, <2>5, <2>6 DEF IdentifySublayer, NoSublayer
<1> QED BY <1>1, <1>3, <1>4 DEF ClassifyRel, Class

\* One import out of an inner layer that LayerDirection lets through.
LEMMA AllowedStaysInner ==
    ASSUME NEW in, RestrictedClosed(in.arch), NEW a, NEW b,
           a.kind = "domain", a.sublayer \in in.arch.pkgRestricted,
           b.kind \in {"shared", "domain"}, b.kind = "domain" => b.domain = a.domain,
           b.kind = "domain" => b.sublayer # NoSublayer,
           LayerVerdict(in, a, b) = Allowed
    PROVE  b.kind = "domain" /\ b.sublayer \in in.arch.pkgRestricted
<1>1. b.kind # "shared"
      BY DEF LayerVerdict, Allowed
<1>2. LayerVerdict(in, a, b) \in {SublayerVerdict(in, a, b), "unknown-sublayer"}
      BY <1>1 DEF LayerVerdict
<1>3. SublayerVerdict(in, a, b) = Allowed
      BY <1>2 DEF Allowed
<1>4. b.sublayer = a.sublayer \/ Edge(in.arch.direction, a.sublayer, b.sublayer)
      BY <1>1, <1>3 DEF SublayerVerdict, Allowed, RestrictedClosed
<1> QED BY <1>1, <1>4 DEF RestrictedClosed

LEMMA InvariantStaysInner == IInv => InnerStaysInner
<1> SUFFICES ASSUME IInv, input.arch \in Architectures, Clean("direction"),
                    NEW p \in Loaded(input) \ input.excluded,
                    IsInternal(input, p), ClassOf(input, p).kind = "domain",
                    ClassOf(input, p).sublayer \in input.arch.pkgRestricted,
                    NEW q \in ReachedByLayers(input, p)
             PROVE  /\ ClassOf(input, q).kind = "domain"
                    /\ ClassOf(input, q).sublayer \in input.arch.pkgRestricted
    BY DEF InnerStaysInner
<1> DEFINE All == Loaded(input) \cup UNION {input.imports[x] : x \in Loaded(input)}
           Inner(x) == /\ IsInternal(input, x) /\ ClassOf(input, x).kind = "domain"
                       /\ ClassOf(input, x).sublayer \in input.arch.pkgRestricted
           S == {x \in All : Inner(x)}
<1>1. input \in Inputs /\ "direction" \in Rules
      BY DEF IInv, Rules
<1>2. Loaded(input) \subseteq Path /\ \A x \in Loaded(input) : input.imports[x] \subseteq Path
      BY <1>1, InputFacts
<1>3. All \subseteq Path
      BY <1>2
<1>4. RestrictedClosed(input.arch)
      BY PresetsAreRestricted
<1>5. ASSUME NEW x \in S, NEW y \in All, LayerStep(input, x, y)
      PROVE  y \in S
  <2>1. x \in Path /\ y \in Path /\ x \in Loaded(input) \ input.excluded /\ y \in input.imports[x]
        BY <1>3, <1>5 DEF LayerStep
  <2>2. Inner(x) /\ IsInternal(input, y)
        BY <1>5 DEF LayerStep
  <2>3. Inspects(input, "direction", x)
        BY <1>4, <2>1, <2>2 DEF Inspects, RestrictedClosed
  <2>4. Verdict(input, "direction", x, y) = Allowed
        BY <1>1, <2>1, <2>3, CleanVerdicts
  <2>5. LayerVerdict(input, ClassOf(input, x), ClassOf(input, y)) = Allowed
        BY <1>1, <2>1, <2>2, <2>4, VerdictOfInternal
  <2>6. /\ ClassOf(input, y).kind \in {"shared", "domain"}
        /\ ClassOf(input, y).kind = "domain" => ClassOf(input, y).domain = ClassOf(input, x).domain
        BY <1>5 DEF LayerStep
  <2>7. ClassOf(input, y).kind = "domain" => ClassOf(input, y).sublayer # NoSublayer
        BY <1>1, <2>1, DomainPackagesHaveLayers
  <2>8. Inner(y)
        BY <1>4, <2>2, <2>5, <2>6, <2>7, AllowedStaysInner
  <2> QED BY <2>8
<1>6. p \in S /\ S \in SUBSET All
      OBVIOUS
<1>7. q \in S
      BY <1>5, <1>6 DEF ReachedByLayers
<1> QED BY <1>7

(* With a preset, no chain of imports from layer to layer leads from an    *)
(* inner layer to an outer one or to shared code, in any project           *)
(* LayerDirection is silent about.                                         *)
THEOREM InnerLayersStayInner == Spec => []InnerStaysInner
BY InvariantStaysInner, ReportInvariant, PTL
-----------------------------------------------------------------------------
(* Patterns                                                                *)

\* The pieces of a pattern or a path, and the directories among them.
Piece == Segment \cup {NoPiece, ".", AnyFile} \cup DOMAIN Stem
Dotted(n) == [i \in 1..n |-> "."]
Clear(s) == /\ s \in Seq(Piece) /\ s # <<>>
            /\ s[1] \notin {NoPiece, "."} /\ s[Len(s)] # NoPiece

\* Pieces that are told apart.
LEMMA PieceFacts ==
    /\ Segment \subseteq Piece /\ NoPiece \in Piece /\ "." \in Piece /\ AnyFile \in Piece
    /\ "..." \in Piece /\ "a..." \in Piece
    /\ \A x \in Segment : x # NoPiece /\ x # "." /\ x # "..." /\ x # "a..."
    /\ NoPiece # "." /\ NoPiece # "..." /\ NoPiece # "a..." /\ NoPiece # "a"
    /\ AnyFile # NoPiece /\ AnyFile # "."
    /\ DOMAIN Stem = {"...", "a..."} /\ Stem["..."] = NoPiece /\ Stem["a..."] = "a"
<1>1. DOMAIN Stem = {"...", "a..."} /\ Stem["..."] = NoPiece /\ Stem["a..."] = "a"
    BY DEF Stem
<1>2. NoPiece \notin Segment
    BY InputsAssumption, Zenon DEF NoPiece
<1>3. NoPiece # "." /\ NoPiece # "..." /\ NoPiece # "a..." /\ NoPiece # "a" /\ NoPiece # AnyFile
    BY Zenon DEF NoPiece, AnyFile
<1>4. \A x \in Segment : x # "." /\ x # "..." /\ x # "a..."
    BY <1>1, PatternsAssumption
<1>5. AnyFile # "."
    BY DEF AnyFile
<1>6. QED
    BY <1>1, <1>2, <1>3, <1>4, <1>5 DEF Piece

\* A clear path has a first piece.
LEMMA ClearFacts ==
    ASSUME NEW s, Clear(s)
    PROVE  Len(s) \in Nat /\ Len(s) >= 1 /\ DOMAIN s = 1..Len(s) /\ \A i \in 1..Len(s) : s[i] \in Piece
<1>1. s \in Seq(Piece) /\ s # <<>>
    BY DEF Clear
<1>2. Len(s) \in Nat \ {0}
    BY <1>1, EmptySeq
<1>3. QED
    BY <1>1, <1>2, LenProperties, ElementOfSeq

\* A directory is a clear path.
LEMMA DirIsClear ==
    ASSUME NEW d \in Seq(Segment), d # <<>>
    PROVE  Clear(d) /\ \A i \in 1..Len(d) : d[i] \in Segment
<1>1. Len(d) \in Nat \ {0} /\ \A i \in 1..Len(d) : d[i] \in Segment
    BY EmptySeq, ElementOfSeq
<1>2. d \in Seq(Piece)
    BY PieceFacts, SeqMonotonic
<1>3. d[1] \in Segment /\ d[Len(d)] \in Segment
    BY <1>1
<1>4. QED
    BY <1>1, <1>2, <1>3, PieceFacts DEF Clear

\* The slash at the beginning goes.
LEMMA RootTrimmed ==
    ASSUME NEW lead \in {<<>>, <<NoPiece>>}, NEW t \in Seq(Piece), t # <<>>, t[1] # NoPiece
    PROVE  TrimRoot(lead \o t) = t
<1>1. Len(t) \in Nat /\ Len(t) >= 1
    <2>1. Len(t) \in Nat \ {0}
        BY EmptySeq
    <2>2. QED
        BY <2>1
<1>2. CASE lead = <<>>
    BY <1>2, ConcatEmptySeq DEF TrimRoot
<1>3. CASE lead = <<NoPiece>>
    <2> DEFINE s == <<NoPiece>> \o t
    <2>0. <<NoPiece>> \in Seq(Piece) /\ Len(<<NoPiece>>) = 1 /\ <<NoPiece>>[1] = NoPiece
        <3>1. NoPiece \in Piece
            BY PieceFacts
        <3>2. QED
            BY <3>1
    <2>1. /\ s \in Seq(Piece) /\ Len(s) = 1 + Len(t)
          /\ \A i \in 1..1 + Len(t) : s[i] = IF i <= 1 THEN NoPiece ELSE t[i - 1]
        BY <2>0, ConcatProperties, <1>1
    <2> HIDE DEF s
    <2>2. Len(s) > 1 /\ s[1] = NoPiece /\ s # <<>>
        BY <1>1, <2>1
    <2>3. Tail(s) \in Seq(Piece) /\ Len(Tail(s)) = Len(t) /\ \A i \in 1..Len(t) : Tail(s)[i] = s[i + 1]
        BY <1>1, <2>1, <2>2, HeadTailProperties
    <2>4. \A i \in 1..Len(t) : Tail(s)[i] = t[i]
        BY <1>1, <2>1, <2>3
    <2>5. Tail(s) = t
        BY <2>3, <2>4, SeqEqual
    <2>6. QED
        BY <1>3, <2>2, <2>5 DEF TrimRoot, s
<1>4. QED
    BY <1>2, <1>3

\* So do all "./".
LEMMA DotsTrimmed ==
    ASSUME NEW n \in Nat, NEW t \in Seq(Piece), t # <<>>, t[1] # "."
    PROVE  /\ TrimDots(Dotted(n) \o t) = t
           /\ Dotted(n) \o t \in Seq(Piece) /\ Dotted(n) \o t # <<>>
           /\ t[1] # NoPiece => (Dotted(n) \o t)[1] # NoPiece
<1> DEFINE u == Dotted(n)
           s == u \o t
           P(k) == /\ \A i \in 1..k : s[i] = "."
                   /\ k = Len(s) - 1 \/ s[k + 1] # "."
<1>1. Len(t) \in Nat /\ Len(t) >= 1 /\ \A i \in 1..Len(t) : t[i] \in Piece
    <2>1. Len(t) \in Nat \ {0}
        BY EmptySeq
    <2>2. QED
        BY <2>1, ElementOfSeq
<1>2. u \in Seq(Piece) /\ Len(u) = n /\ \A i \in 1..n : u[i] = "."
    <2>1. "." \in Piece
        BY PieceFacts
    <2>2. QED
        BY <2>1 DEF Dotted
<1> HIDE DEF u
<1>3. /\ s \in Seq(Piece) /\ Len(s) = n + Len(t)
      /\ \A i \in 1..n + Len(t) : s[i] = IF i <= n THEN "." ELSE t[i - n]
    <2>1. /\ s \in Seq(Piece) /\ Len(s) = n + Len(t)
          /\ \A i \in 1..n + Len(t) : s[i] = IF i <= n THEN u[i] ELSE t[i - n]
        BY <1>2, ConcatProperties
    <2>2. QED
        BY <1>1, <1>2, <2>1
<1> HIDE DEF s
<1>4. s[n + 1] = t[1]
    BY <1>1, <1>3
<1>5. n \in 0..Len(s) - 1 /\ P(n)
    BY <1>1, <1>3, <1>4
<1>6. ASSUME NEW k \in 0..Len(s) - 1, P(k)
      PROVE  k = n
    <2>1. ~(k > n)
        <3> SUFFICES ASSUME k > n PROVE FALSE
            OBVIOUS
        <3>1. n + 1 \in 1..k
            BY <1>1
        <3>2. QED
            BY <1>4, <1>6, <3>1
    <2>2. ~(k < n)
        <3> SUFFICES ASSUME k < n PROVE FALSE
            OBVIOUS
        <3>1. k # Len(s) - 1 /\ k + 1 \in 1..n + Len(t) /\ k + 1 <= n
            BY <1>1, <1>3
        <3>2. s[k + 1] = "."
            BY <1>3, <3>1
        <3>3. QED
            BY <1>6, <3>1, <3>2
    <2>3. QED
        BY <1>1, <2>1, <2>2
<1>7. (CHOOSE k \in 0..Len(s) - 1 : P(k)) = n
    <2> DEFINE c == CHOOSE k \in 0..Len(s) - 1 : P(k)
    <2>1. c \in 0..Len(s) - 1 /\ P(c)
        BY <1>5
    <2>2. QED
        BY <1>6, <2>1
<1>8. TrimDots(s) = SubSeq(s, n + 1, Len(s))
    BY <1>7 DEF TrimDots
<1>9. \A i \in n + 1..Len(s) : s[i] \in Piece
    BY <1>3, ElementOfSeq
<1>10. /\ SubSeq(s, n + 1, Len(s)) \in Seq(Piece) /\ Len(SubSeq(s, n + 1, Len(s))) = Len(t)
       /\ \A i \in 1..Len(t) : SubSeq(s, n + 1, Len(s))[i] = s[n + 1 + i - 1]
    <2>1. n + 1 \in Int /\ Len(s) \in Int /\ n + 1 <= Len(s) /\ Len(s) - (n + 1) + 1 = Len(t)
        BY <1>1, <1>3
    <2>2. QED
        BY <1>9, <2>1, SubSeqProperties
<1>11. \A i \in 1..Len(t) : SubSeq(s, n + 1, Len(s))[i] = t[i]
    <2> TAKE i \in 1..Len(t)
    <2>1. n + 1 + i - 1 \in 1..n + Len(t) /\ ~(n + 1 + i - 1 <= n) /\ n + 1 + i - 1 - n = i
        BY <1>1
    <2>2. QED
        BY <1>3, <1>10, <2>1
<1>12. SubSeq(s, n + 1, Len(s)) = t
    BY <1>10, <1>11, SeqEqual
<1>13. s # <<>> /\ (t[1] # NoPiece => s[1] # NoPiece)
    <2>1. Len(s) # 0 /\ 1 \in 1..n + Len(t)
        BY <1>1, <1>3
    <2>2. s[1] = "." \/ s[1] = t[1]
        BY <1>1, <1>3, <2>1
    <2>3. s # <<>>
        BY <1>3, <2>1
    <2>4. QED
        BY <2>2, <2>3, PieceFacts
<1>14. QED
    BY <1>3, <1>8, <1>12, <1>13 DEF s, u

\* And so does one slash at the end.
LEMMA SlashTrimmed ==
    ASSUME NEW t, Clear(t)
    PROVE  TrimSlash(t) = t /\ TrimSlash(Append(t, NoPiece)) = t
<1>1. t \in Seq(Piece) /\ t[Len(t)] # NoPiece /\ Len(t) \in Nat /\ Len(t) >= 1
    BY ClearFacts DEF Clear
<1>2. TrimSlash(t) = t
    BY <1>1 DEF TrimSlash
<1> DEFINE s == Append(t, NoPiece)
<1>3. /\ s \in Seq(Piece) /\ Len(s) = Len(t) + 1
      /\ \A i \in 1..Len(t) : s[i] = t[i]
      /\ s[Len(t) + 1] = NoPiece
    BY <1>1, PieceFacts, AppendProperties
<1> HIDE DEF s
<1>4. TrimSlash(s) = SubSeq(s, 1, Len(t))
    BY <1>1, <1>3 DEF TrimSlash
<1>5. SubSeq(s, 1, Len(t)) = t
    <2>1. \A i \in 1..Len(t) : s[i] \in Piece
        BY <1>1, <1>3, ElementOfSeq
    <2>2. /\ SubSeq(s, 1, Len(t)) \in Seq(Piece) /\ Len(SubSeq(s, 1, Len(t))) = Len(t)
          /\ \A i \in 1..Len(t) : SubSeq(s, 1, Len(t))[i] = s[i]
        <3>1. Len(t) - 1 + 1 = Len(t) /\ \A i \in 1..Len(t) : 1 + i - 1 = i
            BY <1>1
        <3>2. QED
            BY <1>1, <2>1, <3>1, SubSeqProperties
    <2>3. QED
        BY <1>1, <1>3, <2>2, SeqEqual
<1>6. QED
    BY <1>2, <1>4, <1>5 DEF s

\* What NormalizeMatchPath makes of a clear path in any of its shapes.
LEMMA Normal ==
    ASSUME NEW t, Clear(t), NEW lead \in {<<>>, <<NoPiece>>}, NEW n \in Nat
    PROVE  /\ NormalizeMatchPath(lead \o Dotted(n) \o t) = t
           /\ NormalizeMatchPath(lead \o Dotted(n) \o Append(t, NoPiece)) = t
<1>1. t \in Seq(Piece) /\ t # <<>> /\ t[1] # NoPiece /\ t[1] # "." /\ Len(t) \in Nat /\ Len(t) >= 1
    BY ClearFacts DEF Clear
<1>2. /\ Append(t, NoPiece) \in Seq(Piece) /\ Append(t, NoPiece) # <<>>
      /\ Append(t, NoPiece)[1] = t[1]
    BY <1>1, PieceFacts, AppendProperties
<1>3. ASSUME NEW s \in Seq(Piece), s # <<>>, s[1] # NoPiece, s[1] # ".", TrimSlash(s) = t
      PROVE  NormalizeMatchPath(lead \o Dotted(n) \o s) = t
    <2>1. /\ TrimDots(Dotted(n) \o s) = s
          /\ Dotted(n) \o s \in Seq(Piece) /\ Dotted(n) \o s # <<>>
          /\ (Dotted(n) \o s)[1] # NoPiece
        BY <1>3, DotsTrimmed
    <2>2. TrimRoot(lead \o (Dotted(n) \o s)) = Dotted(n) \o s
        BY <2>1, RootTrimmed
    <2>3. lead \o Dotted(n) \o s = lead \o (Dotted(n) \o s)
        <3>1. lead \in Seq(Piece)
            <4>1. NoPiece \in Piece
                BY PieceFacts
            <4>2. <<>> \in Seq(Piece) /\ <<NoPiece>> \in Seq(Piece)
                BY <4>1
            <4>3. QED
                BY <4>2
        <3>2. Dotted(n) \in Seq(Piece)
            <4>1. "." \in Piece
                BY PieceFacts
            <4>2. QED
                BY <4>1 DEF Dotted
        <3>3. QED
            BY <3>1, <3>2, ConcatAssociative
    <2>4. QED
        BY <1>3, <2>1, <2>2, <2>3 DEF NormalizeMatchPath
<1>4. QED
    BY <1>1, <1>2, <1>3, SlashTrimmed

\* A path that is clear, as a directory or not, is normalized to itself.
LEMMA NormalPath ==
    ASSUME NEW t, Clear(t)
    PROVE  NormalizeMatchPath(t) = t /\ NormalizeMatchPath(Append(t, NoPiece)) = t
<1>1. t \in Seq(Piece) /\ t # <<>> /\ t[1] # NoPiece /\ t[1] # "." /\ Len(t) \in Nat /\ Len(t) >= 1
    BY ClearFacts DEF Clear
<1>2. /\ Append(t, NoPiece) \in Seq(Piece) /\ Append(t, NoPiece) # <<>>
      /\ Append(t, NoPiece)[1] = t[1]
    BY <1>1, PieceFacts, AppendProperties
<1>3. ASSUME NEW s \in Seq(Piece), s # <<>>, s[1] # NoPiece, s[1] # ".", TrimSlash(s) = t
      PROVE  NormalizeMatchPath(s) = t
    <2>1. 0 \in Nat /\ Dotted(0) = <<>>
        BY DEF Dotted
    <2>2. TrimDots(Dotted(0) \o s) = s
        BY <1>3, <2>1, DotsTrimmed
    <2>3. Dotted(0) \o s = s
        BY <2>1, ConcatEmptySeq
    <2>4. TrimRoot(s) = s
        BY <1>3 DEF TrimRoot
    <2>5. QED
        BY <1>3, <2>2, <2>3, <2>4 DEF NormalizeMatchPath
<1>4. QED
    BY <1>1, <1>2, <1>3, SlashTrimmed

\* Trimming on the right takes the slash, and no more.
LEMMA RightTrimmed ==
    ASSUME NEW t, Clear(t)
    PROVE  TrimRight(t) = t /\ TrimRight(Append(t, NoPiece)) = t
<1>1. /\ t \in Seq(Piece) /\ t[Len(t)] # NoPiece /\ Len(t) \in Nat /\ Len(t) >= 1
      /\ \A i \in 1..Len(t) : t[i] \in Piece
    BY ClearFacts DEF Clear
<1>2. ASSUME NEW s, Len(s) \in Nat, Len(s) >= Len(t), \A i \in 1..Len(t) : s[i] = t[i],
             \A i \in Len(t) + 1..Len(s) : s[i] = NoPiece
      PROVE  TrimRight(s) = t
    <2> DEFINE P(k) == /\ \A i \in k + 1..Len(s) : s[i] = NoPiece
                       /\ k = 1 \/ s[k] # NoPiece
    <2>1. Len(t) \in 1..Len(s) /\ P(Len(t))
        BY <1>1, <1>2
    <2>2. ASSUME NEW k \in 1..Len(s), P(k)
          PROVE  k = Len(t)
        <3>1. s[Len(t)] # NoPiece
            BY <1>1, <1>2
        <3>2. ~(k < Len(t))
            <4> SUFFICES ASSUME k < Len(t) PROVE FALSE
                OBVIOUS
            <4>1. Len(t) \in k + 1..Len(s)
                BY <1>1, <1>2
            <4>2. QED
                BY <2>2, <3>1, <4>1
        <3>3. ~(k > Len(t))
            <4> SUFFICES ASSUME k > Len(t) PROVE FALSE
                OBVIOUS
            <4>1. k \in Len(t) + 1..Len(s) /\ k # 1
                BY <1>1
            <4>2. QED
                BY <1>2, <2>2, <4>1
        <3>4. QED
            BY <1>1, <3>2, <3>3
    <2>3. (CHOOSE k \in 1..Len(s) : P(k)) = Len(t)
        <3> DEFINE c == CHOOSE k \in 1..Len(s) : P(k)
        <3>1. c \in 1..Len(s) /\ P(c)
            BY <2>1
        <3>2. QED
            BY <2>2, <3>1
    <2>4. TrimRight(s) = SubSeq(s, 1, Len(t))
        BY <2>3 DEF TrimRight
    <2>5. /\ SubSeq(s, 1, Len(t)) \in Seq(Piece) /\ Len(SubSeq(s, 1, Len(t))) = Len(t)
          /\ \A i \in 1..Len(t) : SubSeq(s, 1, Len(t))[i] = s[i]
        <3>1. 1 \in Int /\ Len(t) \in Int /\ Len(t) - 1 + 1 = Len(t) /\ \A i \in 1..Len(t) : 1 + i - 1 = i
            BY <1>1
        <3>2. \A i \in 1..Len(t) : s[i] \in Piece
            BY <1>1, <1>2
        <3>3. QED
            BY <1>1, <3>1, <3>2, SubSeqProperties
    <2>6. SubSeq(s, 1, Len(t)) = t
        BY <1>1, <1>2, <2>5, SeqEqual
    <2>7. QED
        BY <2>4, <2>6
<1>3. /\ Len(Append(t, NoPiece)) = Len(t) + 1
      /\ \A i \in 1..Len(t) : Append(t, NoPiece)[i] = t[i]
      /\ Append(t, NoPiece)[Len(t) + 1] = NoPiece
    BY <1>1, PieceFacts, AppendProperties
<1>4. TrimRight(t) = t
    BY <1>1, <1>2
<1>5. TrimRight(Append(t, NoPiece)) = t
    <2> DEFINE s == Append(t, NoPiece)
    <2>1. Len(s) = Len(t) + 1 /\ \A i \in 1..Len(t) : s[i] = t[i]
        BY <1>3
    <2> HIDE DEF s
    <2>2. Len(s) \in Nat /\ Len(s) >= Len(t)
        BY <1>1, <2>1
    <2>3. \A i \in Len(t) + 1..Len(s) : s[i] = NoPiece
        <3>1. \A i \in Len(t) + 1..Len(s) : i = Len(t) + 1
            BY <1>1, <2>1
        <3>2. s[Len(t) + 1] = NoPiece
            BY <1>3 DEF s
        <3>3. QED
            BY <3>1, <3>2
    <2>4. TrimRight(s) = t
        BY <1>2, <2>1, <2>2, <2>3
    <2>5. QED
        BY <2>4 DEF s
<1>6. QED
    BY <1>4, <1>5

\* What a directory that is wanted out takes with it.
Matched(w, path) == w.dir # <<>> /\ IF w.below THEN AtOrBelow(path, w.dir) ELSE path = w.dir
Named(in, path) == \E w \in in.wanted : Matched(w, path)

\* A pattern matches what it was written for, in whichever shape.
LEMMA ShapeMatches ==
    ASSUME NEW w, w.dir \in Seq(Segment), w.dir # <<>>, NEW s, Spells(s, w), NEW path
    PROVE  matchExcludePattern(NormalizeMatchPath(s), path) <=> Matched(w, path)
<1> DEFINE d == w.dir
           m == Len(d)
           Is(lead, n, t) == s = lead \o [i \in 1..n |-> "."] \o t
<1>1. /\ Clear(d) /\ m \in Nat /\ m >= 1
      /\ \A i \in 1..m : d[i] \in Segment
      /\ d \in Seq(Piece) /\ d[1] # NoPiece /\ d[1] # "." /\ d[m] # NoPiece
    BY DirIsClear, ClearFacts DEF Clear
<1>2. PICK lead \in {<<>>, <<NoPiece>>}, n \in 0..Len(s) :
          IF w.below
          THEN \/ Is(lead, n, Append(d, "..."))
               \/ \E e \in DOMAIN Stem : Stem[e] = d[m] /\ Is(lead, n, [d EXCEPT ![m] = e])
          ELSE Is(lead, n, d) \/ Is(lead, n, Append(d, NoPiece))
    BY DEF Spells
<1>3. n \in Nat
    OBVIOUS
<1>4. \A t : Is(lead, n, t) <=> s = lead \o Dotted(n) \o t
    BY DEF Dotted
<1> HIDE DEF Is, d, m
<1>5. ASSUME NEW t, Clear(t), Is(lead, n, t) \/ Is(lead, n, Append(t, NoPiece))
      PROVE  NormalizeMatchPath(s) = t
    <2>1. /\ NormalizeMatchPath(lead \o Dotted(n) \o t) = t
          /\ NormalizeMatchPath(lead \o Dotted(n) \o Append(t, NoPiece)) = t
        BY <1>3, <1>5, Normal
    <2>2. s = lead \o Dotted(n) \o t \/ s = lead \o Dotted(n) \o Append(t, NoPiece)
        BY <1>4, <1>5
    <2>3. QED
        BY <2>1, <2>2
<1> USE DEF d, m
<1>6. CASE ~w.below
    <2>1. NormalizeMatchPath(s) = d
        BY <1>1, <1>2, <1>5, <1>6
    <2>2. d[m] \notin DOMAIN Stem
        BY <1>1, PieceFacts
    <2>3. matchExcludePattern(d, path) <=> d = path
        BY <2>2 DEF matchExcludePattern
    <2>4. QED
        BY <1>6, <2>1, <2>3 DEF Matched
<1>7. CASE w.below /\ Is(lead, n, Append(d, "..."))
    <2> DEFINE t == Append(d, "...")
    <2>1. /\ t \in Seq(Piece) /\ t # <<>> /\ Len(t) = m + 1
          /\ \A i \in 1..m : t[i] = d[i]
          /\ t[m + 1] = "..."
        BY <1>1, PieceFacts, AppendProperties
    <2> HIDE DEF t
    <2>2. t[1] = d[1] /\ t[Len(t)] = "..."
        BY <1>1, <2>1
    <2>3. Clear(t)
        BY <1>1, <2>1, <2>2, PieceFacts DEF Clear
    <2>4. NormalizeMatchPath(s) = t
        BY <1>5, <1>7, <2>3 DEF t
    <2>5. t # <<"...">>
        <3>1. Len(t) # 1
            BY <1>1, <2>1
        <3>2. QED
            BY <3>1
    <2>6. [t EXCEPT ![Len(t)] = NoPiece] = Append(d, NoPiece)
        <3> DEFINE u == [t EXCEPT ![Len(t)] = NoPiece]
                   v == Append(d, NoPiece)
        <3>1. Len(t) \in 1..Len(t)
            BY <1>1, <2>1
        <3>2. u \in Seq(Piece) /\ Len(u) = Len(t) /\ \A i \in 1..Len(t) : u[i] = IF i = Len(t) THEN NoPiece ELSE t[i]
            BY <2>1, <3>1, PieceFacts, ExceptSeq
        <3>3. /\ v \in Seq(Piece) /\ Len(v) = m + 1
              /\ \A i \in 1..m : v[i] = d[i]
              /\ v[m + 1] = NoPiece
            BY <1>1, PieceFacts, AppendProperties
        <3> HIDE DEF u, v
        <3>4. Len(t) = m + 1 /\ m \in Nat /\ \A i \in 1..m : t[i] = d[i]
            BY <1>1, <2>1
        <3> HIDE DEF d, m
        <3>5. ASSUME NEW i \in 1..Len(u)
              PROVE  u[i] = v[i]
            <4>1. i \in 1..Len(t) /\ Len(t) = m + 1
                BY <3>2, <3>4, <3>5
            <4>2. CASE i = m + 1
                BY <3>2, <3>3, <4>1, <4>2
            <4>3. CASE i # m + 1
                <5>1. i \in 1..m
                    BY <3>4, <4>1, <4>3
                <5>2. u[i] = t[i] /\ v[i] = d[i] /\ t[i] = d[i]
                    BY <3>2, <3>3, <3>4, <4>1, <4>3, <5>1
                <5>3. QED
                    BY <5>2
            <4>4. QED
                BY <4>2, <4>3
        <3>6. Len(u) = Len(v)
            BY <3>2, <3>3, <3>4
        <3>7. u = v
            BY <3>2, <3>3, <3>5, <3>6, SeqEqual
        <3>8. QED
            BY <3>7 DEF u, v, d
    <2>7. TrimRight([t EXCEPT ![Len(t)] = NoPiece]) = d
        BY <1>1, <2>6, RightTrimmed
    <2>8. t[Len(t)] \in DOMAIN Stem /\ Stem[t[Len(t)]] = NoPiece
        BY <2>2, PieceFacts
    <2>9. matchExcludePattern(t, path) <=> AtOrBelow(path, d)
        BY <2>5, <2>7, <2>8 DEF matchExcludePattern
    <2>10. QED
        BY <1>7, <2>4, <2>9 DEF Matched
<1>8. CASE w.below /\ \E e \in DOMAIN Stem : Stem[e] = d[m] /\ Is(lead, n, [d EXCEPT ![m] = e])
    <2>1. PICK e \in DOMAIN Stem : Stem[e] = d[m] /\ Is(lead, n, [d EXCEPT ![m] = e])
        BY <1>8
    <2>2. e = "a..." /\ d[m] = "a"
        BY <1>1, <2>1, PieceFacts
    <2> DEFINE t == [d EXCEPT ![m] = e]
    <2>3. /\ t \in Seq(Piece) /\ Len(t) = m
          /\ \A i \in 1..m : t[i] = IF i = m THEN e ELSE d[i]
        <3>1. e \in Piece /\ m \in 1..Len(d)
            BY <1>1, <2>2, PieceFacts
        <3>2. QED
            BY <1>1, <3>1, ExceptSeq
    <2> HIDE DEF t
    <2>4. t[Len(t)] = e /\ (t[1] = e \/ t[1] = d[1])
        BY <1>1, <2>3
    <2>5. e # NoPiece /\ e # "." /\ e # "..."
        BY <2>2, PieceFacts
    <2>6. t # <<>>
        BY <1>1, <2>3
    <2>7. Clear(t)
        BY <1>1, <2>3, <2>4, <2>5, <2>6 DEF Clear
    <2>8. NormalizeMatchPath(s) = t
        BY <1>5, <2>1, <2>7 DEF t
    <2>9. t # <<"...">>
        BY <2>3, <2>4, <2>5
    <2>10. [t EXCEPT ![Len(t)] = d[m]] = d
        <3> DEFINE u == [t EXCEPT ![Len(t)] = d[m]]
        <3>1. Len(t) \in 1..Len(t) /\ d[m] \in Piece
            BY <1>1, <2>3, PieceFacts
        <3>2. u \in Seq(Piece) /\ Len(u) = Len(t) /\ \A i \in 1..Len(t) : u[i] = IF i = Len(t) THEN d[m] ELSE t[i]
            BY <2>3, <3>1, ExceptSeq
        <3> HIDE DEF u
        <3>3. \A i \in 1..Len(u) : u[i] = d[i]
            BY <1>1, <2>3, <3>2
        <3>4. Len(u) = Len(d) /\ d \in Seq(Piece)
            BY <1>1, <2>3, <3>2
        <3> HIDE DEF d, m
        <3>5. u = d
            BY <3>2, <3>3, <3>4, SeqEqual
        <3>6. QED
            BY <3>5 DEF u, d, m
    <2>11. TrimRight([t EXCEPT ![Len(t)] = Stem[t[Len(t)]]]) = d
        BY <1>1, <2>1, <2>4, <2>10, RightTrimmed
    <2>12. matchExcludePattern(t, path) <=> AtOrBelow(path, d)
        BY <2>1, <2>4, <2>9, <2>11 DEF matchExcludePattern
    <2>13. QED
        BY <1>8, <2>8, <2>12 DEF Matched
<1>9. QED
    BY <1>2, <1>6, <1>7, <1>8

\* A pattern of nothing but dots matches only a path like itself.
LEMMA DotsMatchNothing ==
    ASSUME NEW w, w.dir = <<>>, w.below, NEW s, Spells(s, w), NEW path, path # <<"...">>
    PROVE  ~matchExcludePattern(NormalizeMatchPath(s), path)
<1> DEFINE t == <<"...">>
<1>1. PICK lead \in {<<>>, <<NoPiece>>}, n \in 0..Len(s) :
          s = lead \o [i \in 1..n |-> "."] \o Append(w.dir, "...")
    BY DEF Spells
<1>2. n \in Nat
    OBVIOUS
<1>3. Append(w.dir, "...") = t
    OBVIOUS
<1>4. Clear(t)
    BY PieceFacts DEF Clear
<1>5. t \in Seq({"..."}) /\ Len(t) = 1 /\ t[1] = "..."
    OBVIOUS
<1> HIDE DEF t
<1>6. s = lead \o Dotted(n) \o t
    BY <1>1, <1>3 DEF Dotted
<1>7. NormalizeMatchPath(s) = t
    BY <1>2, <1>4, <1>6, Normal
<1>8. matchExcludePattern(t, path) <=> t = path
    BY <1>5 DEF matchExcludePattern, t
<1>9. QED
    BY <1>7, <1>8 DEF t

\* So the patterns of a project match what was named.
LEMMA NamedIsExcluded ==
    ASSUME NEW in \in Inputs, NEW path, path # <<"...">>
    PROVE  (\E s \in in.patterns : matchExcludePattern(NormalizeMatchPath(s), path)) <=> Named(in, path)
<1>1. /\ \A w \in in.wanted : /\ w.dir \in Seq(Segment) /\ (w.dir = <<>> => w.below)
                                 /\ \E s \in in.patterns : Spells(s, w)
      /\ \A s \in in.patterns : \E w \in in.wanted : Spells(s, w)
    BY PatternsAssumption
<1>2. ASSUME NEW s \in in.patterns, matchExcludePattern(NormalizeMatchPath(s), path)
      PROVE  Named(in, path)
    <2>1. PICK w \in in.wanted : Spells(s, w)
        BY <1>1
    <2>2. QED
        BY <1>1, <1>2, <2>1, ShapeMatches, DotsMatchNothing DEF Named
<1>3. ASSUME NEW w \in in.wanted, Matched(w, path)
      PROVE  \E s \in in.patterns : matchExcludePattern(NormalizeMatchPath(s), path)
    <2>1. PICK s \in in.patterns : Spells(s, w)
        BY <1>1
    <2>2. QED
        BY <1>1, <1>3, <2>1, ShapeMatches DEF Matched
<1>4. QED
    BY <1>2, <1>3 DEF Named

\* A clear path is excluded when it was named, as a file or a directory.
LEMMA PathExcluded ==
    ASSUME NEW in \in Inputs, NEW path, Clear(path), path # <<"...">>
    PROVE  /\ IsExcluded(in.patterns, path) <=> Named(in, path)
           /\ IsExcluded(in.patterns, Append(path, NoPiece)) <=> Named(in, path)
    BY NamedIsExcluded, NormalPath DEF IsExcluded

\* Below one module, paths compare as their rests do.
LEMMA Prefixed ==
    ASSUME NEW m, NEW d \in Seq(Piece), NEW e \in Seq(Piece)
    PROVE  /\ <<m>> \o d = <<m>> \o e <=> d = e
           /\ Under(<<m>> \o d, <<m>> \o e) <=> Under(d, e)
           /\ Under(<<m>> \o d, <<m>>) <=> d # <<>>
           /\ (<<m>> \o d)[1] = m /\ Len(<<m>> \o d) = 1 + Len(d)
           /\ Tail(<<m>> \o d) = d
<1> DEFINE T == Piece \cup {m}
           W(s) == <<m>> \o s
<1>1. ASSUME NEW s \in Seq(Piece)
      PROVE  /\ s \in Seq(T) /\ Len(s) \in Nat
             /\ W(s) \in Seq(T) /\ Len(W(s)) = 1 + Len(s) /\ W(s)[1] = m
             /\ \A i \in 1..Len(s) : W(s)[i + 1] = s[i]
    <2>1. s \in Seq(T) /\ Len(s) \in Nat
        <3>1. s \in Seq(T)
            BY SeqMonotonic
        <3>2. QED
            BY <3>1, LenProperties
    <2>2. <<m>> \in Seq(T) /\ Len(<<m>>) = 1 /\ <<m>>[1] = m
        <3>1. m \in T
            OBVIOUS
        <3> HIDE DEF T
        <3>2. QED
            BY <3>1
    <2> HIDE DEF T
    <2>3. /\ W(s) \in Seq(T) /\ Len(W(s)) = 1 + Len(s)
          /\ \A i \in 1..1 + Len(s) : W(s)[i] = IF i <= 1 THEN <<m>>[i] ELSE s[i - 1]
        BY <2>1, <2>2, ConcatProperties
    <2> HIDE DEF W
    <2>4. 1 \in 1..1 + Len(s) /\ \A i \in 1..Len(s) : i + 1 \in 1..1 + Len(s) /\ ~(i + 1 <= 1) /\ i + 1 - 1 = i
        BY <2>1
    <2>5. QED
        BY <2>1, <2>2, <2>3, <2>4
<1> HIDE DEF T, W
<1>2. /\ Len(d) \in Nat /\ Len(e) \in Nat /\ Len(W(d)) = 1 + Len(d) /\ Len(W(e)) = 1 + Len(e)
      /\ W(d)[1] = m /\ W(e)[1] = m
      /\ \A i \in 1..Len(d) : W(d)[i + 1] = d[i]
      /\ \A i \in 1..Len(e) : W(e)[i + 1] = e[i]
    BY <1>1
<1>3. W(d) = W(e) <=> d = e
    <2>1. ASSUME W(d) = W(e)
          PROVE  d = e
        <3>1. Len(d) = Len(e)
            BY <1>2, <2>1
        <3>2. \A i \in 1..Len(d) : d[i] = e[i]
            BY <1>2, <2>1, <3>1
        <3>3. QED
            BY <3>1, <3>2, SeqEqual
    <2>2. QED
        BY <2>1
<1>4. Under(W(d), W(e)) <=> Under(d, e)
    <2>1. ASSUME Under(W(d), W(e))
          PROVE  Under(d, e)
        <3>1. Len(d) > Len(e) /\ \A i \in 1..1 + Len(e) : W(d)[i] = W(e)[i]
            BY <1>2, <2>1 DEF Under
        <3>2. ASSUME NEW i \in 1..Len(e)
              PROVE  d[i] = e[i]
            <4>1. i + 1 \in 1..1 + Len(e) /\ i \in 1..Len(d)
                BY <1>2, <3>1
            <4>2. QED
                BY <1>2, <3>1, <4>1
        <3>3. QED
            BY <3>1, <3>2 DEF Under
    <2>2. ASSUME Under(d, e)
          PROVE  Under(W(d), W(e))
        <3>1. Len(W(d)) > Len(W(e))
            BY <1>2, <2>2 DEF Under
        <3>2. ASSUME NEW i \in 1..1 + Len(e)
              PROVE  W(d)[i] = W(e)[i]
            <4>1. CASE i = 1
                BY <1>2, <4>1
            <4>2. CASE i # 1
                <5>1. PICK j \in 1..Len(e) : i = j + 1
                    <6>1. i - 1 \in 1..Len(e) /\ i = (i - 1) + 1
                        BY <1>2, <4>2
                    <6>2. QED
                        BY <6>1
                <5>2. j \in 1..Len(d) /\ d[j] = e[j]
                    BY <1>2, <2>2 DEF Under
                <5>3. QED
                    BY <1>2, <5>1, <5>2
            <4>3. QED
                BY <4>1, <4>2
        <3>3. QED
            BY <1>2, <3>1, <3>2 DEF Under
    <2>3. QED
        BY <2>1, <2>2
<1>5. Under(W(d), <<m>>) <=> d # <<>>
    <2>1. Len(<<m>>) = 1 /\ <<m>>[1] = m /\ \A i \in 1..1 : i = 1
        OBVIOUS
    <2>2. d # <<>> <=> Len(d) > 0
        <3>1. d # <<>> => Len(d) \in Nat \ {0}
            BY EmptySeq
        <3>2. d = <<>> => Len(d) = 0
            OBVIOUS
        <3>3. QED
            BY <1>2, <3>1, <3>2
    <2>3. QED
        BY <1>2, <2>1, <2>2 DEF Under
<1>6. Tail(W(d)) = d
    <2>1. W(d) \in Seq(T) /\ d \in Seq(T) /\ W(d) # <<>>
        BY <1>1, <1>2
    <2>2. Tail(W(d)) \in Seq(T) /\ Len(Tail(W(d))) = Len(W(d)) - 1 /\ \A i \in 1..Len(Tail(W(d))) : Tail(W(d))[i] = W(d)[i + 1]
        BY <2>1, HeadTailProperties
    <2>3. Len(Tail(W(d))) = Len(d) /\ \A i \in 1..Len(d) : Tail(W(d))[i] = d[i]
        BY <1>2, <2>2
    <2>4. QED
        BY <2>1, <2>2, <2>3, SeqEqual
<1>7. QED
    BY <1>2, <1>3, <1>4, <1>5, <1>6 DEF W

\* What is meant to be left out is what is named below the module.
LEMMA MeantIsNamed ==
    ASSUME NEW in \in Inputs, NEW d \in Seq(Piece)
    PROVE  MeantOut(in, <<in.module>> \o d) <=> Named(in, d)
<1>1. \A w \in in.wanted : w.dir \in Seq(Segment)
    BY PatternsAssumption
<1>2. \A w \in in.wanted : w.dir \in Seq(Piece)
    BY <1>1, PieceFacts, SeqMonotonic
<1>3. \A w \in in.wanted :
          /\ <<in.module>> \o d = <<in.module>> \o w.dir <=> d = w.dir
          /\ Under(<<in.module>> \o d, <<in.module>> \o w.dir) <=> Under(d, w.dir)
    <2> DEFINE m == in.module
    <2> HIDE DEF m
    <2>1. SUFFICES ASSUME NEW w \in in.wanted
                   PROVE  /\ <<m>> \o d = <<m>> \o w.dir <=> d = w.dir
                          /\ Under(<<m>> \o d, <<m>> \o w.dir) <=> Under(d, w.dir)
        BY DEF m
    <2> DEFINE e == w.dir
    <2>2. e \in Seq(Piece)
        BY <1>2
    <2> HIDE DEF e
    <2>3. /\ <<m>> \o d = <<m>> \o e <=> d = e
          /\ Under(<<m>> \o d, <<m>> \o e) <=> Under(d, e)
        BY <2>2, Prefixed
    <2>4. QED
        BY <2>3 DEF e
<1>4. QED
    BY <1>3 DEF MeantOut, Named, Matched, AtOrBelow

\* A path is that of the module followed by a path below it, or it is outside.
LEMMA BelowModule ==
    ASSUME NEW p \in Seq(Segment), NEW m, Under(p, <<m>>)
    PROVE  /\ Tail(p) \in Seq(Segment) /\ Tail(p) # <<>>
           /\ p = <<m>> \o Tail(p)
           /\ SubSeq(p, 2, Len(p)) = Tail(p)
<1>1. Len(p) \in Nat /\ Len(p) > 1 /\ p[1] = m
    <2>1. Len(<<m>>) = 1 /\ <<m>>[1] = m
        OBVIOUS
    <2>2. QED
        BY <2>1, LenProperties DEF Under
<1>2. p # <<>>
    BY <1>1
<1>3. /\ Tail(p) \in Seq(Segment) /\ Len(Tail(p)) = Len(p) - 1
      /\ \A i \in 1..Len(Tail(p)) : Tail(p)[i] = p[i + 1]
    BY <1>2, HeadTailProperties
<1>4. Tail(p) # <<>>
    <2> SUFFICES ASSUME Tail(p) = <<>> PROVE FALSE
        OBVIOUS
    <2>1. Len(Tail(p)) > 0
        BY <1>1, <1>3
    <2> DEFINE t == Tail(p)
    <2> HIDE DEF t
    <2>2. Len(t) > 0 /\ t = <<>>
        BY <2>1 DEF t
    <2>3. QED
        BY <2>2
<1>5. m \in Segment
    BY <1>1, ElementOfSeq
<1>6. p = <<m>> \o Tail(p)
    <2> DEFINE t == Tail(p)
               s == <<m>> \o t
    <2>1. <<m>> \in Seq(Segment) /\ Len(<<m>>) = 1 /\ <<m>>[1] = m
        BY <1>5
    <2>2. /\ s \in Seq(Segment) /\ Len(s) = 1 + Len(t)
          /\ \A i \in 1..1 + Len(t) : s[i] = IF i <= 1 THEN <<m>>[i] ELSE t[i - 1]
        BY <1>3, <2>1, ConcatProperties
    <2> HIDE DEF s, t
    <2>3. ASSUME NEW i \in 1..Len(p)
          PROVE  s[i] = p[i]
        <3>1. CASE i = 1
            BY <1>1, <2>1, <2>2, <1>3, <3>1 DEF t
        <3>2. CASE i # 1
            <4>1. i - 1 \in 1..Len(t) /\ ~(i <= 1) /\ i \in 1..1 + Len(t) /\ (i - 1) + 1 = i
                BY <1>1, <1>3, <3>2 DEF t
            <4>2. s[i] = t[i - 1]
                BY <2>2, <4>1
            <4>3. t[i - 1] = p[(i - 1) + 1]
                BY <1>3, <4>1 DEF t
            <4>4. QED
                BY <4>1, <4>2, <4>3
        <3>3. QED
            BY <3>1, <3>2
    <2>4. Len(s) = Len(p)
        BY <1>1, <1>3, <2>2 DEF t
    <2>5. s = p
        BY <2>2, <2>3, <2>4, SeqEqual
    <2>6. QED
        BY <2>5 DEF s, t
<1>7. QED
    BY <1>2, <1>3, <1>4, <1>6, TailIsSubSeq

\* No path of segments is written as three dots.
LEMMA NoDots ==
    ASSUME NEW d \in Seq(Segment)
    PROVE  d # <<"...">>
<1> SUFFICES ASSUME d = <<"...">> PROVE FALSE
    OBVIOUS
<1>1. Len(d) = 1 /\ d[1] = "..." /\ d[1] \in Segment
    BY ElementOfSeq
<1>2. QED
    BY <1>1, PieceFacts

\* The import rules leave out what was meant to be.
LEMMA ExcludedIsMeant ==
    ASSUME NEW in \in Inputs, NEW p \in Loaded(in)
    PROVE  p \in in.excluded <=> MeantOut(in, p)
<1> DEFINE m == in.module
           path == ProjectRelative(m, p)
<1>1. p \in Seq(Segment) /\ p # <<>>
    BY InputFacts, PathFacts
<1>2. p \in in.excluded <=> IsExcluded(in.patterns, path)
    BY PatternsAssumption DEF ExcludedPackages
<1>3. \A w \in in.wanted : w.dir \in Seq(Segment)
    BY PatternsAssumption
<1>4. CASE m # NoPiece /\ Under(p, <<m>>)
    <2>1. Len(p) > 1 /\ Len(<<m>>) = 1
        BY <1>4 DEF Under
    <2>2. p # <<m>>
        <3> SUFFICES ASSUME p = <<m>> PROVE FALSE
            OBVIOUS
        <3>1. Len(p) = 1
            BY <2>1
        <3>2. QED
            BY <2>1, <3>1
    <2>3. path = SubSeq(p, 2, Len(p))
        BY <1>4, <2>2, Zenon DEF ProjectRelative, NoPiece
    <2>4. path = Tail(p) /\ Tail(p) \in Seq(Segment) /\ Tail(p) # <<>> /\ p = <<m>> \o Tail(p)
        BY <1>1, <1>4, <2>3, BelowModule
    <2>5. Clear(Tail(p)) /\ Tail(p) \in Seq(Piece)
        BY <2>4, DirIsClear DEF Clear
    <2>6. IsExcluded(in.patterns, path) <=> Named(in, Tail(p))
        BY <2>4, <2>5, PathExcluded, NoDots
    <2>7. MeantOut(in, p) <=> Named(in, Tail(p))
        BY <2>4, <2>5, MeantIsNamed
    <2>8. QED
        BY <1>2, <2>6, <2>7
<1>5. CASE ~(m # NoPiece /\ Under(p, <<m>>))
    <2>1. path \in {<<NoPiece>>, <<".">>}
        BY <1>5, Zenon DEF ProjectRelative, NoPiece
    <2>2. ASSUME NEW w \in in.wanted, Matched(w, path)
          PROVE  FALSE
        <3>1. Clear(w.dir) /\ Len(w.dir) \in Nat /\ Len(w.dir) >= 1
            BY <1>3, <2>2, DirIsClear, ClearFacts DEF Matched
        <3>2. Len(path) = 1 /\ path[1] \in {NoPiece, "."}
            BY <2>1
        <3>3. path # w.dir
            BY <3>1, <3>2 DEF Clear
        <3>4. ~Under(path, w.dir)
            BY <3>1, <3>2 DEF Under
        <3>5. QED
            BY <2>2, <3>3, <3>4 DEF Matched, AtOrBelow
    <2>3. NormalizeMatchPath(path) = path
        <3>1. ASSUME NEW x \in {NoPiece, "."}
              PROVE  NormalizeMatchPath(<<x>>) = <<x>>
            <4> DEFINE s == <<x>>
                       P(k) == /\ \A i \in 1..k : s[i] = "."
                               /\ k = Len(s) - 1 \/ s[k + 1] # "."
            <4>1. Len(s) = 1 /\ s \in Seq({x}) /\ s[1] = x
                OBVIOUS
            <4> HIDE DEF s
            <4>2. TrimRoot(s) = s /\ TrimSlash(s) = s
                BY <4>1 DEF TrimRoot, TrimSlash
            <4>3. \A k \in 0..Len(s) - 1 : k = 0
                BY <4>1
            <4>4. 0 \in 0..Len(s) - 1 /\ P(0)
                BY <4>1
            <4>5. (CHOOSE k \in 0..Len(s) - 1 : P(k)) = 0
                <5> DEFINE c == CHOOSE k \in 0..Len(s) - 1 : P(k)
                <5>1. c \in 0..Len(s) - 1
                    BY <4>4
                <5>2. QED
                    BY <4>3, <5>1
            <4>6. TrimDots(s) = SubSeq(s, 0 + 1, Len(s))
                BY <4>5 DEF TrimDots
            <4>7. SubSeq(s, 0 + 1, Len(s)) = s
                BY <4>1
            <4>8. QED
                BY <4>2, <4>6, <4>7 DEF NormalizeMatchPath, s
        <3>2. QED
            BY <2>1, <3>1
    <2>4. ~IsExcluded(in.patterns, path)
        <3>1. path # <<"...">>
            BY <2>1, PieceFacts
        <3>2. QED
            BY <2>2, <2>3, <3>1, NamedIsExcluded DEF IsExcluded, Named
    <2>5. ASSUME NEW w \in in.wanted, w.dir # <<>>,
                 p = <<m>> \o w.dir \/ Under(p, <<m>> \o w.dir)
          PROVE  FALSE
        <3>1. w.dir \in Seq(Piece) /\ w.dir # <<>>
            BY <1>3, <2>5, DirIsClear DEF Clear
        <3>2. /\ Under(<<m>> \o w.dir, <<m>>) /\ Len(<<m>> \o w.dir) = 1 + Len(w.dir)
              /\ (<<m>> \o w.dir)[1] = m /\ Len(w.dir) \in Nat
            BY <3>1, Prefixed, LenProperties
        <3>3. Len(p) > 1 /\ p[1] = m /\ Len(p) \in Nat
            <4>1. Len(<<m>>) = 1
                OBVIOUS
            <4>2. Len(p) \in Nat
                BY <1>1, LenProperties
            <4>3. QED
                BY <2>5, <3>2, <4>1, <4>2 DEF Under
        <3>4. Under(p, <<m>>)
            <4>1. Len(<<m>>) = 1 /\ <<m>>[1] = m
                OBVIOUS
            <4>2. QED
                BY <3>3, <4>1 DEF Under
        <3>5. p[1] \in Segment
            BY <1>1, <3>3, ElementOfSeq
        <3>6. m # NoPiece
            BY <3>3, <3>5, PieceFacts
        <3>7. QED
            BY <1>5, <3>4, <3>6
    <2>6. ~MeantOut(in, p)
        BY <2>5 DEF MeantOut
    <2>7. QED
        BY <1>2, <2>4, <2>6
<1>6. QED
    BY <1>4, <1>5

\* The import rules report what they would without the patterns, but for the
\* packages that were meant.
LEMMA InvariantExcludes == IInv => ExclusionIsExact
<1> SUFFICES ASSUME IInv, rule = "done", NEW r \in Rules, Ran(r),
                    NEW p \in Loaded(input), NEW q \in input.imports[p]
             PROVE  Reported(r, p, q) <=>
                        /\ ~MeantOut(input, p)
                        /\ Inspects([input EXCEPT !.excluded = {}], r, p)
                        /\ Verdict(input, r, p, q) # Allowed
    BY DEF ExclusionIsExact
<1>1. Reported(r, p, q) <=> Inspects(input, r, p) /\ Verdict(input, r, p, q) # Allowed
    BY ReportedExactly
<1>2. p \in input.excluded <=> MeantOut(input, p)
    BY ExcludedIsMeant DEF IInv
<1> DEFINE all == [input EXCEPT !.excluded = {}]
<1>3. all.arch = input.arch /\ all.module = input.module
    OBVIOUS
<1>4. p \notin all.excluded
    <2>1. "excluded" \in DOMAIN input
        BY PatternsAssumption DEF IInv
    <2>2. QED
        BY <2>1
<1> HIDE DEF all
<1>5. Inspects(all, r, p) /\ p \notin input.excluded <=> Inspects(input, r, p)
    BY <1>3, <1>4 DEF Inspects, IsInternal, ClassOf
<1>6. QED
    BY <1>1, <1>2, <1>5 DEF all
-----------------------------------------------------------------------------
(* Directories                                                             *)

\* The beginning of a path, and the path itself as the longest one.
LEMMA Beginning ==
    ASSUME NEW S, NEW d \in Seq(S), NEW k \in 1..Len(d)
    PROVE  /\ SubSeq(d, 1, k) \in Seq(S) /\ Len(SubSeq(d, 1, k)) = k
           /\ \A i \in 1..k : SubSeq(d, 1, k)[i] = d[i]
           /\ SubSeq(d, 1, k) # <<>>
           /\ SubSeq(d, 1, Len(d)) = d
<1>1. Len(d) \in Nat /\ k \in Nat /\ k >= 1 /\ k <= Len(d)
    <2>1. Len(d) \in Nat
        BY LenProperties
    <2>2. QED
        BY <2>1
<1>2. \A i \in 1..Len(d) : d[i] \in S
    BY ElementOfSeq
<1>3. ASSUME NEW j \in 1..Len(d)
      PROVE  SubSeq(d, 1, j) \in Seq(S) /\ Len(SubSeq(d, 1, j)) = j /\ \A i \in 1..j : SubSeq(d, 1, j)[i] = d[i]
    <2>1. j \in Nat /\ 1 <= j /\ j - 1 + 1 = j /\ (\A i \in 1..j : 1 + i - 1 = i) /\ \A i \in 1..j : d[i] \in S
        BY <1>1, <1>2
    <2>2. QED
        BY <1>1, <2>1, SubSeqProperties
<1>4. SubSeq(d, 1, Len(d)) = d
    <2>1. Len(d) \in 1..Len(d)
        BY <1>1
    <2>2. SubSeq(d, 1, Len(d)) \in Seq(S) /\ Len(SubSeq(d, 1, Len(d))) = Len(d) /\ \A i \in 1..Len(d) : SubSeq(d, 1, Len(d))[i] = d[i]
        BY <1>3, <2>1
    <2>3. QED
        BY <2>2, SeqEqual
<1>5. SubSeq(d, 1, k) # <<>>
    <2> DEFINE e == SubSeq(d, 1, k)
    <2>1. Len(e) = k
        BY <1>3
    <2> HIDE DEF e
    <2>2. e # <<>>
        BY <1>1, <2>1
    <2>3. QED
        BY <2>2 DEF e
<1>6. QED
    BY <1>3, <1>4, <1>5

\* The directories of a project are paths below its root.
LEMMA DirectoryFacts ==
    ASSUME NEW in \in Inputs
    PROVE  /\ \A d \in GoDirs(in) : d \in Seq(Segment)
           /\ \A d \in Directories(in) : d \in Seq(Segment) /\ d # <<>>
           /\ \A f \in LooseFiles(in) : Clear(f) /\ f # <<"...">>
<1>1. ASSUME NEW d \in GoDirs(in)
      PROVE  d \in Seq(Segment)
    <2>1. PICK p \in Loaded(in) : d = Tail(p)
        BY DEF GoDirs
    <2>2. p \in Seq(Segment) /\ p # <<>>
        BY InputFacts, PathFacts
    <2>3. QED
        BY <2>1, <2>2, HeadTailProperties
<1>2. ASSUME NEW d \in Directories(in)
      PROVE  d \in Seq(Segment) /\ d # <<>>
    <2>1. PICK e \in GoDirs(in) : \E k \in 1..Len(e) : d = SubSeq(e, 1, k)
        BY DEF Directories
    <2>2. e \in Seq(Segment)
        BY <1>1
    <2>3. QED
        BY <2>1, <2>2, Beginning
<1>3. ASSUME NEW f \in LooseFiles(in)
      PROVE  Clear(f) /\ f # <<"...">>
    <2> DEFINE r == in.arch.root
    <2>1. f = Append(r, AnyFile)
        BY DEF LooseFiles
    <2>2. r \in Seq(Segment) /\ r # <<>>
        <3>1. r \in Seq(Segment) /\ Len(r) >= 1
            BY InputFacts
        <3> HIDE DEF r
        <3>2. QED
            BY <3>1
    <2>3. Clear(r) /\ Len(r) \in Nat /\ Len(r) >= 1
        BY <2>2, DirIsClear, ClearFacts
    <2> HIDE DEF r
    <2>4. AnyFile \in Piece /\ r \in Seq(Piece) /\ r[1] \notin {NoPiece, "."}
        BY <2>3, PieceFacts DEF Clear
    <2>5. f \in Seq(Piece) /\ Len(f) = Len(r) + 1 /\ f[1] = r[1] /\ f[Len(r) + 1] = AnyFile
        BY <2>1, <2>3, <2>4, AppendProperties
    <2>6. f # <<>>
        BY <2>3, <2>5
    <2>7. f[Len(f)] # NoPiece
        BY <2>5, PieceFacts
    <2>8. Len(<<"...">>) = 1 /\ Len(f) # 1
        BY <2>3, <2>5
    <2>9. QED
        BY <2>4, <2>5, <2>6, <2>7, <2>8 DEF Clear
<1>4. QED
    BY <1>1, <1>2, <1>3

\* S, of a rule's findings T without patterns, is what the patterns leave.
Leaves(in, S, T) == S = {f \in T : ~Loses(in, f)}

\* A directory on its own is lost exactly when it is named.
LEMMA DirectoryLost ==
    ASSUME NEW in \in Inputs, NEW d, Clear(d), d # <<"...">>
    PROVE  /\ ExcludedDir(in, d) <=> Named(in, d)
           /\ IsExcluded(in.patterns, d) <=> Named(in, d)
           /\ MeantOut(in, <<in.module>> \o d) <=> Named(in, d)
    BY PathExcluded, MeantIsNamed DEF ExcludedDir, Clear

\* The project as a whole cannot be named.
LEMMA RootKept ==
    ASSUME NEW in \in Inputs
    PROVE  ~MeantOut(in, <<in.module>> \o <<>>)
<1>1. <<>> \in Seq(Piece)
    OBVIOUS
<1>2. ASSUME NEW w \in in.wanted, Matched(w, <<>>)
      PROVE  FALSE
    <2> DEFINE v == w.dir
    <2>1. v \in Seq(Segment) /\ v # <<>>
        BY <1>2, PatternsAssumption DEF Matched
    <2>2. AtOrBelow(<<>>, v)
        BY <1>2 DEF Matched, AtOrBelow
    <2> HIDE DEF v
    <2>3. Len(v) \in Nat /\ Len(<<>>) = 0
        BY <2>1, LenProperties
    <2>4. QED
        BY <2>1, <2>2, <2>3 DEF AtOrBelow, Under
<1>3. QED
    BY <1>1, <1>2, MeantIsNamed DEF Named

\* Under a root of one directory, a walk loses what is named or below it.
LEMMA WalkLoses ==
    ASSUME NEW in \in Inputs, Len(in.arch.root) = 1, NEW d \in GoDirs(in)
    PROVE  WalkRel(in, d) = d /\ (Pruned(in, d) <=> Unreached(in, d))
<1>1. d \in Seq(Segment) /\ Len(d) \in Nat
    BY DirectoryFacts, LenProperties
<1>2. WalkRel(in, d) = d
    <2>1. CASE d = <<>>
        BY <2>1 DEF WalkRel
    <2>2. CASE d # <<>>
        <3>1. Len(d) \in 1..Len(d)
            BY <1>1, <2>2
        <3>2. QED
            BY <1>1, <3>1, Beginning DEF WalkRel
    <2>3. QED
        BY <2>1, <2>2
<1>3. ASSUME NEW k \in 1..Len(d)
      PROVE  ExcludedDir(in, SubSeq(d, 1, k)) <=> MeantOut(in, <<in.module>> \o SubSeq(d, 1, k))
    <2>1. SubSeq(d, 1, k) \in Seq(Segment) /\ SubSeq(d, 1, k) # <<>>
        BY <1>1, Beginning
    <2>2. QED
        BY <2>1, DirIsClear, DirectoryLost, NoDots
<1>4. QED
    BY <1>2, <1>3 DEF Pruned, Unreached

\* Without patterns the walks see the same directories and lose none.
LEMMA WithoutPatterns ==
    ASSUME NEW in \in Inputs
    PROVE  LET all == [in EXCEPT !.patterns = {}]
           IN  /\ all.arch = in.arch /\ GoDirs(all) = GoDirs(in) /\ Directories(all) = Directories(in)
               /\ LooseFiles(all) = LooseFiles(in) /\ (hasInternalDir(all) <=> hasInternalDir(in))
               /\ DomainEntries(all) = DomainEntries(in)
               /\ \A d : ~ExcludedDir(all, d) /\ ~IsExcluded(all.patterns, d) /\ ~Pruned(all, d)
               /\ \A d, k : Entry(all, d, k) <=> Entry(in, d, k)
               /\ \A d : WalkRel(all, d) = WalkRel(in, d) /\ (HasModel(all, d) <=> HasModel(in, d))
               /\ \A d, n : isMisplacedLayerDir(all, d, n) <=> isMisplacedLayerDir(in, d, n)
<1> DEFINE all == [in EXCEPT !.patterns = {}]
<1>1. all.arch = in.arch /\ all.module = in.module /\ all.pkgs = in.pkgs
    OBVIOUS
<1>2. all.patterns = {}
    <2>1. "patterns" \in DOMAIN in
        BY PatternsAssumption
    <2>2. QED
        BY <2>1
<1> HIDE DEF all
<1>3. GoDirs(all) = GoDirs(in)
    BY <1>1 DEF GoDirs, Loaded
<1>4. Directories(all) = Directories(in)
    BY <1>3 DEF Directories
<1>5. \A d, k : Entry(all, d, k) <=> Entry(in, d, k)
    BY <1>1 DEF Entry
<1>6. DomainEntries(all) = DomainEntries(in)
    BY <1>1, <1>4, <1>5 DEF DomainEntries
<1>7. LooseFiles(all) = LooseFiles(in) /\ (hasInternalDir(all) <=> hasInternalDir(in))
    BY <1>1, <1>3, <1>4 DEF LooseFiles, hasInternalDir
<1>8. \A d : ~ExcludedDir(all, d) /\ ~IsExcluded(all.patterns, d) /\ ~Pruned(all, d)
    BY <1>2 DEF ExcludedDir, IsExcluded, Pruned
<1>9. \A d : WalkRel(all, d) = WalkRel(in, d) /\ (HasModel(all, d) <=> HasModel(in, d))
    BY <1>1, <1>3 DEF WalkRel, HasModel
<1>10. \A d, n : isMisplacedLayerDir(all, d, n) <=> isMisplacedLayerDir(in, d, n)
    BY <1>1 DEF isMisplacedLayerDir, matchesDomainLayer
<1>11. QED
    BY <1>1, <1>3, <1>4, <1>5, <1>6, <1>7, <1>8, <1>9, <1>10 DEF all

\* Findings that say only that a rule did not run are left alone.
LEMMA MetaLeaves ==
    ASSUME NEW in \in Inputs
    PROVE  Leaves(in, Unsupported, Unsupported) /\ Leaves(in, Disabled, Disabled)
<1>1. \A f \in Unsupported \cup Disabled : f.dir = <<>> /\ f.id \notin WalkRules
    BY DEF Unsupported, Disabled, Misplacement, WalkRules
<1>2. \A f \in Unsupported \cup Disabled : ~Loses(in, f)
    BY <1>1, RootKept DEF Loses
<1>3. QED
    BY <1>2 DEF Leaves

\* What the patterns leave of each rule's findings.
LEMMA TopLevelLeaves ==
    ASSUME NEW in \in Inputs
    PROVE  Leaves(in, InternalTopLevel(in), InternalTopLevel([in EXCEPT !.patterns = {}]))
<1> DEFINE all == [in EXCEPT !.patterns = {}]
           At(d) == Misplacement("structural.internal-top-level", d)
           C == {e \in Directories(in) : Entry(in, e, 1) /\ <<Name(e)>> \notin in.arch.topLevel} \cup LooseFiles(in)
           S == {At(d) : d \in {e \in C : ~Named(in, e)}}
           T == {At(d) : d \in C}
<1>1. /\ all.arch = in.arch /\ Directories(all) = Directories(in)
      /\ LooseFiles(all) = LooseFiles(in) /\ (hasInternalDir(all) <=> hasInternalDir(in))
      /\ \A d : ~ExcludedDir(all, d) /\ ~IsExcluded(all.patterns, d)
      /\ \A d : Entry(all, d, 1) <=> Entry(in, d, 1)
    BY WithoutPatterns
<1> HIDE DEF all
<1>2. \A d \in C : Clear(d) /\ d # <<"...">>
    BY DirectoryFacts, DirIsClear, NoDots
<1>3. \A d \in C : /\ ExcludedDir(in, d) <=> Named(in, d)
                   /\ IsExcluded(in.patterns, d) <=> Named(in, d)
                   /\ MeantOut(in, <<in.module>> \o d) <=> Named(in, d)
    BY <1>2, DirectoryLost
<1>4. CASE ~hasInternalDir(in)
    <2>1. InternalTopLevel(in) = Unsupported /\ InternalTopLevel(all) = Unsupported
        BY <1>1, <1>4 DEF InternalTopLevel
    <2>2. QED
        BY <2>1, MetaLeaves DEF all
<1>5. CASE hasInternalDir(in)
    <2>1. {e \in Directories(in) : Entry(in, e, 1) /\ ~ExcludedDir(in, e) /\ <<Name(e)>> \notin in.arch.topLevel}
              \cup {f \in LooseFiles(in) : ~IsExcluded(in.patterns, f)} = {e \in C : ~Named(in, e)}
        BY <1>3
    <2>2. {e \in Directories(all) : Entry(all, e, 1) /\ ~ExcludedDir(all, e) /\ <<Name(e)>> \notin all.arch.topLevel}
              \cup {f \in LooseFiles(all) : ~IsExcluded(all.patterns, f)} = C
        BY <1>1
    <2>3. InternalTopLevel(in) = S
        BY <1>5, <2>1 DEF InternalTopLevel
    <2>4. InternalTopLevel(all) = T
        BY <1>1, <1>5, <2>2 DEF InternalTopLevel
    <2> HIDE DEF C
    <2>5. \A d \in C : At(d).dir = d /\ At(d).id \notin WalkRules
        BY DEF Misplacement, WalkRules
    <2>6. \A d \in C : Loses(in, At(d)) <=> Named(in, d)
        BY <1>3, <2>5 DEF Loses
    <2>7. S = {f \in T : ~Loses(in, f)}
        BY <2>6
    <2>8. QED
        BY <2>3, <2>4, <2>7 DEF Leaves, all
<1>6. QED
    BY <1>4, <1>5

LEMMA ModelLeaves ==
    ASSUME NEW in \in Inputs
    PROVE  Leaves(in, ModelRequired(in), ModelRequired([in EXCEPT !.patterns = {}]))
<1> DEFINE all == [in EXCEPT !.patterns = {}]
           At(d) == Misplacement("structural.domain-model-required", d)
           C == {e \in DomainEntries(in) : ~HasModel(in, e)}
           S == {At(d) : d \in {e \in C : ~Named(in, e)}}
           T == {At(d) : d \in C}
<1>1. /\ all.arch = in.arch /\ DomainEntries(all) = DomainEntries(in)
      /\ (hasInternalDir(all) <=> hasInternalDir(in))
      /\ \A d : ~ExcludedDir(all, d)
      /\ \A d : HasModel(all, d) <=> HasModel(in, d)
    BY WithoutPatterns
<1> HIDE DEF all
<1>2. \A d \in C : Clear(d) /\ d # <<"...">>
    BY DirectoryFacts, DirIsClear, NoDots DEF DomainEntries
<1>3. \A d \in C : /\ ExcludedDir(in, d) <=> Named(in, d)
                   /\ MeantOut(in, <<in.module>> \o d) <=> Named(in, d)
    BY <1>2, DirectoryLost
<1>4. CASE ~hasInternalDir(in) \/ in.arch.domainDir = NoDir \/ ~in.arch.requireModel
    <2>1. /\ ModelRequired(in) = ModelRequired(all)
          /\ ModelRequired(in) \in {Unsupported, Disabled}
        BY <1>1, <1>4 DEF ModelRequired
    <2>2. QED
        BY <2>1, MetaLeaves DEF all
<1>5. CASE ~(~hasInternalDir(in) \/ in.arch.domainDir = NoDir \/ ~in.arch.requireModel)
    <2>1. {e \in DomainEntries(in) : ~ExcludedDir(in, e) /\ ~HasModel(in, e)} = {e \in C : ~Named(in, e)}
        BY <1>3
    <2>2. {e \in DomainEntries(all) : ~ExcludedDir(all, e) /\ ~HasModel(all, e)} = C
        BY <1>1
    <2>3. ModelRequired(in) = S
        BY <1>5, <2>1 DEF ModelRequired
    <2>4. ModelRequired(all) = T
        BY <1>1, <1>5, <2>2 DEF ModelRequired
    <2> HIDE DEF C
    <2>5. \A d \in C : At(d).dir = d /\ At(d).id \notin WalkRules
        BY DEF Misplacement, WalkRules
    <2>6. \A d \in C : Loses(in, At(d)) <=> Named(in, d)
        BY <1>3, <2>5 DEF Loses
    <2>7. S = {f \in T : ~Loses(in, f)}
        BY <2>6
    <2>8. QED
        BY <2>3, <2>4, <2>7 DEF Leaves, all
<1>6. QED
    BY <1>4, <1>5

\* The directories a walk visits, with and without patterns.
LEMMA WalkedFacts ==
    ASSUME NEW in \in Inputs, Len(in.arch.root) = 1
    PROVE  LET all == [in EXCEPT !.patterns = {}]
           IN  /\ Walked(in) = {d \in Walked(all) : ~Unreached(in, d)}
               /\ \A d \in Walked(all) : WalkRel(in, d) = d
<1> DEFINE all == [in EXCEPT !.patterns = {}]
<1>1. GoDirs(all) = GoDirs(in) /\ all.arch = in.arch /\ \A d : ~Pruned(all, d)
    BY WithoutPatterns
<1> HIDE DEF all
<1>2. Walked(all) = {d \in GoDirs(in) : Under(d, in.arch.root)}
    BY <1>1 DEF Walked
<1>3. \A d \in GoDirs(in) : WalkRel(in, d) = d /\ (Pruned(in, d) <=> Unreached(in, d))
    BY WalkLoses
<1>4. QED
    BY <1>2, <1>3 DEF Walked, all

LEMMA PlacementLeaves ==
    ASSUME NEW in \in Inputs, Len(in.arch.root) = 1
    PROVE  Leaves(in, LayerPlacement(in), LayerPlacement([in EXCEPT !.patterns = {}]))
<1> DEFINE all == [in EXCEPT !.patterns = {}]
           At(d) == Misplacement("structural.misplaced-layer", d)
           Wrong(d) == isMisplacedLayerDir(in, d, Name(d))
           S == {At(d) : d \in {e \in Walked(in) : Wrong(e)}}
           T == {At(d) : d \in {e \in Walked(all) : Wrong(e)}}
<1>1. /\ (hasInternalDir(all) <=> hasInternalDir(in)) /\ \A d : WalkRel(all, d) = WalkRel(in, d)
      /\ \A d, n : isMisplacedLayerDir(all, d, n) <=> isMisplacedLayerDir(in, d, n)
    BY WithoutPatterns
<1>2. /\ Walked(in) = {d \in Walked(all) : ~Unreached(in, d)}
      /\ \A d \in Walked(all) : WalkRel(in, d) = d
    BY WalkedFacts
<1> HIDE DEF all
<1>3. CASE ~hasInternalDir(in)
    <2>1. LayerPlacement(in) = Unsupported /\ LayerPlacement(all) = Unsupported
        BY <1>1, <1>3 DEF LayerPlacement
    <2>2. QED
        BY <2>1, MetaLeaves DEF all
<1>4. CASE hasInternalDir(in)
    <2>1. LayerPlacement(in) = S
        BY <1>2, <1>4 DEF LayerPlacement
    <2>2. LayerPlacement(all) = T
        BY <1>1, <1>2, <1>4 DEF LayerPlacement
    <2>3. \A d : At(d).dir = d /\ At(d).id \in WalkRules
        BY DEF Misplacement, WalkRules
    <2>4. \A d : Loses(in, At(d)) <=> Unreached(in, d)
        BY <2>3 DEF Loses
    <2> HIDE DEF At, Wrong
    <2>5. S = {f \in T : ~Loses(in, f)}
        BY <1>2, <2>4
    <2>6. QED
        BY <2>1, <2>2, <2>5 DEF Leaves, all
<1>5. QED
    BY <1>3, <1>4

LEMMA BannedLeaves ==
    ASSUME NEW in \in Inputs, Len(in.arch.root) = 1
    PROVE  Leaves(in, BannedPackage(in), BannedPackage([in EXCEPT !.patterns = {}]))
<1> DEFINE all == [in EXCEPT !.patterns = {}]
           At(id, W) == {Misplacement(id, d) : d \in {e \in W : Name(e) \in BannedNames[id]}}
           S == UNION {At(id, Walked(in)) : id \in DOMAIN BannedNames}
           T == UNION {At(id, Walked(all)) : id \in DOMAIN BannedNames}
<1>1. (hasInternalDir(all) <=> hasInternalDir(in)) /\ \A d : WalkRel(all, d) = WalkRel(in, d)
    BY WithoutPatterns
<1>2. /\ Walked(in) = {d \in Walked(all) : ~Unreached(in, d)}
      /\ \A d \in Walked(all) : WalkRel(in, d) = d
    BY WalkedFacts
<1> HIDE DEF all
<1>3. CASE ~hasInternalDir(in)
    <2>1. BannedPackage(in) = Unsupported /\ BannedPackage(all) = Unsupported
        BY <1>1, <1>3 DEF BannedPackage
    <2>2. QED
        BY <2>1, MetaLeaves DEF all
<1>4. CASE hasInternalDir(in)
    <2>0. \A id : /\ {Misplacement(id, WalkRel(in, d)) : d \in {e \in Walked(in) : Name(e) \in BannedNames[id]}} = At(id, Walked(in))
                  /\ {Misplacement(id, WalkRel(all, d)) : d \in {e \in Walked(all) : Name(e) \in BannedNames[id]}} = At(id, Walked(all))
        BY <1>1, <1>2
    <2>1. BannedPackage(in) = S
        BY <1>4, <2>0 DEF BannedPackage
    <2>2. BannedPackage(all) = T
        BY <1>1, <1>4, <2>0 DEF BannedPackage
    <2>3. \A d : \A id \in DOMAIN BannedNames :
              Loses(in, Misplacement(id, d)) <=> Unreached(in, d)
        BY DEF Misplacement, BannedNames, WalkRules, Loses
    <2>4. \A id \in DOMAIN BannedNames : At(id, Walked(in)) = {f \in At(id, Walked(all)) : ~Loses(in, f)}
        <3> TAKE id \in DOMAIN BannedNames
        <3>1. \A d : Loses(in, Misplacement(id, d)) <=> Unreached(in, d)
            BY <2>3
        <3>2. QED
            BY <1>2, <3>1
    <2> HIDE DEF At
    <2>5. S = {f \in T : ~Loses(in, f)}
        BY <2>4
    <2>6. QED
        BY <2>1, <2>2, <2>5 DEF Leaves, all
<1>5. QED
    BY <1>3, <1>4

\* The rules together lose what each of them does.
LEMMA InvariantLeavesOut == IInv => LeftOutTogether
<1> SUFFICES ASSUME IInv, Len(input.arch.root) = 1
             PROVE  Leaves(input, Found(input), Found([input EXCEPT !.patterns = {}]))
    BY DEF LeftOutTogether, Leaves
<1> DEFINE all == [input EXCEPT !.patterns = {}]
<1>1. input \in Inputs
    BY DEF IInv
<1>2. /\ Leaves(input, InternalTopLevel(input), InternalTopLevel(all))
      /\ Leaves(input, LayerPlacement(input), LayerPlacement(all))
      /\ Leaves(input, BannedPackage(input), BannedPackage(all))
      /\ Leaves(input, ModelRequired(input), ModelRequired(all))
    BY <1>1, TopLevelLeaves, PlacementLeaves, BannedLeaves, ModelLeaves
<1> HIDE DEF all
<1>3. QED
    BY <1>2 DEF Leaves, Found, all

\* For every project and every set of patterns in any of their shapes: the
\* import rules report exactly the forbidden imports of the packages that no
\* pattern names, and the structural rules exactly what they would without
\* patterns but for what is named and, in the walks, what lies below it; a
\* pattern of nothing but dots names nothing (context.go 95-115).
THEOREM ExclusionsAreExact == Spec => []LeavesOutExactly
<1>1. IInv => LeavesOutExactly
    BY InvariantExcludes, InvariantLeavesOut DEF LeavesOutExactly
<1>2. QED
    BY <1>1, ReportInvariant, PTL
-----------------------------------------------------------------------------
(* Places                                                                  *)

\* What the presets' tables of names have in common. No sublayer has a name
\* that is banned, or the name of a layer a walk looks for anywhere but
\* directly below a domain; and the directories at the top are those of the
\* layout or, where there are no domains, the sublayers and the shared tree.
Forbidden == BannedNames["structural.banned-package-name"] \cup BannedNames["structural.legacy-package"]
Placed == {"app", "infra", "handler"}
LayoutDirs(arch) ==
    {arch.domainDir, arch.orchestrationDir, arch.sharedDir, arch.appDir, arch.serverDir}
Regular(arch) ==
    /\ arch.root = <<"internal">>
    /\ \A l \in Entries(arch.sublayers) : Name(l) \notin Forbidden
    /\ \/ /\ arch.domainDir # NoDir
          /\ \A s : <<s>> \in arch.topLevel <=> s \in LayoutDirs(arch) \ {NoDir}
          /\ \A l \in Entries(arch.sublayers) : Name(l) \in Placed => Len(l) = 1
       \/ /\ arch.domainDir = NoDir /\ arch.orchestrationDir = NoDir
          /\ arch.appDir = NoDir /\ arch.serverDir = NoDir /\ arch.sharedDir # NoDir
          /\ \A s : <<s>> \in arch.topLevel <=> s = arch.sharedDir \/ KnownSublayer(arch, <<s>>)
          /\ \A l \in Entries(arch.sublayers) : Len(l) = 1 /\ l = <<Name(l)>> /\ Name(l) \notin Placed

\* Layers that are single directories.
LEMMA SingleDirs ==
    ASSUME NEW names
    PROVE  \A l \in Entries(Dirs(names)) :
               Len(l) = 1 /\ l = <<Name(l)>> /\ \E i \in DOMAIN names : Name(l) = names[i]
<1> SUFFICES ASSUME NEW i \in DOMAIN names
             PROVE  LET l == <<names[i]>> IN Len(l) = 1 /\ l = <<Name(l)>> /\ Name(l) = names[i]
    BY DEF Entries, Dirs
<1>1. Name(<<names[i]>>) = names[i]
    BY DEF Name
<1>2. QED
    BY <1>1

\* Names of the presets are not the empty one.
LEMMA NoDirFacts ==
    /\ "domain" # NoDir /\ "orchestration" # NoDir /\ "pkg" # NoDir /\ "app" # NoDir /\ "server" # NoDir
    /\ Forbidden = {"router", "bootstrap", "util", "common", "misc", "helper", "shared", "services"}
<1>1. "domain" # NoDir /\ "orchestration" # NoDir /\ "pkg" # NoDir /\ "app" # NoDir /\ "server" # NoDir
    BY Zenon DEF NoDir
<1>2. Forbidden = {"router", "bootstrap", "util", "common", "misc", "helper", "shared", "services"}
    BY DEF Forbidden, BannedNames
<1>3. QED
    BY <1>1, <1>2

\* An architecture with domains and sublayers that are single directories.
LEMMA RegularInDomains ==
    ASSUME NEW arch, NEW names, arch.root = <<"internal">>, arch.domainDir = "domain",
           arch.orchestrationDir = "orchestration", arch.sharedDir = "pkg",
           arch.appDir = NoDir, arch.serverDir = NoDir,
           arch.topLevel = {<<d>> : d \in domainTopLevel},
           arch.sublayers = Dirs(names), \A i \in DOMAIN names : names[i] \notin Forbidden
    PROVE  Regular(arch)
<1>1. \A l \in Entries(arch.sublayers) : Len(l) = 1 /\ Name(l) \notin Forbidden
    BY SingleDirs
<1>2. \A s : <<s>> \in arch.topLevel <=> s \in LayoutDirs(arch) \ {NoDir}
    <2>1. \A s, d : <<s>> = <<d>> <=> s = d
        OBVIOUS
    <2>2. LayoutDirs(arch) \ {NoDir} = domainTopLevel
        BY NoDirFacts DEF LayoutDirs, domainTopLevel
    <2>3. QED
        BY <2>1, <2>2
<1>3. QED
    BY <1>1, <1>2, NoDirFacts DEF Regular

\* One without domains.
LEMMA RegularFlat ==
    ASSUME NEW arch, NEW S, NEW names \in Seq(S), "pkg" \in S, arch.root = <<"internal">>,
           arch.domainDir = NoDir, arch.orchestrationDir = NoDir, arch.sharedDir = "pkg",
           arch.appDir = NoDir, arch.serverDir = NoDir,
           arch.topLevel = Set(Append(names, "pkg")), arch.sublayers = Dirs(names),
           \A i \in DOMAIN names : names[i] \notin Forbidden \cup Placed
    PROVE  Regular(arch)
<1>1. \A l \in Entries(arch.sublayers) :
          Len(l) = 1 /\ l = <<Name(l)>> /\ Name(l) \notin Forbidden /\ Name(l) \notin Placed
    BY SingleDirs
<1>2. ASSUME NEW s
      PROVE  <<s>> \in arch.topLevel <=> s = arch.sharedDir \/ KnownSublayer(arch, <<s>>)
    <2> DEFINE t == Append(names, "pkg")
    <2>1. /\ t \in Seq(S) /\ Len(t) = Len(names) + 1 /\ (\A i \in 1..Len(names) : t[i] = names[i])
          /\ t[Len(names) + 1] = "pkg" /\ DOMAIN t = 1..Len(names) + 1
          /\ DOMAIN names = 1..Len(names) /\ Len(names) \in Nat
        BY AppendProperties, LenProperties
    <2> HIDE DEF t
    <2>2. <<s>> \in arch.topLevel <=> \E i \in 1..Len(names) + 1 : t[i] = s
        <3>1. \A d : <<s>> = <<d>> <=> s = d
            OBVIOUS
        <3>2. <<s>> \in arch.topLevel <=> \E i \in DOMAIN t : <<s>> = <<t[i]>>
            BY DEF Set, Entries, Dirs, t
        <3>3. QED
            BY <2>1, <3>1, <3>2
    <2>3. KnownSublayer(arch, <<s>>) <=> \E i \in 1..Len(names) : names[i] = s
        <3>1. \A d : <<s>> = <<d>> <=> s = d
            OBVIOUS
        <3>2. KnownSublayer(arch, <<s>>) <=> \E i \in DOMAIN names : <<names[i]>> = <<s>>
            BY DEF KnownSublayer, Dirs
        <3>3. QED
            BY <2>1, <3>1, <3>2
    <2>4. \A i \in 1..Len(names) + 1 : i \in 1..Len(names) \/ i = Len(names) + 1
        BY <2>1
    <2>5. 1..Len(names) \subseteq 1..Len(names) + 1 /\ Len(names) + 1 \in 1..Len(names) + 1
        BY <2>1
    <2>6. QED
        BY <2>1, <2>2, <2>3, <2>4, <2>5
<1>3. QED
    BY <1>1, <1>2, NoDirFacts DEF Regular

\* The presets are such.
LEMMA PresetsAreRegular ==
    ASSUME NEW arch \in Architectures
    PROVE  Regular(arch)
<1>1. CASE arch = CleanArch
    <2> DEFINE names == <<"handler", "usecase", "entity", "gateway", "infra">>
    <2>1. /\ arch.root = <<"internal">> /\ arch.domainDir = "domain" /\ arch.orchestrationDir = "orchestration"
          /\ arch.sharedDir = "pkg" /\ arch.appDir = NoDir /\ arch.serverDir = NoDir
          /\ arch.topLevel = {<<d>> : d \in domainTopLevel} /\ arch.sublayers = Dirs(names)
        BY <1>1 DEF CleanArch, Merged, domainLayout, Layout
    <2>2. \A i \in DOMAIN names : names[i] \notin Forbidden
        BY NoDirFacts
    <2>3. QED
        BY <2>1, <2>2, RegularInDomains
<1>2. CASE arch = Layered
    <2> DEFINE names == <<"handler", "service", "repository", "model">>
    <2>1. /\ arch.root = <<"internal">> /\ arch.domainDir = "domain" /\ arch.orchestrationDir = "orchestration"
          /\ arch.sharedDir = "pkg" /\ arch.appDir = NoDir /\ arch.serverDir = NoDir
          /\ arch.topLevel = {<<d>> : d \in domainTopLevel} /\ arch.sublayers = Dirs(names)
        BY <1>2 DEF Layered, Merged, domainLayout, Layout
    <2>2. \A i \in DOMAIN names : names[i] \notin Forbidden
        BY NoDirFacts
    <2>3. QED
        BY <2>1, <2>2, RegularInDomains
<1>3. CASE arch = Hexagonal
    <2> DEFINE names == <<"handler", "usecase", "port", "domain", "adapter">>
    <2>1. /\ arch.root = <<"internal">> /\ arch.domainDir = "domain" /\ arch.orchestrationDir = "orchestration"
          /\ arch.sharedDir = "pkg" /\ arch.appDir = NoDir /\ arch.serverDir = NoDir
          /\ arch.topLevel = {<<d>> : d \in domainTopLevel} /\ arch.sublayers = Dirs(names)
        BY <1>3 DEF Hexagonal, Merged, domainLayout, Layout
    <2>2. \A i \in DOMAIN names : names[i] \notin Forbidden
        BY NoDirFacts
    <2>3. QED
        BY <2>1, <2>2, RegularInDomains
<1>4. CASE arch = ModularMonolith
    <2> DEFINE names == <<"api", "application", "core", "infrastructure">>
    <2>1. /\ arch.root = <<"internal">> /\ arch.domainDir = "domain" /\ arch.orchestrationDir = "orchestration"
          /\ arch.sharedDir = "pkg" /\ arch.appDir = NoDir /\ arch.serverDir = NoDir
          /\ arch.topLevel = {<<d>> : d \in domainTopLevel} /\ arch.sublayers = Dirs(names)
        BY <1>4 DEF ModularMonolith, Merged, domainLayout, Layout
    <2>2. \A i \in DOMAIN names : names[i] \notin Forbidden
        BY NoDirFacts
    <2>3. QED
        BY <2>1, <2>2, RegularInDomains
<1>5. CASE arch = ConsumerWorker
    <2> DEFINE names == <<"worker", "service", "store", "model">>
    <2>1. /\ arch.root = <<"internal">> /\ arch.domainDir = NoDir /\ arch.orchestrationDir = NoDir
          /\ arch.sharedDir = "pkg" /\ arch.appDir = NoDir /\ arch.serverDir = NoDir
          /\ arch.topLevel = Set(Append(names, "pkg")) /\ arch.sublayers = Dirs(names)
        BY <1>5 DEF ConsumerWorker, Pipeline, Merged, FlatLayout, Layout
    <2> DEFINE S == {"worker", "service", "store", "model", "pkg"}
    <2>2. names \in Seq(S) /\ "pkg" \in S
        <3>1. "worker" \in S /\ "service" \in S /\ "store" \in S /\ "model" \in S /\ "pkg" \in S
            OBVIOUS
        <3> HIDE DEF S
        <3>2. QED
            BY <3>1
    <2>3. \A i \in DOMAIN names : names[i] \notin Forbidden \cup Placed
        <3>1. \A i \in DOMAIN names : names[i] \notin Forbidden
            BY NoDirFacts
        <3>2. \A i \in DOMAIN names : names[i] \notin Placed
            BY DEF Placed
        <3>3. QED
            BY <3>1, <3>2
    <2> HIDE DEF names, S
    <2>4. QED
        BY <2>1, <2>2, <2>3, RegularFlat
<1>6. CASE arch = Batch
    <2> DEFINE names == <<"job", "service", "store", "model">>
    <2>1. /\ arch.root = <<"internal">> /\ arch.domainDir = NoDir /\ arch.orchestrationDir = NoDir
          /\ arch.sharedDir = "pkg" /\ arch.appDir = NoDir /\ arch.serverDir = NoDir
          /\ arch.topLevel = Set(Append(names, "pkg")) /\ arch.sublayers = Dirs(names)
        BY <1>6 DEF Batch, Pipeline, Merged, FlatLayout, Layout
    <2> DEFINE S == {"job", "service", "store", "model", "pkg"}
    <2>2. names \in Seq(S) /\ "pkg" \in S
        <3>1. "job" \in S /\ "service" \in S /\ "store" \in S /\ "model" \in S /\ "pkg" \in S
            OBVIOUS
        <3> HIDE DEF S
        <3>2. QED
            BY <3>1
    <2>3. \A i \in DOMAIN names : names[i] \notin Forbidden \cup Placed
        <3>1. \A i \in DOMAIN names : names[i] \notin Forbidden
            BY NoDirFacts
        <3>2. \A i \in DOMAIN names : names[i] \notin Placed
            BY DEF Placed
        <3>3. QED
            BY <3>1, <3>2
    <2> HIDE DEF names, S
    <2>4. QED
        BY <2>1, <2>2, <2>3, RegularFlat
<1>7. CASE arch = EventPipeline
    <2> DEFINE names == <<"command", "aggregate", "event", "projection", "eventstore", "readstore", "model">>
    <2>1. /\ arch.root = <<"internal">> /\ arch.domainDir = NoDir /\ arch.orchestrationDir = NoDir
          /\ arch.sharedDir = "pkg" /\ arch.appDir = NoDir /\ arch.serverDir = NoDir
          /\ arch.topLevel = Set(Append(names, "pkg")) /\ arch.sublayers = Dirs(names)
        BY <1>7 DEF EventPipeline, Merged, FlatLayout, Layout
    <2> DEFINE S == {"command", "aggregate", "event", "projection", "eventstore", "readstore", "model", "pkg"}
    <2>2. names \in Seq(S) /\ "pkg" \in S
        <3>1. "command" \in S /\ "aggregate" \in S /\ "event" \in S /\ "projection" \in S /\ "eventstore" \in S /\ "readstore" \in S /\ "model" \in S /\ "pkg" \in S
            OBVIOUS
        <3> HIDE DEF S
        <3>2. QED
            BY <3>1
    <2>3. \A i \in DOMAIN names : names[i] \notin Forbidden \cup Placed
        <3>1. \A i \in DOMAIN names : names[i] \notin Forbidden
            BY NoDirFacts
        <3>2. \A i \in DOMAIN names : names[i] \notin Placed
            BY DEF Placed
        <3>3. QED
            BY <3>1, <3>2
    <2> HIDE DEF names, S
    <2>4. QED
        BY <2>1, <2>2, <2>3, RegularFlat
<1>8. CASE arch = DDD
    <2> DEFINE layers == <<<<"handler">>, <<"app">>, <<"core">>, <<"core", "model">>, <<"core", "repo">>,
                           <<"core", "svc">>, <<"event">>, <<"infra">>>>
    <2>1. /\ arch.root = <<"internal">> /\ arch.domainDir = "domain" /\ arch.orchestrationDir = "orchestration"
          /\ arch.sharedDir = "pkg" /\ arch.appDir = "app" /\ arch.serverDir = "server"
        BY <1>8 DEF DDD, Merged, Layout
    <2>2. arch.topLevel = {<<d>> : d \in domainTopLevel \cup {"app", "server"}}
        BY <1>8 DEF DDD, Merged, Layout
    <2>3. arch.sublayers = layers
        BY <1>8 DEF DDD, Merged, Layout
    <2>4. \A l \in Entries(arch.sublayers) :
              /\ Name(l) \in {"handler", "app", "core", "model", "repo", "svc", "event", "infra"}
              /\ Name(l) \in Placed => Len(l) = 1
        <3>1. Entries(layers) = {<<"handler">>, <<"app">>, <<"core">>, <<"core", "model">>, <<"core", "repo">>,
                                 <<"core", "svc">>, <<"event">>, <<"infra">>}
            <4>1. DOMAIN layers = 1..8
                OBVIOUS
            <4>2. /\ layers[1] = <<"handler">> /\ layers[2] = <<"app">> /\ layers[3] = <<"core">>
                  /\ layers[4] = <<"core", "model">> /\ layers[5] = <<"core", "repo">>
                  /\ layers[6] = <<"core", "svc">> /\ layers[7] = <<"event">> /\ layers[8] = <<"infra">>
                OBVIOUS
            <4> HIDE DEF layers
            <4>3. \A i \in 1..8 : i \in {1, 2, 3, 4, 5, 6, 7, 8}
                OBVIOUS
            <4>4. \A l \in Entries(layers) : \E i \in {1, 2, 3, 4, 5, 6, 7, 8} : l = layers[i]
                BY <4>1, <4>3 DEF Entries
            <4>5. {1, 2, 3, 4, 5, 6, 7, 8} \subseteq DOMAIN layers
                BY <4>1
            <4>6. QED
                BY <4>2, <4>4, <4>5 DEF Entries
        <3>2. \A x \in {"handler", "app", "core", "event", "infra"} : Name(<<x>>) = x /\ Len(<<x>>) = 1
            BY DEF Name
        <3>3. \A x \in {"model", "repo", "svc"} : Name(<<"core", x>>) = x
            BY DEF Name
        <3>4. QED
            BY <2>3, <3>1, <3>2, <3>3 DEF Placed
    <2>5. \A s : <<s>> \in arch.topLevel <=> s \in LayoutDirs(arch) \ {NoDir}
        <3>1. \A s, d : <<s>> = <<d>> <=> s = d
            OBVIOUS
        <3>2. LayoutDirs(arch) \ {NoDir} = domainTopLevel \cup {"app", "server"}
            BY <2>1, NoDirFacts DEF LayoutDirs, domainTopLevel
        <3>3. QED
            BY <2>2, <3>1, <3>2
    <2>6. \A l \in Entries(arch.sublayers) : Name(l) \notin Forbidden
        BY <2>4, NoDirFacts
    <2>7. QED
        BY <2>1, <2>4, <2>5, <2>6, NoDirFacts DEF Regular
<1>9. QED
    BY <1>1, <1>2, <1>3, <1>4, <1>5, <1>6, <1>7, <1>8 DEF Architectures

\* An internal package as a directory: the root's segments, and then those of
\* the path the import rules read.
LEMMA Positions ==
    ASSUME NEW in \in Inputs, NEW p \in Loaded(in), IsInternal(in, p)
    PROVE  LET d == Tail(p)
               R == Len(in.arch.root)
               r == Rel(in.arch, in.module, p)
           IN  /\ p \in Path /\ d \in Seq(Segment) /\ d \in GoDirs(in) /\ Under(d, in.arch.root)
               /\ R \in Nat /\ R >= 1 /\ Len(r) \in Nat /\ Len(r) >= 1
               /\ Len(d) = R + Len(r) /\ Len(d) \in Nat
               /\ \A i \in 1..R : d[i] = in.arch.root[i]
               /\ \A i \in 1..Len(r) : r[i] = d[R + i] /\ r[i] \in Segment
               /\ r \in Seq(Segment) /\ Name(d) = Name(p) /\ Name(d) = r[Len(r)]
               /\ ClassOf(in, p) = ClassifyRel(in.arch, r)
<1> DEFINE root == in.arch.root
           x == InternalPrefix(in.arch, in.module)
           d == Tail(p)
           R == Len(root)
           n == Len(x)
           r == Rel(in.arch, in.module, p)
<1>1. p \in Path /\ p \in Seq(Segment) /\ p # <<>> /\ \A i \in 1..Len(p) : p[i] \in Segment
    BY InputFacts, PathFacts
<1>2. root \in Seq(Segment) /\ R \in Nat /\ R >= 1
    BY InputFacts, LenProperties
<1>3. n = R + 1 /\ x[1] = in.module /\ \A i \in 1..R : x[i + 1] = root[i]
    <2>1. x = <<in.module>> \o root
        BY DEF InternalPrefix
    <2> DEFINE T == Segment \cup {in.module}
    <2>2. root \in Seq(T) /\ <<in.module>> \in Seq(T) /\ Len(<<in.module>>) = 1 /\ <<in.module>>[1] = in.module
        <3>1. root \in Seq(T)
            BY <1>2, SeqMonotonic
        <3>2. in.module \in T
            OBVIOUS
        <3> HIDE DEF T
        <3>3. QED
            BY <3>1, <3>2
    <2> HIDE DEF T, x, root
    <2>3. /\ Len(x) = 1 + Len(root)
          /\ \A i \in 1..1 + Len(root) : x[i] = IF i <= 1 THEN <<in.module>>[i] ELSE root[i - 1]
        BY <2>1, <2>2, ConcatProperties
    <2>4. 1 \in 1..1 + R /\ \A i \in 1..R : i + 1 \in 1..1 + R /\ ~(i + 1 <= 1) /\ i + 1 - 1 = i
        BY <1>2
    <2>5. QED
        BY <1>2, <2>2, <2>3, <2>4
<1>4. Len(p) > n /\ \A i \in 1..n : p[i] = x[i]
    BY DEF IsInternal, Internal, Under
<1>5. Len(p) \in Nat
    BY <1>1, LenProperties
<1>6. d \in Seq(Segment) /\ Len(d) = Len(p) - 1 /\ \A i \in 1..Len(d) : d[i] = p[i + 1]
    BY <1>1, HeadTailProperties
<1>7. r \in Seq(Segment) /\ Len(r) >= 1 /\ \A i \in 1..Len(r) : r[i] \in Segment
    BY <1>1, RelSegments
<1>8. ClassOf(in, p) = ClassifyRel(in.arch, r)
    BY DEF ClassOf, Classify, IsInternal
<1>9. r = SubSeq(p, n + 1, Len(p))
    BY DEF Rel
<1>10. p[1] = in.module
    <2> HIDE DEF n, R, x, root
    <2>1. 1 \in 1..n
        BY <1>2, <1>3
    <2>2. QED
        BY <1>3, <1>4, <2>1
<1>11. d \in GoDirs(in)
    BY <1>10 DEF GoDirs
<1> HIDE DEF n, R, x, d, r, root
<1>12. Len(r) = Len(p) - n /\ \A i \in 1..Len(p) - n : r[i] = p[n + i]
    <2>1. n + 1 \in Int /\ Len(p) \in Int /\ n + 1 <= Len(p) /\ \A i \in n + 1..Len(p) : p[i] \in Segment
        BY <1>1, <1>2, <1>3, <1>4, <1>5
    <2>2. /\ Len(SubSeq(p, n + 1, Len(p))) = Len(p) - (n + 1) + 1
          /\ \A i \in 1..Len(p) - (n + 1) + 1 : SubSeq(p, n + 1, Len(p))[i] = p[n + 1 + i - 1]
        BY <2>1, SubSeqProperties
    <2>3. Len(p) - (n + 1) + 1 = Len(p) - n /\ \A i \in 1..Len(p) - n : n + 1 + i - 1 = n + i
        BY <1>2, <1>3, <1>5
    <2>4. QED
        BY <1>9, <2>2, <2>3
<1>13. Len(d) = R + Len(r) /\ Len(r) \in Nat /\ Len(d) \in Nat
    BY <1>2, <1>3, <1>4, <1>5, <1>6, <1>12
<1>14. ASSUME NEW i \in 1..R
       PROVE  d[i] = root[i]
    <2>1. i \in 1..Len(d) /\ i + 1 \in 1..n
        BY <1>2, <1>3, <1>7, <1>13
    <2>2. QED
        BY <1>3, <1>4, <1>6, <2>1
<1>15. ASSUME NEW i \in 1..Len(r)
       PROVE  r[i] = d[R + i]
    <2>1. i \in 1..Len(p) - n /\ R + i \in 1..Len(d) /\ R + i + 1 = n + i
        BY <1>2, <1>3, <1>12, <1>13
    <2>2. r[i] = p[n + i] /\ d[R + i] = p[R + i + 1]
        BY <1>6, <1>12, <2>1
    <2>3. QED
        BY <2>1, <2>2
<1>16. Under(d, root)
    BY <1>2, <1>7, <1>13, <1>14 DEF Under, R
<1>17. Name(d) = Name(p) /\ Name(d) = r[Len(r)]
    <2>1. Len(d) \in 1..Len(d) /\ Len(r) \in 1..Len(r) /\ Len(d) + 1 = Len(p)
        BY <1>2, <1>5, <1>6, <1>7, <1>13
    <2>2. d[Len(d)] = p[Len(p)] /\ r[Len(r)] = d[Len(d)]
        BY <1>6, <1>13, <1>15, <2>1
    <2>3. QED
        BY <2>2 DEF Name
<1>18. QED
    BY <1>1, <1>2, <1>6, <1>7, <1>8, <1>11, <1>13, <1>14, <1>15, <1>16, <1>17 DEF d, r, R, root

\* Whatever begins an internal package's path, the root too, is a directory.
LEMMA Ancestors ==
    ASSUME NEW in \in Inputs, NEW p \in Loaded(in), IsInternal(in, p)
    PROVE  /\ \A k \in 1..Len(Tail(p)) : SubSeq(Tail(p), 1, k) \in Directories(in)
           /\ hasInternalDir(in)
<1> DEFINE d == Tail(p)
           root == in.arch.root
           R == Len(root)
<1>1. /\ d \in Seq(Segment) /\ d \in GoDirs(in) /\ Len(d) \in Nat /\ R \in Nat /\ R >= 1 /\ Len(d) > R
      /\ \A i \in 1..R : d[i] = root[i]
    BY Positions DEF Under
<1>2. ASSUME NEW k \in 1..Len(d)
      PROVE  SubSeq(d, 1, k) \in Directories(in)
    <2> HIDE DEF d
    <2>1. SubSeq(d, 1, k) \in {SubSeq(d, 1, j) : j \in 1..Len(d)}
        OBVIOUS
    <2>2. {SubSeq(d, 1, j) : j \in 1..Len(d)} \in {{SubSeq(e, 1, j) : j \in 1..Len(e)} : e \in GoDirs(in)}
        BY <1>1
    <2>3. QED
        BY <2>1, <2>2 DEF Directories
<1>3. SubSeq(d, 1, R) = root
    <2>1. root \in Seq(Segment)
        BY InputFacts
    <2>2. R \in 1..Len(d)
        BY <1>1
    <2> HIDE DEF d, root
    <2>3. /\ SubSeq(d, 1, R) \in Seq(Segment) /\ Len(SubSeq(d, 1, R)) = R
          /\ \A i \in 1..R : SubSeq(d, 1, R)[i] = d[i]
        BY <1>1, <2>2, Beginning
    <2>4. QED
        BY <1>1, <2>1, <2>3, SeqEqual
<1>4. hasInternalDir(in)
    <2>1. R \in 1..Len(d)
        BY <1>1
    <2>2. QED
        BY <1>2, <1>3, <2>1 DEF hasInternalDir
<1>5. QED
    BY <1>2, <1>4

\* What a rule reports of a directory, when it runs at all.
LEMMA FindingsAt ==
    ASSUME NEW in \in Inputs, NEW d, Clear(d)
    PROVE  /\ "structural.internal-top-level" \in FoundAt(in, d) <=>
                  /\ hasInternalDir(in)
                  /\ \/ d \in Directories(in) /\ Entry(in, d, 1) /\ ~ExcludedDir(in, d) /\ <<Name(d)>> \notin in.arch.topLevel
                     \/ d \in LooseFiles(in) /\ ~IsExcluded(in.patterns, d)
           /\ hasInternalDir(in) /\ (\A e \in Walked(in) : WalkRel(in, e) = e) =>
                /\ "structural.misplaced-layer" \in FoundAt(in, d) <=>
                       d \in Walked(in) /\ isMisplacedLayerDir(in, d, Name(d))
                /\ FoundAt(in, d) # {} =>
                       \/ "structural.internal-top-level" \in FoundAt(in, d)
                       \/ "structural.misplaced-layer" \in FoundAt(in, d)
                       \/ Name(d) \in Forbidden
                       \/ in.arch.domainDir # NoDir /\ d \in DomainEntries(in)
<1> DEFINE top == "structural.internal-top-level"
           mis == "structural.misplaced-layer"
<1>1. d # <<>>
    BY DEF Clear
<1>2. \A id, e, i : Misplacement(id, e) = Misplacement(i, d) <=> id = i /\ e = d
    BY DEF Misplacement
<1>3. \A id : id \in FoundAt(in, d) <=> Misplacement(id, d) \in Found(in)
    <2>1. \A f \in Found(in) : f = Misplacement(f.id, f.dir)
        <3>1. \A f \in Unsupported \cup Disabled : f = Misplacement(f.id, f.dir)
            BY DEF Unsupported, Disabled, Misplacement
        <3>2. \A f \in InternalTopLevel(in) : f = Misplacement(f.id, f.dir)
            <4> SUFFICES ASSUME NEW f \in InternalTopLevel(in), f \notin Unsupported
                         PROVE  f = Misplacement(f.id, f.dir)
                BY <3>1
            <4>1. PICK e : f = Misplacement("structural.internal-top-level", e)
                BY DEF InternalTopLevel
            <4>2. QED
                BY <4>1 DEF Misplacement
        <3>3. \A f \in LayerPlacement(in) : f = Misplacement(f.id, f.dir)
            BY <3>1 DEF LayerPlacement, Misplacement
        <3>4. \A f \in BannedPackage(in) : f = Misplacement(f.id, f.dir)
            <4> SUFFICES ASSUME NEW f \in BannedPackage(in), f \notin Unsupported
                         PROVE  f = Misplacement(f.id, f.dir)
                BY <3>1
            <4>1. PICK id \in DOMAIN BannedNames :
                      f \in {Misplacement(id, WalkRel(in, e)) : e \in {y \in Walked(in) : Name(y) \in BannedNames[id]}}
                BY DEF BannedPackage
            <4>2. PICK e : f = Misplacement(id, e)
                BY <4>1
            <4>3. QED
                BY <4>2 DEF Misplacement
        <3>5. \A f \in ModelRequired(in) : f = Misplacement(f.id, f.dir)
            BY <3>1 DEF ModelRequired, Misplacement
        <3>6. QED
            BY <3>2, <3>3, <3>4, <3>5 DEF Found
    <2>2. \A id : Misplacement(id, d).id = id /\ Misplacement(id, d).dir = d
        BY DEF Misplacement
    <2>3. QED
        BY <2>1, <2>2 DEF FoundAt
<1>4. \A id : Misplacement(id, d) \notin Unsupported \cup Disabled
    BY <1>1 DEF Unsupported, Disabled, Misplacement
<1>5. \A id : Misplacement(id, d) \in InternalTopLevel(in) <=>
          /\ id = top /\ hasInternalDir(in)
          /\ \/ d \in Directories(in) /\ Entry(in, d, 1) /\ ~ExcludedDir(in, d) /\ <<Name(d)>> \notin in.arch.topLevel
             \/ d \in LooseFiles(in) /\ ~IsExcluded(in.patterns, d)
    <2> DEFINE C == {e \in Directories(in) :
                         Entry(in, e, 1) /\ ~ExcludedDir(in, e) /\ <<Name(e)>> \notin in.arch.topLevel}
                    \cup {f \in LooseFiles(in) : ~IsExcluded(in.patterns, f)}
    <2>1. InternalTopLevel(in) = IF ~hasInternalDir(in) THEN Unsupported ELSE {Misplacement(top, e) : e \in C}
        BY DEF InternalTopLevel
    <2>2. d \in C <=> \/ d \in Directories(in) /\ Entry(in, d, 1) /\ ~ExcludedDir(in, d) /\ <<Name(d)>> \notin in.arch.topLevel
                      \/ d \in LooseFiles(in) /\ ~IsExcluded(in.patterns, d)
        OBVIOUS
    <2> HIDE DEF C, top
    <2>3. \A id : Misplacement(id, d) \in {Misplacement(top, e) : e \in C} <=> id = top /\ d \in C
        <3>1. \A e, id, i : Misplacement(id, d) = Misplacement(i, e) <=> id = i /\ e = d
            BY DEF Misplacement
        <3>2. QED
            BY <3>1
    <2>4. QED
        BY <1>4, <2>1, <2>2, <2>3
<1>6. \A id : Misplacement(id, d) \in LayerPlacement(in) <=>
          /\ id = mis /\ hasInternalDir(in)
          /\ \E e \in Walked(in) : WalkRel(in, e) = d /\ isMisplacedLayerDir(in, WalkRel(in, e), Name(e))
    BY <1>2, <1>4 DEF LayerPlacement
<1>7. \A id : Misplacement(id, d) \in BannedPackage(in) =>
          /\ id \in DOMAIN BannedNames /\ hasInternalDir(in)
          /\ \E e \in Walked(in) : WalkRel(in, e) = d /\ Name(e) \in BannedNames[id]
    <2> SUFFICES ASSUME NEW id, Misplacement(id, d) \in BannedPackage(in)
                 PROVE  /\ id \in DOMAIN BannedNames /\ hasInternalDir(in)
                        /\ \E e \in Walked(in) : WalkRel(in, e) = d /\ Name(e) \in BannedNames[id]
        OBVIOUS
    <2>1. hasInternalDir(in)
        BY <1>4 DEF BannedPackage
    <2>2. PICK i \in DOMAIN BannedNames :
              Misplacement(id, d) \in {Misplacement(i, WalkRel(in, e)) : e \in {y \in Walked(in) : Name(y) \in BannedNames[i]}}
        BY <2>1 DEF BannedPackage
    <2>3. PICK e \in Walked(in) : Misplacement(id, d) = Misplacement(i, WalkRel(in, e)) /\ Name(e) \in BannedNames[i]
        BY <2>2
    <2>4. id = i /\ WalkRel(in, e) = d
        BY <2>3 DEF Misplacement
    <2>5. QED
        BY <2>1, <2>3, <2>4
<1>8. \A id : Misplacement(id, d) \in ModelRequired(in) =>
          id = "structural.domain-model-required" /\ in.arch.domainDir # NoDir /\ d \in DomainEntries(in)
    BY <1>2, <1>4 DEF ModelRequired
<1>9. DOMAIN BannedNames = {"structural.banned-package-name", "structural.legacy-package"}
    BY DEF BannedNames
<1>10. top # mis /\ top \notin DOMAIN BannedNames /\ mis \notin DOMAIN BannedNames
       /\ top # "structural.domain-model-required" /\ mis # "structural.domain-model-required"
    BY <1>9
<1>11. top \in FoundAt(in, d) <=> Misplacement(top, d) \in InternalTopLevel(in)
    BY <1>3, <1>6, <1>7, <1>8, <1>10 DEF Found
<1>12. mis \in FoundAt(in, d) <=> Misplacement(mis, d) \in LayerPlacement(in)
    BY <1>3, <1>5, <1>7, <1>8, <1>10 DEF Found
<1>13. ASSUME hasInternalDir(in), \A e \in Walked(in) : WalkRel(in, e) = e, NEW id \in FoundAt(in, d)
       PROVE  \/ id = top \/ id = mis \/ Name(d) \in Forbidden
              \/ in.arch.domainDir # NoDir /\ d \in DomainEntries(in)
    <2>1. CASE Misplacement(id, d) \in BannedPackage(in)
        <3>1. id \in DOMAIN BannedNames /\ Name(d) \in BannedNames[id]
            BY <1>7, <1>13, <2>1
        <3>2. QED
            BY <1>9, <3>1 DEF Forbidden
    <2>2. CASE Misplacement(id, d) \notin BannedPackage(in)
        BY <1>3, <1>5, <1>6, <1>8, <1>13, <2>2 DEF Found
    <2>3. QED
        BY <2>1, <2>2
<1> HIDE DEF top, mis
<1>14. ASSUME hasInternalDir(in), \A e \in Walked(in) : WalkRel(in, e) = e
       PROVE  mis \in FoundAt(in, d) <=> d \in Walked(in) /\ isMisplacedLayerDir(in, d, Name(d))
    BY <1>6, <1>12, <1>14
<1>15. top \in FoundAt(in, d) <=>
           /\ hasInternalDir(in)
           /\ \/ d \in Directories(in) /\ Entry(in, d, 1) /\ ~ExcludedDir(in, d) /\ <<Name(d)>> \notin in.arch.topLevel
              \/ d \in LooseFiles(in) /\ ~IsExcluded(in.patterns, d)
    BY <1>5, <1>11
<1>16. QED
    BY <1>13, <1>14, <1>15 DEF top, mis

\* Nor is any segment.
LEMMA SegmentIsNoDir == \A x \in Segment : x # NoDir
    BY InputsAssumption, Zenon DEF NoDir

\* With a preset, a package is in a layer when the directory at the top is one
\* of the layout, but for the domain and server directories themselves.
LEMMA TopClass ==
    ASSUME NEW arch, Regular(arch), NEW r, Len(r) \in Nat, Len(r) >= 1, r[1] # NoDir
    PROVE  <<r[1]>> \in arch.topLevel <=>
               \/ ClassifyRel(arch, r).kind # "unclassified"
               \/ Len(r) = 1 /\ r[1] \in {arch.domainDir, arch.serverDir}
<1> DEFINE c == ClassifyRel(arch, r)
<1>1. CASE arch.domainDir # NoDir
    <2>1. <<r[1]>> \in arch.topLevel <=> r[1] \in LayoutDirs(arch)
        BY <1>1 DEF Regular
    <2>2. CASE r[1] \in {arch.sharedDir, arch.appDir, arch.orchestrationDir}
        <3>1. c.kind \in {"shared", "app", "transport", "orchestration"}
            BY <2>2 DEF ClassifyRel, InDir, Class
        <3>2. QED
            BY <2>1, <2>2, <3>1 DEF LayoutDirs
    <2>3. CASE r[1] \notin {arch.sharedDir, arch.appDir, arch.orchestrationDir}
        <3>1. CASE r[1] = arch.serverDir
            <4>1. Len(r) > 1 => c.kind = "transport"
                BY <2>3, <3>1 DEF ClassifyRel, InDir, Class
            <4>2. Len(r) = 1 \/ c.kind # "unclassified"
                BY <4>1
            <4>3. <<r[1]>> \in arch.topLevel
                BY <2>1, <3>1 DEF LayoutDirs
            <4> HIDE DEF c
            <4>4. c.kind # "unclassified" \/ (Len(r) = 1 /\ r[1] \in {arch.domainDir, arch.serverDir})
                BY <3>1, <4>2
            <4>5. QED
                BY <4>3, <4>4 DEF c
        <3>2. CASE r[1] # arch.serverDir
            <4>1. c = ClassifyInDomains(arch, r)
                BY <1>1, <2>3, <3>2 DEF ClassifyRel, InDir
            <4>2. c.kind # "unclassified" <=> r[1] = arch.domainDir /\ Len(r) # 1
                BY <4>1 DEF ClassifyInDomains, Class, Unclassified
            <4>3. QED
                BY <2>1, <2>3, <3>2, <4>2 DEF LayoutDirs
        <3>3. QED
            BY <3>1, <3>2
    <2>4. QED
        BY <2>2, <2>3
<1>2. CASE arch.domainDir = NoDir
    <2>1. /\ arch.orchestrationDir = NoDir /\ arch.appDir = NoDir /\ arch.serverDir = NoDir
          /\ arch.sharedDir # NoDir
          /\ <<r[1]>> \in arch.topLevel <=> r[1] = arch.sharedDir \/ KnownSublayer(arch, <<r[1]>>)
        BY <1>2 DEF Regular
    <2>2. CASE r[1] = arch.sharedDir
        <3>1. c.kind = "shared"
            BY <2>2 DEF ClassifyRel, InDir, Class
        <3>2. QED
            BY <2>1, <2>2, <3>1
    <2>3. CASE r[1] # arch.sharedDir
        <3>1. c = ClassifyFlat(arch, r)
            BY <1>2, <2>1, <2>3 DEF ClassifyRel, InDir
        <3>2. c.kind # "unclassified" <=> KnownSublayer(arch, <<r[1]>>)
            BY <3>1 DEF ClassifyFlat, Class, Unclassified
        <3>3. QED
            BY <1>2, <2>1, <2>3, <3>2
    <2>4. QED
        BY <2>2, <2>3
<1>3. QED
    BY <1>1, <1>2

\* The directory at the top that an internal package is in.
LEMMA TopFacts ==
    ASSUME NEW in \in Inputs, NEW p \in Loaded(in), IsInternal(in, p)
    PROVE  LET t == Top(in, p)
               r == Rel(in.arch, in.module, p)
           IN  /\ t \in Directories(in) /\ Clear(t) /\ Entry(in, t, 1) /\ Name(t) = r[1]
               /\ t \notin LooseFiles(in) /\ (Tail(p) = t <=> Len(r) = 1)
<1> DEFINE d == Tail(p)
           root == in.arch.root
           R == Len(root)
           r == Rel(in.arch, in.module, p)
           t == SubSeq(d, 1, R + 1)
<1>1. /\ d \in Seq(Segment) /\ R \in Nat /\ R >= 1 /\ Len(r) \in Nat /\ Len(r) >= 1
      /\ Len(d) = R + Len(r) /\ Len(d) \in Nat
      /\ \A i \in 1..R : d[i] = root[i]
      /\ \A i \in 1..Len(r) : r[i] = d[R + i] /\ r[i] \in Segment
    BY Positions
<1>2. R + 1 \in 1..Len(d)
    <2> HIDE DEF R, r, d
    <2>1. QED
        BY <1>1
<1>3. t \in Directories(in)
    BY <1>2, Ancestors
<1>4. root \in Seq(Segment)
    BY InputFacts
<1> HIDE DEF d, r, R
<1>5. /\ t \in Seq(Segment) /\ Len(t) = R + 1 /\ t # <<>> /\ \A i \in 1..R + 1 : t[i] = d[i]
      /\ SubSeq(d, 1, Len(d)) = d
    BY <1>1, <1>2, Beginning
<1>6. Clear(t)
    BY <1>5, DirIsClear
<1>7. t[R + 1] = r[1] /\ r[1] \in Segment
    <2>1. R + 1 \in 1..R + 1 /\ 1 \in 1..Len(r)
        BY <1>1
    <2>2. QED
        BY <1>1, <1>5, <2>1
<1>8. Name(t) = r[1]
    BY <1>5, <1>7 DEF Name
<1>9. Entry(in, t, 1)
    <2>1. Len(t) = Len(root) + 1 /\ Len(t) > Len(root)
        BY <1>1, <1>5 DEF R
    <2>2. ASSUME NEW i \in 1..Len(root)
          PROVE  t[i] = root[i]
        <3>1. i \in 1..R /\ i \in 1..R + 1
            BY <1>1 DEF R
        <3>2. QED
            BY <1>1, <1>5, <3>1
    <2>3. QED
        BY <2>1, <2>2 DEF Entry, Under
<1>10. ASSUME t \in LooseFiles(in)
       PROVE  FALSE
    <2>1. t = Append(root, AnyFile)
        BY <1>10 DEF LooseFiles
    <2>2. t[R + 1] = AnyFile
        <3> HIDE DEF t, root
        <3>1. Append(root, AnyFile)[Len(root) + 1] = AnyFile
            <4>1. root \in Seq(Piece) /\ AnyFile \in Piece
                BY <1>4, PieceFacts, SeqMonotonic
            <4>2. QED
                BY <4>1, AppendProperties
        <3>2. QED
            BY <2>1, <3>1 DEF R
    <2>3. QED
        BY <1>7, <2>2, PlacesAssumption
<1>11. d = t <=> Len(r) = 1
    <2>1. ASSUME Len(r) = 1
          PROVE  d = t
        <3>1. Len(d) = R + 1
            BY <1>1, <2>1
        <3>2. QED
            BY <1>5, <3>1
    <2>2. ASSUME d = t
          PROVE  Len(r) = 1
        <3>1. Len(d) = R + 1
            BY <1>5, <2>2
        <3>2. R + Len(r) = R + 1 /\ R \in Nat /\ Len(r) \in Nat
            BY <1>1, <3>1
        <3>3. \A a, b \in Nat : a + b = a + 1 => b = 1
            OBVIOUS
        <3>4. QED
            BY <3>2, <3>3
    <2>3. QED
        BY <2>1, <2>2
<1>12. QED
    BY <1>3, <1>6, <1>8, <1>9, <1>10, <1>11 DEF Top, d, r, R, t

\* A package no layout directory takes is in a directory that is reported.
LEMMA InvariantStrays == IInv => StrayIsReported
<1> SUFFICES ASSUME IInv, input.arch \in Architectures,
                    NEW p \in Loaded(input), IsInternal(input, p)
             PROVE  "structural.internal-top-level" \in FoundAt(input, Top(input, p)) <=>
                        /\ ClassOf(input, p).kind = "unclassified"
                        /\ Name(Tail(p)) \notin {input.arch.domainDir, input.arch.serverDir} \/ Tail(p) # Top(input, p)
                        /\ ~ExcludedDir(input, Top(input, p))
    BY DEF StrayIsReported
<1> DEFINE t == Top(input, p)
           r == Rel(input.arch, input.module, p)
<1>1. input \in Inputs
    BY DEF IInv
<1>2. /\ t \in Directories(input) /\ Clear(t) /\ Entry(input, t, 1) /\ Name(t) = r[1]
      /\ t \notin LooseFiles(input) /\ (Tail(p) = t <=> Len(r) = 1)
    BY <1>1, TopFacts
<1>3. /\ Len(r) \in Nat /\ Len(r) >= 1 /\ r[1] \in Segment /\ Name(Tail(p)) = r[Len(r)]
      /\ ClassOf(input, p) = ClassifyRel(input.arch, r)
    <2>1. /\ Len(r) \in Nat /\ Len(r) >= 1 /\ Name(Tail(p)) = r[Len(r)] /\ \A i \in 1..Len(r) : r[i] \in Segment
          /\ ClassOf(input, p) = ClassifyRel(input.arch, r)
        BY <1>1, Positions
    <2> HIDE DEF r
    <2>2. 1 \in 1..Len(r)
        BY <2>1
    <2>3. QED
        BY <2>1, <2>2
<1>4. hasInternalDir(input)
    BY <1>1, Ancestors
<1> HIDE DEF t, r
<1>5. "structural.internal-top-level" \in FoundAt(input, t) <=>
          ~ExcludedDir(input, t) /\ <<r[1]>> \notin input.arch.topLevel
    BY <1>1, <1>2, <1>4, FindingsAt
<1>6. <<r[1]>> \in input.arch.topLevel <=>
          \/ ClassOf(input, p).kind # "unclassified"
          \/ Len(r) = 1 /\ r[1] \in {input.arch.domainDir, input.arch.serverDir}
    BY <1>3, PresetsAreRegular, TopClass, SegmentIsNoDir
<1>7. QED
    BY <1>2, <1>3, <1>5, <1>6 DEF t

\* The directories of a layout are told apart by their first segment.
LEMMA LayoutClasses ==
    ASSUME NEW arch, Readable(arch), NEW r, Len(r) \in Nat, Len(r) >= 1, r[1] # NoDir
    PROVE  /\ r[1] = arch.appDir => ClassifyRel(arch, r).kind = "app"
           /\ r[1] = arch.serverDir /\ Len(r) > 1 => ClassifyRel(arch, r).kind = "transport"
           /\ r[1] = arch.orchestrationDir => ClassifyRel(arch, r).kind = "orchestration"
           /\ r[1] = arch.domainDir => ClassifyRel(arch, r) = ClassifyInDomains(arch, r)
<1> DEFINE dirs == <<arch.domainDir, arch.orchestrationDir, arch.sharedDir, arch.appDir, arch.serverDir>>
<1>1. \A i, j \in DOMAIN dirs : dirs[i] = dirs[j] => i = j \/ dirs[i] = NoDir
    BY DEF Readable
<1>2. /\ DOMAIN dirs = 1..5 /\ dirs[1] = arch.domainDir /\ dirs[2] = arch.orchestrationDir
      /\ dirs[3] = arch.sharedDir /\ dirs[4] = arch.appDir /\ dirs[5] = arch.serverDir
    OBVIOUS
<1> HIDE DEF dirs
<1>3. ASSUME NEW i \in 1..5, NEW j \in 1..5, i # j, r[1] = dirs[i]
      PROVE  r[1] # dirs[j]
    BY <1>1, <1>2, <1>3
<1>4. 1 \in 1..5 /\ 2 \in 1..5 /\ 3 \in 1..5 /\ 4 \in 1..5 /\ 5 \in 1..5
    OBVIOUS
<1>5. r[1] = arch.appDir => r[1] # arch.sharedDir
    BY <1>2, <1>3, <1>4
<1>6. r[1] = arch.serverDir => r[1] # arch.sharedDir /\ r[1] # arch.appDir
    BY <1>2, <1>3, <1>4
<1>7. r[1] = arch.orchestrationDir => r[1] # arch.sharedDir /\ r[1] # arch.appDir /\ r[1] # arch.serverDir
    BY <1>2, <1>3, <1>4
<1>8. r[1] = arch.domainDir => /\ r[1] # arch.sharedDir /\ r[1] # arch.appDir /\ r[1] # arch.serverDir
                               /\ r[1] # arch.orchestrationDir
    BY <1>2, <1>3, <1>4
<1>9. QED
    BY <1>5, <1>6, <1>7, <1>8 DEF ClassifyRel, InDir, Class

\* A directory the walk accepts, by the layer its name says.
LEMMA AcceptedIsRead ==
    ASSUME NEW in \in Inputs, Len(in.arch.root) = 1, Readable(in.arch), NEW p \in Loaded(in),
           IsInternal(in, p), Name(p) \in Placed, <<Name(p)>> \in in.arch.dirNames,
           FoundAt(in, Tail(p)) = {}, ~Pruned(in, Tail(p))
    PROVE  \/ ClassOf(in, p).kind = "domain" /\ ClassOf(in, p).sublayer = <<Name(p)>>
           \/ Name(p) = "app" /\ ClassOf(in, p).kind = "app"
           \/ Name(p) = "handler" /\ ClassOf(in, p).kind \in {"transport", "orchestration"}
<1> DEFINE arch == in.arch
           root == arch.root
           d == Tail(p)
           r == Rel(arch, in.module, p)
           name == Name(p)
           c == ClassOf(in, p)
<1>1. /\ d \in Seq(Segment) /\ d \in GoDirs(in) /\ Under(d, root) /\ Len(r) \in Nat /\ Len(r) >= 1
      /\ Len(d) = 1 + Len(r) /\ Len(d) \in Nat
      /\ \A i \in 1..Len(r) : r[i] = d[1 + i] /\ r[i] \in Segment
      /\ r \in Seq(Segment) /\ Name(d) = name /\ name = r[Len(r)] /\ c = ClassifyRel(arch, r)
    <2> DEFINE R == Len(root)
    <2>1. /\ d \in Seq(Segment) /\ d \in GoDirs(in) /\ Under(d, root) /\ Len(r) \in Nat /\ Len(r) >= 1
          /\ Len(d) = R + Len(r) /\ Len(d) \in Nat
          /\ \A i \in 1..Len(r) : r[i] = d[R + i] /\ r[i] \in Segment
          /\ r \in Seq(Segment) /\ Name(d) = name /\ name = r[Len(r)] /\ c = ClassifyRel(arch, r)
        BY Positions
    <2>2. R = 1
        OBVIOUS
    <2> HIDE DEF R, d, r, c, name, arch
    <2>3. QED
        BY <2>1, <2>2
<1>2. hasInternalDir(in) /\ \A k \in 1..Len(d) : SubSeq(d, 1, k) \in Directories(in)
    BY Ancestors
<1>3. WalkRel(in, d) = d /\ Clear(d) /\ ~ExcludedDir(in, d)
    <2>1. ~Pruned(in, d)
        OBVIOUS
    <2>2. Len(in.arch.root) = 1 /\ Len(d) \in Nat /\ Len(d) > 1
        BY <1>1
    <2> HIDE DEF d
    <2>3. d # <<>> /\ Len(d) \in 1..Len(d) /\ d # in.arch.root
        <3> DEFINE n == Len(d)
        <3>1. d = <<>> => n = 0
            OBVIOUS
        <3>2. d = in.arch.root => n = 1
            BY <2>2
        <3>3. n \in Nat /\ n > 1
            BY <2>2
        <3> HIDE DEF n
        <3>4. n \in 1..n /\ n # 0 /\ n # 1
            BY <3>3
        <3>5. QED
            BY <3>1, <3>2, <3>4 DEF n
    <2>4. SubSeq(d, 1, Len(d)) = d /\ WalkRel(in, d) = d /\ Clear(d)
        BY <1>1, <2>3, Beginning, WalkLoses, DirIsClear
    <2>5. QED
        BY <2>1, <2>3, <2>4 DEF Pruned
<1>4. d \in Walked(in)
    BY <1>1 DEF Walked
<1>5. \A e \in Walked(in) : WalkRel(in, e) = e
    BY WalkLoses DEF Walked
<1>6. ~isMisplacedLayerDir(in, d, name)
    BY <1>1, <1>2, <1>3, <1>4, <1>5, FindingsAt
<1>7. Readable(arch)
    OBVIOUS
<1>8. r[1] # NoDir /\ r[1] \in Segment
    <2> HIDE DEF r, arch
    <2>1. 1 \in 1..Len(r)
        BY <1>1
    <2>2. QED
        BY <1>1, <2>1, SegmentIsNoDir
\* right below the root there is no handler
<1>9. ASSUME Len(r) = 1
      PROVE  name # "handler"
    <2> SUFFICES ASSUME name = "handler" PROVE FALSE
        OBVIOUS
    <2>1. Tail(p) = Top(in, p) /\ Entry(in, Top(in, p), 1) /\ Top(in, p) \in Directories(in) /\ Name(Top(in, p)) = r[1]
        BY <1>9, TopFacts
    <2>2. d \in Directories(in) /\ Entry(in, d, 1)
        BY <2>1
    <2>3. <<Name(d)>> \notin arch.topLevel
        BY <1>1, <1>7 DEF Readable
    <2>4. "structural.internal-top-level" \in FoundAt(in, d)
        BY <1>2, <1>3, <2>2, <2>3, FindingsAt
    <2>5. QED
        BY <2>4
<1> HIDE DEF arch, d, r, c, name
<1>10. name \in Placed /\ <<name>> \in arch.dirNames
    BY DEF name, arch
<1>11. CASE matchesDomainLayer(in, d, name)
    <2>1. Len(d) = 4 /\ d[2] = arch.domainDir /\ d[4] = name
        BY <1>11 DEF matchesDomainLayer, arch
    <2>2. Len(r) = 3
        <3>1. 1 + Len(r) = 4 /\ Len(r) \in Nat
            BY <1>1, <2>1
        <3>2. \A n \in Nat : 1 + n = 4 => n = 3
            OBVIOUS
        <3>3. QED
            BY <3>1, <3>2
    <2>3. r[1] = d[2] /\ r[3] = d[4]
        <3>1. 1 \in 1..Len(r) /\ 3 \in 1..Len(r)
            BY <2>2
        <3>2. r[1] = d[1 + 1] /\ r[3] = d[1 + 3]
            BY <1>1, <3>1
        <3>3. QED
            BY <3>2
    <2>4. c = ClassifyInDomains(arch, r)
        BY <1>1, <1>7, <1>8, <2>1, <2>3, LayoutClasses
    <2>5. c = Class("domain", r[2], IdentifySublayer(arch, SubSeq(r, 3, 3)))
        BY <2>1, <2>2, <2>3, <2>4 DEF ClassifyInDomains
    <2>6. IdentifySublayer(arch, SubSeq(r, 3, 3)) = <<name>>
        <3> DEFINE s == SubSeq(r, 3, 3)
        <3>1. s \in Seq(Segment) /\ Len(s) = 1 /\ s[1] = r[3]
            <4>1. 3 \in 1..Len(r) /\ r[3] \in Segment
                BY <1>1, <2>2
            <4>2. \A i \in 3..3 : r[i] \in Segment
                BY <4>1
            <4>3. /\ SubSeq(r, 3, 3) \in Seq(Segment) /\ Len(SubSeq(r, 3, 3)) = 3 - 3 + 1
                  /\ \A i \in 1..3 - 3 + 1 : SubSeq(r, 3, 3)[i] = r[3 + i - 1]
                BY <4>2, SubSeqProperties
            <4>4. 1 \in 1..3 - 3 + 1 /\ 3 + 1 - 1 = 3 /\ 3 - 3 + 1 = 1
                OBVIOUS
            <4>5. QED
                BY <4>3, <4>4
        <3> HIDE DEF s
        <3>2. IdentifySublayer(arch, s) = SubSeq(s, 1, 1)
            BY <3>1 DEF IdentifySublayer
        <3>3. SubSeq(s, 1, 1) = s
            <4>1. 1 \in 1..Len(s)
                BY <3>1
            <4>2. SubSeq(s, 1, Len(s)) = s
                BY <3>1, <4>1, Beginning
            <4>3. QED
                BY <3>1, <4>2
        <3>4. s = <<name>>
            BY <2>1, <2>3, <3>1
        <3>5. QED
            BY <3>2, <3>3, <3>4 DEF s
    <2>7. c.kind = "domain" /\ c.sublayer = <<name>>
        BY <2>5, <2>6 DEF Class
    <2>8. QED
        BY <2>7 DEF c, name
<1>12. CASE ~matchesDomainLayer(in, d, name)
    <2>1. ~(\/ name = "app" /\ (arch.appDir = NoDir \/ d # Append(arch.root, arch.appDir))
            \/ name = "infra"
            \/ /\ name = "handler"
               /\ arch.serverDir # NoDir => ~AtOrBelow(d, Append(arch.root, arch.serverDir))
               /\ d # arch.root \o (IF arch.orchestrationDir = NoDir THEN <<>> ELSE <<arch.orchestrationDir>>)
                                \o <<"handler">>)
        BY <1>6, <1>10, <1>12 DEF isMisplacedLayerDir, arch
    <2> DEFINE R == arch.root
    <2>2. R \in Seq(Segment) /\ Len(R) = 1
        BY InputFacts DEF arch
    <2> HIDE DEF R
    <2>3. ASSUME NEW x
          PROVE  Len(Append(R, x)) = 2 /\ Append(R, x)[2] = x
        <3> DEFINE T == Segment \cup {x}
        <3>1. R \in Seq(T) /\ x \in T
            <4>1. R \in Seq(T)
                BY <2>2, SeqMonotonic
            <4>2. QED
                BY <4>1
        <3> HIDE DEF T
        <3>2. Len(Append(R, x)) = Len(R) + 1 /\ Append(R, x)[Len(R) + 1] = x
            BY <3>1, AppendProperties
        <3>3. QED
            BY <2>2, <3>2
    <2>4. d[2] = r[1]
        <3>1. 1 \in 1..Len(r)
            BY <1>1
        <3>2. r[1] = d[1 + 1]
            BY <1>1, <3>1
        <3>3. QED
            BY <3>2
    <2>5. CASE name = "app"
        <3>1. d = Append(R, arch.appDir)
            BY <2>1, <2>5 DEF R
        <3>2. r[1] = arch.appDir
            BY <2>3, <2>4, <3>1
        <3>3. c.kind = "app"
            BY <1>1, <1>7, <1>8, <3>2, LayoutClasses
        <3>4. QED
            BY <2>5, <3>3 DEF c, name
    <2>6. CASE name = "handler" /\ AtOrBelow(d, Append(R, arch.serverDir))
        <3>1. Len(r) # 1
            BY <1>9, <2>6
        <3>2. Len(r) > 1 /\ Len(d) > 2
            BY <1>1, <3>1
        <3>3. d # Append(R, arch.serverDir)
            <4> SUFFICES ASSUME d = Append(R, arch.serverDir) PROVE FALSE
                OBVIOUS
            <4>1. Len(d) = 2
                BY <2>3
            <4>2. QED
                BY <3>2, <4>1
        <3>4. d[2] = arch.serverDir
            <4> DEFINE u == Append(R, arch.serverDir)
            <4>1. Under(d, u)
                BY <2>6, <3>3 DEF AtOrBelow
            <4>2. Len(u) = 2 /\ u[2] = arch.serverDir
                BY <2>3
            <4> HIDE DEF u
            <4>3. 2 \in 1..Len(u)
                BY <4>2
            <4>4. QED
                BY <4>1, <4>2, <4>3 DEF Under
        <3>5. c.kind = "transport"
            BY <1>1, <1>7, <1>8, <2>4, <3>2, <3>4, LayoutClasses
        <3>6. QED
            BY <2>6, <3>5 DEF c, name
    <2>7. CASE /\ name = "handler"
               /\ d = R \o (IF arch.orchestrationDir = NoDir THEN <<>> ELSE <<arch.orchestrationDir>>) \o <<"handler">>
        <3> DEFINE o == arch.orchestrationDir
                   T == Segment \cup {o, "handler"}
        <3>1. R \in Seq(T) /\ o \in T /\ "handler" \in T
            <4>1. R \in Seq(T)
                BY <2>2, SeqMonotonic
            <4>2. QED
                BY <4>1
        <3> HIDE DEF T
        <3>2. <<o>> \in Seq(T) /\ <<"handler">> \in Seq(T) /\ Len(<<o>>) = 1 /\ Len(<<"handler">>) = 1 /\ <<o>>[1] = o
            BY <3>1
        <3>3. CASE o = NoDir
            <4>1. d = R \o <<"handler">>
                BY <2>2, <2>7, <3>1, <3>3, ConcatEmptySeq
            <4>2. Len(d) = 2
                <5>1. Len(R \o <<"handler">>) = Len(R) + Len(<<"handler">>)
                    BY <3>1, <3>2, ConcatProperties
                <5>2. QED
                    BY <2>2, <3>2, <4>1, <5>1
            <4>3. Len(r) = 1
                BY <1>1, <4>2
            <4>4. QED
                BY <1>9, <2>7, <4>3
        <3>4. CASE o # NoDir
            <4> DEFINE s == R \o <<o>>
            <4>1. d = s \o <<"handler">>
                BY <2>7, <3>4
            <4>2. s \in Seq(T) /\ Len(s) = 2 /\ s[2] = o
                <5>1. /\ s \in Seq(T) /\ Len(s) = Len(R) + Len(<<o>>)
                      /\ \A i \in 1..Len(R) + Len(<<o>>) : s[i] = IF i <= Len(R) THEN R[i] ELSE <<o>>[i - Len(R)]
                    BY <3>1, <3>2, ConcatProperties
                <5>2. Len(s) = 2 /\ 2 \in 1..Len(R) + Len(<<o>>) /\ ~(2 <= Len(R)) /\ 2 - Len(R) = 1
                    BY <2>2, <3>2, <5>1
                <5>3. QED
                    BY <3>2, <5>1, <5>2
            <4> HIDE DEF s
            <4>3. d[2] = o
                <5>1. \A i \in 1..Len(s) + Len(<<"handler">>) :
                          (s \o <<"handler">>)[i] = IF i <= Len(s) THEN s[i] ELSE <<"handler">>[i - Len(s)]
                    BY <3>2, <4>2, ConcatProperties
                <5>2. 2 \in 1..Len(s) + Len(<<"handler">>) /\ 2 <= Len(s)
                    BY <3>2, <4>2
                <5>3. QED
                    BY <4>1, <4>2, <5>1, <5>2
            <4>4. c.kind = "orchestration"
                BY <1>1, <1>7, <1>8, <2>4, <4>3, LayoutClasses
            <4>5. QED
                BY <2>7, <4>4 DEF c, name
        <3>5. QED
            BY <3>3, <3>4
    <2>8. QED
        BY <1>10, <2>1, <2>5, <2>6, <2>7 DEF Placed, R
<1>13. QED
    BY <1>11, <1>12

\* Three paths one after the other.
LEMMA Joined ==
    ASSUME NEW S, NEW a \in Seq(S), NEW b \in Seq(S), NEW e \in Seq(S)
    PROVE  LET s == a \o b \o e IN
           /\ s \in Seq(S) /\ Len(s) = Len(a) + Len(b) + Len(e)
           /\ Len(a) \in Nat /\ Len(b) \in Nat /\ Len(e) \in Nat
           /\ \A i \in 1..Len(a) : s[i] = a[i]
           /\ \A i \in 1..Len(b) : s[Len(a) + i] = b[i]
           /\ \A i \in 1..Len(e) : s[Len(a) + Len(b) + i] = e[i]
<1> DEFINE t == a \o b
           s == t \o e
           m == Len(a)
           n == Len(b)
           k == Len(e)
<1>1. m \in Nat /\ n \in Nat /\ k \in Nat
    BY LenProperties
<1>2. t \in Seq(S) /\ Len(t) = m + n /\ \A i \in 1..m + n : t[i] = IF i <= m THEN a[i] ELSE b[i - m]
    BY ConcatProperties
<1> HIDE DEF t
<1>3. /\ s \in Seq(S) /\ Len(s) = Len(t) + k
      /\ \A i \in 1..Len(t) + k : s[i] = IF i <= Len(t) THEN t[i] ELSE e[i - Len(t)]
    <2>1. t \in Seq(S)
        BY <1>2
    <2> HIDE DEF m, n
    <2>2. QED
        BY <2>1, ConcatProperties
<1> HIDE DEF s, m, n, k
<1>4. ASSUME NEW i \in 1..m
      PROVE  s[i] = a[i]
    <2>1. i \in 1..m + n /\ i \in 1..m + n + k /\ i <= m /\ i <= m + n
        BY <1>1
    <2>2. QED
        BY <1>2, <1>3, <2>1
<1>5. ASSUME NEW i \in 1..n
      PROVE  s[m + i] = b[i]
    <2>1. m + i \in 1..m + n /\ m + i \in 1..m + n + k /\ ~(m + i <= m) /\ m + i <= m + n /\ m + i - m = i
        BY <1>1
    <2>2. t[m + i] = b[i]
        <3> DEFINE y == m + i
        <3>1. y \in 1..m + n /\ ~(y <= m) /\ y - m = i
            BY <1>1
        <3> HIDE DEF y
        <3>2. t[y] = b[y - m]
            BY <1>2, <3>1
        <3>3. t[y] = b[i]
            BY <3>1, <3>2
        <3>4. QED
            BY <3>3 DEF y
    <2>3. QED
        BY <1>2, <1>3, <2>1, <2>2
<1>6. ASSUME NEW i \in 1..k
      PROVE  s[m + n + i] = e[i]
    <2>1. m + n + i \in 1..m + n + k /\ ~(m + n + i <= m + n) /\ m + n + i - (m + n) = i
        BY <1>1
    <2>2. QED
        BY <1>2, <1>3, <2>1
<1>7. QED
    BY <1>1, <1>2, <1>3, <1>4, <1>5, <1>6 DEF s, t, m, n, k

\* A directory is no loose file.
LEMMA NoLooseDirectory ==
    ASSUME NEW in \in Inputs, NEW d \in Seq(Segment)
    PROVE  d \notin LooseFiles(in)
<1> SUFFICES ASSUME d \in LooseFiles(in) PROVE FALSE
    OBVIOUS
<1> DEFINE root == in.arch.root
<1>1. d = Append(root, AnyFile)
    BY DEF LooseFiles
<1>2. root \in Seq(Piece) /\ AnyFile \in Piece
    BY InputFacts, PieceFacts, SeqMonotonic
<1> HIDE DEF root
<1>3. Len(d) = Len(root) + 1 /\ d[Len(root) + 1] = AnyFile /\ Len(root) \in Nat
    BY <1>1, <1>2, AppendProperties, LenProperties
<1>4. Len(root) + 1 \in 1..Len(d)
    BY <1>3
<1>5. d[Len(root) + 1] \in Segment
    BY <1>4, ElementOfSeq
<1>6. QED
    BY <1>3, <1>5, PlacesAssumption

\* With a preset, a sublayer's own directory is left in peace.
LEMMA OwnPlaceIsAccepted ==
    ASSUME NEW in \in Inputs, in.arch \in Architectures, NEW p \in Loaded(in), IsInternal(in, p),
           NEW x, NEW l \in Entries(in.arch.sublayers), Tail(p) = OwnDirectory(in.arch, x, l)
    PROVE  FoundAt(in, Tail(p)) = {}
<1> DEFINE arch == in.arch
           d == Tail(p)
           n == Len(l)
<1>1. Regular(arch) /\ arch.root = <<"internal">> /\ Len(arch.root) = 1
    <2>1. Regular(arch)
        BY PresetsAreRegular
    <2>2. QED
        BY <2>1 DEF Regular
<1>2. l \in Seq(Segment) /\ n \in Nat /\ n >= 1 /\ KnownSublayer(arch, l)
    <2>1. PICK i \in DOMAIN arch.sublayers : l = arch.sublayers[i]
        BY DEF Entries
    <2>2. arch.sublayers \in Seq(Seq(Segment)) /\ l # <<>>
        BY <2>1, InputsAssumption DEF NoSublayer
    <2>3. l \in Seq(Segment)
        BY <2>1, <2>2, ElementOfSeq
    <2>4. n \in Nat \ {0}
        BY <2>2, <2>3, EmptySeq
    <2>5. QED
        BY <2>1, <2>3, <2>4 DEF KnownSublayer
<1>3. d \in Seq(Segment) /\ Under(d, arch.root) /\ d \in GoDirs(in)
    BY Positions
<1>4. hasInternalDir(in)
    BY Ancestors
<1>5. \A e \in Walked(in) : WalkRel(in, e) = e
    BY <1>1, WalkLoses DEF Walked
<1>6. d # <<>>
    <2>1. Len(d) > 1
        BY <1>1, <1>3 DEF Under
    <2> HIDE DEF d
    <2>2. QED
        BY <2>1
<1>7. Clear(d) /\ d \notin LooseFiles(in)
    BY <1>3, <1>6, DirIsClear, NoLooseDirectory
<1> HIDE DEF d, n, arch
<1>8. CASE arch.domainDir # NoDir
    <2> DEFINE m == <<arch.domainDir, x>>
               T == Segment \cup {arch.domainDir, x, "internal"}
    <2>1. l \in Seq(T) /\ arch.root \in Seq(T) /\ m \in Seq(T) /\ Len(m) = 2 /\ m[1] = arch.domainDir
        <3>1. l \in Seq(T)
            BY <1>2, SeqMonotonic
        <3>2. arch.domainDir \in T /\ x \in T /\ "internal" \in T
            OBVIOUS
        <3> HIDE DEF T
        <3>3. QED
            BY <1>1, <3>1, <3>2
    <2>2. d = arch.root \o m \o l
        BY <1>8 DEF OwnDirectory, d, arch
    <2> HIDE DEF m, T
    <2>3. /\ Len(d) = 1 + 2 + n
          /\ \A i \in 1..1 : d[i] = arch.root[i]
          /\ \A i \in 1..2 : d[1 + i] = m[i]
          /\ \A i \in 1..n : d[1 + 2 + i] = l[i]
        <3> DEFINE a == arch.root
                   A == Len(a)
                   M == Len(m)
        <3>1. a \in Seq(T) /\ m \in Seq(T) /\ l \in Seq(T) /\ d = a \o m \o l
            BY <2>1, <2>2
        <3> HIDE DEF a
        <3>2. /\ Len(d) = A + M + n
              /\ \A i \in 1..A : d[i] = a[i]
              /\ \A i \in 1..M : d[A + i] = m[i]
              /\ \A i \in 1..n : d[A + M + i] = l[i]
            BY <3>1, Joined DEF n
        <3>3. A = 1 /\ M = 2
            BY <1>1, <2>1 DEF a
        <3> HIDE DEF A, M
        <3>4. QED
            BY <3>2, <3>3 DEF a
    <2>4. d[1] = "internal" /\ d[2] = arch.domainDir /\ d[3 + n] = l[n] /\ Len(d) = 3 + n
        <3>1. 1 \in 1..1 /\ 1 \in 1..2 /\ n \in 1..n /\ 1 + 1 = 2 /\ 1 + 2 + n = 3 + n
            BY <1>2
        <3>2. d[1] = arch.root[1] /\ d[1 + 1] = m[1] /\ d[1 + 2 + n] = l[n]
            BY <2>3, <3>1
        <3>3. QED
            BY <1>1, <2>1, <2>3, <3>1, <3>2
    <2>5. Name(d) = Name(l)
        BY <2>4 DEF Name, n
    <2>6. Len(d) \notin {2, 3}
        BY <1>2, <2>4
    <2>7. ~Entry(in, d, 1) /\ d \notin DomainEntries(in)
        BY <1>1, <2>6 DEF Entry, DomainEntries, arch
    <2>8. "structural.internal-top-level" \notin FoundAt(in, d)
        BY <1>7, <2>7, FindingsAt
    <2>9. ~isMisplacedLayerDir(in, d, Name(d))
        <3>1. CASE Name(d) \in Placed
            <4>1. n = 1
                BY <1>1, <1>8, <2>5, <3>1 DEF Regular, n, arch
            <4>2. Len(d) = 4 /\ d[4] = Name(d)
                BY <2>4, <2>5, <4>1 DEF Name, n
            <4>3. matchesDomainLayer(in, d, Name(d))
                BY <1>1, <2>4, <4>2 DEF matchesDomainLayer, arch
            <4>4. QED
                BY <4>3 DEF isMisplacedLayerDir
        <3>2. CASE Name(d) \notin Placed
            BY <3>2 DEF isMisplacedLayerDir, Placed
        <3>3. QED
            BY <3>1, <3>2
    <2>10. "structural.misplaced-layer" \notin FoundAt(in, d)
        BY <1>4, <1>5, <1>7, <2>9, FindingsAt
    <2>11. Name(d) \notin Forbidden
        BY <1>1, <2>5 DEF Regular, arch
    <2>12. FoundAt(in, d) = {}
        BY <1>4, <1>5, <1>7, <2>7, <2>8, <2>10, <2>11, FindingsAt
    <2>13. QED
        BY <2>12 DEF d
<1>9. CASE arch.domainDir = NoDir
    <2>1. n = 1 /\ l = <<Name(l)>> /\ Name(l) \notin Placed /\ Name(l) \notin Forbidden
        BY <1>1, <1>9 DEF Regular, n, arch
    <2>2. l \in arch.topLevel
        BY <1>1, <1>2, <1>9, <2>1 DEF Regular
    <2>3. arch.root \in Seq(Segment) /\ <<>> \in Seq(Segment)
        BY InputFacts DEF arch
    <2>4. d = arch.root \o <<>> \o l
        BY <1>9 DEF OwnDirectory, d, arch
    <2>5. Len(d) = 1 + 0 + n /\ \A i \in 1..n : d[1 + 0 + i] = l[i]
        <3>1. Len(<<>>) = 0
            OBVIOUS
        <3>2. QED
            BY <1>1, <1>2, <2>3, <2>4, <3>1, Joined DEF n
    <2>6. Name(d) = Name(l)
        <3>1. Len(d) = 2 /\ 1 \in 1..n /\ 1 + 0 + 1 = 2
            BY <2>1, <2>5
        <3>2. d[1 + 0 + 1] = l[1]
            BY <2>5, <3>1
        <3>3. QED
            BY <2>1, <3>1, <3>2 DEF Name, n
    <2>7. <<Name(d)>> \in in.arch.topLevel
        BY <2>1, <2>2, <2>6 DEF arch
    <2>8. "structural.internal-top-level" \notin FoundAt(in, d)
        BY <1>7, <2>7, FindingsAt
    <2>9. ~isMisplacedLayerDir(in, d, Name(d))
        BY <2>1, <2>6 DEF isMisplacedLayerDir, Placed
    <2>10. "structural.misplaced-layer" \notin FoundAt(in, d)
        BY <1>4, <1>5, <1>7, <2>9, FindingsAt
    <2>11. FoundAt(in, d) = {}
        BY <1>4, <1>5, <1>7, <1>9, <2>1, <2>6, <2>8, <2>10, FindingsAt DEF arch
    <2>12. QED
        BY <2>11 DEF d
<1>10. QED
    BY <1>8, <1>9

\* A layer's name and a layer's place are read alike.
LEMMA InvariantPlaces == IInv => LayersAreWhereTheyAreRead
<1>1. IInv => input \in Inputs
    BY DEF IInv
<1>2. QED
    BY <1>1, AcceptedIsRead, OwnPlaceIsAccepted DEF LayersAreWhereTheyAreRead, Placed

\* A model sublayer read from a domain's directory.
LEMMA ModelIsSublayer ==
    ASSUME NEW arch, Readable(arch), arch.requireModel
    PROVE  IdentifySublayer(arch, arch.modelPath) = arch.modelPath
<1> DEFINE s == arch.modelPath
<1>1. s \in Seq(Segment) /\ Len(s) \in 1..2 /\ KnownSublayer(arch, s)
    BY DEF Readable
<1> HIDE DEF s
<1>2. Len(s) = 1 \/ Len(s) = 2
    BY <1>1
<1>3. Len(s) \in 1..Len(s)
    <2>1. 1 \in 1..1 /\ 2 \in 1..2
        OBVIOUS
    <2>2. QED
        BY <1>2, <2>1
<1>4. SubSeq(s, 1, Len(s)) = s
    BY <1>1, <1>3, Beginning
<1>5. CASE Len(s) = 1
    BY <1>4, <1>5 DEF IdentifySublayer, s
<1>6. CASE Len(s) = 2
    <2>1. SubSeq(s, 1, 2) = s /\ Len(s) >= 2
        BY <1>4, <1>6
    <2>2. KnownSublayer(arch, SubSeq(s, 1, 2))
        BY <1>1, <2>1
    <2>3. IdentifySublayer(arch, s) = SubSeq(s, 1, 2)
        BY <2>1, <2>2 DEF IdentifySublayer
    <2>4. QED
        BY <2>1, <2>3 DEF s
<1>7. QED
    BY <1>2, <1>5, <1>6

\* What the import rules make of a package in the model directory of the domain
\* that another package is in.
LEMMA ModelIsRead ==
    ASSUME NEW in \in Inputs, NEW p \in Loaded(in), IsInternal(in, p), DomainKind(ClassOf(in, p)),
           in.arch.domainDir # NoDir, in.arch.requireModel, Readable(in.arch)
    PROVE  LET e == SubSeq(Tail(p), 1, Len(in.arch.root) + 2)
           IN  /\ e \in DomainEntries(in)
               /\ HasModel(in, e) =>
                      \E q \in Loaded(in) :
                          ClassOf(in, q) = Class("domain", ClassOf(in, p).domain, in.arch.modelPath)
<1> DEFINE arch == in.arch
           root == arch.root
           R == Len(root)
           d == Tail(p)
           r == Rel(arch, in.module, p)
           e == SubSeq(d, 1, R + 2)
           mp == arch.modelPath
<1>1. /\ d \in Seq(Segment) /\ R \in Nat /\ R >= 1 /\ Len(r) \in Nat /\ Len(r) >= 1
      /\ Len(d) = R + Len(r) /\ Len(d) \in Nat
      /\ \A i \in 1..R : d[i] = root[i]
      /\ \A i \in 1..Len(r) : r[i] = d[R + i] /\ r[i] \in Segment
      /\ ClassOf(in, p) = ClassifyRel(arch, r)
    BY Positions
<1>2. Readable(arch) /\ arch.requireModel /\ arch.domainDir # NoDir
    OBVIOUS
<1>3. mp \in Seq(Segment) /\ Len(mp) \in 1..2
    BY <1>2 DEF Readable
<1>4. \A k \in 1..Len(d) : SubSeq(d, 1, k) \in Directories(in)
    BY Ancestors
<1> HIDE DEF r
<1>5. /\ ClassOf(in, p) = ClassifyInDomains(arch, r) /\ ~InDir(r, arch.sharedDir) /\ ~InDir(r, arch.appDir)
      /\ ~InDir(r, arch.orchestrationDir) /\ ~(InDir(r, arch.serverDir) /\ Len(r) > 1)
    BY <1>1, <1>2 DEF ClassifyRel, DomainKind, Class
<1>6. r[1] = arch.domainDir /\ Len(r) # 1 /\ ClassOf(in, p).domain = r[2]
    BY <1>5 DEF ClassifyInDomains, DomainKind, Class, Unclassified
<1>7. Len(r) >= 2 /\ Len(r) > 1
    <2>1. \A n \in Nat : n >= 1 /\ n # 1 => n >= 2 /\ n > 1
        OBVIOUS
    <2>2. QED
        BY <1>1, <1>6, <2>1
<1>8. ~InDir(r, arch.serverDir)
    BY <1>5, <1>7
<1>9. root \in Seq(Segment)
    BY InputFacts
<1> HIDE DEF arch, root, R, d, e, mp
<1>10. R + 2 \in 1..Len(d)
    BY <1>1, <1>7
<1>11. /\ e \in Seq(Segment) /\ Len(e) = R + 2 /\ e \in Directories(in)
       /\ \A i \in 1..R + 2 : e[i] = d[i]
    BY <1>1, <1>4, <1>10, Beginning DEF e
<1>12. e[R + 1] = r[1] /\ e[R + 2] = r[2]
    <2>1. R + 1 \in 1..R + 2 /\ R + 2 \in 1..R + 2 /\ 1 \in 1..Len(r) /\ 2 \in 1..Len(r)
        BY <1>1, <1>7
    <2>2. QED
        BY <1>1, <1>11, <2>1
<1>13. \A i \in 1..R : e[i] = root[i]
    <2> TAKE i \in 1..R
    <2>1. i \in 1..R + 2
        BY <1>1
    <2>2. QED
        BY <1>1, <1>11, <2>1
<1>14. e \in DomainEntries(in)
    <2>1. Under(e, root)
        BY <1>1, <1>11, <1>13 DEF Under, R
    <2>2. Entry(in, e, 2)
        BY <1>11, <2>1 DEF Entry, R, root, arch
    <2>3. Len(e) - 1 = R + 1
        BY <1>1, <1>11
    <2>4. e[Len(e) - 1] = arch.domainDir
        BY <1>6, <1>12, <2>3
    <2>5. QED
        BY <1>11, <2>2, <2>4 DEF DomainEntries, arch
<1>15. ASSUME HasModel(in, e)
       PROVE  \E q \in Loaded(in) : ClassOf(in, q) = Class("domain", ClassOf(in, p).domain, mp)
    <2>1. PICK q \in Loaded(in) : q[1] = in.module /\ Tail(q) = e \o mp
        BY <1>15 DEF HasModel, GoDirs, mp, arch
    <2> DEFINE s == e \o mp
               x == InternalPrefix(in.arch, in.module)
               z == Rel(arch, in.module, q)
               M == Len(mp)
    <2>2. M \in Nat /\ M >= 1
        BY <1>3
    <2>3. /\ s \in Seq(Segment) /\ Len(s) = R + 2 + M
          /\ \A i \in 1..R + 2 + M : s[i] = IF i <= R + 2 THEN e[i] ELSE mp[i - (R + 2)]
        <3>1. /\ s \in Seq(Segment) /\ Len(s) = Len(e) + Len(mp)
              /\ \A i \in 1..Len(e) + Len(mp) : s[i] = IF i <= Len(e) THEN e[i] ELSE mp[i - Len(e)]
            BY <1>3, <1>11, ConcatProperties
        <3> HIDE DEF s
        <3>2. QED
            BY <1>11, <3>1
    <2> HIDE DEF s, M
    <2>4. q \in Path /\ q \in Seq(Segment) /\ q # <<>>
        BY InputFacts, PathFacts
    <2>5. Tail(q) = s
        BY <2>1 DEF s
    <2>6. Len(q) = 1 + Len(s) /\ \A i \in 1..Len(s) : q[i + 1] = s[i]
        <3>1. Len(Tail(q)) = Len(q) - 1 /\ \A i \in 1..Len(Tail(q)) : Tail(q)[i] = q[i + 1]
            BY <2>4, HeadTailProperties
        <3>2. Len(q) \in Nat
            BY <2>4, LenProperties
        <3>3. Len(s) = Len(q) - 1 /\ \A i \in 1..Len(s) : s[i] = q[i + 1]
            BY <2>5, <3>1
        <3>4. \A n \in Nat : n = 1 + (n - 1)
            OBVIOUS
        <3>5. QED
            BY <3>2, <3>3, <3>4
    <2>7. Len(x) = R + 1 /\ x[1] = in.module /\ \A i \in 1..R : x[i + 1] = root[i]
        <3> DEFINE T == Segment \cup {in.module}
        <3>1. x = <<in.module>> \o root
            BY DEF InternalPrefix, root, arch
        <3>2. root \in Seq(T) /\ <<in.module>> \in Seq(T) /\ Len(<<in.module>>) = 1 /\ <<in.module>>[1] = in.module
            <4>1. root \in Seq(T)
                BY <1>9, SeqMonotonic
            <4>2. in.module \in T
                OBVIOUS
            <4> HIDE DEF T
            <4>3. QED
                BY <4>1, <4>2
        <3> HIDE DEF T, x
        <3>3. /\ Len(x) = 1 + Len(root)
              /\ \A i \in 1..1 + Len(root) : x[i] = IF i <= 1 THEN <<in.module>>[i] ELSE root[i - 1]
            BY <3>1, <3>2, ConcatProperties
        <3>4. /\ 1 \in 1..1 + R /\ 1 + R = R + 1
              /\ \A i \in 1..R : i + 1 \in 1..1 + R /\ ~(i + 1 <= 1) /\ i + 1 - 1 = i
            BY <1>1
        <3>5. QED
            BY <3>2, <3>3, <3>4 DEF R
    <2> HIDE DEF x
    <2>8. \A i \in 1..R + 1 : q[i] = x[i]
        <3> TAKE i \in 1..R + 1
        <3>1. CASE i = 1
            BY <2>1, <2>7, <3>1
        <3>2. CASE i # 1
            <4> DEFINE j == i - 1
            <4>1. j \in 1..R /\ i = j + 1 /\ j \in 1..R + 2 + M /\ j <= R + 2
                BY <1>1, <2>2, <3>2
            <4> HIDE DEF j
            <4>2. q[j + 1] = s[j] /\ s[j] = e[j] /\ e[j] = root[j] /\ x[j + 1] = root[j]
                BY <1>13, <2>3, <2>6, <2>7, <4>1
            <4>3. QED
                BY <4>1, <4>2
        <3>3. QED
            BY <3>1, <3>2
    <2>9. IsInternal(in, q)
        <3>1. Len(q) > Len(x)
            BY <1>1, <2>2, <2>3, <2>6, <2>7
        <3>2. Under(q, x)
            BY <2>7, <2>8, <3>1 DEF Under
        <3>3. QED
            BY <3>2 DEF IsInternal, Internal, x
    <2>10. /\ Len(z) \in Nat /\ Len(s) = R + Len(z) /\ z \in Seq(Segment)
           /\ \A i \in 1..Len(z) : z[i] = s[R + i]
           /\ ClassOf(in, q) = ClassifyRel(arch, z)
        BY <2>5, <2>9, Positions DEF R, root, arch
    <2> HIDE DEF z
    <2>11. Len(z) = 2 + M
        BY <1>1, <2>2, <2>3, <2>10
    <2>12. z[1] = r[1] /\ z[2] = r[2]
        <3>1. /\ 1 \in 1..Len(z) /\ 2 \in 1..Len(z) /\ R + 1 \in 1..R + 2 + M /\ R + 2 \in 1..R + 2 + M
              /\ R + 1 <= R + 2
            BY <1>1, <2>2, <2>11
        <3>2. z[1] = s[R + 1] /\ z[2] = s[R + 2]
            BY <2>10, <3>1
        <3>3. s[R + 1] = e[R + 1] /\ s[R + 2] = e[R + 2]
            BY <1>1, <2>3, <3>1
        <3>4. QED
            BY <1>12, <3>2, <3>3
    <2>13. SubSeq(z, 3, Len(z)) = mp
        <3> DEFINE y == SubSeq(z, 3, Len(z))
        <3>1. 3 \in Int /\ Len(z) \in Int /\ 3 <= Len(z) /\ \A i \in 3..Len(z) : z[i] \in Segment
            <4>1. \A i \in 3..Len(z) : i \in 1..Len(z)
                BY <2>10
            <4>2. QED
                BY <2>2, <2>10, <2>11, <4>1, ElementOfSeq
        <3>2. /\ y \in Seq(Segment) /\ Len(y) = Len(z) - 3 + 1
              /\ \A i \in 1..Len(z) - 3 + 1 : y[i] = z[3 + i - 1]
            BY <3>1, SubSeqProperties
        <3> HIDE DEF y
        <3>3. Len(z) - 3 + 1 = M
            BY <2>2, <2>11
        <3>4. ASSUME NEW i \in 1..M
              PROVE  y[i] = mp[i]
            <4> DEFINE k == R + (2 + i)
            <4>1. /\ 3 + i - 1 = 2 + i /\ 2 + i \in 1..Len(z)
                  /\ k \in 1..R + 2 + M /\ ~(k <= R + 2) /\ k - (R + 2) = i
                BY <1>1, <2>2, <2>11
            <4>2. y[i] = z[2 + i]
                BY <3>2, <3>3, <4>1
            <4>3. z[2 + i] = s[k]
                BY <2>10, <4>1
            <4> HIDE DEF k
            <4>4. s[k] = mp[k - (R + 2)]
                BY <2>3, <4>1
            <4>5. QED
                BY <4>1, <4>2, <4>3, <4>4
        <3>5. Len(y) = Len(mp)
            BY <3>2, <3>3 DEF M
        <3>6. y = mp
            BY <1>3, <3>2, <3>4, <3>5, SeqEqual DEF M
        <3>7. QED
            BY <3>6 DEF y
    <2>14. ClassOf(in, q) = ClassifyInDomains(arch, z)
        BY <1>2, <1>5, <1>8, <2>10, <2>12 DEF ClassifyRel, InDir
    <2>15. Len(z) # 1 /\ Len(z) # 2
        BY <2>2, <2>11
    <2>16. ClassOf(in, q) = Class("domain", r[2], IdentifySublayer(arch, mp))
        BY <1>6, <2>12, <2>13, <2>14, <2>15 DEF ClassifyInDomains
    <2>17. IdentifySublayer(arch, mp) = mp
        BY <1>2, ModelIsSublayer DEF mp
    <2>18. QED
        BY <1>6, <2>16, <2>17
<1>16. QED
    BY <1>14, <1>15 DEF arch, root, R, d, e, mp

\* A required model that is there is read as the domain's model layer.
LEMMA InvariantModels == IInv => DomainsHaveModels
<1> SUFFICES ASSUME IInv, Readable(input.arch), ModelRequired(input) = {},
                    NEW p \in Loaded(input), IsInternal(input, p), DomainKind(ClassOf(input, p))
             PROVE  \/ ExcludedDir(input, SubSeq(Tail(p), 1, Len(input.arch.root) + 2))
                    \/ \E q \in Loaded(input) :
                          ClassOf(input, q) = Class("domain", ClassOf(input, p).domain, input.arch.modelPath)
    BY DEF DomainsHaveModels
<1> DEFINE e == SubSeq(Tail(p), 1, Len(input.arch.root) + 2)
<1>1. input \in Inputs
    BY DEF IInv
<1>2. Unsupported # {} /\ Disabled # {}
    BY DEF Unsupported, Disabled
<1>3. input.arch.domainDir # NoDir /\ input.arch.requireModel
    BY <1>2 DEF ModelRequired
<1>4. /\ e \in DomainEntries(input)
      /\ HasModel(input, e) =>
             \E q \in Loaded(input) :
                 ClassOf(input, q) = Class("domain", ClassOf(input, p).domain, input.arch.modelPath)
    BY <1>1, <1>3, ModelIsRead
<1> HIDE DEF e
<1>5. ExcludedDir(input, e) \/ HasModel(input, e)
    BY <1>2, <1>3, <1>4 DEF ModelRequired
<1>6. QED
    BY <1>4, <1>5 DEF e

(* The rules that walk directories and the import rules read a project      *)
(* alike: a stray package is reported as a directory, a layer's name the    *)
(* walk accepts is the layer its imports are judged by, and a required      *)
(* model is there as a layer (internal_top_level.go, layer_placement.go,    *)
(* model_required.go against isolation.go 302-364).                         *)
THEOREM DirectoriesAreReadAlike == Spec => []DirectoriesReadAlike
<1>1. IInv => DirectoriesReadAlike
    BY InvariantStrays, InvariantPlaces, InvariantModels DEF DirectoriesReadAlike
<1>2. QED
    BY <1>1, ReportInvariant, PTL
=================================================================================
