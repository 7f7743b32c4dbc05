------------------------------ MODULE ImportRules ------------------------------
(***************************************************************************)
(* dependency.NewIsolation and dependency.NewLayerDirection                *)
(* (src/rules/dependency/isolation.go, layer_direction.go): the two rules  *)
(* that judge every import between the packages of a project, run one      *)
(* after the other as core.Run does.                                       *)
(*                                                                         *)
(* A package's imports are a Go map, so they are ranged over in any order. *)
(* A violation keeps the rule that reports it, its ID, the package and the *)
(* import; positions, messages and severities are left out.                *)
(***************************************************************************)
EXTENDS PackageKinds, DirectionGraph

CONSTANTS
    Segment,  \* names of directories
    Path,     \* import paths, sequences of segments
    Inputs    \* the contexts: [arch, module, pkgs, imports, excluded]

Allowed == ""
NoImport == <<>>

Loaded(in) == {in.pkgs[i] : i \in DOMAIN in.pkgs}

\* pkgs: the loaded packages; imports: Package.Imports; excluded: the paths for
\* which ctx.IsExcluded holds. arch has passed Validate (architecture_validate.go
\* 28-56): sublayers are not empty and have a key in Direction. The internal
\* root is not below cmd.
ASSUME InputsAssumption ==
    /\ "" \notin Segment
    /\ \A p \in Path : p \in Seq(Segment) \ {NoImport}
    /\ \A in \in Inputs :
         /\ in.pkgs \in Seq(Path)
         /\ in.imports \in [Loaded(in) -> SUBSET Path]
         /\ in.arch.root \in Seq(Segment) \ {<<>>} /\ in.arch.root[1] # "cmd"
         /\ in.arch.sublayers \in Seq(Seq(Segment))
         /\ \A i \in DOMAIN in.arch.sublayers :
              /\ in.arch.sublayers[i] # NoSublayer
              /\ in.arch.sublayers[i] \in DOMAIN in.arch.direction

VARIABLES
    input,    \* never changes
    rule,     \* the rule whose Check runs
    phase,    \* "start" of Check, in the loop over "packages", over "imports"
    at,       \* index of the package loop
    todo,     \* imports not yet ranged over
    report    \* violations so far

vars == <<input, rule, phase, at, todo, report>>

Rules == {"isolation", "direction"}
After(r) == IF r = "isolation" THEN "direction" ELSE "done"
Violation(r, id, p, q) == [rule |-> r, id |-> id, pkg |-> p, imp |-> q]

ClassOf(in, p) == Classify(in.arch, in.module, p)
IsInternal(in, p) == Internal(in.arch, in.module, p)
DomainKind(c) == c.kind \in {"domain", "root"}
SameDomain(a, b)  == DomainKind(a) /\ DomainKind(b) /\ a.domain # NoDomain /\ a.domain = b.domain
\* Mutant: only the other domain's layers count, not its root package.
CrossDomainLayers(a, b) ==
    DomainKind(a) /\ b.kind = "domain" /\ NoDomain \notin {a.domain, b.domain} /\ a.domain # b.domain

CrossDomain(a, b) == /\ DomainKind(a) /\ DomainKind(b)
                     /\ NoDomain \notin {a.domain, b.domain} /\ a.domain # b.domain
-------------------------------------------------------------------------------
\* Why Check returns a single meta warning instead of looking at the imports.
Refusal(in, r) ==
    IF r = "isolation" /\ in.arch.domainDir = NoDir THEN "meta.rule-disabled-by-config"
    ELSE IF \/ in.module = ""
            \/ ~\E p \in Loaded(in) : p = <<in.module>> \/ Under(p, <<in.module>>)
         THEN "meta.no-matching-packages"
    ELSE IF ~\E p \in Loaded(in) : IsInternal(in, p) THEN "meta.layout-not-supported"
    ELSE Allowed

\* Isolation without RequireAlias warns that two of its checks are off.
Partial(in, r) ==
    IF r = "isolation" /\ ~in.arch.requireAlias
    THEN {Violation(r, "meta.rule-disabled-by-config", NoImport, NoImport)}
    ELSE {}

\* Mutant: every package without a domain is skipped, not only app.
InspectsDomainsOnly(in, r, p) ==
    p \notin in.excluded /\ IsInternal(in, p) /\ DomainKind(ClassOf(in, p))

\* the packages whose imports the loop ranges over
Inspects(in, r, p) ==
    /\ p \notin in.excluded
    /\ IF r = "isolation"
       THEN \/ IsCmd(in.module, p)
            \/ IsInternal(in, p) /\ ClassOf(in, p).kind # "app"
       ELSE /\ IsInternal(in, p) /\ ClassOf(in, p).kind = "domain"
            /\ in.arch.domainDir # NoDir =>
                   KnownSublayer(in.arch, ClassOf(in, p).sublayer)

\* a package that is reported instead of being inspected
UnknownSublayer(in, r, p) ==
    /\ r = "direction" /\ in.arch.domainDir # NoDir
    /\ p \notin in.excluded /\ IsInternal(in, p) /\ ClassOf(in, p).kind = "domain"
    /\ ~KnownSublayer(in.arch, ClassOf(in, p).sublayer)
-------------------------------------------------------------------------------
CmdVerdict(in, imp) ==
    IF in.arch.requireAlias /\ imp.kind = "domain" THEN "cmd-deep-import" ELSE Allowed

OrchestrationVerdict(in, imp) ==
    IF in.arch.requireAlias /\ imp.kind = "domain"
    THEN "orchestration-deep-import" ELSE Allowed

TransportVerdict(imp) ==
    IF DomainKind(imp) THEN "transport-imports-domain"
    ELSE IF imp.kind = "orchestration" THEN "transport-imports-orchestration"
    ELSE IF imp.kind = "unclassified" THEN "transport-imports-unclassified"
    ELSE Allowed

\* checkInternalImport: the first condition that holds decides.
InternalVerdict(in, src, imp) ==
    IF DomainKind(src) /\ imp.kind \in {"app", "transport"} THEN "domain-imports-composition"
    ELSE IF imp.kind = "shared" /\ src.kind # "shared" THEN Allowed
    ELSE IF src.kind = "transport" THEN TransportVerdict(imp)
    ELSE IF SameDomain(src, imp) THEN Allowed
    ELSE IF src.kind = "orchestration" THEN OrchestrationVerdict(in, imp)
    ELSE IF src.kind = "shared" /\ DomainKind(imp) THEN "pkg-imports-domain"
    ELSE IF src.kind = "shared" /\ imp.kind = "orchestration" THEN "pkg-imports-orchestration"
    ELSE IF imp.kind = "orchestration" /\ DomainKind(src) THEN "domain-imports-orchestration"
    ELSE IF imp.kind = "orchestration" THEN "stray-imports-orchestration"
    ELSE IF CrossDomain(src, imp) THEN "cross-domain"
    ELSE IF src.kind = "unclassified" /\ DomainKind(imp) THEN "stray-imports-domain"
    ELSE Allowed

IsolationVerdict(in, p, q) ==
    IF ~IsInternal(in, q) THEN Allowed
    ELSE IF IsCmd(in.module, p) THEN CmdVerdict(in, ClassOf(in, q))
    ELSE InternalVerdict(in, ClassOf(in, p), ClassOf(in, q))

\* Mutant: an empty list of allowed imports allows everything.
SublayerVerdictLax(in, src, imp) ==
    IF \/ imp.sublayer \in {NoSublayer, src.sublayer}
       \/ Imports(in.arch.direction, src.sublayer) = <<>>
       \/ Edge(in.arch.direction, src.sublayer, imp.sublayer)
    THEN Allowed ELSE "invalid-import-direction"

\* checkDirection
SublayerVerdict(in, src, imp) ==
    IF \/ imp.sublayer \in {NoSublayer, src.sublayer}
       \/ src.sublayer \notin DOMAIN in.arch.direction
       \/ Edge(in.arch.direction, src.sublayer, imp.sublayer)
    THEN Allowed ELSE "invalid-import-direction"

\* Mutant: imports of other domains are not left to Isolation.
LayerVerdictEverywhere(in, src, imp) ==
    IF imp.kind # "domain" THEN Allowed ELSE SublayerVerdict(in, src, imp)

\* the body of the import loops of checkDomain and checkFlat
LayerVerdict(in, src, imp) ==
    IF imp.kind = "shared"
    THEN IF src.sublayer \in in.arch.pkgRestricted THEN "inner-imports-pkg" ELSE Allowed
    ELSE IF imp.kind \in {"orchestration", "unclassified"} THEN Allowed
    ELSE IF in.arch.domainDir = NoDir THEN SublayerVerdict(in, src, imp)
    ELSE IF imp.domain # src.domain THEN Allowed
    ELSE IF imp.sublayer # NoSublayer /\ ~KnownSublayer(in.arch, imp.sublayer)
         THEN "unknown-sublayer"
    ELSE SublayerVerdict(in, src, imp)

DirectionVerdict(in, p, q) ==
    IF IsInternal(in, q) THEN LayerVerdict(in, ClassOf(in, p), ClassOf(in, q)) ELSE Allowed

Verdict(in, r, p, q) ==
    IF r = "isolation" THEN IsolationVerdict(in, p, q) ELSE DirectionVerdict(in, p, q)

Judgement(in, r, p, q) ==
    IF Verdict(in, r, p, q) = Allowed THEN {}
    ELSE {Violation(r, Verdict(in, r, p, q), p, q)}
-------------------------------------------------------------------------------
Package == input.pkgs[at]

\* the checks before the loop
Refuse ==
    /\ rule \in Rules /\ phase = "start" /\ Refusal(input, rule) # Allowed
    /\ report' = report \cup {Violation(rule, Refusal(input, rule), NoImport, NoImport)}
    /\ rule' = After(rule)
    /\ UNCHANGED <<input, phase, at, todo>>

Begin ==
    /\ rule \in Rules /\ phase = "start" /\ Refusal(input, rule) = Allowed
    /\ phase' = "packages" /\ at' = 1
    /\ report' = report \cup Partial(input, rule)
    /\ UNCHANGED <<input, rule, todo>>

SkipPackage ==
    /\ phase = "packages" /\ at <= Len(input.pkgs) /\ ~Inspects(input, rule, Package)
    /\ report' = report \cup
           IF UnknownSublayer(input, rule, Package)
           THEN {Violation(rule, "unknown-sublayer", Package, NoImport)} ELSE {}
    /\ at' = at + 1
    /\ UNCHANGED <<input, rule, phase, todo>>

EnterPackage ==
    /\ phase = "packages" /\ at <= Len(input.pkgs) /\ Inspects(input, rule, Package)
    /\ phase' = "imports" /\ todo' = input.imports[Package]
    /\ UNCHANGED <<input, rule, at, report>>

\* one iteration of "for impPath := range pkg.Imports"
CheckImport ==
    /\ phase = "imports"
    /\ \E q \in todo :
         /\ report' = report \cup Judgement(input, rule, Package, q)
         /\ todo' = todo \ {q}
    /\ UNCHANGED <<input, rule, phase, at>>

LeavePackage ==
    /\ phase = "imports" /\ todo = {}
    /\ phase' = "packages" /\ at' = at + 1
    /\ UNCHANGED <<input, rule, todo, report>>

Return ==
    /\ phase = "packages" /\ at > Len(input.pkgs)
    /\ rule' = After(rule) /\ phase' = "start"
    /\ UNCHANGED <<input, at, todo, report>>

Init ==
    /\ input \in Inputs
    /\ rule = "isolation" /\ phase = "start" /\ at = 1 /\ todo = {} /\ report = {}

Next == Refuse \/ Begin \/ SkipPackage \/ EnterPackage \/ CheckImport
        \/ LeavePackage \/ Return

Spec == Init /\ [][Next]_vars
-------------------------------------------------------------------------------
Passed(r) == rule \notin {r, "isolation"}

\* r looked at every package and has nothing to say, not even a warning
Clean(r) == Passed(r) /\ ~\E v \in report : v.rule = r

Reported(r, p, q) == \E v \in report : v.rule = r /\ v.pkg = p /\ v.imp = q

\* Sets that no import leaves, but for imports into the composition root and
\* transport. Excluded packages are not looked into, nor are packages that
\* were not loaded.
Closed(in, S) ==
    \A p \in S \cap Loaded(in) : \A q \in in.imports[p] :
        /\ p \notin in.excluded /\ IsInternal(in, q)
        /\ ClassOf(in, q).kind \notin {"app", "transport"}
        => q \in S

\* What a package reaches over any number of such imports.
Reachable(in, p) ==
    LET All == Loaded(in) \cup UNION {in.imports[q] : q \in Loaded(in)}
    IN  {q \in All : \A S \in SUBSET All : p \in S /\ Closed(in, S) => q \in S}

(* Isolation is transitive: when it has nothing to report, no chain of     *)
(* imports however long, through shared and stray packages too, leads from *)
(* a domain into another domain or into orchestration                      *)
(* (isolation.go:121-155). Chains through app and transport are another    *)
(* matter: shared and stray packages may import those (see MatrixEnforced).*)
CleanMeansIsolated ==
    Clean("isolation") =>
        \A p \in Loaded(input) :
            IsInternal(input, p) /\ DomainKind(ClassOf(input, p)) =>
                \A q \in Reachable(input, p) :
                    /\ ClassOf(input, q).kind # "orchestration"
                    /\ DomainKind(ClassOf(input, q)) =>
                           ClassOf(input, q).domain = ClassOf(input, p).domain

\* Package p of domain d and sublayer a imports sublayer b of the domain.
Uses(in, d, a, b) ==
    \E p \in Loaded(in) \ in.excluded : \E q \in in.imports[p] :
        /\ IsInternal(in, p) /\ ClassOf(in, p) = Class("domain", d, a)
        /\ IsInternal(in, q) /\ ClassOf(in, q) = Class("domain", d, b)

SublayersOf(in) == {in.arch.sublayers[i] : i \in DOMAIN in.arch.sublayers}

(* What findDirectionCycle buys: under a Direction that Validate accepts, a *)
(* project LayerDirection has nothing to say about has no sublayers of one  *)
(* domain that import each other in a circle, although each import is       *)
(* judged alone and Go itself only forbids circles of packages.             *)
CleanMeansLayered ==
    Clean("direction") /\ (\A S \in SUBSET SublayersOf(input) : ~Trap(input.arch.direction, S))
    => \A p \in Loaded(input) : \A S \in SUBSET SublayersOf(input) :
           ~(S # {} /\ \A a \in S : \E b \in S \ {a} :
                 Uses(input, ClassOf(input, p).domain, a, b))

(* The two rules overlap on the imports inside domains, yet no import is    *)
(* reported twice: what one reports the other lets through.                 *)
OneVerdictPerImport ==
    \A v, w \in report :
        v.imp # NoImport /\ v.pkg = w.pkg /\ v.imp = w.imp => v = w

\* The import matrix of src/README.md:378-390; a domain's own packages are
\* told apart by SameDomain. Packages outside the matrix ("unclassified")
\* have the text of src/README.md:344-350.
MatrixRow(in, p) == IF IsCmd(in.module, p) THEN "cmd" ELSE ClassOf(in, p).kind
MatrixYes(in, p, q) ==
    LET imp == ClassOf(in, q)
        Yes == [root |-> {"shared"}, domain |-> {"shared"}, shared |-> {"shared"},
                orchestration |-> {"root", "orchestration", "shared"},
                cmd |-> {"root", "orchestration", "shared"},
                app |-> {"root", "domain", "orchestration", "shared", "app"},
                transport |-> {"shared", "app", "transport"},
                unclassified |-> {"shared", "app", "transport"}]
    IN  imp.kind \in Yes[MatrixRow(in, p)]
        \/ (~IsCmd(in.module, p) /\ SameDomain(ClassOf(in, p), imp))

\* The imports the matrix speaks of; the alias checks need RequireAlias.
InMatrix(in, p, q) ==
    /\ p \notin in.excluded
    /\ IsCmd(in.module, p) \/ IsInternal(in, p)
    /\ IsInternal(in, q) /\ ClassOf(in, q).kind # "unclassified"
    /\ MatrixRow(in, p) \in {"cmd", "orchestration"} => in.arch.requireAlias

Ran(r) == Passed(r) /\ Refusal(input, r) = Allowed

(* Isolation enforces the matrix, neither more nor less, in the columns of  *)
(* the domains and of orchestration.                                        *)
MatrixHeld ==
    Ran("isolation") =>
        \A p \in Loaded(input) : \A q \in input.imports[p] :
            InMatrix(input, p, q) /\ ClassOf(input, q).kind \in {"root", "domain", "orchestration"}
            => (Reported("isolation", p, q) <=> ~MatrixYes(input, p, q))

(* The whole matrix of src/README.md:378-390, with its columns for app and  *)
(* transport.                                                               *)
MatrixEnforced ==
    Ran("isolation") =>
        \A p \in Loaded(input) : \A q \in input.imports[p] :
            InMatrix(input, p, q) /\ ~MatrixYes(input, p, q) => Reported("isolation", p, q)
-------------------------------------------------------------------------------
TypeOK ==
    /\ rule \in Rules \cup {"done"} /\ phase \in {"start", "packages", "imports"}
    /\ rule = "done" => phase = "start"
    /\ at \in 1..Len(input.pkgs) + 1
    /\ phase = "imports" => at <= Len(input.pkgs) /\ todo \subseteq input.imports[Package]
    /\ phase # "imports" => todo = {}
    /\ \A v \in report : v.rule \in Rules

\* Everything the loops have passed is in the report, and nothing else is.
Judged(r, p, q) ==
    \/ Ran(r)
    \/ /\ rule = r /\ phase # "start"
       /\ \E i \in DOMAIN input.pkgs :
            /\ input.pkgs[i] = p
            /\ i < at \/ (i = at /\ phase = "imports" /\ q \notin todo)

Complete ==
    \A r \in Rules : \A p \in Loaded(input) : \A q \in input.imports[p] :
        Judged(r, p, q) /\ Inspects(input, r, p) => Judgement(input, r, p, q) \subseteq report

Sound ==
    \A v \in report : v.imp # NoImport =>
        /\ v.pkg \in Loaded(input) /\ v.imp \in input.imports[v.pkg]
        /\ Refusal(input, v.rule) = Allowed /\ Inspects(input, v.rule, v.pkg)
        /\ v \in Judgement(input, v.rule, v.pkg, v.imp)

RefusalsReported ==
    \A r \in Rules : Passed(r) /\ Refusal(input, r) # Allowed => \E v \in report : v.rule = r

\* no loop runs after a refusal, none over a package that is not inspected
Started ==
    /\ phase # "start" => rule \in Rules /\ Refusal(input, rule) = Allowed
    /\ phase = "imports" => Inspects(input, rule, Package)

IInv == input \in Inputs /\ TypeOK /\ Started /\ Complete /\ Sound /\ RefusalsReported
===============================================================================
