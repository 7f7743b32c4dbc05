---------------------------------- MODULE Guard ----------------------------------
(***************************************************************************)
(* From the load of a project to the verdict: the architecture test that   *)
(* src/scaffold/scaffold.go writes, with the rule set of its preset or one *)
(* its owner made of it (caller "test"), and the command of                *)
(* src/cmd/tui/main.go (caller "viewer"), with the rules that read code.   *)
(* What core.Run does with their findings is the subject of RuleRunner;    *)
(* here a panic of a rule replaces its findings and fails the test.        *)
(*                                                                         *)
(* project, of Loader, has also arch, caller, rules (those that are        *)
(* registered: [ids, errors]), module and moduleDirs (Module.Path of each  *)
(* package, the packages with a Module.Dir), goFiles (the packages with    *)
(* production files), code (package to [path, excluded, file]) and types.  *)
(* A file has flags, exempt (the declarations whose names are allowed or   *)
(* ignored), tree and sigs (the types of the parameters and results of its *)
(* functions).                                                             *)
(***************************************************************************)
EXTENDS Loader, LogicBudget, CallRules, TypeWalk

CONSTANTS Projects,
          Segment    \* elements of import paths

Budgets == "orchestration.logic-budget"
NoPanic == "errors.no-panic-in-domain"
Purity == "purity.no-side-effect-call-in-core"
Tx == "tx.boundary"
RuleIds == {Budgets, NoPanic, Purity, Tx}
\* presets.RecommendedDDD, the rule set of the other presets, which has none of
\* the four, and With(rule), as README 848 adds tx.New.
RecommendedDDD == [ids |-> {Budgets, NoPanic, Purity}, errors |-> {NoPanic, Purity}]
RecommendedOther == [ids |-> {}, errors |-> {}]
With(rules, rule) == [ids |-> rules.ids \cup {rule}, errors |-> rules.errors \cup {rule}]

\* Packages are numbered below their importers; every package has code. The
\* viewer calls Load, which has no options.
ASSUME ProjectsAssumption ==
    \A p \in Projects :
        LET packages == DOMAIN p.imports IN
        /\ p.caller \in {"test", "viewer"} /\ p.dir \in BOOLEAN /\ p.list \in BOOLEAN
        /\ p.caller = "viewer" => p.explicit = <<>> /\ ~p.disable
        /\ p.rules.ids \subseteq RuleIds /\ p.rules.errors \subseteq p.rules.ids
        /\ packages \subseteq Nat \ {NoError} /\ p.roots \in Seq(packages)
        /\ \A q \in packages : /\ p.imports[q] \subseteq (1..q - 1) \cap packages
                               /\ p.errors[q] \in Seq(ErrorKinds)
                               /\ p.code[q].path \in Seq(Segment)
                               /\ p.code[q].file.sigs \in Seq(DOMAIN p.types)
        /\ p.arch.root \in Seq(Segment) /\ Range(p.arch.sublayers) \subseteq Seq(Segment)
        /\ \A t \in DOMAIN p.types : p.types[t].parts \in Seq(DOMAIN p.types)
        /\ AliasesEnd(p.types)

\* The go command takes the arguments: -tags has a value. A build setting has
\* one value, true or false for a sanitizer.
ASSUME FlagsAssumption ==
    \A p \in Projects :
        /\ Len(p.explicit) \in Nat /\ DOMAIN p.explicit = 1..Len(p.explicit)
        /\ \A k \in DOMAIN p.explicit :
               OptionOf(p.explicit[k]) = "-tags" /\ ~p.explicit[k].eq =>
                   k + 1 \in DOMAIN p.explicit /\ OptionOf(p.explicit[k + 1]) \notin Options
        /\ Len(p.settings) \in Nat /\ DOMAIN p.settings = 1..Len(p.settings)
        /\ \A k \in DOMAIN p.settings :
               LET s == p.settings[k]
               IN  /\ s.eq /\ s.name \notin DOMAIN TwoDashes
                   /\ s.name \in Options \ {"-tags"} => s.value \in {"true", "false"}
                   /\ \A j \in DOMAIN p.settings : p.settings[j].name = s.name => j = k

\* Only files that type-check are loaded: x # nil in "x != nil".
ASSUME FilesAssumption ==
    \A p \in Projects : \A q \in DOMAIN p.imports :
        LET nodes == Range(p.code[q].file.tree) IN
        /\ Grammatical(p.code[q].file.tree)
        /\ \A n \in nodes : n.kind = "errcheck" => n.data # "nil"
        /\ \A n \in nodes : n.kind = "return" =>
               \A e \in Range(n.data) : e.verbs \in Seq(Directives) /\ \A v \in Range(e.verbs) : Written(v)

ASSUME LegibleAssumption == \A p \in Projects : Legible(p.arch)

\* go/packages loads without tests: every matched package comes once, and each
\* has a path of its own.
ASSUME NamesAssumption ==
    \A p \in Projects :
        /\ \A i, j \in DOMAIN p.roots : p.roots[i] = p.roots[j] => i = j
        /\ \A q, r \in DOMAIN p.imports : p.code[q].path = p.code[r].path => q = r

VARIABLES phase,   \* "load", "budget", "calls", "signatures" or "done"
          at,      \* index of the package a rule looks at
          field,   \* index of the signature field
          found,   \* findings
          warned,  \* the viewer printed the loader's error
          verdict  \* "none", "pass", "fail", "fatal", "shown"

guardVars == <<project, loadVars, tree, budgetVars, types, walkVars,
               phase, at, field, found, warned, verdict>>

NoTree == <<>>
Packages == Range(result)
Code(p) == project.code[p]

\* ResolveModule: that of the first loaded package that has one
ModuleOf(pkgs) ==
    LET known == {i \in DOMAIN pkgs : project.module[pkgs[i]] # ""}
    IN  IF known = {} THEN ""
        ELSE project.module[pkgs[CHOOSE i \in known : \A j \in known : i <= j]]
Module == ModuleOf(result)

GuardInit ==
    /\ project \in Projects /\ types = project.types
    /\ LoadInit
    /\ tree = NoTree /\ fn = 0 /\ tasks = <<>> /\ counts = NoCounts
    /\ stack = <<>> /\ walked = {} /\ named = <<>>
    /\ phase = "load" /\ at = 1 /\ field = 0 /\ found = {} /\ warned = FALSE /\ verdict = "none"

Loading == /\ phase = "load" /\ ~Returned /\ Load
           /\ UNCHANGED <<project, tree, budgetVars, types, walkVars, phase, at, field, found, warned, verdict>>
-------------------------------------------------------------------------------
(* What the two callers ask of the packages *)

End(v) == phase' = "done" /\ verdict' = v

\* Mutant: only the errors of the packages themselves.
ErrorFree(p) == Errors(p) = <<>>
Complete(p) == ~IllTyped(p) /\ Errors(p) = <<>>
\* Context.Root: resolveContextDefaults takes the first Module.Dir that is there.
HasRoot == Packages \cap project.moduleDirs # {}
Acceptable ==
    IF project.caller = "test"
    THEN /\ ~LoadErr /\ \A p \in Packages : Complete(p)
         /\ Packages \cap project.goFiles # {} /\ Module # "" /\ HasRoot
    ELSE result # <<>> /\ Module # ""
Warns == LoadErr
Registered(rule) == rule \in project.rules.ids

Accept == /\ phase = "load" /\ Returned
          /\ IF Acceptable THEN phase' = "budget" /\ UNCHANGED verdict
             ELSE End("fatal")
          /\ warned' = (project.caller = "viewer" /\ Warns)
          /\ UNCHANGED <<project, loadVars, tree, budgetVars, types, walkVars, at, field, found>>
-------------------------------------------------------------------------------
(* orchestration.logic-budget *)

IsOrchestrationPackage(p) ==
    /\ project.arch.orchestrationDir # NoDir
    /\ IsPrefix(InternalPrefix(project.arch, Module) \o <<project.arch.orchestrationDir>>, Code(p).path)
Budgeted(p) == /\ Registered(Budgets) /\ IsOrchestrationPackage(p)
               /\ Code(p).file.flags \cap {"test", "excluded", "ignored"} = {}

\* Mutant: the functions after the first are skipped.
FirstOnly(p, f) == {i \in FuncDecls(Code(p).file.tree) \ Code(p).file.exempt : f = 0}
\* Mutant: the function just measured comes again.
SameAgain(p, f) == {i \in FuncDecls(Code(p).file.tree) \ Code(p).file.exempt : i >= f}
Later(p, f) == {i \in FuncDecls(Code(p).file.tree) \ Code(p).file.exempt : i > f}
AtPackage == phase = "budget" /\ at <= Len(result) /\ tasks = <<>>
Flagged == IF Exceeds(counts) THEN {Finding("orchestration.logic-budget", Code(result[at]).path, fn)} ELSE {}

OpenPackage ==
    /\ AtPackage /\ fn = 0 /\ tree = NoTree /\ Budgeted(result[at])
    /\ Later(result[at], 0) # {}
    /\ tree' = Code(result[at]).file.tree
    /\ UNCHANGED <<project, loadVars, budgetVars, types, walkVars, phase, at, field, found, warned, verdict>>
NextFunction ==
    /\ AtPackage /\ tree # NoTree /\ ~HasPanicked
    /\ LET later == Later(result[at], fn)
       IN  /\ later # {}
           /\ StartFunction(CHOOSE i \in later : \A j \in later : i <= j)
    /\ found' = IF fn = 0 THEN found ELSE found \cup Flagged
    /\ UNCHANGED <<project, loadVars, tree, types, walkVars, phase, at, field, warned, verdict>>
MeasureStep ==
    /\ phase = "budget" /\ Measure
    /\ UNCHANGED <<project, loadVars, tree, types, walkVars, phase, at, field, found, warned, verdict>>
ClosePackage ==
    /\ AtPackage /\ ~HasPanicked
    /\ tree = NoTree => ~Budgeted(result[at]) \/ Later(result[at], 0) = {}
    /\ tree # NoTree => fn # 0 /\ Later(result[at], fn) = {}
    /\ found' = IF fn = 0 THEN found ELSE found \cup Flagged
    /\ at' = at + 1 /\ tree' = NoTree /\ fn' = 0 /\ counts' = NoCounts /\ UNCHANGED tasks
    /\ UNCHANGED <<project, loadVars, types, walkVars, phase, field, warned, verdict>>
\* core.Run recovers: the findings of the rule are lost.
BudgetPanics ==
    /\ phase = "budget" /\ HasPanicked
    /\ found' = {Finding("meta.rule-panic", "", 0)} /\ phase' = "calls"
    /\ tree' = NoTree /\ fn' = 0 /\ counts' = NoCounts /\ UNCHANGED tasks
    /\ UNCHANGED <<project, loadVars, types, walkVars, at, field, warned, verdict>>
BudgetDone ==
    /\ phase = "budget" /\ at > Len(result)
    /\ phase' = "calls"
    /\ UNCHANGED <<project, loadVars, tree, budgetVars, types, walkVars, at, field, found, warned, verdict>>
-------------------------------------------------------------------------------
(* The call rules and the transaction types *)

Checked(rule) ==
    LET pkgs == {Code(p) : p \in Packages}
    IN  CASE rule = NoPanic -> FailureFindings(project.arch, Module, pkgs)
          [] rule = Purity -> PurityFindings(project.arch, Module, pkgs)
          [] rule = Tx -> StartFindings(project.arch, Module, pkgs)
          [] OTHER -> {}
CallFindings == UNION {Checked(rule) : rule \in project.rules.ids}
CheckCalls ==
    /\ phase = "calls"
    /\ found' = found \cup CallFindings
    /\ phase' = "signatures" /\ at' = 1 /\ field' = 0
    /\ UNCHANGED <<project, loadVars, tree, budgetVars, types, walkVars, warned, verdict>>

AtSignatures == phase = "signatures" /\ at <= Len(result) /\ stack = <<>>
Sigs == Code(result[at]).file.sigs
Bounded(p) == Registered(Tx) /\ Confined(project.arch, Module, Code(p))
NamedFindings == {Finding("tx.type-in-signature", Code(result[at]).path, i) : i \in DOMAIN named}
NextField ==
    /\ AtSignatures /\ Bounded(result[at]) /\ field < Len(Sigs)
    /\ field' = field + 1 /\ StartField(Sigs[field + 1])
    /\ found' = found \cup NamedFindings
    /\ UNCHANGED <<project, loadVars, tree, budgetVars, types, phase, at, warned, verdict>>
WalkStep ==
    /\ phase = "signatures" /\ Walk
    /\ UNCHANGED <<project, loadVars, tree, budgetVars, types, phase, at, field, found, warned, verdict>>
NextSignatures ==
    /\ AtSignatures
    /\ Bounded(result[at]) => field = Len(Sigs)
    /\ found' = found \cup NamedFindings
    /\ at' = at + 1 /\ field' = 0 /\ named' = <<>> /\ walked' = {}
    /\ UNCHANGED <<project, loadVars, tree, budgetVars, types, stack, phase, warned, verdict>>

\* AssertNoViolations. A finding has the severity of the rule that makes it;
\* of the meta findings meta.rule-panic is an error.
Enforced(rule) == rule \in project.rules.errors
RuleOf(f) == IF f.rule \in {"tx.start-outside-allowed-layer", "tx.type-in-signature"} THEN Tx ELSE f.rule
IsError(f) == f.rule = "meta.rule-panic" \/ Enforced(RuleOf(f))
Conclude ==
    /\ phase = "signatures" /\ at > Len(result)
    /\ End(IF project.caller = "viewer" THEN "shown"
           ELSE IF \E f \in found : IsError(f) THEN "fail" ELSE "pass")
    /\ UNCHANGED <<project, loadVars, tree, budgetVars, types, walkVars, at, field, found, warned>>

GuardNext ==
    \/ Loading \/ Accept
    \/ OpenPackage \/ NextFunction \/ MeasureStep \/ ClosePackage \/ BudgetPanics \/ BudgetDone
    \/ CheckCalls \/ NextField \/ WalkStep \/ NextSignatures \/ Conclude
GuardSpec == GuardInit /\ [][GuardNext]_guardVars /\ WF_guardVars(GuardNext)
-------------------------------------------------------------------------------
GuardTypeOK ==
    /\ phase \in {"load", "budget", "calls", "signatures", "done"}
    /\ step \in {"start", "roots", "returned"}
    /\ Packages \subseteq Range(project.roots) /\ at \in 1..Len(result) + 1
    /\ \A b \in DOMAIN counts : counts[b] \in Nat \cup {Panicked}
    /\ \A k \in DOMAIN tasks : tasks[k].at \in DOMAIN tree
    /\ Range(stack) \cup walked \subseteq DOMAIN types /\ Range(named) \subseteq TxTypes
    /\ verdict \in {"none", "pass", "fail", "fatal", "shown"}

\* Every transaction type of the field is found once (TypeWalk).
SignaturesExact ==
    phase = "signatures" /\ field > 0 => SignatureExact(Sigs[field])

\* What a rule that is registered as an error promises of a package that a test
\* lets through, by the sublayer that the import rules see it in.
Inspected(layers, sublayer) == \E l \in layers \cap Sublayers(project.arch) : IsPrefix(l, sublayer)
CalleesIn(p) == {Code(p).file.tree[i].data : i \in Calls(Code(p).file.tree)}
Clear(rule, p, sublayer) ==
    LET file == Code(p).file
    IN  CASE rule = NoPanic ->
                 /\ Inspected(FailureLayers(project.arch), sublayer)
                 /\ file.flags \cap {"test", "generated", "excluded", "allowed"} = {}
                 => \A i \in InspectedCalls(file) : FailureCallID(file.tree[i].data) \notin FailureCalls
          [] rule = Purity ->
                 /\ Inspected(PurityLayers(project.arch), sublayer)
                 /\ file.flags \cap {"test", "generated", "excluded"} = {}
                 => \A c \in CalleesIn(p) : c.object = "func" => c.id \notin DeniedCalls \ AllowedCalls
          [] rule = Tx ->
                 /\ KnownSublayer(project.arch, sublayer) /\ sublayer \notin AllowedLayers
                 /\ ~Code(p).excluded /\ file.flags \cap {"test", "excluded"} = {}
                 => /\ \A c \in CalleesIn(p) : c.object = "func" => c.id \notin StartSymbols
                    /\ \A f \in DOMAIN file.sigs : \A t \in Within(file.sigs[f]) :
                           types[t].kind = "named" => types[t].id \notin TxTypes
          [] OTHER -> TRUE

\* A test that passes has looked at everything: every matched package was
\* loaded and type-checked down to its dependencies, and each package of a
\* domain is clear of what its rules forbid as an error.
PassMeansChecked ==
    phase = "done" /\ verdict = "pass" =>
        \A p \in Range(project.roots) :
            LET class == Classify(project.arch, Module, Code(p).path)
            IN  /\ p \in Packages /\ \A q \in Reach(p) : Errors(q) = <<>>
                /\ class.kind = "domain" =>
                       \A rule \in RuleIds : Enforced(rule) => Clear(rule, p, class.sublayer)

\* main.go 63-66: the viewer shows a project with packages left out only after
\* it said so.
PartialIsAnnounced ==
    phase = "done" /\ verdict = "shown" /\ Packages # Range(project.roots) => warned

\* No verdict on a part of the project is taken for one on the whole of it,
\* neither by the generated test nor by the viewer (loader.go 128-132).
HolesAreNeverSilent == PassMeansChecked /\ PartialIsAnnounced

\* Three files read the layer of a package on their own. They agree with each
\* other and with the reading of the import rules, for every sublayer.
LayerReadingsAgree ==
    phase = "calls" =>
        \A p \in Packages : \A layer \in Sublayers(project.arch) :
            LET path == Code(p).path
                class == Classify(project.arch, Module, path)
                inspected == FailureInspects(project.arch, Module, path, {layer})
            IN  /\ inspected = PurityInspects(project.arch, Module, path, {layer})
                /\ class.kind = "domain" =>
                       /\ (PackageLayer(project.arch, Module, path) = layer) = (class.sublayer = layer)
                       /\ inspected = IsPrefix(layer, class.sublayer)
                /\ PackageLayer(project.arch, Module, path) = layer => class.kind = "domain"

\* The findings of a package are the functions over budget, in whatever order
\* they are declared: none is skipped, or judged by the numbers of another.
JudgedBy(p) == {f.at : f \in {g \in found' : g.rule = "orchestration.logic-budget" /\ g.pkg = p.path}}
FunctionsJudged ==
    [][tree # NoTree /\ tree' = NoTree /\ ~HasPanicked /\ (\A i \in FuncDecls(tree) : IsOrdinary(i)) =>
          JudgedBy(Code(result[at])) =
              {i \in FuncDecls(tree) \ Code(result[at]).file.exempt : Exceeds(Reference(i))}]_guardVars

\* The test ends and the viewer is shown, whatever was loaded.
GuardEnds == <>(phase = "done")
==================================================================================
