# TLA+ verification of go-arch-guard

go-arch-guard is a Go library that checks the import structure of a Go project
against a declared architecture. A test of the project (or the terminal viewer)
loads the packages, wraps them with an `Architecture` in a `Context`, executes a
`RuleSet` with `core.Run` and gets a list of violations, which `report` turns
into test failures or JSON and `tui` shows as a tree.

What can go wrong in such a library is not that it crashes. It is that a rule
set silently loses a finding, that a rule that failed looks like a rule that
found nothing, that a shared rule set changes under a parallel test, that a chain
of imports which are each allowed leads where none may lead, or that the result
differs between two runs on the same code. These are properties of *all* rule
sets, imports, iteration orders and interleavings, which is what the models below
are for.

Paths in this document are relative to the repository (`src/...`); module names
are those of this directory.

## 1. Inventory

### The system's parts and how they interact

```
 cmd/tui ──► analyzer.Load ──► []*packages.Package
   │                                │
   │          presets / caller ──► Architecture ──► Validate ──► findDirectionCycle
   │                                │
   ▼                                ▼
 tui.Run ─────────────────────► core.NewContext ──► Context (read-only view)
   │                                                   │
   │          presets / caller ──► RuleSet ────► core.Run(ctx, ruleset, opts)
   │                                                   │  Spec(), Check(ctx) of each rule
   ▼                                                   ▼
 tree, panel, filter  ◄──────────────────────── []Violation ──► report (test, JSON)
```

Everything is called synchronously. There are three sources of nondeterminism:
Go's random map iteration (inside rules, in the search of blast radius, in the
imports of a package), the goroutines of the *callers* (parallel tests that share
package-level rule sets), and the user's keys in the viewer.

| Part | State it keeps | Operations | What makes it correct | Module |
|---|---|---|---|---|
| rule runner `core/runner.go`, `run_option.go`, `rule.go`, `spec.go`, `severity.go`, `violation.go` | options map, result slice, seen map | `Run`, `WithSeverityOverride` | nothing lost, nothing invented, failures are loud, result is a sorted answer | `RuleRunner`, `RunContract`, `RunAgain` |
| reports `report/` | none | `AssertNoViolations`, `BuildJSONReport` | counts, verdict and list say what `Run` decided | `Report` |
| rule set `core/ruleset.go` | slice and map shared by reference | `NewRuleSet`, `With`, `Without`, `Rules` | immutable values, no write to shared memory | `RuleSetHeap`, `RuleSetValues` |
| architecture `core/architecture.go`, `architecture_validate.go` | plain data with references | `Validate`, `cloneArchitecture`, `findDirectionCycle` | exactly the well-formed policies are accepted, a validated Direction is a DAG, copies share nothing | `ArchValidate`, `LayerPolicy`, `DirectionCycle`, `ContextArch` |
| context `core/context.go`, `utils.go` | packages, architecture, exclude patterns | `NewContext`, `Pkgs`, `Arch`, `IsExcluded` | rules cannot change what later rules see; a pattern leaves out what it names | `ContextArch`, `Exclude` |
| package classification `core/analysisutil/path.go`, `sublayer.go`, functions of `isolation.go` | none | classify a path | one class per path, by a fixed order of tests; other readings agree with it | `PackageKinds`, `CallRules`, `Structure` |
| isolation, layer direction `rules/dependency` | none between calls | `Check` | silence means isolated and layered domains | `ImportRules` |
| presets `presets/` | tables | constructors | silence of the rules means what the policy is for | `Presets` |
| directory rules `rules/structural/internal_top_level.go`, `layer_placement.go`, `banned_package.go`, `model_required.go` | none | `Check` | they read the same layers out of directories as the import rules out of packages | `Structure` |
| blast radius `rules/dependency/blast_radius.go` | maps of one call | `Check` | exact dependents; only true outliers | `BlastRadius` |
| viewer `tui/app.go`, `tree.go`, `violations.go`, `detail.go` | tree, cursor, panel, focus, two flags, query | `Run`: handlers of keys | keys are served, flags match the focus, panel and colours agree | `Viewer` |
| viewer metrics `tui/metrics.go` | index | `BuildMetricsIndex` | same numbers as blast radius | `Metrics` |
| loader `analyzer/loader.go` | sets of one call | `Load`, `LoadWithOptions` | no package with holes is passed on as whole | `Loader` |
| logic budget `rules/structural/logic_budget.go` | counters of one function | `Check` | the numbers of each function are its own and exact | `LogicBudget`, `GoTree` |
| call and signature rules `rules/types/no_panic_in_domain.go`, `rules/tx/boundary.go`, `no_side_effect_call_in_core.go`, helpers `core/analysisutil/ast.go` | a work list | `Check` | every call and type in a guarded layer is looked at | `CallRules`, `TypeWalk` |
| the generated test `scaffold/`, the command `cmd/tui` | none | load, check, judge | a passing test has looked at everything | `Guard` |
| interface rules, naming rules, test policy, `alias.go`, `repo_file_interface.go`, `no_setter.go` | none | `Check` | each reports what its documentation says | not modelled |

### Behaviours that are hard

- **Ordering.** Rules iterate Go maps; the runner must give the same answer for
  every emission order (`runner.go:41-42`), the import rules must judge the same
  imports in every order, the breadth-first search of blast radius must count the
  same sets.
- **Partial failure.** One rule panics: its partial findings vanish, the others'
  must not, and the run must become blocking (`runner.go:220-247`). A rule that
  cannot run (flat layout, unknown module) must say so.
- **Aliasing and interleaving.** `RuleSet` is passed by value and holds a slice
  and a map; package-level rule sets are derived from by tests running in
  parallel. The in-place filter of `dedupeMetaViolations` writes into the slice it
  reads.
- **Sequences of legal steps.** Every import is judged alone; isolation is a
  statement about chains. Every option is applied alone; the last one decides.
- **Two readings of one thing.** Which layer a package is in is decided by the import
  rules, by three rules about calls and by the rules about directories, each with its
  own comparison of path segments; dependents are counted by blast radius and by the
  viewer. A package that one reading guards and another overlooks is a hole no test of
  a single rule finds.
- **Holes in the input.** The loader returns packages *and* an error; a rule that sees
  fewer packages reports less.
- **Callbacks.** The viewer's handlers run inside tview's event loop and call back
  into it.
- **Termination** of the recursive cycle search on cyclic inputs, and of the search
  for dependents on packages that import in a circle, and of the walk over types that
  lead back to themselves.
- **Boundaries.** Quartiles interpolated between ranks, an empty list of allowed
  imports against a missing key, an empty rule ID.

`PROJECT.json` lists each of them at its line, with the properties that would
notice it go wrong.

## 2. Plan

The order is by how much of the library's promise depends on the part.

1. **Runner and reports** — `RuleRunner` refining `RunContract`, `RunAgain`; `Report` on
   the results of both calls. *Done and proved, but for termination.*
2. **Rule sets** — `RuleSetHeap` refining `RuleSetValues`. *Done and proved.*
3. **Architecture and context** — `DirectionCycle` over `DirectionGraph`. `ArchValidate`
   runs the checks before the search and then the search itself, and `ContextArch`
   composes it with the copies that protect the policy. *Done; all safety properties are
   proved.*
4. **Import rules** — `ImportRules` over `PackageKinds` and `DirectionGraph`. `Presets`,
   `Exclude` and `Structure` on top of it. *Done and proved.*
5. **Blast radius** — `BlastRadius`, and `Metrics` beside it. *Done and proved, but for
   termination.*
6. **Viewer** — `Viewer`. *Done and proved.*
7. **From load to verdict** — `Guard` composes `Loader`, `LogicBudget`, `CallRules`
   and `TypeWalk`. *Done and proved, but for termination.*
8. **Interface rules** — left out, section 8.

Abstract specifications: `RunContract` (one step from request to answer),
`RuleSetValues` (rule sets as values), least closed sets for reachability
(`BlastRadius!Reaching`, `ImportRules!Closed`), the published import matrix
(`ImportRules!MatrixYes`), well-formed policies without any search
(`LayerPolicy!WellFormed`), the numbers of a function counted over its nodes instead
of walked (`LogicBudget!Reference`), the packages a loader may hand over
(`Loader!LoadSound`).

## 3. The models

In every module the comment of a definition names what it stands for, and `map`
in `PROJECT.json` the lines. Operators whose comment starts with "Mutant" are not
part of the specification: each is a plausible mistake in the definition that
follows it, kept to show that a property depends on that definition.

Where a proof has to see what an operator does, the modules write it as a recursive
function (`RuleSetValues!NonNil`, `LogicBudget!WrapArgs`) or define it themselves
(`Merged` in `Presets`): the provers know no definition of `SelectSeq` and `@@`, and cannot
tell the empty string from others unless a definition names it (`NoPiece`, `NoDir`).

### RuleRunner — `core.Run`

One behaviour is one call. `pc` walks through the phases of `Run`:

| `pc` | action | code |
|---|---|---|
| arch | `ValidateArch` | `ctx.Arch().Validate()`, panics when invalid |
| ruleset | `ValidateRuleSet` | `validateRuleSet`: severities, duplicate IDs (empty IDs exempt) |
| options | `ValidateOptions` | `newRunOpts`, `checkUnknown` |
| check | `Check`, `CheckPanics`, `RulesDone` | `safeCheck` of the next rule: findings in any order, or one `meta.rule-panic` |
| collect | `Collect`, `NextRule` | per finding: replace an undeclared ID, filter, default and override the severity, append |
| dedupe | `Dedupe`, `DedupeDone` | `out := in[:0]` with separate read and write positions in one array |
| sort | `Sort` | `sort.SliceStable`: any permutation that is stably sorted |

A rule is a record of its `Spec` and of what `Check` finds; `PanicsOf` gives the
values it may panic with, `SpecPanics` the rules whose `Spec()` panics. IDs, files
and messages are atoms with a rank, the order of the strings. Severities include an
invalid one. `batch` is a history variable: what each rule emitted.

`RunContract` is what the documentation promises, in one step and without any
pipeline: refuse an illegal configuration, or answer with a list that is sorted and
holds the first copy of every kept finding. `Refines` maps `outcome` and `result`
to `pc` and `out` and checks that `RuleRunner` implements it.

`RunAgain` executes `Run` twice with the same arguments. Rules may emit in another
order the second time. Calls are compared when each rule found, or panicked with, the
same (`SecondDone`): `SameUpToMetaPlace` says how far the two results agree, and
`DeterministicOutput`, which a comment claims, fails. `MCRunAgain` has the rule sets of
its two runs. `Report` is what callers make of
the result: `BuildJSONReport` with its own sort and its counts, and the verdict of
`AssertNoViolations`. `ReportsAreStable` says that neither the summary nor the verdict
depends on the order in which rules iterate, and that the report of a result lists it as it
is. For every order in which a caller may list the same violations the summary is the
same, the file, line, rule and message at each place are the same, and so is the whole list
when no two violations agree in those four; when two do, their order is the caller's
(section 7, runner).

### RuleSetHeap — `core.RuleSet` on Go's heap

Arrays and maps have addresses; a rule set is a slice header and a map reference.
Several goroutines derive rule sets from the same ones: `With` and `Without` are a
`copy()` step, one step per appended rule or ID (append in place when there is
spare capacity, else a new array with any slack up to a bound) and a return. `Rules`
lends a copy that its caller may overwrite at any time (`Overwrite`). `meant` is a
history variable: the value each rule set had when it was returned.
`RuleSetValues` is the same interface over plain values; `ActsLikeValues` checks the
refinement.

### DirectionCycle — `findDirectionCycle`

The recursion is a sequence of frames next to the `stack` the code keeps itself; a
step is one iteration or one return. `finished` is a history variable. The order in
which targets are looked at is the order of the slice, sources come sorted.

### LayerPolicy, ArchValidate, ContextArch — the policy on its way to the rules

`LayerPolicy!WellFormed` says what the comments on `Architecture` ask of it, without any
search. `ArchValidate` is `Validate`: one step per block of checks, all of which run
whatever the ones before found, and then the steps of `DirectionCycle` on the same map,
which by then may have unknown, repeated and empty layers. `ContextArch` puts the policy
on a heap: a cell for each slice and map, a clone for `NewContext` and for every
`Context.Arch()`, and writes of the caller and of rules to the copies they hold, between
any two steps. `ClonedLists`, `ClonedKeys` and `ClonedPlain` name every field that
`cloneArchitecture` names, those that `Validate` does not read (of `Naming`, and the scalars)
included; one that is missing there comes back as the zero value of its type, and
`PolicyIsPrivate`, which compares all fields, fails. `patternDirs` stands for the slice of
type patterns.

### PackageKinds, ImportRules — the rules about imports

A path is the sequence of its segments, a layout directory one segment or empty.
`Classify` decides the class of a package with the tests of the code in their
order, in domain layouts and in flat ones. `ImportRules` is the loop of `Isolation`
and then that of `LayerDirection`, as `Run` executes them: the refusals at the start
of `Check`, the loop over packages, and one step per import in any order. The verdict
on an import is the first condition that holds, as in the code.

### Presets, Exclude, Structure — on the same projects

`Presets` has the eight architectures, `Architectures` those that `Validate` lets pass
(all of them). `InnerStaysInner` asks what a restricted layer is for: over any chain of
imports from layer to layer nothing outside the restricted layers is reached. It leaves
out chains through the root package of a domain, where no rule looks for layers.

`Exclude` is the matching of exclude patterns over pieces of a string cut at its slashes,
with the trims of `NormalizeMatchPath` in their order. `wanted`, in the inputs, is what the
patterns were written for; `Spells` has the shapes in which a pattern may name it: with a
slash or dots in front, a slash behind, `/...`, or dots directly behind a name; `...`, `/...`
and `./...` are the shapes that name no directory and leave out nothing (`MeantOut`).
`LeavesOutExactly` compares what was wanted with the findings of the import rules, which
lose what is named and nothing else (`ExclusionIsExact`), and with those of the structural
rules (`LeftOutTogether`, in `Structure`). A walk does not enter a directory it leaves out, so
the rules in `WalkRules` lose what lies below it as well (`Unreached`); the others do not.

`Structure` has the four rules that walk directories. Its directories are those of the
loaded packages and all above them, so both readings of a project are at hand; a package
in the internal root itself stands for one loose Go file there (`LooseFiles`).
`DirectoriesReadAlike` compares them in three respects: strays (`StrayIsReported`), where the
directory rules let a layer lie and the class the import rules give its package
(`LayersAreWhereTheyAreRead`), and the model of a domain (`DomainsHaveModels`). The last two
ask that a layout is `Readable`: its directories have different names, a required model is
a sublayer, `handler` is none of the top-level names. Every preset is, and `Validate` does not
ask for it. What they say of a sublayer's own directory, and `StrayIsReported`, is about presets.

### BlastRadius — `rules/dependency/blast_radius.go`

One breadth-first search per package over the internal packages that are not
excluded. The queue is a set, since its order comes from map iteration. Quartiles and
thresholds are computed in quarters and eighths: the floating-point numbers of the
code are multiples of 1/8 in this range and exact. `Metrics` computes the viewer's
dependents on the same input; the two searches share nothing but the imports, and differ
in the packages they count.

### Viewer — `tui.Run`

`BuildTree` adds packages in an order in which a path precedes the paths below it
(all that sorting guarantees and the code uses). Then the event loop handles one
key at a time: moving the cursor fills the panel, Enter toggles a node, `/`, Tab and
`q` are captured unless the search field is visible, typing filters the tree, Enter
and Escape leave the field. Violations sit at paths; colours come from
`ViolationIndex.Severity` at build time. tview is external: which nodes can be
reached, and `Application.Draw`, which waits for the event loop (`Draw` in the module).

### Guard — from the load to the verdict

One behaviour is one run of the generated architecture test (`caller = "test"`) or of the
viewer command (`"viewer"`). `phase` goes through `load`, where `Loader` visits the
dependencies of each matched package in any order `packages.Visit` allows and keeps or
drops it; `Accept`, where the caller asks for the error, for type errors, for packages
with files, for a module and for its root; `budget`, where `LogicBudget` measures one function
after the other; `calls`; `signatures`, where `TypeWalk` walks the type of each parameter and
result; and the verdict.

Which rules run, and which of them fail the test, is `project.rules`: the rule set of the
preset (`RecommendedDDD`, in which the budget is a warning and the two rules about calls are
errors; `RecommendedOther`, which has none of the four) or one its owner extended (`With`), as
the README adds `tx.New`. A test that passes vouches for what the *errors* of its rule set
forbid, and for no more (`Clear`).

Before it loads, `LoadWithOptions` merges the flags the calling binary was built with and
those of the caller into `cfg.BuildFlags` (`flags`). They decide what is loaded: an error may be
in a file that is built only under a tag (`needs`). `LoadSound` therefore says both what the
flags mean to the go command (`FlagsResolved`) and which packages are handed over in the build
they select.

`GoTree` is a file as the sequence of its nodes in preorder. `LogicBudget` keeps the
recursion of `measureStmt` as a stack of tasks, `Reference` counts the nodes directly. A format
is a sequence of directives with flags, width, precision and their indices (`Written`); it is
read as `propagatesError` reads it and as `fmt` does (`WrappedBy`), and where a directive is read
alike by both, a discounted branch returns nothing but the error it checked
(`DiscountsOnlyErrorFlow`; section 7 for the others). Literals in what a branch
returns are outside the reference (`IsOrdinary`).
`CallRules` judges each call by its object; three operators there read the layer of a
package as the three files of the code do. A panic of a rule replaces its findings by one.

## 4. The runs

The runs finish within a minute or so on two workers. Deadlock checking is on
where the modelled call has a final stuttering action (`Over` in `RuleRunner`) and off
where the system really stops: the search and the rule checks end, the bounded heap is
full, the viewer is closed.

| Run | Shows |
|---|---|
| `runner_contract` | for legal and illegal rule sets, filters and overrides, every emission order and every panic: `Run` loses and invents nothing, is loud about failed rules, ends, and implements `RunContract` |
| `run_again` | two calls agree on all ordinary violations and their order, on the set of meta signals and their severities, on the summary of the JSON report and on the verdict of the test; however a caller lists a result, the report is the same but for the order of what its keys do not tell apart |
| `ruleset_heap` | two goroutines deriving and overwriting: rule sets never change, no shared array or map is written, the heap implements values |
| `validate_policy` | every `Direction` map over three layers with up to two targets, larger ones, and policies with one fault each: `Validate` accepts exactly the well-formed ones, a reported cycle is a cycle and no report means acyclic even where other checks failed, the search ends; whatever is written by whom, rules read what was validated |
| `import_rules` | over chains and fans of imports of packages of every kind, in three layouts: silence means isolated and layered, each import is judged once at most, the matrix is enforced in its columns for domains and orchestration; with each preset inner layers stay inner; in every shape a pattern takes from the rules what it names, from a walk also what is below, and nothing else; the directory rules read the same layers |
| `blast_radius` | over small acyclic graphs, hubs, rings: exact counts in every order, few and hot outliers closed under imports, termination; the viewer's numbers agree |
| `viewer` | for small projects and violations: nodes are classified rightly, colours and panel agree, the filter shows every match, the search field owns the keys exactly while visible |
| `guard` | every import graph over three packages with every kind of error, inherited and given flags in every form, every small function body, every place of a package, rule sets with and without the rules about code: a test that passes has loaded everything, and no domain package holds what a rule registered as an error forbids; a partial load is announced, the budget is exact on ordinary code, the three readings of a layer agree, every transaction type in a signature is found, the test ends |
| `run_again_order`, `import_matrix`, `viewer_search`, `logic_budget` | expected violations, section 7 |

### Bounds, and why they suffice for what is asked

- `runner_contract` (`MCRuleRunner`): eight rules, chosen one per decision of the code
  (declared and undeclared IDs, anonymous rule with a repeated catalog entry, twins,
  invalid severity, a `Spec()` that panics), in rule sets of up to two, with four
  filters and five option lists. Two rules suffice for every interaction in the code,
  which goes through the shared result slice, the seen map and the set of known IDs;
  three findings of one rule suffice for the in-place filter to drop before it keeps.
  `RuleRunner_proofs` removes the bound for the safety properties.
- `ruleset_heap`: `MaxArrays = 5`, `MaxMaps = 3`, `MaxHandles = 3`, `Slack = 1` bound
  the heap, the rule sets and the surplus capacity of `append`. Sharing needs two rule
  sets and two writers, spare capacity of one cell lets an append hit it. Callers are
  interchangeable (symmetry; only safety is checked).
- `validate_policy`: three layers hold self-loops, two-cycles, three-cycles, tails,
  repeated targets and missing keys; of the larger maps one has a diamond, one a cycle
  behind a tail. `Faulty` has one policy per check of `Validate`, over a map without and
  with a cycle. `MaxCopies = 4` are the caller, the context and two rules, `MaxWrites = 2`
  lets each of two of them write; only the policies in `Disturbed` are written to.
- `import_rules`: chains of four packages, because the shortest way from one domain to
  another around the rules has two packages in between. `Circle` is the two-package
  circle of sublayers that Go's own check does not see. With the presets, chains of three
  start in an inner layer. Patterns are written in five shapes for one directory, in
  four for a directory with what is below it and in three of nothing but dots. `DiskPool` has every place where a directory
  named app, infra or handler may lie, and places next to them.
- `blast_radius`: five packages are the least the rule judges (`MinPackages`), with all
  acyclic graphs of 0-3 and 9-10 edges; hubs of six to eight packages reach both
  branches of the threshold. Only a spread of zero, a spread above it and the floor
  distinguish cases in the code.
- `viewer`: paths of up to three elements, one package below another, files in
  packages, directories and at the root. A query is the set of elements it selects.
- `guard`: three packages hold a dependency of a dependency and a shared one; four kinds of
  errors are those the code tells apart, alone and together. Bodies grow by three nodes
  from an empty function and by two from a branch, a discounted one and a literal: that is
  every statement in every part of every other. `Formats` has a directive for each combination
  of indices and stars that one of the two readings treats on its own, and up to three
  directives. `Flaggings` crosses four lists of build settings with six of arguments, with the
  inheritance on, disabled and without build information, and an error under either of two tags.
  `Callings` has the rule sets with and without each rule. `MCBudget` is small enough for a body of
  five nodes to exceed it.

### Fairness

`FairSpec` adds weak fairness of `Next` to `RuleRunner`, `BlastRadius` and `Guard`
(`GuardSpec`), `FairContextSpec` that of `NewContext` and of the steps of `Validate`, not of
the writes of others. Each is a sequential call that waits for nobody: as long as a step is
possible the goroutine takes it. Rules are assumed to return or panic, which is what
`Check` and `CheckPanics` say; a rule that never returns blocks `core.Run`, which has no
timeout. The other specifications are checked for safety only: goroutines that derive rule
sets and users that press keys owe nobody a next step.

## 5. What is proved

TLAPS checks every theorem for all values of the constants, without bounds on the number
of rules, findings, goroutines, layers, packages, imports, keys or declarations. The steps
end in SMT, Zenon or PTL. Each component has an inductive invariant. The `TypeOK`s and
`MetaReportedOnce` are parts of these and spend no run.

| Module | Theorems | Inductive invariant, and why it is needed |
|---|---|---|
| `RuleRunner_proofs` | `RunTypeCorrect`, `MetaSignalsAreReportedOnce`, `NoFindingIsLost`, `NoFindingIsInvented`, `FailuresAreLoud` | `IInv`: the result slice as three zones — kept prefix, gap, unread rest — in which every finding collected so far is shown by the prefix or still unread, `seen` holds the keys of the prefix, and write stays behind read. Without it nothing says that writing into the array being read never overtakes the reader |
| | `CallsAgree`, `ReportsStayStable` | `TwiceInv`: the present call satisfies `ListInv`, and what the first found and returned is what such a call ends with (`Whole`). See below |
| | `RunImplementsContract` | `ListInv`: the result slice holds, in emission order, exactly the kept findings, and in the filter its prefix holds those that nothing before repeats. The contract counts, so a bijection between positions and findings is carried along; that no two files and no two IDs share a rank makes a sorted list of these findings an answer of the contract |
| `RuleSetHeap_proofs` | `HeapTypeCorrect`, `RuleSetsAreImmutable`, `SharedMemoryIsReadOnly` | `IInv`: the array and the map of a call in progress are private: no published rule set, lent slice or other call refers to them. `NeverMutated` alone does not survive an append in place |
| | `HeapImplementsValues` | `OnItsWay`: what a call in progress has built, followed by what it has still to append, is the value it means. So the return of `With` or `Without` is one step of `RuleSetValues`, and every step before it a stutter |
| `DirectionCycle_proofs` | `SearchTypeCorrect`, `ReportsOnlyCycles`, `NilIsAcyclic`, `NilMeansNoCycle` | `IInv`: calls match the stack, targets passed are black or waited for, and `finished` lists a layer after everything it imports: a topological order, in which a circle would have a first finished member whose target is finished earlier |
| | `ValidatesExactly`, `HeldPolicyStaysWellFormed`, `PolicyStaysPrivate` | `ValidateInv`: the errors are the faults of the blocks passed, whatever they are, and the search is where `IInv` says. `HeapInv`: every reference of a copy leads to a cell of that copy, so a write through one copy is none to another. `HeldPolicyStaysWellFormed` joins the two: what the Context's cells hold is well-formed as long as the Context lives, which neither invariant says alone |
| `ImportRules_proofs` | `ImportRulesTypeCorrect`, `ImportsAreReportedOnce`, `MatrixIsHeld`, `DomainsAreIsolated`, `DomainsAreLayered` | `IInv`: the report holds exactly the verdicts on the imports passed so far; the rest is a case analysis of the verdicts. Isolation over chains is stated with sets that no import leaves, so no induction over paths is needed |
| | `InnerLayersStayInner` | none of its own: for each of the eight presets the packages of inner layers are closed under imports from layer to layer that were not reported |
| | `ExclusionsAreExact`, `DirectoriesAreReadAlike` | none of their own: `IInv` says what was reported at the end of the loops. See below |
| `BlastRadius_proofs` | `BlastRadiusTypeCorrect`, `DependentsAreExact`, `HotspotsStayFew`, `HotspotsStayHot`, `HotspotsAreClosed` | `IInv`: what was visited belongs to the least closed set around the package, and what left the queue has no unvisited importer; so an empty queue makes the visited set closed, hence equal to it. `HotspotsAreFew` needs that the sorted values have their ranks (`SortedFacts`, `QuartileFacts`) |
| | `ViewerAlwaysAgrees` | none of its own: the viewer's search in rounds grows until a round adds nothing, which happens within as many rounds as there are packages; the result is the same least closed set |
| `Viewer_proofs` | `ViewerTypeOK`, `SearchAlwaysOwnsKeys`, `PackagesAreAlwaysLeaves`, `GreenIsAlwaysClean`, `FilterAlwaysReveals` | `IInv`: with a node the tree holds all nodes above it, and each has a depth; a node added is a leaf or not and coloured for good, although later packages are added below and next to it; the panel is what the handler made of the node under the cursor. The handlers of keys alone cannot restore any of these |
| `Guard_proofs` | `LoadIsSound`, `HolesAreAlwaysTold`, `SignaturesAreExact`, `ReadingsAlwaysAgree` | `GuardInv`, in parts: the result holds exactly the clean ones among the matched packages passed, and every other has an error, in the build with the flags promised (`LoadInv`, `FlagsAreResolved`); the types the walk has seen have their parts seen or waiting (`WalkInv`); a run past the load was let past it (`AcceptedInv`); a rule that is through has found all there is (`CallsInv`, `FieldsInv`) |
| | `OnlyErrorFlowIsDiscounted` | `TreeInv`: the budget reads nodes of a file of the project and no others. `SameArgument` and `DirectiveFacts`: a directive the rule and `fmt` read alike takes the same argument from both and leaves both at the same next one; so two recursive readings of a format agree (`WrapsByNumber`) |
| | `MeasuresAreExact`, `FunctionsAreJudged` | `MeasureInv`, `JudgeInv`, `OnceInv`: see below |

*Two calls of `Run`.* The results are sorted lists, so it is enough that both hold the same
elements equally often. By `ListInv` the plain violations of a result are the kept findings
of the rules, one position for each; the findings of the two calls are paired by the
permutations that say each rule found the same, and the pairs keep the violation. The n-th
plain violation of a sorted list is found by counting the smaller ones, which needs that no
two violations tie in the four keys unless they differ in nothing the comparison looks at.
Of equal signals the filter keeps the first, which is from the same rule in both calls, and
so has the same severity; its place is what may differ. The report sorts again. The number of
elements before an element in a sorted list is settled by its keys and, among ties, by the
order of the input (`Fewer`), whichever permutation the input is; so every permutation of a
result has the keys of the result at each place, and where no two elements tie it has one
stable sorting, the result itself.

*Patterns and places.* A pattern in any of the shapes of `Spells` normalizes to the directory it
spells (`Normal`, `ShapeMatches`), although the trims stop at different pieces in each; so a
path is excluded exactly when a pattern names it or something above it (`PathExcluded`). With
the exactness of the report (`ReportedExactly`) this is what the import rules leave out. For
the walks, each rule's findings with and without patterns are compared (`Leaves`): a directory
is skipped for itself or for one above it, and that one the pattern names. A pattern of dots
alone names no directory, and nothing is skipped for it. To compare the two readings,
the path a walk sees and the one the import rules read are compared position by
position (`Positions`). The parts about presets need of a layout only that it is
`Regular`, which is proved of each of the eight (`PresetsAreRegular`).

*The walk of the logic budget.* `Reference` is a statement about sets of nodes, the walk a
stack of tasks. `MeasureInv` relates the two at any time: the tasks are of nodes none of
which lies below another and none of which is in a discounted branch, each with the
operation its kind asks for and the result types of the function around it; the counts are
those of the charged nodes not below a task (`Counted`). A step replaces the first task by tasks for its
node's children, so the node itself is all that is walked by it (`Advance`), and the numbers grow
by what one more node adds to the reference (`CountsGrow`). Boolean operators are counted
with the statement whose condition they are in: `ConditionsApart` says that the conditions of two
statements have none in common. There is no induction over the tree: that the
nodes around a node form a chain is proved with least sets (`AroundSolves`). `JudgeInv` adds
that the findings of the package are those of the functions before the present one, and
`OnceInv` that no package is looked at twice.

`NatLemmas` has least and greatest elements of sets of numbers, which replace induction,
and the existence of functions defined by recursion on them.

Assumptions are the named `ASSUME`s of the modules, which TLC evaluates in the runs:

- `RunnerAssumption`: specs, findings and requests have their Go types; `meta.*` IDs are not
  empty; `%q` and `%v` texts are messages; the order of strings is total, so no two IDs,
  files or messages share a rank.
- `HeapAssumption`, `ContextAssumption`: the bounds are numbers, and the markers for a missing
  key, an empty root and the default root are distinct from what they mark.
- `DirectionAssumption` (`Sources` lists the keys), `PolicyAssumption` (a policy has its type).
- `InputsAssumption` of `ImportRules`: paths are non-empty; the architecture passed
  `Validate`: sublayers are non-empty and have a key in Direction; the internal root is not
  below `cmd`. That of `BlastRadius`: finitely many packages. That of `Viewer`: paths are
  sequences of segments, severities are the two the runner lets pass.
- `PatternsAssumption` of `Exclude`: every pattern spells a directory that is wanted out, and
  each of these has a pattern; one without a directory is of dots alone; `excluded` is what the code makes of the patterns; no segment
  of a path is a dot or ends with three dots. `PlacesAssumption` of `Structure`: no directory
  has the name of the loose Go file.
- `ProjectsAssumption` of `Guard`: packages import earlier ones (Go has no import cycles),
  files have their types, the errors of a rule set are among its rules, and the viewer passes no
  options. `FlagsAssumption`: the go command takes the arguments (`-tags` has a value), and a
  build setting has one value, true or false for a sanitizer. `FilesAssumption`: the grammar of
  Go (`Grammatical`: which nodes may be in which parts of which others), what go/types answers
  about the nodes, and `fmt`'s grammar of a directive (`Written`).
  `NamesAssumption`: packages.Load, called without tests, returns each matched package once,
  and packages have paths of their own.
  `LegibleAssumption`: a layer has one or two segments, one in a flat layout, and neither the
  domain directory nor a flat layer is also one of the other directories. `Validate` does not
  ask for that; every preset has it, and without it the readings do differ (section 7, flat
  layouts).

## 6. What is only model-checked

Liveness: `Terminates` of three modules and `GuardEnds`. Fairness and ENABLED are out of
TLAPS's reach. Every invariant and every other property of the passing runs is stated by a
theorem.

## 7. Disagreements found while modelling

Each is an expected violation with a counterexample, and quoted in full in `PROJECT.json`.

1. `run_again_order` — `Run`'s comment promises output independent of map iteration
   order; which copy of a repeated meta signal survives, with its file and line, depends
   on it (`core/runner.go:263`).
2. `import_matrix` — the README's matrix says No where neither rule reports: imports of
   `app` and transport by packages that belong to no domain
   (`rules/dependency/isolation.go:155`).
3. `viewer_search` — the first character of a query, or Escape, calls `app.Draw()` inside
   the event loop, which waits for itself (`tui/app.go:82`).
4. `logic_budget` — an endless loop makes the rule panic, so that the findings of the
   functions measured before it are lost, and a label hides the branches below it
   (`rules/structural/logic_budget.go:140`, `:213`).

Smaller ones that the models show but no run is spent on:

- *Runner.* README 166 says a panicking rule leaves the other rules running; a panicking
  `Spec()` is outside the recover and takes the call down (`core/runner.go:156`). The comment
  on `core/runner.go:40` says meta violations are deduplicated by rule, the code uses rule and
  message. `report/json.go:48-53` claims bytes that do not depend on the order of the input,
  which fails for violations that tie in the four keys and differ in fix or severity.
- *Policy.* `core/architecture_validate.go:144-146` says sources are visited in Sublayers
  order, the code sorts strings. `core/architecture.go:46-47` describes `PkgRestricted` the
  other way round than `LayerDirection` and README 416 read it; in flat layouts an import of a
  restricted layer by `pkg` is not reported at all.
- *Patterns.* README 979 says "`...` matches the root and all descendants": the patterns
  `...` and `./...` match nothing (`core/context.go:110`). "Other patterns require an exact
  match" (`core/context.go:93`): the two walks skip everything below such a directory
  (`rules/structural/layer_placement.go:79`, `banned_package.go:61`).
- *Nested roots.* With `InternalRoot` `src/internal` the walks cut paths at the parent of
  that directory, so that `LayerPlacement` reports every directory named app, infra or handler
  and exclude patterns do not match (`layer_placement.go:70`), and the interface rules report
  nothing; `docs/guard-correctness.md:66-67` speaks of "other root-aware rules" that classify
  such roots consistently. `LayersAreWhereTheyAreRead` and `LeftOutTogether`, parts of
  the two properties of `Structure`, are stated for roots of one directory.
- *Loader.* `analyzer/loader.go:34-37` says packages that fail type checking are skipped with an
  error; they are kept without one, and only the check of `IllTyped` in the generated test
  notices. The error of a skipped package counts errors where it says packages.
- *Logic budget.* `&&` in a literal inside a condition counts twice, literals in the return of a
  discounted branch are not seen, and in
  `fmt.Errorf("%[2]*w", x, err, other)` the rule gives `%w` the argument of the index, `err`,
  where `fmt` spends that one on the width and `%w` wraps the next, `other`: a branch that returns another error is discounted
  (`rules/structural/logic_budget.go:412`, `:445-451`). `FormatReadAlike` names the formats for which this does not
  happen, and the properties and theorems about discounts are stated for them.
- *Calls.* `(panic)(x)` and calls through variables are not seen by the two call rules.
- *Viewer.* Closing a search opened from the detail panel leaves `detailFocused` set, and the
  next Tab does nothing (`tui/app.go:93`). The root lists no violations (`tui/violations.go:58`,
  the prefix of the root is "/"), and a package marked for one of its files lists none
  (`tui/detail.go:189`).
- *Blast radius.* With a spread of zero and at least nine packages it may report a package with
  a single dependent next to the hot one that opened the gate; `HotspotsAreHot` is stated
  accordingly.
- *Flat layouts* whose `AppDir` is also a sublayer: the import rules read the composition root
  there, the call rules the layer.

## 8. What is not modelled, and why

- **Interface rules**, `alias.go`, `repo_file_interface.go`, `no_setter.go`: queries about one
  declaration and the methods go/types lists for it. They keep no state, their order does not
  matter, and a model would be the query written a second time.
- **Naming and test policy rules**: comparisons of single names; what could go wrong is in the
  text of a name.
- **Parts of modelled components**: the couplings of `tui/metrics.go`, which are sizes of two of its sets; the tables of presets that only naming rules read and the
  Recommended rule sets, which are lists of constructors, but for the rules that read code (`RecommendedDDD`, `With`); the text of the generated test and the
  checks of its arguments; flags and exit codes of `cmd/tui`; the prefixing of load patterns;
  directories without packages (`testdata`), which the walks of `Structure` also visit.
- **Abstracted everywhere**: wording of messages, the fix of a violation, which no rule or caller decides by, colours, file positions except as
  sort keys, the decoding of paths from strings.
- **External**: go/packages, tview (`Draw`, reachable nodes), Go's sort, append and map
  iteration — each modelled by every outcome the language or the library allows.
- **Assumed of third-party rules**: `Spec()` returns the same value every time, and `Check`
  does not mutate the packages it is shown; `core/context.go` declares the opposite undefined.
