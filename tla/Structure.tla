------------------------------- MODULE Structure -------------------------------
(***************************************************************************)
(* The rules that walk the directories of a project instead of its         *)
(* packages (src/rules/structural/internal_top_level.go,                   *)
(* layer_placement.go, banned_package.go, model_required.go): what they    *)
(* make of the places the import rules read layers from.                   *)
(*                                                                         *)
(* A directory is a path below the project's root. The directories with Go *)
(* files are those of the loaded packages; testdata and other directories  *)
(* that hold no package are left out, and so is what the Alias rule reads  *)
(* inside the files of a domain's root.                                    *)
(***************************************************************************)
EXTENDS Exclude

GoDirs(in) == {Tail(p) : p \in {q \in Loaded(in) : q[1] = in.module}}
Directories(in) == UNION {{SubSeq(d, 1, k) : k \in 1..Len(d)} : d \in GoDirs(in)}
hasInternalDir(in) == in.arch.root \in Directories(in)
Entry(in, dir, depth) == Len(dir) = Len(in.arch.root) + depth /\ Under(dir, in.arch.root)
Name(dir) == dir[Len(dir)]
AnyFile == "x.go"
\* ctx.IsExcluded(dir + "/")
ExcludedDir(in, dir) == IsExcluded(in.patterns, Append(dir, NoPiece))

Misplacement(id, dir) == [id |-> id, dir |-> dir]
Unsupported == {Misplacement("meta.layout-not-supported", <<>>)}
Disabled == {Misplacement("meta.rule-disabled-by-config", <<>>)}
-------------------------------------------------------------------------------
\* A Go file beside the top-level directories is reported too.
LooseFiles(in) == {Append(d, AnyFile) : d \in {in.arch.root} \cap GoDirs(in)}
InternalTopLevel(in) ==
    IF ~hasInternalDir(in) THEN Unsupported
    ELSE {Misplacement("structural.internal-top-level", d) :
             d \in {e \in Directories(in) :
                        Entry(in, e, 1) /\ ~ExcludedDir(in, e) /\ <<Name(e)>> \notin in.arch.topLevel}
                   \cup {f \in LooseFiles(in) : ~IsExcluded(in.patterns, f)}}

\* The walks name a directory by its path from the parent of the internal
\* root: the project's path only where the root is a single directory.
WalkRel(in, dir) == SubSeq(dir, Len(in.arch.root), Len(dir))
\* filepath.SkipDir leaves out all that is below
Pruned(in, dir) ==
    \E k \in 1..Len(WalkRel(in, dir)) :
        LET above == SubSeq(WalkRel(in, dir), 1, k)
        IN  above # in.arch.root /\ ExcludedDir(in, above)
\* the root itself has none of the names the rules look for
Walked(in) == {d \in GoDirs(in) : Under(d, in.arch.root) /\ ~Pruned(in, d)}

\* Mutant: a domain's layer at any depth.
matchesDomainLayerDeep(in, rel, name) ==
    Len(rel) >= 4 /\ <<rel[1]>> = in.arch.root /\ rel[2] = in.arch.domainDir /\ Name(rel) = name
matchesDomainLayer(in, rel, name) ==
    Len(rel) = 4 /\ <<rel[1]>> = in.arch.root /\ rel[2] = in.arch.domainDir /\ rel[4] = name

isMisplacedLayerDir(in, rel, name) ==
    /\ in.arch.dirNames # {} => <<name>> \in in.arch.dirNames
    /\ ~matchesDomainLayer(in, rel, name)
    /\ \/ name = "app" /\ (in.arch.appDir = NoDir \/ rel # Append(in.arch.root, in.arch.appDir))
       \/ name = "infra"
       \/ /\ name = "handler"
          /\ in.arch.serverDir # NoDir => ~AtOrBelow(rel, Append(in.arch.root, in.arch.serverDir))
          /\ rel # in.arch.root \o (IF in.arch.orchestrationDir = NoDir THEN <<>> ELSE <<in.arch.orchestrationDir>>)
                                \o <<"handler">>
LayerPlacement(in) ==
    IF ~hasInternalDir(in) THEN Unsupported
    ELSE {Misplacement("structural.misplaced-layer", WalkRel(in, d)) :
             d \in {e \in Walked(in) : isMisplacedLayerDir(in, WalkRel(in, e), Name(e))}}

\* Naming.BannedPkgNames and LegacyPkgNames, the same with every preset
BannedNames == [id \in {"structural.banned-package-name", "structural.legacy-package"} |->
                  IF id = "structural.legacy-package" THEN {"router", "bootstrap"}
                  ELSE {"util", "common", "misc", "helper", "shared", "services"}]
BannedPackage(in) ==
    IF ~hasInternalDir(in) THEN Unsupported
    ELSE UNION {{Misplacement(id, WalkRel(in, d)) : d \in {e \in Walked(in) : Name(e) \in BannedNames[id]}} :
                id \in DOMAIN BannedNames}

DomainEntries(in) == {d \in Directories(in) : Entry(in, d, 2) /\ d[Len(d) - 1] = in.arch.domainDir}
HasModel(in, dir) == dir \o in.arch.modelPath \in GoDirs(in)
ModelRequired(in) ==
    IF ~hasInternalDir(in) THEN Unsupported
    ELSE IF in.arch.domainDir = NoDir \/ ~in.arch.requireModel THEN Disabled
    ELSE {Misplacement("structural.domain-model-required", d) :
             d \in {e \in DomainEntries(in) : ~ExcludedDir(in, e) /\ ~HasModel(in, e)}}
-------------------------------------------------------------------------------
\* What Validate does not ask for and every preset has: the directories of a
\* layout are different ones, handler is not at the top level, and a required
\* model is a sublayer, in one directory or in a known pair.
Readable(arch) ==
    LET dirs == <<arch.domainDir, arch.orchestrationDir, arch.sharedDir, arch.appDir, arch.serverDir>> IN
    /\ \A i, j \in DOMAIN dirs : dirs[i] = dirs[j] => i = j \/ dirs[i] = NoDir
    /\ <<"handler">> \notin arch.topLevel
    /\ arch.requireModel => /\ arch.modelPath \in Seq(Segment) /\ Len(arch.modelPath) \in 1..2
                            /\ KnownSublayer(arch, arch.modelPath)
ASSUME PlacesAssumption == AnyFile \notin Segment

Found(in) == InternalTopLevel(in) \cup LayerPlacement(in) \cup BannedPackage(in) \cup ModelRequired(in)
FoundAt(in, dir) == {f.id : f \in {g \in Found(in) : g.dir = dir}}
OwnDirectory(arch, domain, layer) ==
    arch.root \o (IF arch.domainDir = NoDir THEN <<>> ELSE <<arch.domainDir, domain>>) \o layer
Top(in, p) == SubSeq(Tail(p), 1, Len(in.arch.root) + 1)

(* The import rules judge a package they cannot place as a stray, which may *)
(* import app (MatrixEnforced). With a preset there is no such package      *)
(* below a top-level directory the structural rule accepts, except the      *)
(* domain and server directories themselves; and no directory that the      *)
(* import rules do place is reported (internal_top_level.go 53-80 against   *)
(* isolation.go 302-345).                                                   *)
StrayIsReported ==
    rule = "done" /\ input.arch \in Architectures =>
        \A p \in {q \in Loaded(input) : IsInternal(input, q)} :
            "structural.internal-top-level" \in FoundAt(input, Top(input, p)) <=>
                /\ ClassOf(input, p).kind = "unclassified"
                /\ Name(Tail(p)) \notin {input.arch.domainDir, input.arch.serverDir} \/ Tail(p) # Top(input, p)
                /\ ~ExcludedDir(input, Top(input, p))

(* A directory named app, infra or handler that the walk accepts is, to the *)
(* import rules, in the layer its name says; and with a preset no sublayer's*)
(* own directory is reported by any of the rules (layer_placement.go 95-123 *)
(* against isolation.go 302-364).                                           *)
LayersAreWhereTheyAreRead ==
    rule = "done" /\ Len(input.arch.root) = 1 =>
        \A p \in {q \in Loaded(input) : IsInternal(input, q)} :
            LET class == ClassOf(input, p)
                name == Name(p)
            IN  /\ /\ Readable(input.arch)
                   /\ name \in {"app", "infra", "handler"} /\ <<name>> \in input.arch.dirNames
                   /\ FoundAt(input, Tail(p)) = {} /\ ~Pruned(input, Tail(p))
                   => \/ class.kind = "domain" /\ class.sublayer = <<name>>
                      \/ name = "app" /\ class.kind = "app"
                      \/ name = "handler" /\ class.kind \in {"transport", "orchestration"}
                /\ /\ input.arch \in Architectures
                   /\ class.kind = "domain" /\ \E l \in Entries(input.arch.sublayers) :
                          Tail(p) = OwnDirectory(input.arch, class.domain, l)
                   => FoundAt(input, Tail(p)) = {}

(* When ModelRequired runs and is silent, every domain the import rules see *)
(* has a package they read as its model layer, the one that InnerStaysInner *)
(* keeps free of the others (model_required.go 55-75).                      *)
DomainsHaveModels ==
    rule = "done" /\ Readable(input.arch) /\ ModelRequired(input) = {} =>
        \A p \in {q \in Loaded(input) : IsInternal(input, q) /\ DomainKind(ClassOf(input, q))} :
            \/ ExcludedDir(input, SubSeq(Tail(p), 1, Len(input.arch.root) + 2))
            \/ \E q \in Loaded(input) :
                  ClassOf(input, q) = Class("domain", ClassOf(input, p).domain, input.arch.modelPath)

\* A walk stops at a directory that is left out: a pattern that names this
\* directory alone takes all that is below it out of the two rules that walk,
\* more than the exact match it is for the other rules (context.go 95-98).
WalkRules == {"structural.misplaced-layer", "structural.banned-package-name", "structural.legacy-package"}
Unreached(in, dir) ==
    \E k \in 1..Len(dir) :
        SubSeq(dir, 1, k) # in.arch.root /\ MeantOut(in, <<in.module>> \o SubSeq(dir, 1, k))
Loses(in, f) ==
    IF f.id \in WalkRules THEN Unreached(in, f.dir) ELSE MeantOut(in, <<in.module>> \o f.dir)

(* Patterns take from the structural rules exactly the findings about what  *)
(* they leave out and, of those of the walks, about what lies below it;     *)
(* that the rules did not run is always said (internal_top_level.go 62-74,  *)
(* layer_placement.go 78-80, banned_package.go 60-62, model_required.go 65).*)
LeftOutTogether ==
    rule = "done" /\ Len(input.arch.root) = 1 =>
        Found(input) = {f \in Found([input EXCEPT !.patterns = {}]) : ~Loses(input, f)}

\* In whichever of its shapes a pattern is written, it takes the same from the
\* import rules and the structural rules: what it names, and from a walk also
\* all that is below (context.go 95-115, README.md 978-980).
LeavesOutExactly == ExclusionIsExact /\ LeftOutTogether

\* The rules that walk directories place a layer where the import rules find
\* it (internal_top_level.go, layer_placement.go, model_required.go against
\* isolation.go 302-364).
DirectoriesReadAlike == StrayIsReported /\ LayersAreWhereTheyAreRead /\ DomainsHaveModels
================================================================================
