---- MODULE MCImportRules ----
(* Projects in which one import leads to the next, over packages of every    *)
(* kind: four of them when the first is in a layer of domain a, else three.  *)
(* Projects with one package that imports several. With every preset, chains *)
(* that start in an inner layer. Projects with something left out, in every  *)
(* shape the pattern may be written.                                         *)
EXTENDS Structure, FiniteSetsExt
\* fewer layers
Shop == LET some == {<<"app">>, <<"core">>, <<"core", "model">>, <<"infra">>}
            Keep(s) == SelectSeq(s, LAMBDA l : l \in some)
        IN  [DDD EXCEPT !.sublayers = Keep(@), !.pkgRestricted = @ \cap some,
                        !.direction = [l \in some |-> Keep(@[l])]]
\* a nested root, no alias policy, no composition root
Nested == [Shop EXCEPT !.root = <<"src", "internal">>, !.requireAlias = FALSE,
                      !.appDir = "", !.serverDir = ""]
\* layers at the top, with a composition root
FlatWithApp == [Batch EXCEPT !.appDir = "app", !.serverDir = "server"]
\* a Direction that Validate refuses: two sublayers may import each other
Circular == [Shop EXCEPT !.direction = [Shop.direction EXCEPT ![<<"core", "model">>] = <<<<"app">>>>]]

In(root, rest) == <<"m">> \o root \o rest
Pool(root) ==
    {<<"m", "cmd", "x">>} \cup
    {In(root, r) : r \in {<<"domain", "a">>, <<"domain", "a", "core", "model">>,
        <<"domain", "a", "app">>, <<"domain", "a", "utils">>, <<"domain", "b">>,
        <<"domain", "b", "app">>, <<"orchestration">>, <<"pkg", "log">>, <<"app">>,
        <<"server", "http">>, <<"config">>}}
FlatPool == {<<"m", "cmd", "x">>} \cup
    {In(<<"internal">>, r) : r \in {<<"job">>, <<"store">>, <<"model">>, <<"pkg">>, <<"config">>, <<"app">>}}
Outside == {<<"m", "lib">>, <<"ext">>}
\* one package in each layer, and some around them
PresetPool(arch) ==
    LET base == In(arch.root, IF arch.domainDir = "" THEN <<>> ELSE <<arch.domainDir, "a">>)
    IN  {base \o l : l \in Entries(arch.sublayers)}
        \cup {In(arch.root, <<"pkg", "log">>), In(arch.root, <<"config">>)}
        \cup (IF arch.domainDir = "" THEN {} ELSE {base})
\* directories without any import: where a layer may lie, and where not
DiskPool ==
    {In(<<"internal">>, r) : r \in {<<>>, <<"domain">>, <<"domain", "a">>, <<"domain", "a", "app">>, <<"domain", "a", "infra">>,
        <<"domain", "a", "handler">>, <<"domain", "a", "core", "model">>, <<"domain", "a", "core", "app">>, <<"domain", "a", "app", "infra">>,
        <<"domain", "b", "core">>, <<"app">>, <<"infra">>, <<"handler">>, <<"orchestration", "handler">>, <<"orchestration", "app">>,
        <<"server">>, <<"server", "handler">>, <<"pkg", "util">>, <<"pkg", "app">>, <<"config">>, <<"worker">>, <<"router", "x">>}}
MCPath == {In(<<"internal">>, <<"domain", "a", "core", "model", "dto">>)} \cup Pool(<<"internal">>)
          \cup Pool(<<"src", "internal">>) \cup FlatPool \cup Outside
          \cup UNION {PresetPool(arch) : arch \in Architectures} \cup DiskPool

MCSegment == UNION {{p[i] : i \in DOMAIN p} : p \in MCPath} \cup {"internal", "src"}

Project(arch, module, pkgs, imports) ==
    [arch |-> arch, module |-> module, pkgs |-> pkgs, imports |-> imports,
     wanted |-> {}, patterns |-> {}, excluded |-> {}]
Distinct(s) == \A i, j \in DOMAIN s : s[i] = s[j] => i = j
ImportsOfChain(s) ==
    [p \in {s[i] : i \in DOMAIN s} |-> {s[i + 1] : i \in {k \in 1..Len(s) - 1 : s[k] = p}}]
Chains(arch, pool, n) ==
    {Project(arch, "m", s, ImportsOfChain(s)) : s \in {t \in [1..n -> pool] : Distinct(t)}}
\* patterns that leave out a directory, or a directory and all below it
Shapes(d)     == {d, <<"">> \o d, <<".">> \o d, Append(d, ""), <<"", ".", ".">> \o Append(d, "")}
TreeShapes(d) == {Append(s, "...") : s \in {d, <<"">> \o d, <<".">> \o d}}
                   \cup (IF d[Len(d)] = "a" THEN {[d EXCEPT ![Len(d)] = "a..."]} ELSE {})
Excluding(in, dir, below, pattern) ==
    [in EXCEPT !.wanted = {[dir |-> dir, below |-> below]}, !.patterns = {pattern},
               !.excluded = ExcludedPackages(in.module, {pattern}, Loaded(in))]
\* nothing but dots
Dots == {<<"...">>, <<"", "...">>, <<".", "...">>}
Exclusions(arch, pool) ==
    UNION {{Excluding(in, <<>>, TRUE, s) : in \in Chains(arch, pool, 2), s \in Dots},
           UNION {{Excluding(in, d, FALSE, s) : in \in Chains(arch, pool, 2), s \in Shapes(d)} :
                      d \in {<<"internal", "domain", "a">>, <<"internal", "domain", "a", "app">>}},
           {Excluding(in, <<"internal", "domain", "a">>, TRUE, s) :
               in \in Chains(arch, pool, 2), s \in TreeShapes(<<"internal", "domain", "a">>)},
           {Excluding(in, Tail(in.pkgs[2]), FALSE, Tail(in.pkgs[2])) : in \in Chains(Shop, pool, 3)}}
\* with each preset, chains that start in an inner layer
Inner(arch) ==
    {in \in Chains(arch, PresetPool(arch), 3) :
        ClassOf(in, in.pkgs[1]).sublayer \in arch.pkgRestricted}
\* one package importing n others; the first two are loaded
Fans(arch, pool, n) ==
    {LET q == CHOOSE q \in T : TRUE
     IN  Project(arch, "m", <<p, q>>, p :> T @@ q :> {}) :
        p \in pool, T \in kSubset(n, pool \cup Outside)}
Acyclic(projects) == {in \in projects : in.pkgs[1] \notin in.imports[in.pkgs[1]]}
NoImports(s) == [p \in {s[i] : i \in DOMAIN s} |-> {}]
Disks(arch, n) == {Project(arch, "m", s, NoImports(s)) : s \in {t \in [1..n -> DiskPool] : Distinct(t)}}
ExcludedDisks ==
    {Excluding(in, d, FALSE, Append(d, "")) : in \in Disks(DDD, 1), d \in {<<"internal", "pkg", "util">>, <<"internal", "infra">>, <<"internal", "domain", "a">>}}
    \cup {Excluding(in, d, TRUE, Append(d, "...")) : in \in Disks(DDD, 1), d \in {<<>>, <<"internal">>, <<"internal", "pkg">>, <<"internal", "domain">>}}
\* contexts a rule refuses
Odd == {Project(Shop, "", <<>>, <<>>),
        Project(Shop, "other", <<<<"m", "lib">>>>, <<"m", "lib">> :> {}),
        Project(Shop, "m", <<<<"m", "lib">>>>, <<"m", "lib">> :> {<<"ext">>})}
\* two packages of a domain each importing the other's sublayer: app, with a
\* second package of core/model
Circle(arch) ==
    LET app == In(<<"internal">>, <<"domain", "a", "app">>)
        mdl == In(<<"internal">>, <<"domain", "a", "core", "model">>)
        dto == In(<<"internal">>, <<"domain", "a", "core", "model", "dto">>)
    IN  Project(arch, "m", <<app, mdl, dto>>, app :> {mdl} @@ mdl :> {} @@ dto :> {app})
MCInputs ==
    {in \in Chains(Shop, Pool(<<"internal">>), 4) :
         in.pkgs[1] = In(<<"internal">>, <<"domain", "a", "core", "model">>)}
    \cup Exclusions(Shop, {p \in Pool(<<"internal">>) : p[Len(p)] \in {"x", "a", "model", "app", "log", "utils"}})
    \cup UNION {Inner(arch) : arch \in Architectures}
    \cup Chains(Nested, Pool(<<"src", "internal">>), 2)
    \cup Chains(FlatWithApp, FlatPool, 3)
    \cup Acyclic(Fans(Shop, Pool(<<"internal">>), 2))
    \cup UNION {Disks(arch, 1) : arch \in Architectures} \cup Disks(DDD, 2) \cup ExcludedDisks
    \cup Odd \cup {Circle(Shop), Circle(Circular)}
\* every import of one package by another, in both layouts
MCImportsOnly == Chains(Shop, Pool(<<"internal">>), 2) \cup Chains(FlatWithApp, FlatPool, 2)
====
