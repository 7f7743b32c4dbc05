-------------------------------- MODULE Presets --------------------------------
(***************************************************************************)
(* The architectures a team starts from (src/presets/) and what the import *)
(* rules make of them together. A layer is a path: "core/model" is         *)
(* <<"core", "model">>. The tables of names that no two checks compare     *)
(* (banned packages, alias file, the files of a type pattern) are left out.*)
(***************************************************************************)
EXTENDS ImportRules, LayerPolicy, TLC

Dirs(names) == [i \in DOMAIN names |-> <<names[i]>>]
Set(names)  == Entries(Dirs(names))
\* a Direction of layers that are single directories
Table(targets) == [l \in {<<d>> : d \in DOMAIN targets} |-> Dirs(targets[l[1]])]

Layout(domain, orchestration, app, server) ==
    [root |-> <<"internal">>, domainDir |-> domain, orchestrationDir |-> orchestration,
     sharedDir |-> "pkg", appDir |-> app, serverDir |-> server]
\* The provers have no definition of @@.
Merged(f, g) == [x \in DOMAIN f \cup DOMAIN g |-> IF x \in DOMAIN f THEN f[x] ELSE g[x]]
domainLayout == Layout("domain", "orchestration", NoDir, NoDir)
domainTopLevel == {"domain", "orchestration", "pkg"}
FlatLayout == Layout(NoDir, NoDir, NoDir, NoDir)

\* Mutant: core/model counts as restricted because core is.
CoreOnly == {<<"core">>, <<"core", "repo">>, <<"core", "svc">>, <<"event">>}
DDDRestricted == {<<"core">>, <<"core", "model">>, <<"core", "repo">>, <<"core", "svc">>, <<"event">>}

DDD ==
    LET model == <<"core", "model">>
        repo == <<"core", "repo">>
        svc == <<"core", "svc">>
    IN  Merged(Layout("domain", "orchestration", "app", "server"),
        [requireAlias |-> TRUE, requireModel |-> TRUE, modelPath |-> model,
         sublayers |-> <<<<"handler">>, <<"app">>, <<"core">>, model, repo, svc, <<"event">>, <<"infra">>>>,
         direction |->
             [l \in Set(<<"handler", "app", "core", "event", "infra">>) \cup {model, repo, svc} |->
                 CASE l = <<"handler">> -> <<<<"app">>>>
                   [] l = <<"app">> -> <<model, repo, svc, <<"event">>>>
                   [] l \in {<<"core">>, repo, svc, <<"event">>} -> <<model>>
                   [] l = model -> <<>>
                   [] l = <<"infra">> -> <<repo, model, <<"event">>>>],
         pkgRestricted |-> DDDRestricted,
         ports |-> <<repo>>, contracts |-> <<repo, svc>>, patternDirs |-> <<>>,
         excluded |-> Set(<<"handler", "app", "event">>) \cup {model, repo},
         dirNames |-> Set(<<"handler", "app", "core", "model", "repo", "svc", "event", "infra",
                            "service", "controller", "entity", "store", "persistence", "domain">>),
         topLevel |-> {<<d>> : d \in domainTopLevel \cup {"app", "server"}}])

CleanArch ==
    Merged(domainLayout,
    [requireAlias |-> FALSE, requireModel |-> FALSE, modelPath |-> <<"entity">>,
     sublayers |-> Dirs(<<"handler", "usecase", "entity", "gateway", "infra">>),
     direction |-> Table([handler |-> <<"usecase">>, usecase |-> <<"entity", "gateway">>,
                          entity |-> <<>>, gateway |-> <<"entity">>,
                          infra |-> <<"gateway", "entity">>]),
     pkgRestricted |-> Set(<<"entity">>), ports |-> Dirs(<<"gateway">>),
     contracts |-> Dirs(<<"gateway">>), patternDirs |-> <<>>,
     excluded |-> Set(<<"handler", "entity">>),
     dirNames |-> Set(<<"handler", "usecase", "entity", "gateway", "infra", "service",
                        "controller", "store", "persistence", "domain">>),
     topLevel |-> {<<d>> : d \in domainTopLevel}])

Layered ==
    Merged(domainLayout,
    [requireAlias |-> FALSE, requireModel |-> FALSE, modelPath |-> <<"model">>,
     sublayers |-> Dirs(<<"handler", "service", "repository", "model">>),
     direction |-> Table([handler |-> <<"service">>, service |-> <<"repository", "model">>,
                          repository |-> <<"model">>, model |-> <<>>]),
     pkgRestricted |-> Set(<<"model">>), ports |-> <<>>, contracts |-> <<>>,
     patternDirs |-> <<>>, excluded |-> Set(<<"handler", "model">>),
     dirNames |-> Set(<<"handler", "service", "repository", "model", "controller", "entity",
                        "store", "persistence", "domain">>),
     topLevel |-> {<<d>> : d \in domainTopLevel}])

Hexagonal ==
    Merged(domainLayout,
    [requireAlias |-> FALSE, requireModel |-> FALSE, modelPath |-> <<"domain">>,
     sublayers |-> Dirs(<<"handler", "usecase", "port", "domain", "adapter">>),
     direction |-> Table([handler |-> <<"usecase">>, usecase |-> <<"port", "domain">>,
                          port |-> <<"domain">>, domain |-> <<>>,
                          adapter |-> <<"port", "domain">>]),
     pkgRestricted |-> Set(<<"domain">>), ports |-> Dirs(<<"port">>),
     contracts |-> Dirs(<<"port">>), patternDirs |-> <<>>,
     excluded |-> Set(<<"handler", "domain">>),
     dirNames |-> Set(<<"handler", "usecase", "port", "domain", "adapter", "controller",
                        "service", "entity", "store", "persistence">>),
     topLevel |-> {<<d>> : d \in domainTopLevel}])

ModularMonolith ==
    Merged(domainLayout,
    [requireAlias |-> FALSE, requireModel |-> FALSE, modelPath |-> <<"core">>,
     sublayers |-> Dirs(<<"api", "application", "core", "infrastructure">>),
     direction |-> Table([api |-> <<"application">>, application |-> <<"core">>,
                          core |-> <<>>, infrastructure |-> <<"core">>]),
     pkgRestricted |-> Set(<<"core">>), ports |-> <<>>, contracts |-> <<>>,
     patternDirs |-> <<>>, excluded |-> Set(<<"api", "core">>),
     dirNames |-> Set(<<"api", "application", "core", "infrastructure", "controller",
                        "service", "entity", "store", "persistence">>),
     topLevel |-> {<<d>> : d \in domainTopLevel}])

\* ConsumerWorker and Batch: the same layers but for the first
Pipeline(names, targets) ==
    Merged(FlatLayout,
    [requireAlias |-> FALSE, requireModel |-> FALSE, modelPath |-> <<"model">>, sublayers |-> Dirs(names), direction |-> Table(targets),
     pkgRestricted |-> Set(<<"model">>), ports |-> <<>>, contracts |-> <<>>,
     patternDirs |-> <<<<names[1]>>>>, excluded |-> Set(<<"model", names[1]>>),
     dirNames |-> Set(names), topLevel |-> Set(Append(names, "pkg"))])
ConsumerWorker ==
    Pipeline(<<"worker", "service", "store", "model">>,
             [worker |-> <<"service", "model">>, service |-> <<"store", "model">>,
              store |-> <<"model">>, model |-> <<>>])
Batch ==
    Pipeline(<<"job", "service", "store", "model">>,
             [job |-> <<"service", "model">>, service |-> <<"store", "model">>,
              store |-> <<"model">>, model |-> <<>>])

EventPipeline ==
    LET names == <<"command", "aggregate", "event", "projection", "eventstore", "readstore", "model">>
    IN  Merged(FlatLayout,
        [requireAlias |-> FALSE, requireModel |-> FALSE, modelPath |-> <<"model">>, sublayers |-> Dirs(names),
         direction |-> Table([command |-> <<"aggregate", "eventstore", "model">>,
                              aggregate |-> <<"event", "model">>, event |-> <<"model">>,
                              projection |-> <<"event", "readstore", "model">>,
                              eventstore |-> <<"event", "model">>,
                              readstore |-> <<"model">>, model |-> <<>>]),
         pkgRestricted |-> Set(<<"model", "event">>), ports |-> <<>>, contracts |-> <<>>,
         patternDirs |-> Dirs(<<"command", "aggregate">>),
         excluded |-> Set(<<"model", "event", "command", "aggregate">>),
         dirNames |-> Set(names), topLevel |-> Set(Append(names, "pkg"))])

\* Every function ends with arch.Validate() and panics on an error
\* (ValidateIsExact: an error is an architecture that is not well formed).
Architectures ==
    {a \in {DDD, CleanArch, Layered, Hexagonal, ModularMonolith, ConsumerWorker, Batch, EventPipeline} :
        WellFormed(a, <<>>)}
-------------------------------------------------------------------------------
\* What a layer's package reaches over imports inside its own domain and into
\* the shared tree, from layer to layer; the domain's root package, which no
\* rule looks into for layers, is not passed through.
LayerStep(in, p, q) ==
    /\ p \in Loaded(in) \ in.excluded /\ q \in in.imports[p]
    /\ IsInternal(in, q)
    /\ ClassOf(in, p).kind = "domain"
    /\ \/ ClassOf(in, q).kind = "shared"
       \/ ClassOf(in, q).kind = "domain" /\ ClassOf(in, q).domain = ClassOf(in, p).domain
ReachedByLayers(in, p) ==
    LET All == Loaded(in) \cup UNION {in.imports[q] : q \in Loaded(in)}
    IN  {q \in All : \A S \in SUBSET All :
            p \in S /\ (\A r \in S, s \in All : LayerStep(in, r, s) => s \in S) => q \in S}

(* "Inner layers marked as PkgRestricted must not import shared pkg/"       *)
(* (README.md 416). The rule judges one import at a time, and with a preset *)
(* that is enough: in a project LayerDirection finds nothing in, no chain   *)
(* of imports from layer to layer, however long, leads from an inner layer  *)
(* to an outer one or to shared code (layer_direction.go 73-106). It takes  *)
(* a restricted set that Direction does not leave, which nothing validates. *)
InnerStaysInner ==
    input.arch \in Architectures /\ Clean("direction") =>
        \A p \in Loaded(input) \ input.excluded :
            /\ IsInternal(input, p) /\ ClassOf(input, p).kind = "domain"
            /\ ClassOf(input, p).sublayer \in input.arch.pkgRestricted
            => \A q \in ReachedByLayers(input, p) :
                   /\ ClassOf(input, q).kind = "domain"
                   /\ ClassOf(input, q).sublayer \in input.arch.pkgRestricted
================================================================================
