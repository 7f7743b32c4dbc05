------------------------------- MODULE CallRules -------------------------------
(***************************************************************************)
(* types.NewNoPanicInDomain, dependency.NewNoSideEffectCallInCore and the  *)
(* start calls of tx.New (src/rules/types/no_panic_in_domain.go,           *)
(* src/rules/dependency/no_side_effect_call_in_core.go,                    *)
(* src/rules/tx/boundary.go): which calls may be written in which layer.   *)
(* Each of the three files reads the layer of a package for itself.        *)
(*                                                                         *)
(* data of a call node: name, the identifier as written, "" for anything   *)
(* else; object, what type checking found it to be; id, its qualified      *)
(* name. ResolveCalleeID looks through parentheses and type arguments, so  *)
(* they are in name only: f.name = "" for (panic)(x).                      *)
(* A package: [path, excluded, file]; a file: [flags, exempt, tree, ...].  *)
(***************************************************************************)
EXTENDS PackageKinds, GoTree

CONSTANTS FailureCalls,   \* isDeniedFailureCall
          DeniedCalls, AllowedCalls,    \* the IDs the patterns of the options match
          StartSymbols, AllowedLayers   \* tx.Config

Callee(name, object, id) == [name |-> name, object |-> object, id |-> id]
NoCallee == ""

\* Variables, conversions and builtins have no ID.
ResolveCalleeID(callee) == IF callee.object = "func" THEN callee.id ELSE NoCallee
FailureCallID(callee) ==
    IF callee.name = "panic" /\ callee.object \in {"builtin", "unknown"} THEN "panic"
    ELSE ResolveCalleeID(callee)

Calls(tree) == {i \in DOMAIN tree : tree[i].kind = "call"}
-------------------------------------------------------------------------------
(* The layer of a package, three times *)

Sublayers(arch) == Range(arch.sublayers)
\* What the three readings take for granted and Validate does not ask for, as
\* in every preset: a layer has one or two segments, one in a flat layout, and
\* neither the domains nor the layers of a flat layout share the directory of
\* something else.
Legible(arch) ==
    LET dirs == {arch.sharedDir, arch.appDir, arch.serverDir, arch.orchestrationDir} \ {NoDir}
    IN  /\ \A layer \in Sublayers(arch) :
               /\ Len(layer) \in 1..2
               /\ arch.domainDir = NoDir => Len(layer) = 1 /\ layer[1] \notin dirs
        /\ arch.domainDir \notin dirs

MatchesLayer(arch, rest, layer) ==
    IF arch.domainDir # NoDir
    THEN /\ Len(rest) >= 2 /\ rest[1] = arch.domainDir
         /\ IsPrefix(layer, SubSeq(rest, 3, Len(rest)))
    ELSE IsPrefix(layer, rest)

\* no_panic_in_domain.go: the segments of the path one by one
FailureInspects(arch, module, path, layers) ==
    /\ IsPrefix(InternalPrefix(arch, module), path)
    /\ \E layer \in layers : MatchesLayer(arch, Rel(arch, module, path), layer)
\* no_side_effect_call_in_core.go: a cut of the string
PurityInspects(arch, module, path, layers) ==
    /\ Internal(arch, module, path)
    /\ \E layer \in layers : MatchesLayer(arch, Rel(arch, module, path), layer)

\* Mutant: what lies beside nested sublayers belongs to their directory.
LooseNestedLayer(arch, inside) ==
    IF Len(inside) >= 2 /\ KnownSublayer(arch, SubSeq(inside, 1, 2)) THEN SubSeq(inside, 1, 2)
    ELSE IF KnownSublayer(arch, SubSeq(inside, 1, 1)) THEN SubSeq(inside, 1, 1)
    ELSE NoSublayer
NestedLayer(arch, inside) ==
    IF Len(inside) >= 2 /\ KnownSublayer(arch, SubSeq(inside, 1, 2)) THEN SubSeq(inside, 1, 2)
    ELSE IF Len(inside) >= 2 /\ HasNestedSublayers(arch, inside[1]) THEN NoSublayer
    ELSE IF KnownSublayer(arch, SubSeq(inside, 1, 1)) THEN SubSeq(inside, 1, 1)
    ELSE NoSublayer
FlatLayer(arch, rest) ==
    IF KnownSublayer(arch, SubSeq(rest, 1, 1)) THEN SubSeq(rest, 1, 1) ELSE NoSublayer
\* boundary.go; NoSublayer for domain roots and everything outside the domains
PackageLayer(arch, module, path) ==
    IF ~Internal(arch, module, path) THEN NoSublayer
    ELSE LET rest == Rel(arch, module, path)
         IN  IF arch.domainDir = NoDir THEN FlatLayer(arch, rest)
             ELSE IF Len(rest) >= 3 /\ rest[1] = arch.domainDir
                  THEN NestedLayer(arch, SubSeq(rest, 3, Len(rest)))
                  ELSE NoSublayer
-------------------------------------------------------------------------------
(* The layers a rule inspects *)

DomainCandidates == {<<"app">>, <<"core", "model">>, <<"core", "svc">>, <<"event">>,
                     <<"entity">>, <<"usecase">>, <<"domain">>, <<"application">>}
FailureLayers(arch) ==
    LET known == (DomainCandidates \cap Sublayers(arch))
                 \cup (IF HasNestedSublayers(arch, "core") THEN {} ELSE {<<"core">>} \cap Sublayers(arch))
    IN  IF known # {} THEN known ELSE DomainCandidates \cup {<<"core">>}
\* PkgRestricted: its keys, and the layers it maps to true.
PurityLayers(arch) ==
    IF arch.restrictedKeys # {} THEN arch.pkgRestricted
    ELSE {<<"core", "model">>, <<"entity">>, <<"domain">>, <<"event">>}

Finding(rule, pkg, at) == [rule |-> rule, pkg |-> pkg, at |-> at]
\* module names no loaded package: a warning instead of a silent pass
MatchesNothing(module, pkgs) ==
    module = "" \/ \A p \in pkgs : ~IsPrefix(<<module>>, p.path)

\* A call in the body of a function whose name is not allowed, or in a declaration.
InspectedCalls(file) ==
    {i \in Calls(file.tree) : Around(file.tree)[i] \cap file.exempt = {}}
FailureFindings(arch, module, pkgs) ==
    IF MatchesNothing(module, pkgs) THEN {Finding("meta.no-matching-packages", "", 0)}
    ELSE UNION {{Finding("errors.no-panic-in-domain", p.path, i) :
                    i \in {c \in InspectedCalls(p.file) : FailureCallID(p.file.tree[c].data) \in FailureCalls}} :
                p \in {q \in pkgs : /\ FailureInspects(arch, module, q.path, FailureLayers(arch))
                                    /\ q.file.flags \cap {"test", "generated", "excluded", "allowed"} = {}}}

PurityFindings(arch, module, pkgs) ==
    IF MatchesNothing(module, pkgs) THEN {Finding("meta.no-matching-packages", "", 0)}
    ELSE UNION {{Finding("purity.no-side-effect-call-in-core", p.path, i) :
                    i \in {c \in Calls(p.file.tree) :
                              ResolveCalleeID(p.file.tree[c].data) \in DeniedCalls \ AllowedCalls}} :
                p \in {q \in pkgs : /\ PurityInspects(arch, module, q.path, PurityLayers(arch))
                                    /\ q.file.flags \cap {"test", "generated", "excluded"} = {}}}

\* walkInternalPackages and the guards of both loops of boundary.go; generated
\* files are read.
Confined(arch, module, p) ==
    /\ module # "" /\ ~p.excluded
    /\ PackageLayer(arch, module, p.path) \notin AllowedLayers \cup {NoSublayer}
    /\ p.file.flags \cap {"test", "excluded"} = {}
StartFindings(arch, module, pkgs) ==
    UNION {{Finding("tx.start-outside-allowed-layer", p.path, i) :
               i \in {c \in Calls(p.file.tree) :
                         ResolveCalleeID(p.file.tree[c].data) \in StartSymbols}} :
           p \in {q \in pkgs : Confined(arch, module, q)}}
===============================================================================
