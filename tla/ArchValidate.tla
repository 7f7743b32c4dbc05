----------------------------- MODULE ArchValidate -----------------------------
(***************************************************************************)
(* Architecture.Validate (src/core/architecture_validate.go), the check    *)
(* Run makes before any rule: a policy a rule would read wrongly must not  *)
(* get past it.                                                            *)
(*                                                                         *)
(* Each block of loops is one step; the last one is the depth-first search *)
(* of DirectionCycle, step by step, on the same map. Every block runs      *)
(* whatever the ones before it found, so the search also meets layers      *)
(* that are unknown, empty or listed twice. An error is its kind and the   *)
(* name it quotes; the slice of errors is sorted and only its emptiness    *)
(* decides, so it is a set.                                                *)
(***************************************************************************)
EXTENDS DirectionCycle, LayerPolicy

CONSTANTS
    Empty,       \* the empty string
    Policies     \* Architectures to validate

ListFields == {"sublayers", "ports", "contracts", "patternDirs"}
KeyFields  == {"pkgRestricted", "excluded", "dirNames", "topLevel"}

ASSUME PolicyAssumption ==
    /\ Empty \in Layer
    /\ \A a \in Policies :
         /\ a.direction \in Directions
         /\ \A f \in ListFields : a[f] \in Seq(Layer)
         /\ \A f \in KeyFields : a[f] \in SUBSET Layer

VARIABLES
    arch,    \* the receiver; never changes
    stage,   \* the block of loops that runs next
    known,   \* the map known
    errs     \* the slice errs

validateVars == <<arch, stage, known, errs>>

Error(kind, l) == [kind |-> kind, layer |-> l]
Errors(kind, names) == {Error(kind, l) : l \in names}
Unknown(kind, names) == Errors(kind, names \ known)

\* One block: it adds its errors and the next block runs in any case.
Block(this, next, found) ==
    /\ stage = this /\ stage' = next
    /\ errs' = errs \cup found
    /\ UNCHANGED <<vars, arch>>

KnownNames(a) == Entries(a.sublayers) \ {Empty}

CheckSublayers ==
    /\ Block("sublayers", "direction",
             Errors("empty sublayer", Entries(arch.sublayers) \cap {Empty})
               \cup Errors("duplicate", Repeated(arch.sublayers) \ {Empty}))
    /\ known' = KnownNames(arch)

CheckDirection ==
    /\ Block("direction", "contracts",
             Errors("no direction", Entries(arch.sublayers) \ DOMAIN direction)
               \cup Unknown("source", DOMAIN direction)
               \cup Unknown("target", UNION {Entries(direction[l]) : l \in DOMAIN direction}))
    /\ UNCHANGED known

\* Mutant: ports need only be sublayers.
AnyPort(a) == {}

\* PortLayers that are not ContractLayers
LoosePorts(a) == Entries(a.ports) \ Entries(a.contracts)

CheckContracts ==
    /\ Block("contracts", "names",
             Unknown("port", Entries(arch.ports))
               \cup Unknown("contract", Entries(arch.contracts))
               \cup Errors("port no contract", LoosePorts(arch)))
    /\ UNCHANGED known

CheckNames ==
    /\ Block("names", "search",
             Unknown("restricted", arch.pkgRestricted)
               \cup Unknown("excluded", arch.excluded)
               \cup Errors("empty dir", arch.dirNames \cap {Empty})
               \cup Errors("empty top", arch.topLevel \cap {Empty})
               \cup Unknown("pattern", Entries(arch.patternDirs)))
    /\ UNCHANGED known

SearchCycle ==
    /\ stage = "search" /\ Next
    /\ UNCHANGED validateVars

CycleError(found) == IF found = NoCycle THEN {} ELSE Errors("cycle", {found[1]})

Conclude ==
    /\ pc = "done"
    /\ Block("search", "done", CycleError(result))
    /\ UNCHANGED known

ValidateInit ==
    /\ arch \in Policies /\ direction = arch.direction
    /\ Init
    /\ stage = "sublayers" /\ known = {} /\ errs = {}

ValidateNext ==
    CheckSublayers \/ CheckDirection \/ CheckContracts \/ CheckNames \/ SearchCycle \/ Conclude

ValidateSpec == ValidateInit /\ [][ValidateNext]_<<vars, validateVars>>
FairValidateSpec == ValidateSpec /\ WF_<<vars, validateVars>>(ValidateNext)

Accepted == stage = "done" /\ errs = {}
Refused  == stage = "done" /\ errs # {}
-------------------------------------------------------------------------------
(* Validate is exact: the policies it accepts are those every rule can     *)
(* read (architecture_validate.go 9-12, 28-136). A refusal is as           *)
(* deliberate as an acceptance: Run panics on one. No other fault hides a  *)
(* cycle: the search runs on maps with unknown, empty and repeated layers  *)
(* and still reports every cycle, and only cycles, so one refusal names    *)
(* what has to be repaired (architecture_validate.go 125-129).             *)
ValidateIsExact ==
    stage = "done" =>
        /\ errs = {} <=> WellFormed(arch, Empty)
        /\ (\E e \in errs : e.kind = "cycle") <=> \E S \in SUBSET Layer : Trap(direction, S)

ValidateTypeOK ==
    /\ arch \in Policies /\ direction = arch.direction
    /\ stage \in {"sublayers", "direction", "contracts", "names", "search", "done"}
    /\ known \subseteq Layer \ {Empty}
    /\ \A e \in errs : e.layer \in Layer
===============================================================================
