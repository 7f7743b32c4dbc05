------------------------------ MODULE LayerPolicy ------------------------------
(***************************************************************************)
(* What the comments ask of an Architecture (src/core/architecture.go      *)
(* 19-55, src/core/architecture_validate.go 9-12). An Architecture is a    *)
(* record; only the fields that are compared with each other are there.    *)
(***************************************************************************)
EXTENDS DirectionGraph

Entries(s)  == {s[i] : i \in DOMAIN s}
Repeated(s) == {l \in Entries(s) : \E i, j \in DOMAIN s : i # j /\ s[i] = l /\ s[j] = l}

\* Without any search: layers that can import each other for ever are the
\* absence of a DAG.
WellFormed(a, empty) ==
    LET layers == Entries(a.sublayers) IN
    /\ empty \notin layers \cup a.dirNames \cup a.topLevel
    /\ Repeated(a.sublayers) = {}
    /\ DOMAIN a.direction = layers
    /\ \A l \in layers : Entries(a.direction[l]) \subseteq layers
    /\ Entries(a.ports) \subseteq Entries(a.contracts)
    /\ Entries(a.contracts) \cup Entries(a.patternDirs) \subseteq layers
    /\ a.pkgRestricted \cup a.excluded \subseteq layers
    /\ \A S \in SUBSET layers : ~Trap(a.direction, S)
===============================================================================
