---------------------------- MODULE DirectionGraph ----------------------------
(***************************************************************************)
(* LayerModel.Direction (src/core/architecture.go) read as a graph: a map  *)
(* from a sublayer to the list of sublayers it may import.                 *)
(***************************************************************************)
EXTENDS Naturals, Sequences

\* direction[l]: a missing key is a nil slice.
Imports(direction, l) == IF l \in DOMAIN direction THEN direction[l] ELSE <<>>

Edge(direction, a, b) ==
    \E i \in DOMAIN Imports(direction, a) : Imports(direction, a)[i] = b

IsCycle(direction, p) ==
    /\ Len(p) >= 2 /\ p[1] = p[Len(p)]
    /\ \A i \in 1..Len(p) - 1 : Edge(direction, p[i], p[i + 1])

\* Layers each of which may import another of them: one can walk in such a
\* set for ever. A finite graph has one exactly when it has a cycle.
Trap(direction, S) == S # {} /\ \A a \in S : \E b \in S : Edge(direction, a, b)
===============================================================================
