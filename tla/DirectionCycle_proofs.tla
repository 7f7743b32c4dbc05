------------------------- MODULE DirectionCycle_proofs -------------------------
(***************************************************************************)
(* The way of a policy to the rules.                                       *)
(*                                                                         *)
(* findDirectionCycle is exact, for every Direction map: a cycle it        *)
(* reports is one, and when it reports none there is none.  Why: the gray  *)
(* layers are those on the stack and consecutive layers of the stack are   *)
(* joined by an entry of Direction, so meeting a gray layer closes a       *)
(* cycle; and a layer is finished only after everything it imports, so the *)
(* order of finishing has no circle.                                       *)
(*                                                                         *)
(* Validate is exact: its errors are those of the blocks that were run,    *)
(* and its search is this one on the same map, whatever is wrong with it.  *)
(*                                                                         *)
(* The copies of a policy share no cell of the heap, so what is written to *)
(* one shows in no other.                                                  *)
(***************************************************************************)
EXTENDS ContextArch, NatLemmas, SequenceTheorems, TLAPS

\* TypeOK and what the constants say of the map that is searched.
LEMMA Unfolded ==
    ASSUME TypeOK
    PROVE  /\ color \in [Layer -> Color]
           /\ stack \in Seq(Layer) /\ finished \in Seq(Layer) /\ result \in Seq(Layer)
           /\ frames \in Seq([node : Layer, at : Nat \ {0}])
           /\ Len(stack) \in Nat /\ DOMAIN stack = 1..Len(stack)
           /\ Len(frames) \in Nat /\ DOMAIN frames = 1..Len(frames)
           /\ Len(finished) \in Nat /\ DOMAIN finished = 1..Len(finished)
           /\ \A i \in 1..Len(stack) : stack[i] \in Layer
           /\ \A i \in 1..Len(frames) : frames[i] \in [node : Layer, at : Nat \ {0}]
           /\ \A i \in 1..Len(finished) : finished[i] \in Layer
           /\ source \in Nat \ {0}
           /\ \A l \in Layer : /\ Imports(direction, l) \in Seq(Layer) /\ Len(Imports(direction, l)) \in Nat
                               /\ DOMAIN Imports(direction, l) = 1..Len(Imports(direction, l))
                               /\ \A k \in 1..Len(Imports(direction, l)) : Imports(direction, l)[k] \in Layer
           /\ \A i \in DOMAIN Sources[direction] : Sources[direction][i] \in Layer
           /\ Len(Sources[direction]) \in Nat
           /\ DOMAIN Sources[direction] = 1..Len(Sources[direction])
<1>1. color \in [Layer -> Color] /\ stack \in Seq(Layer) /\ finished \in Seq(Layer)
      /\ result \in Seq(Layer) /\ frames \in Seq([node : Layer, at : Nat \ {0}])
      /\ source \in Nat \ {0} /\ direction \in Directions
    BY DEF TypeOK
<1>2. Len(stack) \in Nat /\ DOMAIN stack = 1..Len(stack)
      /\ \A i \in 1..Len(stack) : stack[i] \in Layer
    BY <1>1, LenProperties, ElementOfSeq
<1>3. Len(finished) \in Nat /\ DOMAIN finished = 1..Len(finished)
      /\ \A i \in 1..Len(finished) : finished[i] \in Layer
    BY <1>1, LenProperties, ElementOfSeq
<1>4. Len(frames) \in Nat /\ DOMAIN frames = 1..Len(frames)
      /\ \A i \in 1..Len(frames) : frames[i] \in [node : Layer, at : Nat \ {0}]
    <2> DEFINE F == [node : Layer, at : Nat \ {0}]
    <2> HIDE DEF F
    <2>1. frames \in Seq(F)
        BY <1>1 DEF F
    <2>2. Len(frames) \in Nat /\ DOMAIN frames = 1..Len(frames)
          /\ \A i \in 1..Len(frames) : frames[i] \in F
        BY <2>1, LenProperties, ElementOfSeq
    <2> QED BY <2>2 DEF F
<1>5. ASSUME NEW l \in Layer
      PROVE  /\ Imports(direction, l) \in Seq(Layer) /\ Len(Imports(direction, l)) \in Nat
             /\ DOMAIN Imports(direction, l) = 1..Len(Imports(direction, l))
             /\ \A k \in 1..Len(Imports(direction, l)) : Imports(direction, l)[k] \in Layer
    <2>1. Imports(direction, l) \in Seq(Layer)
        BY <1>1, DirectionAssumption, EmptySeq DEF Imports
    <2> QED BY <2>1, LenProperties, ElementOfSeq
<1>6. Sources[direction] \in Seq(DOMAIN direction) /\ DOMAIN direction \subseteq Layer
    BY <1>1, DirectionAssumption
<1>7. Len(Sources[direction]) \in Nat /\ DOMAIN Sources[direction] = 1..Len(Sources[direction])
      /\ \A i \in 1..Len(Sources[direction]) : Sources[direction][i] \in DOMAIN direction
    BY <1>6, LenProperties, ElementOfSeq
<1> QED BY <1>1, <1>2, <1>3, <1>4, <1>5, <1>6, <1>7

\* A prefix of a sequence without its last element.
LEMMA PopFacts ==
    ASSUME NEW S, NEW s \in Seq(S), s # <<>>
    PROVE  /\ Pop(s) \in Seq(S) /\ Len(Pop(s)) = Len(s) - 1
           /\ \A i \in 1..Len(s) - 1 : Pop(s)[i] = s[i]
           /\ Len(s) \in Nat \ {0}
<1>1. Len(s) \in Nat \ {0}
    BY EmptySeq
<1> DEFINE m == Len(s) - 1
<1>2. \A i \in 1..m : s[i] \in S
    BY <1>1, ElementOfSeq
<1> DEFINE p == SubSeq(s, 1, m)
<1>3. 1 \in Int /\ m \in Int /\ m \in Nat
    BY <1>1
<1> HIDE DEF m
<1>4. p \in Seq(S) /\ Len(p) = (IF 1 <= m THEN m - 1 + 1 ELSE 0)
      /\ \A i \in 1..m - 1 + 1 : p[i] = s[1 + i - 1]
    BY ONLY <1>2, <1>3, SubSeqProperties, Z3 DEF p
<1> HIDE DEF p
<1>5. p \in Seq(S) /\ Len(p) = m
    BY <1>3, <1>4
<1>6. ASSUME NEW i \in 1..m PROVE p[i] = s[i]
    <2>1. i \in 1..m - 1 + 1 /\ 1 + i - 1 = i
        BY <1>3
    <2> QED BY <1>4, <2>1
<1> QED BY <1>1, <1>5, <1>6 DEF Pop, p, m

\* An entry of a Direction list is an edge.
LEMMA ListedIsEdge ==
    ASSUME NEW l, NEW k \in DOMAIN Imports(direction, l) PROVE Edge(direction, l, Imports(direction, l)[k])
BY DEF Edge

-------------------------------------------------------------------------------
(* Consequences of the invariant at one state. *)

\* Consecutive layers of the stack are joined by an edge.
LEMMA StackIsPath ==
    ASSUME TypeOK, CallsMatchStack, NEW i \in 1..Len(stack) - 1
    PROVE  Edge(direction, stack[i], stack[i + 1])
<1>1. i \in 1..Len(frames) - 1 /\ i \in DOMAIN frames /\ stack[i] \in Layer
    BY Unfolded DEF CallsMatchStack
<1>2. frames[i].at > 1 /\ frames[i].at <= Len(Imports(direction, stack[i])) + 1
      /\ Imports(direction, stack[i])[frames[i].at - 1] = stack[i + 1]
    BY <1>1 DEF CallsMatchStack
<1>3. frames[i].at - 1 \in DOMAIN Imports(direction, stack[i])
    <2>1. frames[i] \in [node : Layer, at : Nat \ {0}]
        BY <1>1, Unfolded
    <2>2. frames[i].at \in Nat
        BY <2>1
    <2>3. Len(Imports(direction, stack[i])) \in Nat
          /\ DOMAIN Imports(direction, stack[i]) = 1..Len(Imports(direction, stack[i]))
        BY <1>1, Unfolded
    <2> QED BY <1>2, <2>2, <2>3
<1> QED BY <1>2, <1>3, ListedIsEdge

\* What the innermost call looks at.
LEMMA TopFacts ==
    ASSUME TypeOK, CallsMatchStack, frames # <<>>
    PROVE  /\ Len(frames) \in Nat \ {0} /\ Len(frames) = Len(stack)
           /\ Top.node = stack[Len(stack)] /\ Top.node \in Layer /\ Top.at \in Nat \ {0}
           /\ Top = [node |-> Top.node, at |-> Top.at]
           /\ Top.at <= Len(Imports(direction, Top.node)) =>
                  /\ Top.at \in DOMAIN Imports(direction, Top.node)
                  /\ Target \in Layer /\ Edge(direction, Top.node, Target)
<1>1. Len(frames) \in Nat \ {0}
    BY EmptySeq, Unfolded
<1>2. Len(frames) = Len(stack) /\ Len(frames) \in DOMAIN frames
    BY <1>1, Unfolded DEF CallsMatchStack
<1>3. Top \in [node : Layer, at : Nat \ {0}]
    BY <1>2, Unfolded DEF Top
<1>4. Top.node = stack[Len(stack)]
    BY <1>2 DEF CallsMatchStack, Top
<1>5. ASSUME Top.at <= Len(Imports(direction, Top.node))
      PROVE  Top.at \in DOMAIN Imports(direction, Top.node) /\ Target \in Layer /\ Edge(direction, Top.node, Target)
    <2>1. Top.node \in Layer /\ Top.at \in Nat \ {0}
        BY <1>3
    <2>2. Top.at \in DOMAIN Imports(direction, Top.node)
        BY <1>5, <2>1, Unfolded
    <2> QED BY <2>1, <2>2, Unfolded, ListedIsEdge DEF Target
<1> QED BY <1>1, <1>2, <1>3, <1>4, <1>5

\* Meeting a gray layer closes a cycle.
LEMMA MeetingGrayIsACycle ==
    ASSUME TypeOK, CallsMatchStack, AtTarget("gray")
    PROVE  /\ \E i \in DOMAIN stack : stack[i] = Target
           /\ CycleThrough(Target) \in Seq(Layer)
           /\ IsCycle(direction, CycleThrough(Target))
           /\ \A i, j \in 1..Len(CycleThrough(Target)) - 1 :
                  CycleThrough(Target)[i] = CycleThrough(Target)[j] => i = j
<1>1. frames # <<>> /\ Top.at <= Len(Imports(direction, Top.node)) /\ color[Target] = "gray"
    BY DEF AtTarget, Searching
<1>2. Len(stack) \in Nat \ {0} /\ Target \in Layer /\ Edge(direction, stack[Len(stack)], Target)
      /\ stack \in Seq(Layer) /\ DOMAIN stack = 1..Len(stack)
    BY <1>1, TopFacts, Unfolded
<1>3. \E i \in DOMAIN stack : stack[i] = Target
    BY <1>1, <1>2 DEF TypeOK
<1>4. PICK s \in DOMAIN stack : stack[s] = Target
    BY <1>3
<1> DEFINE First(i) == stack[i] = Target /\ \A j \in DOMAIN stack : stack[j] = Target => i <= j
           start == CHOOSE i \in DOMAIN stack : First(i)
           part == SubSeq(stack, start, Len(stack))
           cycle == Append(part, Target)
<1>5. s \in Nat /\ First(s)
    BY <1>2, <1>4 DEF CallsMatchStack
<1>6. start \in DOMAIN stack /\ stack[start] = Target
    <2>1. \E i \in DOMAIN stack : First(i)
        BY <1>5
    <2>2. start \in DOMAIN stack /\ First(start)
        BY <2>1
    <2> QED BY <2>2
<1>7. CycleThrough(Target) = cycle
    BY DEF CycleThrough
<1> HIDE DEF start
<1> DEFINE n == Len(stack) - start + 1
<1>8. start \in 1..Len(stack) /\ n \in Nat \ {0}
    BY <1>2, <1>6
<1>9. part \in Seq(Layer) /\ Len(part) = n
      /\ \A i \in 1..n : part[i] = stack[start + i - 1]
    <2>1. \A i \in start..Len(stack) : stack[i] \in Layer
        BY <1>2, <1>8, Unfolded
    <2>2. start \in Int /\ Len(stack) \in Int /\ start <= Len(stack)
        BY <1>2, <1>8
    <2>3. part \in Seq(Layer)
          /\ Len(part) = (IF start <= Len(stack) THEN Len(stack) - start + 1 ELSE 0)
          /\ \A i \in 1..Len(stack) - start + 1 : part[i] = stack[start + i - 1]
        BY ONLY <2>1, <2>2, SubSeqProperties, Z3
    <2> QED BY <2>2, <2>3
<1>10. cycle \in Seq(Layer) /\ Len(cycle) = n + 1 /\ cycle[n + 1] = Target
       /\ \A i \in 1..n : cycle[i] = stack[start + i - 1]
    <2> HIDE DEF part, n
    <2>1. cycle \in Seq(Layer) /\ Len(cycle) = Len(part) + 1
          /\ (\A i \in 1..Len(part) : cycle[i] = part[i]) /\ cycle[Len(part) + 1] = Target
        BY <1>2, <1>9, AppendProperties
    <2> QED BY <1>9, <2>1
<1> HIDE DEF cycle, part
<1>11. cycle[1] = Target /\ cycle[Len(cycle)] = Target /\ Len(cycle) >= 2
    <2>1. 1 \in 1..n /\ start + 1 - 1 = start
        BY <1>8
    <2> QED BY <1>6, <1>8, <1>10, <2>1
<1>12. ASSUME NEW i \in 1..Len(cycle) - 1
       PROVE  Edge(direction, cycle[i], cycle[i + 1])
    <2>1. i \in 1..n /\ cycle[i] = stack[start + i - 1]
        BY <1>8, <1>10
    <2>2. CASE i = n
        <3>1. start + i - 1 = Len(stack) /\ cycle[i + 1] = Target
            BY <1>2, <1>8, <1>10, <2>2
        <3> QED BY <1>2, <2>1, <3>1
    <2>3. CASE i < n
        <3>1. start + i - 1 \in 1..Len(stack) - 1 /\ (start + i - 1) + 1 = start + (i + 1) - 1
              /\ i + 1 \in 1..n
            BY <1>2, <1>8, <2>1, <2>3
        <3>2. cycle[i + 1] = stack[(start + i - 1) + 1]
            BY <1>10, <3>1
        <3> QED BY <2>1, <3>1, <3>2, StackIsPath
    <2> QED BY <1>8, <2>1, <2>2, <2>3
<1>13. ASSUME NEW i \in 1..Len(cycle) - 1, NEW j \in 1..Len(cycle) - 1, cycle[i] = cycle[j]
       PROVE  i = j
    <2>1. i \in 1..n /\ j \in 1..n
        BY <1>8, <1>10
    <2>2. stack[start + i - 1] = stack[start + j - 1]
        BY <1>10, <1>13, <2>1
    <2>3. start + i - 1 \in DOMAIN stack /\ start + j - 1 \in DOMAIN stack
        BY <1>2, <1>8, <2>1
    <2>4. start + i - 1 = start + j - 1
        BY <2>2, <2>3 DEF CallsMatchStack
    <2> QED BY <1>8, <2>1, <2>4
<1> QED BY <1>3, <1>7, <1>10, <1>11, <1>12, <1>13 DEF IsCycle

-------------------------------------------------------------------------------
(* Steps. *)

Frame == [node : Layer, at : Nat \ {0}]

\* The parts of the invariant that do not mention frames survive a step that
\* keeps the direction map and every black layer, and finishes nothing.
LEMMA EnterKeeps ==
    ASSUME IInv, pc = "search", NEW l \in Layer, color[l] = "white",
           NEW callers \in Seq(Frame), Enter(l, callers),
           UNCHANGED <<direction, finished, result, pc>>,
           \/ source' = source
           \/ /\ source' = source + 1 /\ source \in DOMAIN Sources[direction]
              /\ Sources[direction][source] = l,
           Len(callers) = Len(frames),
           \A i \in 1..Len(frames) :
               /\ callers[i].node = frames[i].node
               /\ i < Len(frames) => callers[i].at = frames[i].at
               /\ i = Len(frames) =>
                      /\ callers[i].at = frames[i].at + 1
                      /\ frames[i].at <= Len(Imports(direction, frames[i].node))
                      /\ Imports(direction, frames[i].node)[frames[i].at] = l
    PROVE  IInv'
<1> USE DEF Frame
<1>1. TypeOK /\ CallsMatchStack /\ PassedTargetsExplored /\ FinishedInOrder
      /\ SourcesExplored /\ ReportedCycleIsReal
    BY DEF IInv
<1>2. color' = [color EXCEPT ![l] = "gray"] /\ stack' = Append(stack, l)
      /\ frames' = Append(callers, [node |-> l, at |-> 1]) /\ direction' = direction
      /\ finished' = finished /\ result' = result /\ pc' = pc
    BY DEF Enter, Grayed
<1>3. color \in [Layer -> Color] /\ stack \in Seq(Layer) /\ Len(stack) \in Nat
      /\ Len(frames) = Len(stack) /\ DOMAIN frames = 1..Len(frames)
      /\ DOMAIN stack = 1..Len(stack) /\ source \in Nat \ {0}
    BY <1>1, Unfolded DEF CallsMatchStack
<1> DEFINE n == Len(stack)
           f == [node |-> l, at |-> 1]
<1>16. n \in Nat /\ (\A i : i \in 1..n + 1 <=> i \in 1..n \/ i = n + 1)
    BY <1>3
<1>4. stack' \in Seq(Layer) /\ Len(stack') = n + 1 /\ DOMAIN stack' = 1..n + 1
      /\ (\A i \in 1..n : stack'[i] = stack[i]) /\ stack'[n + 1] = l
    <2>1. stack' \in Seq(Layer) /\ Len(stack') = n + 1
          /\ (\A i \in 1..n : stack'[i] = stack[i]) /\ stack'[n + 1] = l
        BY <1>2, <1>3, AppendProperties
    <2> QED BY <2>1, LenProperties
<1>5. frames' \in Seq(Frame) /\ Len(frames') = n + 1 /\ DOMAIN frames' = 1..n + 1
      /\ (\A i \in 1..n : frames'[i] = callers[i]) /\ frames'[n + 1] = f
    <2>1. f \in Frame /\ Len(callers) = n
        BY <1>3
    <2> HIDE DEF f, Frame
    <2>2. frames' \in Seq(Frame) /\ Len(frames') = n + 1
          /\ (\A i \in 1..n : frames'[i] = callers[i]) /\ frames'[n + 1] = f
        BY <1>2, <2>1, AppendProperties DEF f
    <2> QED BY <2>2, LenProperties
<1>6. color' \in [Layer -> Color] /\ color'[l] = "gray"
      /\ \A k \in Layer : k # l => color'[k] = color[k]
    BY <1>2, <1>3 DEF Color
<1>7. \A k \in Layer : color[k] = "black" <=> color'[k] = "black"
    BY <1>6
<1>8. \A k \in Layer : color'[k] = "gray" <=> \E i \in DOMAIN stack' : stack'[i] = k
    <2>1. \A k \in Layer : color[k] = "gray" <=> \E i \in DOMAIN stack : stack[i] = k
        BY <1>1 DEF TypeOK
    <2>2. TAKE k \in Layer
    <2>3. CASE k = l
        <3>1. n + 1 \in DOMAIN stack'
            BY <1>3, <1>4
        <3> QED BY <1>4, <1>6, <2>3, <3>1
    <2>4. CASE k # l
        <3>1. (\E i \in 1..n : stack[i] = k) <=> \E i \in 1..n + 1 : stack'[i] = k
            <4> HIDE DEF n
            <4> QED BY <1>16, <1>4, <2>4
        <3> QED BY ZenonT(40), <1>3, <1>4, <1>6, <2>1, <2>4, <3>1
    <2> QED BY <2>3, <2>4
<1>9. source' \in Nat \ {0}
    BY <1>3
<1>10. TypeOK'
    <2>1. direction \in Directions /\ finished \in Seq(Layer) /\ result \in Seq(Layer)
          /\ pc \in {"search", "done"}
        BY <1>1 DEF TypeOK
    <2> QED BY <1>2, <1>4, <1>5, <1>6, <1>8, <1>9, <2>1 DEF TypeOK
<1>11. CallsMatchStack'
    <2>1. ASSUME NEW i \in 1..n + 1
          PROVE  /\ frames'[i].node = stack'[i]
                 /\ frames'[i].at <= Len(Imports(direction, stack'[i])) + 1
        <3>1. CASE i \in 1..n
            <4>1. frames'[i] = callers[i] /\ stack'[i] = stack[i] /\ i \in DOMAIN frames
                BY <1>3, <1>4, <1>5, <3>1
            <4>2. frames[i].node = stack[i]
                  /\ frames[i].at <= Len(Imports(direction, stack[i])) + 1
                BY <1>1, <4>1 DEF CallsMatchStack
            <4>3. frames[i].at \in Nat /\ Len(Imports(direction, stack[i])) \in Nat
                <5>1. frames[i] \in Frame /\ stack[i] \in Layer
                    BY <1>1, <1>3, <3>1, Unfolded
                <5> QED BY <1>1, <5>1, Unfolded
            <4> QED BY SMTT(40), <1>3, <3>1, <4>1, <4>2, <4>3
        <3>2. CASE i = n + 1
            <4>1. Len(Imports(direction, l)) \in Nat
                BY <1>1, Unfolded
            <4> QED BY <1>4, <1>5, <3>2, <4>1
        <3> QED BY <1>3, <3>1, <3>2
    <2>2. ASSUME NEW i \in 1..n + 1, NEW j \in 1..n + 1, stack'[i] = stack'[j]
          PROVE  i = j
        <3>1. \A k \in 1..n : stack[k] # l
            BY <1>1, <1>3 DEF TypeOK
        <3>2. CASE i \in 1..n /\ j \in 1..n
            <4>1. stack[i] = stack[j] /\ i \in DOMAIN stack /\ j \in DOMAIN stack
                BY <1>3, <1>4, <2>2, <3>2
            <4> QED BY <1>1, <4>1 DEF CallsMatchStack
        <3>3. CASE ~(i \in 1..n /\ j \in 1..n)
            <4>1. \A k \in 1..n : stack'[k] # l
                BY <1>4, <3>1
            <4>2. i = n + 1 \/ j = n + 1
                BY <1>3, <3>3
            <4>3. stack'[n + 1] = l /\ stack'[i] = l /\ stack'[j] = l
                BY <1>4, <2>2, <4>2
            <4>4. i \notin 1..n /\ j \notin 1..n
                BY <4>1, <4>3
            <4> QED BY <1>3, <4>4
        <3> QED BY <3>2, <3>3
    <2>3. ASSUME NEW i \in 1..n
          PROVE  /\ frames'[i].at > 1
                 /\ Imports(direction, stack'[i])[frames'[i].at - 1] = stack'[i + 1]
        <3>1. frames'[i] = callers[i] /\ stack'[i] = stack[i] /\ i \in DOMAIN frames
              /\ frames[i].node = stack[i] /\ frames[i].at \in Nat \ {0}
            <4>1. i \in DOMAIN frames
                BY <1>3
            <4> QED BY <1>1, <1>3, <1>4, <1>5, <4>1, Unfolded DEF CallsMatchStack
        <3>2. CASE i = n
            BY SMTT(40), <1>3, <1>4, <3>1, <3>2
        <3>3. CASE i \in 1..n - 1
            <4>1. callers[i].at = frames[i].at /\ i + 1 \in 1..n
                BY <1>3, <3>3
            <4>2. frames[i].at > 1
                  /\ Imports(direction, stack[i])[frames[i].at - 1] = stack[i + 1]
                BY <1>1, <1>3, <3>3 DEF CallsMatchStack
            <4> QED BY <1>4, <3>1, <4>1, <4>2
        <3> QED BY <1>3, <3>2, <3>3
    <2>4. Len(stack') = Len(frames') /\ Len(frames') - 1 = n
        BY <1>3, <1>4, <1>5
    <2> QED BY ZenonT(40), <1>2, <1>4, <1>5, <2>1, <2>2, <2>3, <2>4 DEF CallsMatchStack
<1>12. PassedTargetsExplored'
  <2>1. ASSUME NEW i \in 1..n + 1, NEW k \in 1..frames'[i].at - 1
        PROVE  \/ color'[Imports(direction, stack'[i])[k]] = "black"
               \/ i < n + 1 /\ k = frames'[i].at - 1
    <3>1. CASE i = n + 1
        <4>1. frames'[i].at - 1 = 0
            BY <1>5, <3>1
        <4> QED BY <4>1
    <3>2. CASE i \in 1..n
        <4>1. i \in DOMAIN frames /\ frames'[i] = callers[i] /\ stack'[i] = stack[i]
              /\ frames[i].at \in Nat \ {0} /\ stack[i] \in Layer
              /\ frames[i].at <= Len(Imports(direction, stack[i])) + 1
              /\ Len(Imports(direction, stack[i])) \in Nat
            <5>1. i \in DOMAIN frames /\ i \in 1..Len(frames) /\ stack[i] \in Layer
                BY <1>1, <1>3, <3>2, Unfolded
            <5>2. frames[i] \in Frame
                BY <1>1, <5>1, Unfolded
            <5>3. Len(Imports(direction, stack[i])) \in Nat
                BY <1>1, <5>1, Unfolded
            <5> QED BY <1>1, <1>4, <1>5, <3>2, <5>1, <5>2, <5>3 DEF CallsMatchStack
        <4>2. CASE k \in 1..frames[i].at - 1 /\ ~(i < n /\ k = frames[i].at - 1)
            <5>1. color[Imports(direction, stack[i])[k]] = "black"
                BY <1>1, <1>3, <4>1, <4>2 DEF PassedTargetsExplored
            <5>2. k \in 1..Len(Imports(direction, stack[i]))
                BY <4>1, <4>2
            <5>3. Imports(direction, stack[i])[k] \in Layer
                BY <1>1, <4>1, <5>2, Unfolded
            <5> QED BY <1>7, <4>1, <5>1, <5>3
        <4>3. /\ i < n => callers[i].at = frames[i].at
              /\ i = n => callers[i].at = frames[i].at + 1
            BY <1>3, <3>2
        <4>4. CASE i < n
            <5>1. k \in 1..frames[i].at - 1
                BY <4>1, <4>3, <4>4
            <5>2. CASE k = frames[i].at - 1
                BY SMTT(40), <1>16, <4>1, <4>3, <4>4, <5>2
            <5> QED BY <4>2, <5>1, <5>2
        <4>5. CASE i = n
            <5>1. callers[i].at - 1 = frames[i].at /\ k \in 1..frames[i].at
                BY <4>1, <4>3, <4>5
            <5>2. CASE k = frames[i].at
                BY <1>16, <4>1, <4>5, <5>1, <5>2
            <5>3. CASE k # frames[i].at
                <6>1. k \in 1..frames[i].at - 1
                    BY SMTT(40), <4>1, <5>1, <5>3
                <6> QED BY <4>2, <4>5, <6>1
            <5> QED BY <5>2, <5>3
        <4> QED BY <1>16, <3>2, <4>4, <4>5
    <3> QED BY <1>16, <3>1, <3>2
  <2>2. Len(frames') = n + 1 /\ DOMAIN frames' = 1..n + 1 /\ direction' = direction
      BY <1>2, <1>5
  <2> HIDE DEF n
  <2> QED BY <2>1, <2>2 DEF PassedTargetsExplored
<1>13. FinishedInOrder'
    BY <1>1, <1>2, <1>7 DEF FinishedInOrder
<1>14. SourcesExplored'
    <2>1. ASSUME NEW i \in DOMAIN Sources[direction], i < source'
          PROVE  color'[Sources[direction][i]] # "white"
        <3>1. i \in Nat /\ Sources[direction][i] \in Layer
            BY <1>1, Unfolded
        <3>2. CASE i < source
            <4>1. color[Sources[direction][i]] # "white"
                BY <1>1, <3>2 DEF SourcesExplored
            <4> QED BY <1>6, <3>1, <4>1
        <3>3. CASE i = source
            BY <1>3, <1>6, <2>1, <3>3
        <3> QED BY <1>3, <2>1, <3>1, <3>2, <3>3
    <2> QED BY <1>2, <2>1 DEF SourcesExplored
<1>15. ReportedCycleIsReal'
    BY <1>1, <1>2 DEF ReportedCycleIsReal
<1> QED BY <1>10, <1>11, <1>12, <1>13, <1>14, <1>15 DEF IInv

LEMMA LastOrBefore == ASSUME NEW n \in Nat, NEW i \in 1..n PROVE i < n \/ i = n
OBVIOUS

\* The frames after the innermost loop moved to its next target
LEMMA NextTargetFacts ==
    ASSUME TypeOK, CallsMatchStack, frames # <<>>, NEW g, g = NextTarget(frames)
    PROVE  /\ g \in Seq(Frame) /\ Len(g) = Len(frames) /\ DOMAIN g = 1..Len(frames)
           /\ \A i \in 1..Len(frames) :
                 /\ g[i].node = frames[i].node
                 /\ i < Len(frames) => g[i] = frames[i]
                 /\ i = Len(frames) => g[i].at = frames[i].at + 1
<1> DEFINE n == Len(frames)
           top == [node |-> Top.node, at |-> Top.at + 1]
<1>1. frames \in Seq(Frame) /\ n \in Nat \ {0} /\ Top = frames[n]
      /\ Top.node \in Layer /\ Top.at \in Nat \ {0} /\ Top = [node |-> Top.node, at |-> Top.at]
    BY TopFacts, Unfolded DEF Frame, Top
<1>2. n \in 1..n /\ top \in Frame
    BY <1>1 DEF Frame
<1>3. g = [frames EXCEPT ![n] = [frames[n] EXCEPT !.at = frames[n].at + 1]]
    BY DEF NextTarget
<1>4. [frames[n] EXCEPT !.at = frames[n].at + 1] = top
    <2>1. frames[n] = [node |-> Top.node, at |-> Top.at]
        BY <1>1
    <2> HIDE DEF n
    <2>2. [frames[n] EXCEPT !.at = frames[n].at + 1]
             = [node |-> Top.node, at |-> Top.at + 1]
        BY <2>1
    <2> QED BY <2>2
<1> HIDE DEF top
<1>5. g \in Seq(Frame) /\ Len(g) = n
      /\ \A j \in 1..n : g[j] = IF j = n THEN top ELSE frames[j]
    BY <1>1, <1>2, <1>3, <1>4, ExceptSeq
<1>6. DOMAIN g = 1..n
    BY <1>5, LenProperties
<1>7. top.node = Top.node /\ top.at = Top.at + 1
    BY DEF top
<1>8. frames[n].node = Top.node /\ frames[n].at = Top.at
    BY <1>1
<1>9. ASSUME NEW i \in 1..n
      PROVE  /\ g[i].node = frames[i].node
             /\ i < n => g[i] = frames[i]
             /\ i = n => g[i].at = frames[i].at + 1
    <2> HIDE DEF n
    <2>1. CASE i = n
        BY <1>1, <1>5, <1>7, <1>8, <2>1
    <2>2. CASE i # n
        BY <1>5, <2>2
    <2> QED BY <2>1, <2>2
<1> QED BY <1>5, <1>6, <1>9

LEMMA StartSourceKeeps == ASSUME IInv, StartSource PROVE IInv'
<1> DEFINE l == Sources[direction][source]
<1>1. pc = "search" /\ frames = <<>> /\ source <= Len(Sources[direction])
      /\ color[l] = "white" /\ Enter(l, <<>>) /\ source' = source + 1
      /\ UNCHANGED <<direction, finished, result, pc>>
    BY DEF StartSource
<1>2. TypeOK
    BY DEF IInv
<1>3. source \in DOMAIN Sources[direction] /\ l \in Layer
    BY <1>1, <1>2, Unfolded
<1>4. Len(frames) = 0 /\ <<>> \in Seq(Frame) /\ Len(<<>>) = 0
    BY <1>1, EmptySeq
<1>5. Sources[direction][source] = l
    OBVIOUS
<1>6. 1..Len(frames) = {} /\ Len(<<>>) = Len(frames)
    BY <1>4
<1> HIDE DEF l
<1> DEFINE none == <<>>
<1>7. none \in Seq(Frame) /\ Len(none) = Len(frames) /\ Enter(l, none)
    BY <1>1, <1>4, <1>6
<1> HIDE DEF none
<1> QED BY <1>1, <1>3, <1>5, <1>6, <1>7, EnterKeeps

LEMMA DescendKeeps == ASSUME IInv, Descend PROVE IInv'
<1> DEFINE l == Target
           g == NextTarget(frames)
<1>1. pc = "search" /\ frames # <<>> /\ Top.at <= Len(Imports(direction, Top.node))
      /\ color[l] = "white" /\ Enter(l, g)
      /\ UNCHANGED <<direction, source, finished, result, pc>>
    BY DEF Descend, AtTarget, Searching
<1>2. TypeOK /\ CallsMatchStack
    BY DEF IInv
<1>3. l \in Layer /\ Top = frames[Len(frames)]
      /\ Imports(direction, frames[Len(frames)].node)[frames[Len(frames)].at] = l
      /\ frames[Len(frames)].at <= Len(Imports(direction, frames[Len(frames)].node))
    BY <1>1, <1>2, TopFacts DEF Top, Target
<1>4. g \in Seq(Frame) /\ Len(g) = Len(frames)
      /\ \A i \in 1..Len(frames) :
            /\ g[i].node = frames[i].node
            /\ i < Len(frames) => g[i] = frames[i]
            /\ i = Len(frames) => g[i].at = frames[i].at + 1
    BY <1>1, <1>2, NextTargetFacts
<1> HIDE DEF l, g
<1> QED BY <1>1, <1>3, <1>4, EnterKeeps

LEMMA SkipExploredKeeps == ASSUME IInv, SkipExplored PROVE IInv'
<1>1. pc = "search" /\ frames # <<>> /\ Top.at <= Len(Imports(direction, Top.node))
      /\ color[Target] = "black" /\ frames' = NextTarget(frames)
      /\ UNCHANGED <<direction, color, stack, source, finished, result, pc>>
    BY DEF SkipExplored, AtTarget, Searching
<1>2. TypeOK /\ CallsMatchStack /\ PassedTargetsExplored /\ FinishedInOrder
      /\ SourcesExplored /\ ReportedCycleIsReal
    BY DEF IInv
<1> DEFINE n == Len(frames)
<1>3. frames' \in Seq(Frame) /\ Len(frames') = n /\ DOMAIN frames' = 1..n
      /\ \A i \in 1..n : /\ frames'[i].node = frames[i].node
                         /\ i < n => frames'[i] = frames[i]
                         /\ i = n => frames'[i].at = frames[i].at + 1
    BY <1>1, <1>2, NextTargetFacts
<1>4. n \in Nat \ {0} /\ n = Len(stack) /\ DOMAIN frames = 1..n /\ Top = frames[n]
      /\ frames[n].at \in Nat \ {0} /\ frames[n].node = stack[n]
      /\ Imports(direction, stack[n])[frames[n].at] = Target
      /\ frames[n].at <= Len(Imports(direction, stack[n]))
    BY <1>1, <1>2, TopFacts, Unfolded DEF Top, Target
<1>5. TypeOK'
    BY <1>1, <1>2, <1>3 DEF TypeOK, Frame
<1>6. CallsMatchStack'
    <2>1. ASSUME NEW i \in 1..n
          PROVE  /\ frames'[i].node = stack[i]
                 /\ frames'[i].at <= Len(Imports(direction, stack[i])) + 1
        <3>1. frames[i].node = stack[i] /\ frames[i].at <= Len(Imports(direction, stack[i])) + 1
            BY <1>2, <1>4 DEF CallsMatchStack
        <3>2. stack[i] \in Layer
            BY <1>2, <1>4, Unfolded
        <3>3. Len(Imports(direction, stack[i])) \in Nat
            BY <1>2, <3>2, Unfolded
        <3> HIDE DEF n
        <3>4. i < n \/ i = n
            BY <1>4, LastOrBefore
        <3>5. frames[i].at \in Nat
            <4>1. frames[i] \in [node : Layer, at : Nat \ {0}]
                BY <1>2, <1>4, Unfolded DEF n
            <4> QED BY <4>1
        <3>6. CASE i < n
            BY <1>3, <3>1, <3>3, <3>5, <3>6
        <3>7. CASE i = n
            <4>1. frames'[i].at = frames[i].at + 1 /\ frames'[i].node = frames[i].node
                BY <1>3, <3>7
            <4>2. frames[i].at <= Len(Imports(direction, stack[i]))
                BY <1>4, <3>7
            <4> QED BY <3>1, <3>3, <3>5, <4>1, <4>2
        <3> QED BY <3>4, <3>6, <3>7
    <2>2. ASSUME NEW i \in 1..n - 1
          PROVE  /\ frames'[i].at > 1
                 /\ Imports(direction, stack[i])[frames'[i].at - 1] = stack[i + 1]
        <3>1. frames[i].at > 1 /\ Imports(direction, stack[i])[frames[i].at - 1] = stack[i + 1]
            BY <1>2 DEF CallsMatchStack
        <3>2. i \in 1..n /\ i < n
            BY <1>4
        <3> HIDE DEF n
        <3> QED BY <1>3, <3>1, <3>2
    <2>3. \A i, j \in DOMAIN stack : stack[i] = stack[j] => i = j
        BY <1>2 DEF CallsMatchStack
    <2>4. Len(stack') = Len(frames') /\ stack' = stack /\ direction' = direction
        BY <1>1, <1>3, <1>4
    <2> HIDE DEF n
    <2> QED BY <1>3, <2>1, <2>2, <2>3, <2>4 DEF CallsMatchStack
<1>7. PassedTargetsExplored'
    <2>1. ASSUME NEW i \in 1..n, NEW k \in 1..frames'[i].at - 1
          PROVE  \/ color[Imports(direction, stack[i])[k]] = "black"
                 \/ i < n /\ k = frames'[i].at - 1
        <3>1. CASE i < n
            <4>1. frames'[i] = frames[i]
                BY <1>3, <3>1
            <4> QED BY <1>2, <1>4, <4>1 DEF PassedTargetsExplored
        <3>2. CASE i = n
            <4>1. frames'[i].at = frames[n].at + 1
                BY <1>3, <3>2
            <4>2. CASE k = frames[n].at
                BY <1>1, <1>4, <3>2, <4>2
            <4>3. CASE k # frames[n].at
                <5>1. k \in 1..frames[i].at - 1
                    BY <1>4, <3>2, <4>1, <4>3
                <5>2. i \in DOMAIN frames /\ ~(i < Len(frames))
                    BY <1>4, <3>2
                <5> QED BY <1>2, <5>1, <5>2 DEF PassedTargetsExplored
            <4> QED BY <4>2, <4>3
        <3>3. i < n \/ i = n
            <4> HIDE DEF n
            <4> QED BY <1>4, LastOrBefore
        <3> QED BY <3>1, <3>2, <3>3
    <2> HIDE DEF n
    <2> QED BY <1>1, <1>3, <2>1 DEF PassedTargetsExplored
<1>8. FinishedInOrder' /\ ReportedCycleIsReal'
    BY <1>1, <1>2 DEF FinishedInOrder, ReportedCycleIsReal
<1>9. SourcesExplored'
    BY <1>1, <1>2 DEF SourcesExplored
<1> QED BY <1>5, <1>6, <1>7, <1>8, <1>9 DEF IInv

LEMMA FinishKeeps == ASSUME IInv, Finish PROVE IInv'
<1> DEFINE n == Len(frames)
           l == Top.node
<1>1. frames # <<>> /\ Top.at > Len(Imports(direction, l)) /\ stack' = Pop(stack)
      /\ color' = [color EXCEPT ![l] = "black"] /\ frames' = Pop(frames)
      /\ finished' = Append(finished, l) /\ UNCHANGED <<direction, source, result, pc>>
    BY DEF Finish, Searching, Blackened
<1>2. TypeOK /\ CallsMatchStack /\ PassedTargetsExplored /\ FinishedInOrder
      /\ SourcesExplored /\ ReportedCycleIsReal
    BY DEF IInv
<1>3. n \in Nat \ {0} /\ Len(stack) = n /\ l = stack[n] /\ l \in Layer
      /\ DOMAIN stack = 1..n /\ DOMAIN frames = 1..n
      /\ stack \in Seq(Layer) /\ frames \in Seq(Frame) /\ color \in [Layer -> Color]
    BY <1>1, <1>2, TopFacts, Unfolded DEF Frame
<1>4. stack # <<>>
    BY <1>3, EmptySeq
<1>5. stack' \in Seq(Layer) /\ Len(stack') = n - 1 /\ DOMAIN stack' = 1..n - 1
      /\ \A i \in 1..n - 1 : stack'[i] = stack[i]
    <2>1. Pop(stack) \in Seq(Layer) /\ Len(Pop(stack)) = n - 1
          /\ \A i \in 1..n - 1 : Pop(stack)[i] = stack[i]
        BY <1>3, <1>4, PopFacts
    <2> QED BY <1>1, <2>1, LenProperties
<1>6. frames' \in Seq(Frame) /\ Len(frames') = n - 1 /\ DOMAIN frames' = 1..n - 1
      /\ \A i \in 1..n - 1 : frames'[i] = frames[i]
    <2> HIDE DEF n
    <2>1. Pop(frames) \in Seq(Frame) /\ Len(Pop(frames)) = n - 1
          /\ \A i \in 1..n - 1 : Pop(frames)[i] = frames[i]
        BY <1>1, <1>3, PopFacts DEF n
    <2> QED BY <1>1, <2>1, LenProperties
<1>7. color' \in [Layer -> Color] /\ color'[l] = "black"
      /\ \A k \in Layer : k # l => color'[k] = color[k]
    BY <1>1, <1>3 DEF Color
<1>8. \A i \in 1..n - 1 : stack[i] # l
    BY SMTT(40), <1>2, <1>3 DEF CallsMatchStack
<1>9. \A k \in Layer : color'[k] = "gray" <=> \E i \in DOMAIN stack' : stack'[i] = k
    <2> TAKE k \in Layer
    <2>1. color[k] = "gray" <=> \E i \in 1..n : stack[i] = k
        BY <1>2, <1>3 DEF TypeOK
    <2>2. CASE k = l
        BY <1>5, <1>7, <1>8, <2>2
    <2>3. CASE k # l
        <3>1. (\E i \in 1..n : stack[i] = k) <=> \E i \in 1..n - 1 : stack[i] = k
            <4>1. \A i \in 1..n : stack[i] = k => i \in 1..n - 1
                BY <1>3, <2>3
            <4>2. \A i \in 1..n - 1 : i \in 1..n
                BY <1>3
            <4> HIDE DEF n, l
            <4> QED BY <4>1, <4>2
        <3>2. (\E i \in 1..n - 1 : stack[i] = k) <=> \E i \in DOMAIN stack' : stack'[i] = k
            <4> HIDE DEF n
            <4> QED BY <1>5
        <3> HIDE DEF l
        <3> QED BY <1>7, <2>1, <2>3, <3>1, <3>2
    <2> QED BY <2>2, <2>3
<1>10. finished \in Seq(Layer) /\ Len(finished) \in Nat /\ DOMAIN finished = 1..Len(finished)
       /\ finished' \in Seq(Layer) /\ Len(finished') = Len(finished) + 1
       /\ DOMAIN finished' = 1..Len(finished) + 1
       /\ (\A i \in 1..Len(finished) : finished'[i] = finished[i])
       /\ finished'[Len(finished) + 1] = l
    <2>1. finished \in Seq(Layer) /\ Len(finished) \in Nat /\ DOMAIN finished = 1..Len(finished)
        BY <1>2, Unfolded
    <2> HIDE DEF l
    <2>2. finished' \in Seq(Layer) /\ Len(finished') = Len(finished) + 1
          /\ (\A i \in 1..Len(finished) : finished'[i] = finished[i])
          /\ finished'[Len(finished) + 1] = l
        BY <1>1, <1>3, <2>1, AppendProperties
    <2> QED BY <2>1, <2>2, LenProperties
<1>11. TypeOK'
    <2>1. direction \in Directions /\ source \in Nat \ {0} /\ result \in Seq(Layer)
          /\ pc \in {"search", "done"}
        BY <1>2 DEF TypeOK
    <2> HIDE DEF n, l
    <2> QED BY <1>1, <1>5, <1>6, <1>7, <1>9, <1>10, <2>1 DEF TypeOK, Frame
<1>12. CallsMatchStack'
    <2>1. ASSUME NEW i \in 1..n - 1
          PROVE  /\ frames'[i].node = stack'[i]
                 /\ frames'[i].at <= Len(Imports(direction, stack'[i])) + 1
        <3>1. i \in DOMAIN frames /\ frames'[i] = frames[i] /\ stack'[i] = stack[i]
            BY <1>3, <1>5, <1>6
        <3> QED BY <1>2, <3>1 DEF CallsMatchStack
    <2>2. ASSUME NEW i \in 1..n - 1, NEW j \in 1..n - 1, stack'[i] = stack'[j]
          PROVE  i = j
        <3>1. i \in DOMAIN stack /\ j \in DOMAIN stack /\ stack[i] = stack[j]
            BY <1>3, <1>5, <2>2
        <3> QED BY <1>2, <3>1 DEF CallsMatchStack
    <2>3. ASSUME NEW i \in 1..n - 1 - 1
          PROVE  /\ frames'[i].at > 1
                 /\ Imports(direction, stack'[i])[frames'[i].at - 1] = stack'[i + 1]
        <3>1. i \in 1..n - 1 /\ i + 1 \in 1..n - 1
            BY <1>3
        <3>2. frames[i].at > 1 /\ Imports(direction, stack[i])[frames[i].at - 1] = stack[i + 1]
            BY <1>2, <3>1 DEF CallsMatchStack
        <3> HIDE DEF n
        <3> QED BY <1>5, <1>6, <3>1, <3>2
    <2>4. direction' = direction
        BY <1>1
    <2> HIDE DEF n
    <2> QED BY <1>5, <1>6, <2>1, <2>2, <2>3, <2>4 DEF CallsMatchStack
<1>13. PassedTargetsExplored'
    <2>1. ASSUME NEW i \in 1..n - 1, NEW k \in 1..frames'[i].at - 1
          PROVE  \/ color'[Imports(direction, stack'[i])[k]] = "black"
                 \/ i < n - 1 /\ k = frames'[i].at - 1
        <3>1. frames'[i] = frames[i] /\ stack'[i] = stack[i] /\ i \in 1..n /\ i \in 1..n - 1
              /\ stack[i] \in Layer /\ frames[i] \in Frame
            <4>1. i \in 1..n /\ i \in 1..n - 1
                BY <1>3
            <4>2. frames[i] \in Frame /\ stack[i] \in Layer
                BY <1>2, <1>3, <4>1, Unfolded DEF Frame
            <4> QED BY <1>5, <1>6, <4>1, <4>2
        <3>2. \/ color[Imports(direction, stack[i])[k]] = "black"
              \/ k = frames[i].at - 1
            BY <1>2, <1>3, <3>1 DEF PassedTargetsExplored
        <3>3. CASE k = frames[i].at - 1
            <4>1. Imports(direction, stack[i])[k] = stack[i + 1]
                BY <1>2, <3>1, <3>3 DEF CallsMatchStack
            <4>2. CASE i = n - 1
                BY <1>3, <1>7, <3>1, <4>1, <4>2
            <4>3. CASE i # n - 1
                BY <1>3, <3>1, <3>3, <4>3
            <4> QED BY <4>2, <4>3
        <3>4. CASE color[Imports(direction, stack[i])[k]] = "black"
            <4>1. Imports(direction, stack[i])[k] \in Layer
                <5>1. frames[i].at <= Len(Imports(direction, stack[i])) + 1
                      /\ Len(Imports(direction, stack[i])) \in Nat /\ frames[i].at \in Nat
                    BY <1>2, <1>3, <3>1, Unfolded DEF CallsMatchStack, Frame
                <5>2. k \in 1..Len(Imports(direction, stack[i]))
                    BY <3>1, <5>1
                <5> QED BY <1>2, <3>1, <5>2, Unfolded
            <4> QED BY <1>7, <3>1, <3>4, <4>1
        <3> QED BY <3>2, <3>3, <3>4
    <2>2. direction' = direction
        BY <1>1
    <2> HIDE DEF n
    <2> QED BY <1>6, <2>1, <2>2 DEF PassedTargetsExplored
<1>14. \A k \in Layer : color'[k] = "black" <=> color[k] = "black" \/ k = l
    BY <1>7
\* everything l imports is black
<1>15. ASSUME NEW b \in Layer, Edge(direction, l, b)
       PROVE  color[b] = "black"
    <2>1. PICK k \in DOMAIN Imports(direction, l) : Imports(direction, l)[k] = b
        BY <1>15 DEF Edge
    <2>2. Top = frames[n] /\ Top.at \in Nat /\ n \in DOMAIN frames
          /\ Len(Imports(direction, l)) \in Nat
          /\ DOMAIN Imports(direction, l) = 1..Len(Imports(direction, l))
        BY <1>1, <1>2, <1>3, TopFacts, Unfolded DEF Top
    <2>3. k \in 1..frames[n].at - 1
        BY <1>1, <2>2
    <2>4. color[Imports(direction, stack[n])[k]] = "black" \/ n < Len(frames)
        BY <1>2, <2>2, <2>3 DEF PassedTargetsExplored
    <2>5. ~(n < Len(frames))
        BY <1>3
    <2> QED BY <1>3, <2>1, <2>4, <2>5
<1>16. FinishedInOrder'
    <2> DEFINE m == Len(finished)
    <2>1. \A k \in Layer : color[k] = "black" <=> \E i \in 1..m : finished[i] = k
        BY <1>2, <1>10 DEF FinishedInOrder
    <2>2. m \in Nat /\ (\A i : i \in 1..m + 1 <=> i \in 1..m \/ i = m + 1)
        BY <1>10
    <2>3. ASSUME NEW k \in Layer
          PROVE  color'[k] = "black" <=> \E i \in 1..m + 1 : finished'[i] = k
        <3> HIDE DEF m, l
        <3> QED BY <1>10, <1>14, <2>1, <2>2 DEF m
    <2>4. ASSUME NEW i \in 1..m + 1, NEW b \in Layer, Edge(direction, finished'[i], b)
          PROVE  \E j \in 1..m + 1 : j < i /\ finished'[j] = b
        <3>1. CASE i \in 1..m
            <4>1. finished'[i] = finished[i]
                BY <1>10, <3>1
            <4>2. PICK j \in 1..m : j < i /\ finished[j] = b
                BY <1>2, <1>10, <2>4, <3>1, <4>1 DEF FinishedInOrder
            <4> QED BY <1>10, <2>2, <4>2
        <3>2. CASE i = m + 1
            <4>1. color[b] = "black"
                BY <1>10, <1>15, <2>4, <3>2
            <4>2. PICK j \in 1..m : finished[j] = b
                BY <2>1, <4>1
            <4>3. j \in 1..m + 1 /\ j < i /\ finished'[j] = b
                BY <1>10, <2>2, <3>2, <4>2
            <4> QED BY <4>3
        <3> QED BY <2>2, <3>1, <3>2
    <2>5. direction' = direction /\ DOMAIN finished' = 1..m + 1
        BY <1>1, <1>10
    <2> HIDE DEF m, l
    <2> QED BY <2>3, <2>4, <2>5 DEF FinishedInOrder
<1>17. SourcesExplored'
    <2>1. ASSUME NEW i \in DOMAIN Sources[direction], i < source
          PROVE  color'[Sources[direction][i]] # "white"
        <3>1. color[Sources[direction][i]] # "white" /\ Sources[direction][i] \in Layer
            BY <1>2, <2>1, Unfolded DEF SourcesExplored
        <3> QED BY <1>7, <3>1
    <2>2. pc = "search"
        BY DEF Finish, Searching
    <2> QED BY <1>1, <2>1, <2>2 DEF SourcesExplored
<1>18. ReportedCycleIsReal'
    BY <1>1, <1>2 DEF ReportedCycleIsReal
<1> QED BY <1>11, <1>12, <1>13, <1>16, <1>17, <1>18 DEF IInv

LEMMA MeetGrayKeeps == ASSUME IInv, MeetGray PROVE IInv'
<1>1. TypeOK /\ CallsMatchStack /\ PassedTargetsExplored /\ FinishedInOrder
      /\ SourcesExplored /\ AtTarget("gray")
    BY DEF IInv, MeetGray
<1>2. CycleThrough(Target) \in Seq(Layer) /\ IsCycle(direction, CycleThrough(Target))
      /\ (\A i, j \in 1..Len(CycleThrough(Target)) - 1 :
             CycleThrough(Target)[i] = CycleThrough(Target)[j] => i = j)
      /\ \E i \in DOMAIN stack : stack[i] = Target
    BY <1>1, MeetingGrayIsACycle
<1>3. result' = CycleThrough(Target) /\ pc' = "done"
      /\ UNCHANGED <<direction, color, stack, frames, finished, source>>
    BY <1>2 DEF MeetGray
<1>4. result' # NoCycle
    <2>1. Len(result') >= 2
        BY <1>2, <1>3 DEF IsCycle
    <2>2. Len(<<>>) = 0
        BY EmptySeq
    <2> QED BY <2>1, <2>2 DEF NoCycle
<1>5. TypeOK'
    BY <1>1, <1>2, <1>3 DEF TypeOK
<1>6. CallsMatchStack' /\ PassedTargetsExplored' /\ FinishedInOrder'
    BY <1>1, <1>3 DEF CallsMatchStack, PassedTargetsExplored, FinishedInOrder
<1>7. SourcesExplored'
    BY <1>1, <1>3, <1>4 DEF SourcesExplored
<1>8. ReportedCycleIsReal'
    BY <1>2, <1>3 DEF ReportedCycleIsReal
<1> QED BY <1>5, <1>6, <1>7, <1>8 DEF IInv

LEMMA SkipSourceKeeps == ASSUME IInv, SkipSource PROVE IInv'
<1>1. TypeOK /\ CallsMatchStack /\ PassedTargetsExplored /\ FinishedInOrder
      /\ SourcesExplored /\ ReportedCycleIsReal
    BY DEF IInv
<1>2. color[Sources[direction][source]] # "white" /\ source' = source + 1 /\ pc = "search"
      /\ UNCHANGED <<direction, color, stack, frames, finished, result, pc>>
    BY DEF SkipSource
<1>3. source \in Nat \ {0} /\ DOMAIN Sources[direction] = 1..Len(Sources[direction])
    BY <1>1, Unfolded
<1>4. TypeOK'
    BY <1>1, <1>2 DEF TypeOK
<1>5. CallsMatchStack' /\ PassedTargetsExplored' /\ FinishedInOrder' /\ ReportedCycleIsReal'
    BY <1>1, <1>2 DEF CallsMatchStack, PassedTargetsExplored, FinishedInOrder,
                      ReportedCycleIsReal
<1>6. SourcesExplored'
    <2>1. ASSUME NEW i \in DOMAIN Sources[direction], i < source + 1
          PROVE  color[Sources[direction][i]] # "white"
        <3>1. i < source \/ i = source
            BY <1>3, <2>1
        <3> QED BY <1>1, <1>2, <3>1 DEF SourcesExplored
    <2> QED BY <1>2, <2>1 DEF SourcesExplored
<1> QED BY <1>4, <1>5, <1>6 DEF IInv

LEMMA AllExploredKeeps == ASSUME IInv, AllExplored PROVE IInv'
<1>1. TypeOK /\ CallsMatchStack /\ PassedTargetsExplored /\ FinishedInOrder
      /\ SourcesExplored /\ ReportedCycleIsReal
    BY DEF IInv
<1>2. frames = <<>> /\ source > Len(Sources[direction]) /\ pc' = "done"
      /\ UNCHANGED <<direction, color, stack, frames, source, finished, result>>
    BY DEF AllExplored
<1>3. TypeOK' /\ SourcesExplored'
    BY <1>1, <1>2 DEF TypeOK, SourcesExplored
<1>4. CallsMatchStack' /\ PassedTargetsExplored' /\ FinishedInOrder' /\ ReportedCycleIsReal'
    BY <1>1, <1>2 DEF CallsMatchStack, PassedTargetsExplored, FinishedInOrder,
                      ReportedCycleIsReal
<1> QED BY <1>3, <1>4 DEF IInv

LEMMA StepKeeps == IInv /\ [Next]_vars => IInv'
<1>1. ASSUME IInv, UNCHANGED vars
      PROVE  IInv'
    BY <1>1 DEF vars, IInv, TypeOK, CallsMatchStack, PassedTargetsExplored,
                FinishedInOrder, SourcesExplored, ReportedCycleIsReal
<1> QED BY <1>1, StartSourceKeeps, SkipSourceKeeps, DescendKeeps, SkipExploredKeeps,
           MeetGrayKeeps, FinishKeeps, AllExploredKeeps DEF Next

LEMMA InitHolds == Init => IInv
<1> SUFFICES ASSUME Init PROVE IInv
    OBVIOUS
<1>1. direction \in Directions /\ color = [l \in Layer |-> "white"] /\ stack = <<>>
      /\ frames = <<>> /\ finished = <<>> /\ source = 1 /\ result = <<>> /\ pc = "search"
    BY DEF Init, NoCycle
<1>2. DOMAIN stack = {} /\ DOMAIN frames = {} /\ DOMAIN finished = {}
      /\ Len(stack) = 0 /\ Len(frames) = 0
    BY <1>1
<1>3. TypeOK
    BY <1>1, <1>2, EmptySeq DEF TypeOK, Color
<1>4. CallsMatchStack
    <2>1. 1..Len(frames) - 1 = {}
        BY <1>2
    <2> QED BY <1>2, <2>1 DEF CallsMatchStack
<1>5. PassedTargetsExplored /\ FinishedInOrder
    BY <1>1, <1>2 DEF PassedTargetsExplored, FinishedInOrder
<1>6. SourcesExplored
    <2>1. \A i \in DOMAIN Sources[direction] : i \in Nat \ {0}
        BY <1>3, Unfolded
    <2> QED BY <1>1, <2>1 DEF SourcesExplored
<1>7. ReportedCycleIsReal
    BY <1>1 DEF ReportedCycleIsReal, NoCycle
<1> QED BY <1>3, <1>4, <1>5, <1>6, <1>7 DEF IInv

-------------------------------------------------------------------------------
(* The theorems. *)

THEOREM SearchInvariant == Spec => []IInv
<1> QED BY InitHolds, StepKeeps, PTL DEF Spec

(* The types; gray is what is on the stack. *)
THEOREM SearchTypeCorrect == Spec => []TypeOK
<1>1. IInv => TypeOK
    BY DEF IInv
<1> QED BY <1>1, SearchInvariant, PTL

(* A reported cycle is a cycle of Direction without repetition. *)
THEOREM ReportsOnlyCycles == Spec => []ReportedCycleIsReal
<1>1. IInv => ReportedCycleIsReal
    BY DEF IInv
<1> QED BY <1>1, SearchInvariant, PTL

\* The order of finishing leaves no set of layers importing each other.
LEMMA ExploredIsAcyclic ==
    ASSUME IInv, pc = "done", result = NoCycle
    PROVE  \A S \in SUBSET Layer : ~Trap(direction, S)
<1> SUFFICES ASSUME NEW S \in SUBSET Layer, Trap(direction, S)
             PROVE  FALSE
    OBVIOUS
<1>1. TypeOK /\ CallsMatchStack /\ FinishedInOrder /\ SourcesExplored
    BY DEF IInv
<1>2. frames = <<>> /\ source > Len(Sources[direction])
    BY <1>1 DEF SourcesExplored
<1>3. DOMAIN stack = {}
    <2>1. Len(stack) = Len(frames) /\ DOMAIN stack = 1..Len(stack)
        BY <1>1, Unfolded DEF CallsMatchStack
    <2>2. Len(frames) = 0
        BY <1>2, EmptySeq
    <2> QED BY <2>1, <2>2
<1>4. \A l \in Layer : color[l] # "gray"
    BY <1>1, <1>3 DEF TypeOK
<1>5. ASSUME NEW a \in S
      PROVE  color[a] = "black"
    <2>1. PICK b \in S : Edge(direction, a, b)
        BY DEF Trap
    <2>2. a \in DOMAIN direction
        BY <2>1 DEF Edge, Imports
    <2>3. PICK i \in DOMAIN Sources[direction] : Sources[direction][i] = a
        BY <1>1, <2>2, DirectionAssumption DEF TypeOK
    <2>4. i < source
        BY <1>1, <1>2, <2>3, Unfolded
    <2>5. color[a] # "white" /\ color[a] \in Color
        BY <1>1, <2>3, <2>4, Unfolded DEF SourcesExplored
    <2> QED BY <1>4, <2>5 DEF Color
<1> DEFINE Places == {i \in DOMAIN finished : finished[i] \in S}
<1>6. Places \subseteq Nat /\ Places # {}
    <2>1. PICK a \in S : TRUE
        BY DEF Trap
    <2>2. PICK i \in DOMAIN finished : finished[i] = a
        BY <1>1, <1>5, <2>1 DEF FinishedInOrder
    <2>3. DOMAIN finished \subseteq Nat
        BY <1>1, Unfolded
    <2> QED BY <2>1, <2>2, <2>3
<1>7. PICK first \in Places : \A k \in Places : first <= k
    BY <1>6, LeastElement
<1>8. PICK b \in S : Edge(direction, finished[first], b)
    BY <1>7 DEF Trap
<1>9. PICK j \in DOMAIN finished : j < first /\ finished[j] = b
    BY <1>1, <1>7, <1>8 DEF FinishedInOrder
<1>10. j \in Places /\ j \in Nat /\ first \in Nat
    BY <1>6, <1>7, <1>8, <1>9
<1> QED BY <1>7, <1>9, <1>10

(* When the search reports nothing, the Direction map is a DAG. *)
THEOREM NilIsAcyclic == Spec => []NilMeansAcyclic
<1>1. IInv => NilMeansAcyclic
    BY ExploredIsAcyclic DEF NilMeansAcyclic
<1> QED BY <1>1, SearchInvariant, PTL

\* The layers of a cycle form such a set, so a DAG in this sense has no cycle.
LEMMA CycleIsATrap ==
    ASSUME NEW d, NEW p \in Seq(Layer), IsCycle(d, p)
    PROVE  \E S \in SUBSET Layer : Trap(d, S)
<1> DEFINE n == Len(p)
           S == {p[i] : i \in 1..n - 1}
<1>1. n \in Nat /\ n >= 2 /\ p[1] = p[n] /\ \A i \in 1..n : p[i] \in Layer
    BY LenProperties, ElementOfSeq DEF IsCycle
<1>2. S \in SUBSET Layer /\ S # {}
    <2>1. 1 \in 1..n - 1 /\ \A i \in 1..n - 1 : i \in 1..n
        BY <1>1
    <2> HIDE DEF n
    <2> QED BY <1>1, <2>1
<1>3. ASSUME NEW a \in S
      PROVE  \E b \in S : Edge(d, a, b)
    <2>1. PICK i \in 1..n - 1 : a = p[i]
        OBVIOUS
    <2>2. Edge(d, a, p[i + 1])
        BY <2>1 DEF IsCycle
    <2>3. p[i + 1] \in S
        <3>1. CASE i = n - 1
            <4>1. i + 1 = n /\ 1 \in 1..n - 1
                BY <1>1, <3>1
            <4> HIDE DEF n
            <4> QED BY <1>1, <4>1
        <3>2. CASE i # n - 1
            <4>1. i + 1 \in 1..n - 1
                BY <1>1, <2>1, <3>2
            <4> HIDE DEF n
            <4> QED BY <4>1
        <3> QED BY <3>1, <3>2
    <2> QED BY <2>2, <2>3
<1> HIDE DEF S
<1> QED BY <1>2, <1>3 DEF Trap

(* The same in terms of cycles: Validate lets a Direction pass only when   *)
(* no closed walk along its entries exists.                                *)
THEOREM NilMeansNoCycle ==
    Spec => [](pc = "done" /\ result = NoCycle =>
                   \A p \in Seq(Layer) : ~IsCycle(direction, p))
<1>1. IInv => (pc = "done" /\ result = NoCycle =>
                   \A p \in Seq(Layer) : ~IsCycle(direction, p))
    BY ExploredIsAcyclic, CycleIsATrap
<1> QED BY <1>1, SearchInvariant, PTL
-------------------------------------------------------------------------------
(* Validate around the search. *)

\* What each block of loops adds when known holds the known layers.
SublayerFaults == Errors("empty sublayer", Entries(arch.sublayers) \cap {Empty})
                  \cup Errors("duplicate", Repeated(arch.sublayers) \ {Empty})
DirectionFaults ==
    LET layers == KnownNames(arch) IN
    Errors("no direction", Entries(arch.sublayers) \ DOMAIN direction)
    \cup Errors("source", DOMAIN direction \ layers)
    \cup Errors("target", (UNION {Entries(direction[l]) : l \in DOMAIN direction}) \ layers)
ContractFaults ==
    LET layers == KnownNames(arch) IN
    Errors("port", Entries(arch.ports) \ layers)
    \cup Errors("contract", Entries(arch.contracts) \ layers)
    \cup Errors("port no contract", LoosePorts(arch))
NameFaults ==
    LET layers == KnownNames(arch) IN
    Errors("restricted", arch.pkgRestricted \ layers)
    \cup Errors("excluded", arch.excluded \ layers)
    \cup Errors("empty dir", arch.dirNames \cap {Empty})
    \cup Errors("empty top", arch.topLevel \cap {Empty})
    \cup Errors("pattern", Entries(arch.patternDirs) \ layers)
PolicyFaults == SublayerFaults \cup DirectionFaults \cup ContractFaults \cup NameFaults

ValidateInv ==
    /\ IInv
    /\ arch \in Policies /\ direction = arch.direction
    /\ stage \in {"sublayers", "direction", "contracts", "names", "search", "done"}
    /\ stage # "sublayers" => known = KnownNames(arch)
    /\ stage = "sublayers" => errs = {}
    /\ stage = "direction" => errs = SublayerFaults
    /\ stage = "contracts" => errs = SublayerFaults \cup DirectionFaults
    /\ stage = "names" => errs = SublayerFaults \cup DirectionFaults \cup ContractFaults
    /\ stage = "search" => errs = PolicyFaults
    /\ stage = "done" => pc = "done" /\ errs = PolicyFaults \cup CycleError(result)

LEMMA ValidateInitInv == ValidateInit => ValidateInv
BY InitHolds DEF ValidateInit, ValidateInv

LEMMA ValidateStepInv == ValidateInv /\ [ValidateNext]_<<vars, validateVars>> => ValidateInv'
<1> SUFFICES ASSUME ValidateInv, [ValidateNext]_<<vars, validateVars>> PROVE ValidateInv'
    OBVIOUS
<1>1. IInv
    BY DEF ValidateInv
<1>2. ASSUME UNCHANGED <<vars, arch>>
      PROVE  /\ IInv' /\ UNCHANGED <<direction, result, pc>>
             /\ SublayerFaults' = SublayerFaults /\ DirectionFaults' = DirectionFaults
             /\ ContractFaults' = ContractFaults /\ NameFaults' = NameFaults
             /\ KnownNames(arch)' = KnownNames(arch)
    <2>1. IInv'
        BY <1>1, <1>2, StepKeeps
    <2>2. UNCHANGED <<direction, result, pc, arch>>
        BY <1>2 DEF vars
    <2>3. QED
        BY <2>1, <2>2 DEF SublayerFaults, DirectionFaults, ContractFaults, NameFaults
<1>3. CASE CheckSublayers
    <2>1. /\ stage = "sublayers" /\ stage' = "direction" /\ errs' = errs \cup SublayerFaults
          /\ known' = KnownNames(arch) /\ UNCHANGED <<vars, arch>>
        BY <1>3 DEF CheckSublayers, Block, SublayerFaults
    <2>2. QED
        BY <1>2, <2>1 DEF ValidateInv
<1>4. CASE CheckDirection
    <2>1. /\ stage = "direction" /\ stage' = "contracts" /\ known' = known /\ UNCHANGED <<vars, arch>>
          /\ known = KnownNames(arch)
        BY <1>4 DEF CheckDirection, Block, ValidateInv
    <2>2. errs' = errs \cup DirectionFaults
        BY <1>4, <2>1 DEF CheckDirection, Block, DirectionFaults, Unknown
    <2>3. QED
        BY <1>2, <2>1, <2>2 DEF ValidateInv
<1>5. CASE CheckContracts
    <2>1. /\ stage = "contracts" /\ stage' = "names" /\ known' = known /\ UNCHANGED <<vars, arch>>
          /\ known = KnownNames(arch)
        BY <1>5 DEF CheckContracts, Block, ValidateInv
    <2>2. errs' = errs \cup ContractFaults
        BY <1>5, <2>1 DEF CheckContracts, Block, ContractFaults, Unknown
    <2>3. QED
        BY <1>2, <2>1, <2>2 DEF ValidateInv
<1>6. CASE CheckNames
    <2>1. /\ stage = "names" /\ stage' = "search" /\ known' = known /\ UNCHANGED <<vars, arch>>
          /\ known = KnownNames(arch)
        BY <1>6 DEF CheckNames, Block, ValidateInv
    <2>2. errs' = errs \cup NameFaults
        BY <1>6, <2>1 DEF CheckNames, Block, NameFaults, Unknown
    <2>3. errs' = PolicyFaults
        BY <2>1, <2>2 DEF ValidateInv, PolicyFaults
    <2>4. PolicyFaults' = PolicyFaults
        BY <1>2, <2>1 DEF PolicyFaults
    <2>5. QED
        BY <1>2, <2>1, <2>3, <2>4 DEF ValidateInv
<1>7. CASE SearchCycle
    <2>1. stage = "search" /\ Next /\ UNCHANGED <<arch, stage, known, errs>>
        BY <1>7 DEF SearchCycle, validateVars
    <2>2. IInv' /\ direction' = direction
        BY <1>1, <2>1, StepKeeps DEF Next, StartSource, SkipSource, Descend, SkipExplored, MeetGray, Finish, AllExplored
    <2>3. PolicyFaults' = PolicyFaults /\ KnownNames(arch)' = KnownNames(arch)
        BY <2>1, <2>2 DEF PolicyFaults, SublayerFaults, DirectionFaults, ContractFaults, NameFaults
    <2>4. QED
        BY <2>1, <2>2, <2>3 DEF ValidateInv
<1>8. CASE Conclude
    <2>1. /\ stage = "search" /\ stage' = "done" /\ known' = known /\ UNCHANGED <<vars, arch>>
          /\ pc = "done" /\ errs' = errs \cup CycleError(result)
        BY <1>8 DEF Conclude, Block
    <2>2. PolicyFaults' = PolicyFaults /\ CycleError(result)' = CycleError(result)
        BY <1>2, <2>1 DEF PolicyFaults
    <2>3. QED
        BY <1>2, <2>1, <2>2 DEF ValidateInv
<1>9. CASE UNCHANGED <<vars, validateVars>>
    <2>1. UNCHANGED <<vars, arch, stage, known, errs>>
        BY <1>9 DEF validateVars
    <2>2. PolicyFaults' = PolicyFaults /\ CycleError(result)' = CycleError(result)
        BY <1>2, <2>1 DEF PolicyFaults
    <2>3. QED
        BY <1>2, <2>1, <2>2 DEF ValidateInv
<1>10. QED
    BY <1>3, <1>4, <1>5, <1>6, <1>7, <1>8, <1>9 DEF ValidateNext

LEMMA ErrorFacts ==
    /\ \A kind, S : Errors(kind, S) = {} <=> S = {}
    /\ \A kind, S : \A e \in Errors(kind, S) : e.kind = kind
    /\ \A A, B : A \cup B = {} <=> A = {} /\ B = {}
<1>1. \A kind, S : \A e \in Errors(kind, S) : e.kind = kind
    BY DEF Errors, Error
<1>2. ASSUME NEW kind, NEW S
      PROVE  Errors(kind, S) = {} <=> S = {}
    <2>1. \A l \in S : Error(kind, l) \in Errors(kind, S)
        BY DEF Errors
    <2>2. S = {} => Errors(kind, S) = {}
        BY DEF Errors
    <2>3. QED
        BY <2>1, <2>2
<1>3. ASSUME NEW A, NEW B
      PROVE  A \cup B = {} <=> A = {} /\ B = {}
    OBVIOUS
<1>4. QED
    BY <1>1, <1>2, <1>3

\* The faults of the blocks are those of a policy that is not well-formed.
LEMMA FaultsAreExact ==
    ASSUME ValidateInv
    PROVE  PolicyFaults = {} <=>
               LET a == arch
                   layers == Entries(a.sublayers)
               IN  /\ Empty \notin layers \cup a.dirNames \cup a.topLevel
                   /\ Repeated(a.sublayers) = {}
                   /\ DOMAIN a.direction = layers
                   /\ \A l \in layers : Entries(a.direction[l]) \subseteq layers
                   /\ Entries(a.ports) \subseteq Entries(a.contracts)
                   /\ Entries(a.contracts) \cup Entries(a.patternDirs) \subseteq layers
                   /\ a.pkgRestricted \cup a.excluded \subseteq layers
<1> DEFINE layers == Entries(arch.sublayers)
           names == KnownNames(arch)
<1>1. Repeated(arch.sublayers) \subseteq layers
    BY DEF Repeated
<1>2. names = layers \ {Empty} /\ direction = arch.direction
    BY DEF KnownNames, ValidateInv
<1>3. SublayerFaults = {} <=> Empty \notin layers /\ Repeated(arch.sublayers) = {}
    <2>1. SublayerFaults = {} <=> layers \cap {Empty} = {} /\ Repeated(arch.sublayers) \ {Empty} = {}
        <3> DEFINE S1 == layers \cap {Empty}
                   S2 == Repeated(arch.sublayers) \ {Empty}
        <3> DEFINE E1 == Errors("empty sublayer", S1)
                   E2 == Errors("duplicate", S2)
        <3> HIDE DEF S1, S2
        <3>1. (E1 = {} <=> S1 = {}) /\ (E2 = {} <=> S2 = {})
            BY ErrorFacts
        <3>2. SublayerFaults = E1 \cup E2
            BY DEF SublayerFaults, S1, S2
        <3> HIDE DEF E1, E2
        <3>3. SublayerFaults = {} <=> S1 = {} /\ S2 = {}
            BY <3>1, <3>2
        <3>4. QED
            BY <3>3 DEF S1, S2
    <2>2. QED
        BY <1>1, <2>1
<1>4. DirectionFaults = {} <=> /\ layers \subseteq DOMAIN direction /\ DOMAIN direction \subseteq names
                               /\ \A l \in DOMAIN direction : Entries(direction[l]) \subseteq names
    <2>1. DirectionFaults = {} <=>
              /\ layers \ DOMAIN direction = {} /\ DOMAIN direction \ names = {}
              /\ (UNION {Entries(direction[l]) : l \in DOMAIN direction}) \ names = {}
        <3> DEFINE S1 == layers \ DOMAIN direction
                   S2 == DOMAIN direction \ names
                   S3 == (UNION {Entries(direction[l]) : l \in DOMAIN direction}) \ names
        <3> DEFINE E1 == Errors("no direction", S1)
                   E2 == Errors("source", S2)
                   E3 == Errors("target", S3)
        <3> HIDE DEF S1, S2, S3
        <3>1. (E1 = {} <=> S1 = {}) /\ (E2 = {} <=> S2 = {}) /\ (E3 = {} <=> S3 = {})
            BY ErrorFacts
        <3>2. DirectionFaults = E1 \cup E2 \cup E3
            BY DEF DirectionFaults, S1, S2, S3
        <3> HIDE DEF E1, E2, E3
        <3>3. DirectionFaults = {} <=> S1 = {} /\ S2 = {} /\ S3 = {}
            BY <3>1, <3>2
        <3>4. QED
            BY <3>3 DEF S1, S2, S3
    <2> HIDE DEF names, layers
    <2>2. (UNION {Entries(direction[l]) : l \in DOMAIN direction}) \ names = {}
              <=> \A l \in DOMAIN direction : Entries(direction[l]) \subseteq names
        OBVIOUS
    <2>3. QED
        BY <2>1, <2>2
<1>5. ContractFaults = {} <=> /\ Entries(arch.ports) \subseteq names /\ Entries(arch.contracts) \subseteq names
                              /\ Entries(arch.ports) \subseteq Entries(arch.contracts)
    <2>1. ContractFaults = {} <=>
              /\ Entries(arch.ports) \ names = {} /\ Entries(arch.contracts) \ names = {}
              /\ Entries(arch.ports) \ Entries(arch.contracts) = {}
        <3> DEFINE S1 == Entries(arch.ports) \ names
                   S2 == Entries(arch.contracts) \ names
                   S3 == LoosePorts(arch)
        <3> DEFINE E1 == Errors("port", S1)
                   E2 == Errors("contract", S2)
                   E3 == Errors("port no contract", S3)
        <3> HIDE DEF S1, S2, S3
        <3>1. (E1 = {} <=> S1 = {}) /\ (E2 = {} <=> S2 = {}) /\ (E3 = {} <=> S3 = {})
            BY ErrorFacts
        <3>2. ContractFaults = E1 \cup E2 \cup E3
            BY DEF ContractFaults, S1, S2, S3
        <3> HIDE DEF E1, E2, E3
        <3>3. ContractFaults = {} <=> S1 = {} /\ S2 = {} /\ S3 = {}
            BY <3>1, <3>2
        <3>4. QED
            BY <3>3 DEF S1, S2, S3, LoosePorts
    <2> HIDE DEF names
    <2>2. QED
        BY <2>1
<1>6. NameFaults = {} <=> /\ arch.pkgRestricted \subseteq names /\ arch.excluded \subseteq names
                          /\ Empty \notin arch.dirNames /\ Empty \notin arch.topLevel
                          /\ Entries(arch.patternDirs) \subseteq names
    <2>1. NameFaults = {} <=>
              /\ arch.pkgRestricted \ names = {} /\ arch.excluded \ names = {}
              /\ arch.dirNames \cap {Empty} = {} /\ arch.topLevel \cap {Empty} = {}
              /\ Entries(arch.patternDirs) \ names = {}
        <3> DEFINE S1 == arch.pkgRestricted \ names
                   S2 == arch.excluded \ names
                   S3 == arch.dirNames \cap {Empty}
                   S4 == arch.topLevel \cap {Empty}
                   S5 == Entries(arch.patternDirs) \ names
        <3> DEFINE E1 == Errors("restricted", S1)
                   E2 == Errors("excluded", S2)
                   E3 == Errors("empty dir", S3)
                   E4 == Errors("empty top", S4)
                   E5 == Errors("pattern", S5)
        <3> HIDE DEF S1, S2, S3, S4, S5
        <3>1. (E1 = {} <=> S1 = {}) /\ (E2 = {} <=> S2 = {}) /\ (E3 = {} <=> S3 = {}) /\ (E4 = {} <=> S4 = {}) /\ (E5 = {} <=> S5 = {})
            BY ErrorFacts
        <3>2. NameFaults = E1 \cup E2 \cup E3 \cup E4 \cup E5
            BY DEF NameFaults, S1, S2, S3, S4, S5
        <3> HIDE DEF E1, E2, E3, E4, E5
        <3>3. NameFaults = {} <=> S1 = {} /\ S2 = {} /\ S3 = {} /\ S4 = {} /\ S5 = {}
            BY <3>1, <3>2
        <3>4. QED
            BY <3>3 DEF S1, S2, S3, S4, S5
    <2> HIDE DEF names
    <2>2. QED
        BY <2>1
<1>7. PolicyFaults = {} <=>
          SublayerFaults = {} /\ DirectionFaults = {} /\ ContractFaults = {} /\ NameFaults = {}
    BY DEF PolicyFaults
<1> HIDE DEF names, layers
<1>8. CASE Empty \in layers
    BY <1>3, <1>7, <1>8 DEF layers
<1>9. CASE Empty \notin layers
    <2>1. names = layers
        BY <1>2, <1>9
    <2>2. DirectionFaults = {} <=> /\ DOMAIN arch.direction = layers
                                   /\ \A l \in layers : Entries(arch.direction[l]) \subseteq layers
        BY <1>2, <1>4, <2>1
    <2>3. ContractFaults = {} /\ Entries(arch.patternDirs) \subseteq layers <=>
              /\ Entries(arch.contracts) \cup Entries(arch.patternDirs) \subseteq layers
              /\ Entries(arch.ports) \subseteq Entries(arch.contracts)
        BY <1>5, <2>1
    <2>4. QED
        BY <1>3, <1>6, <1>7, <1>9, <2>1, <2>2, <2>3 DEF layers
<1>10. QED
    BY <1>8, <1>9

\* A layer that imports has an entry in the map.
LEMMA TrapsHaveEntries ==
    ASSUME NEW d, NEW S, Trap(d, S)
    PROVE  S \subseteq DOMAIN d
<1> SUFFICES ASSUME NEW a \in S PROVE a \in DOMAIN d
    OBVIOUS
<1>1. PICK b \in S : Edge(d, a, b)
    BY DEF Trap
<1>2. DOMAIN Imports(d, a) # {}
    BY <1>1 DEF Edge
<1>3. QED
    BY <1>2 DEF Imports

(* Of every policy: Validate accepts it just when it is well-formed, and   *)
(* reports a cycle just when there is one, whatever else is wrong.         *)
THEOREM ValidatesExactly == ValidateSpec => []ValidateIsExact
<1>1. ASSUME ValidateInv, stage = "done"
      PROVE  /\ errs = {} <=> WellFormed(arch, Empty)
             /\ (\E e \in errs : e.kind = "cycle") <=> \E S \in SUBSET Layer : Trap(direction, S)
    <2>1. /\ IInv /\ pc = "done" /\ errs = PolicyFaults \cup CycleError(result)
          /\ arch \in Policies /\ direction = arch.direction
        BY <1>1 DEF ValidateInv
    <2>2. result # NoCycle <=> \E S \in SUBSET Layer : Trap(direction, S)
        <3>1. ASSUME result # NoCycle
              PROVE  \E S \in SUBSET Layer : Trap(direction, S)
            <4>1. result \in Seq(Layer) /\ IsCycle(direction, result)
                BY <2>1, <3>1 DEF IInv, TypeOK, ReportedCycleIsReal
            <4>2. QED
                BY <4>1, CycleIsATrap
        <3>2. result = NoCycle => \A S \in SUBSET Layer : ~Trap(direction, S)
            BY <2>1, ExploredIsAcyclic
        <3>3. QED
            BY <3>1, <3>2
    <2>3. CycleError(result) = {} <=> result = NoCycle
        BY ErrorFacts DEF CycleError
    <2>4. \A e \in PolicyFaults : e.kind # "cycle"
        BY ErrorFacts DEF PolicyFaults, SublayerFaults, DirectionFaults, ContractFaults, NameFaults
    <2>5. (\E e \in CycleError(result) : e.kind = "cycle") <=> result # NoCycle
        BY <2>3, ErrorFacts DEF CycleError
    <2> DEFINE layers == Entries(arch.sublayers)
    <2>6. layers \subseteq Layer
        <3>1. arch.sublayers \in Seq(Layer)
            BY <2>1, PolicyAssumption DEF ListFields
        <3>2. QED
            BY <3>1, LenProperties, ElementOfSeq DEF Entries
    <2>7. DOMAIN direction = layers =>
              ((\A S \in SUBSET layers : ~Trap(direction, S)) <=> \A S \in SUBSET Layer : ~Trap(direction, S))
        BY <2>6, TrapsHaveEntries
    <2>8. errs = {} <=> WellFormed(arch, Empty)
        <3>1. errs = {} <=> PolicyFaults = {} /\ \A S \in SUBSET Layer : ~Trap(direction, S)
            BY <2>1, <2>2, <2>3
        <3>2. QED
            BY <1>1, <2>1, <2>7, <3>1, FaultsAreExact DEF WellFormed
    <2>9. QED
        BY <2>1, <2>2, <2>4, <2>5, <2>8
<1>2. ValidateInv => ValidateIsExact
    BY <1>1 DEF ValidateIsExact
<1>3. ValidateSpec => []ValidateInv
    BY ValidateInitInv, ValidateStepInv, PTL DEF ValidateSpec
<1>4. QED
    BY <1>2, <1>3, PTL
-------------------------------------------------------------------------------
(* The copies of a policy. *)

Fields == SliceFields \cup KeyFields \cup {"direction"}
Values == [PlainFields -> Layer \cup BOOLEAN]
Inner(n, l) == <<n, <<"direction", l>>>>

\* What clone n holds is what arch holds.
Content(n) ==
    /\ \A f \in SliceFields : lists[Cell(n, f)] = arch[f]
    /\ \A f \in KeyFields : keys[Cell(n, f)] = arch[f]
    /\ DOMAIN tables[Cell(n, "direction")] = DOMAIN direction
    /\ \A l \in DOMAIN direction : lists[Inner(n, l)] = direction[l]

\* Each clone lives in its own cells; the caller's, until NewContext has
\* cloned it, and the Context's hold what was passed.
HeapInv ==
    /\ arch \in Policies /\ direction = arch.direction
    /\ copies \in Seq([root : Root, plain : Values, at : [Fields -> Addr]]) /\ Len(copies) \in 1..MaxCopies
    /\ \A n \in DOMAIN copies : copies[n].plain = arch.plain
    /\ \A n \in DOMAIN copies : copies[n].at = FreshAt(n)
    /\ \A n \in DOMAIN copies \ {TheCaller} : copies[n].root = NormalRoot(copies[TheCaller].root)
    /\ DOMAIN lists = Addr /\ DOMAIN keys = Addr /\ DOMAIN tables = Addr
    /\ \A n \in DOMAIN copies : \A l \in DOMAIN tables[Cell(n, "direction")] :
           l \in Layer /\ tables[Cell(n, "direction")][l] = Inner(n, l)
    /\ Len(copies) < TheContext => Content(TheCaller) /\ stage = "sublayers"
    /\ Len(copies) >= TheContext => Content(TheContext)

LEMMA AddrFacts ==
    ASSUME NEW n \in 1..MaxCopies
    PROVE  /\ \A f \in Fields : /\ Cell(n, f) \in Addr /\ Cell(n, f)[1] = n
                                /\ Cell(n, f)[2][1] = f /\ Cell(n, f)[2][2] = NoKey
           /\ \A l \in Layer : /\ Inner(n, l) \in Addr /\ Inner(n, l)[1] = n
                               /\ Inner(n, l)[2][1] = "direction" /\ Inner(n, l)[2][2] = l
           /\ FreshAt(n) \in [Fields -> Addr] /\ \A f \in Fields : FreshAt(n)[f] = Cell(n, f)
<1>1. \A f \in Fields : Cell(n, f) \in Addr
    BY DEF Cell, Addr, Slot, Fields
<1>2. \A l \in Layer : Inner(n, l) \in Addr
    BY DEF Inner, Addr, Slot
<1>3. QED
    BY <1>1, <1>2 DEF Cell, Inner, FreshAt, Fields

\* The entries that are direction maps, which are functions.
LEMMA PolicyFacts ==
    ASSUME arch \in Policies, direction = arch.direction
    PROVE  /\ DOMAIN direction \subseteq Layer
           /\ direction = [l \in DOMAIN direction |-> direction[l]]
BY PolicyAssumption, DirectionAssumption

\* Nothing is written to the cells of clone n.
SameAt(n) == \A a \in Addr : a[1] = n =>
                 lists'[a] = lists[a] /\ keys'[a] = keys[a] /\ tables'[a] = tables[a]

LEMMA ContentKept ==
    ASSUME NEW n \in 1..MaxCopies, SameAt(n), UNCHANGED <<arch, direction>>,
           arch \in Policies, direction = arch.direction
    PROVE  Content(n) => Content(n)'
<1>1. \A f \in Fields : Cell(n, f) \in Addr /\ Cell(n, f)[1] = n
    BY AddrFacts
<1>2. \A l \in DOMAIN direction : Inner(n, l) \in Addr /\ Inner(n, l)[1] = n
    BY AddrFacts, PolicyFacts
<1>3. QED
    BY <1>1, <1>2 DEF Content, SameAt, Fields, Cell, Inner

LEMMA ViewFacts ==
    ASSUME HeapInv, NEW n \in DOMAIN copies
    PROVE  /\ n \in 1..MaxCopies
           /\ View(copies[n]) =
                 [root |-> copies[n].root, plain |-> copies[n].plain,
                  list |-> [f \in SliceFields |-> lists[Cell(n, f)]],
                  keys |-> [f \in KeyFields |-> keys[Cell(n, f)]],
                  direction |-> [l \in DOMAIN tables[Cell(n, "direction")] |-> lists[Inner(n, l)]]]
<1>1. n \in 1..MaxCopies
    <2>1. DOMAIN copies = 1..Len(copies)
        BY LenProperties DEF HeapInv
    <2>2. QED
        BY <2>1, ContextAssumption DEF HeapInv
<1>2. copies[n].at = FreshAt(n)
    BY DEF HeapInv
<1>3. \A f \in Fields : copies[n].at[f] = Cell(n, f)
    BY <1>1, <1>2, AddrFacts
<1>4. [f \in SliceFields |-> lists[copies[n].at[f]]] = [f \in SliceFields |-> lists[Cell(n, f)]]
    BY <1>3 DEF Fields
<1>5. [f \in KeyFields |-> keys[copies[n].at[f]]] = [f \in KeyFields |-> keys[Cell(n, f)]]
    BY <1>3 DEF Fields
<1>6. TableOf(copies[n]) = Cell(n, "direction")
    BY <1>3 DEF Fields, TableOf
<1>7. \A l \in DOMAIN tables[Cell(n, "direction")] : tables[Cell(n, "direction")][l] = Inner(n, l)
    BY DEF HeapInv
<1>8. QED
    BY <1>1, <1>4, <1>5, <1>6, <1>7 DEF View, ViewIn

\* A clone that holds what was passed, with the root that is used, is worth it.
LEMMA ContentIsPassed ==
    ASSUME HeapInv, NEW n \in DOMAIN copies, n # TheCaller, Content(n)
    PROVE  View(copies[n]) = Passed
<1>1. copies[n].root = IF copies[TheCaller].root = NoRoot THEN DefaultRoot ELSE copies[TheCaller].root
    BY DEF HeapInv, NormalRoot
<1>2. [f \in SliceFields |-> lists[Cell(n, f)]] = [f \in SliceFields |-> arch[f]]
    BY DEF Content
<1>3. [f \in KeyFields |-> keys[Cell(n, f)]] = [f \in KeyFields |-> arch[f]]
    BY DEF Content
<1>4. [l \in DOMAIN tables[Cell(n, "direction")] |-> lists[Inner(n, l)]] = direction
    <2>1. [l \in DOMAIN tables[Cell(n, "direction")] |-> lists[Inner(n, l)]] = [l \in DOMAIN direction |-> direction[l]]
        BY DEF Content
    <2>2. QED
        BY <2>1, PolicyFacts DEF HeapInv
<1>5. copies[n].plain = arch.plain
    BY DEF HeapInv
<1>6. QED
    BY <1>1, <1>2, <1>3, <1>4, <1>5, ViewFacts DEF Passed

\* A clone has new cells, with the content of those it copies.
LEMMA CloneFacts ==
    ASSUME HeapInv, NEW m \in DOMAIN copies, NEW n, n = Len(copies) + 1, n <= MaxCopies,
           Cloned(n, copies[m]), UNCHANGED <<arch, direction>>
    PROVE  /\ n \in 1..MaxCopies /\ \A k \in 1..MaxCopies \ {n} : SameAt(k)
           /\ DOMAIN lists' = Addr /\ DOMAIN keys' = Addr /\ DOMAIN tables' = Addr
           /\ \A l \in DOMAIN tables'[Cell(n, "direction")] :
                  l \in Layer /\ tables'[Cell(n, "direction")][l] = Inner(n, l)
           /\ Content(m) => Content(n)'
<1> DEFINE table == tables[Cell(m, "direction")]
           c == copies[m]
<1>1. n \in 1..MaxCopies /\ m \in 1..MaxCopies /\ m # n
    <2>1. DOMAIN copies = 1..Len(copies) /\ Len(copies) \in Nat /\ MaxCopies \in Nat
        BY LenProperties, ContextAssumption DEF HeapInv
    <2>2. QED
        BY <2>1 DEF HeapInv
<1>2. /\ \A f \in Fields : c.at[f] = Cell(m, f)
      /\ \A l \in DOMAIN table : l \in Layer /\ table[l] = Inner(m, l)
      /\ TableOf(c) = Cell(m, "direction")
    <2>1. \A f \in Fields : c.at[f] = Cell(m, f)
        BY <1>1, AddrFacts DEF HeapInv
    <2>2. TableOf(c) = Cell(m, "direction")
        BY <2>1 DEF Fields, TableOf
    <2>3. QED
        BY <2>1, <2>2 DEF HeapInv
<1>3. /\ lists' = [a \in Addr |->
             IF \E f \in SliceFields : a = Cell(n, f) THEN lists[c.at[a[2][1]]]
             ELSE IF \E l \in DOMAIN table : a = Inner(n, l) THEN lists[table[a[2][2]]]
             ELSE lists[a]]
      /\ keys' = [a \in Addr |->
             IF \E f \in KeyFields : a = Cell(n, f) THEN keys[c.at[a[2][1]]] ELSE keys[a]]
      /\ tables' = [tables EXCEPT ![Cell(n, "direction")] = [l \in DOMAIN table |-> Inner(n, l)]]
    <2>1. ClonedLists = SliceFields /\ ClonedKeys = KeyFields
        BY DEF ClonedLists, ClonedKeys, SliceFields, ListFields, KeyFields
    <2>2. QED
        BY <1>2, <2>1 DEF Cloned, InnerCopied, Inner
<1> HIDE DEF table, c
<1>4. DOMAIN lists' = Addr /\ DOMAIN keys' = Addr /\ DOMAIN tables' = Addr
    BY <1>3 DEF HeapInv
<1>5. ASSUME NEW k \in 1..MaxCopies \ {n}
      PROVE  SameAt(k)
    <2> SUFFICES ASSUME NEW a \in Addr, a[1] = k
                 PROVE  lists'[a] = lists[a] /\ keys'[a] = keys[a] /\ tables'[a] = tables[a]
        BY DEF SameAt
    <2>1. (\A f : a # Cell(n, f)) /\ \A l : a # Inner(n, l)
        BY <1>5 DEF Cell, Inner
    <2>2. QED
        BY <1>3, <2>1 DEF HeapInv
<1>6. ASSUME NEW f \in SliceFields
      PROVE  lists'[Cell(n, f)] = lists[Cell(m, f)]
    <2>1. Cell(n, f) \in Addr /\ Cell(n, f)[2][1] = f /\ f \in Fields
        BY <1>1, AddrFacts DEF Fields
    <2>2. QED
        BY <1>2, <1>3, <2>1
<1>7. ASSUME NEW f \in KeyFields
      PROVE  keys'[Cell(n, f)] = keys[Cell(m, f)]
    <2>1. Cell(n, f) \in Addr /\ Cell(n, f)[2][1] = f /\ f \in Fields
        BY <1>1, AddrFacts DEF Fields
    <2>2. QED
        BY <1>2, <1>3, <2>1
<1>8. tables'[Cell(n, "direction")] = [l \in DOMAIN table |-> Inner(n, l)]
    <2>1. Cell(n, "direction") \in Addr
        BY <1>1, AddrFacts DEF Fields
    <2>2. QED
        BY <1>3, <2>1 DEF HeapInv
<1>9. ASSUME NEW l \in DOMAIN table
      PROVE  lists'[Inner(n, l)] = lists[Inner(m, l)]
    <2>1. Inner(n, l) \in Addr /\ Inner(n, l)[2][2] = l /\ table[l] = Inner(m, l)
        BY <1>1, <1>2, AddrFacts
    <2>2. \A f \in SliceFields : Inner(n, l) # Cell(n, f)
        BY DEF Inner, Cell, SliceFields, ListFields
    <2>3. QED
        BY <1>3, <2>1, <2>2
<1>10. Content(m) => Content(n)'
    <2> SUFFICES ASSUME Content(m) PROVE Content(n)'
        OBVIOUS
    <2>1. DOMAIN table = DOMAIN direction
        BY DEF Content, table
    <2>2. /\ \A f \in SliceFields : lists'[Cell(n, f)] = arch[f]
          /\ \A f \in KeyFields : keys'[Cell(n, f)] = arch[f]
          /\ \A l \in DOMAIN direction : lists'[Inner(n, l)] = direction[l]
        BY <1>6, <1>7, <1>9, <2>1 DEF Content
    <2>3. DOMAIN tables'[Cell(n, "direction")] = DOMAIN direction
        BY <1>8, <2>1
    <2>4. QED
        BY <2>2, <2>3 DEF Content, Cell, Inner
<1>11. QED
    BY <1>1, <1>2, <1>4, <1>5, <1>8, <1>10
\* A writer reaches the cells of its own clone only.
LEMMA WriteFacts ==
    ASSUME HeapInv, NEW n \in DOMAIN copies, Write(n)
    PROVE  /\ Len(copies) >= TheContext /\ n # TheContext
           /\ UNCHANGED <<vars, validateVars, copies>>
           /\ \A k \in 1..MaxCopies \ {n} : SameAt(k)
           /\ DOMAIN lists' = Addr /\ DOMAIN keys' = Addr /\ DOMAIN tables' = Addr
           /\ \A l \in DOMAIN tables'[Cell(n, "direction")] :
                  l \in Layer /\ tables'[Cell(n, "direction")][l] = Inner(n, l)
<1> DEFINE c == copies[n]
           table == tables[Cell(n, "direction")]
<1>1. n \in 1..MaxCopies
    BY ViewFacts
<1>2. \A f \in Fields : c.at[f] = Cell(n, f) /\ Cell(n, f) \in Addr /\ Cell(n, f)[1] = n
    BY <1>1, AddrFacts DEF HeapInv
<1>3. TableOf(c) = Cell(n, "direction") /\ Cell(n, "direction") \in Addr
    BY <1>2 DEF Fields, TableOf
<1>4. \A l \in DOMAIN table : l \in Layer /\ table[l] = Inner(n, l)
    BY DEF HeapInv
<1>5. \A a \in ListsOf(c) \cup InnerOf(tables, c) \cup KeysOf(c) : a[1] = n
    <2>1. \A a \in ListsOf(c) \cup KeysOf(c) : a[1] = n
        BY <1>2 DEF ListsOf, KeysOf, Fields
    <2>2. \A a \in InnerOf(tables, c) : a[1] = n
        BY <1>1, <1>3, <1>4, AddrFacts DEF InnerOf
    <2>3. QED
        BY <2>1, <2>2
<1>6. Writable(n)
    BY DEF Write, WriteElement, WriteKeys, DeleteEntry
<1>7. /\ DOMAIN lists = Addr /\ DOMAIN keys = Addr /\ DOMAIN tables = Addr
    BY DEF HeapInv
<1> HIDE DEF c, table
<1>8. CASE WriteElement(n)
    <2>1. PICK a \in ListsOf(c) \cup InnerOf(tables, c) : lists' = [lists EXCEPT ![a] = [@ EXCEPT ![1] = Empty]]
        BY <1>8 DEF WriteElement, c
    <2>2. a[1] = n /\ keys' = keys /\ tables' = tables
        BY <1>5, <1>8 DEF WriteElement
    <2>3. DOMAIN lists' = Addr /\ \A b \in Addr : b[1] # n => lists'[b] = lists[b]
        BY <1>7, <2>1, <2>2
    <2>4. QED
        BY <1>4, <1>6, <1>7, <2>2, <2>3 DEF SameAt, Writable, table
<1>9. CASE WriteKeys(n)
    <2>1. PICK a \in KeysOf(c) : keys' = [keys EXCEPT ![a] = {Empty}]
        BY <1>9 DEF WriteKeys, c
    <2>2. a[1] = n /\ lists' = lists /\ tables' = tables
        BY <1>5, <1>9 DEF WriteKeys
    <2>3. DOMAIN keys' = Addr /\ \A b \in Addr : b[1] # n => keys'[b] = keys[b]
        BY <1>7, <2>1, <2>2
    <2>4. QED
        BY <1>4, <1>6, <1>7, <2>2, <2>3 DEF SameAt, Writable, table
<1>10. CASE DeleteEntry(n)
    <2>1. PICK l \in DOMAIN table :
              tables' = [tables EXCEPT ![Cell(n, "direction")] = [k \in DOMAIN table \ {l} |-> table[k]]]
        BY <1>3, <1>10 DEF DeleteEntry, table, c
    <2>2. lists' = lists /\ keys' = keys
        BY <1>10 DEF DeleteEntry
    <2>3. /\ DOMAIN tables' = Addr /\ \A b \in Addr : b[1] # n => tables'[b] = tables[b]
          /\ tables'[Cell(n, "direction")] = [k \in DOMAIN table \ {l} |-> table[k]]
        BY <1>2, <1>3, <1>7, <2>1 DEF Fields
    <2>4. QED
        BY <1>4, <1>6, <1>7, <2>2, <2>3 DEF SameAt, Writable
<1>11. QED
    BY <1>8, <1>9, <1>10 DEF Write

\* What does not change of a clone when its cells do not.
LEMMA ClonesKept ==
    ASSUME HeapInv, NEW k \in DOMAIN copies, SameAt(k), copies'[k] = copies[k]
    PROVE  /\ tables'[Cell(k, "direction")] = tables[Cell(k, "direction")]
           /\ View(copies[k])' = View(copies[k])
<1>1. k \in 1..MaxCopies
    BY ViewFacts
<1>2. \A f \in Fields : /\ copies[k].at[f] = Cell(k, f)
                        /\ lists'[Cell(k, f)] = lists[Cell(k, f)] /\ keys'[Cell(k, f)] = keys[Cell(k, f)]
                        /\ tables'[Cell(k, f)] = tables[Cell(k, f)]
    BY <1>1, AddrFacts DEF HeapInv, SameAt
<1> DEFINE c == copies[k]
           table == tables[Cell(k, "direction")]
<1>3. TableOf(c) = Cell(k, "direction") /\ tables'[TableOf(c)] = table /\ tables[TableOf(c)] = table
    BY <1>2 DEF TableOf, Fields
<1>4. \A l \in DOMAIN table : lists'[table[l]] = lists[table[l]]
    <2>1. \A l \in DOMAIN table : l \in Layer /\ table[l] = Inner(k, l)
        BY DEF HeapInv
    <2>2. QED
        BY <1>1, <2>1, AddrFacts DEF SameAt
<1>5. [f \in SliceFields |-> lists'[c.at[f]]] = [f \in SliceFields |-> lists[c.at[f]]]
    BY <1>2 DEF Fields
<1>6. [f \in KeyFields |-> keys'[c.at[f]]] = [f \in KeyFields |-> keys[c.at[f]]]
    BY <1>2 DEF Fields
<1> HIDE DEF table
<1>7. ViewIn(lists', keys', tables', c) = ViewIn(lists, keys, tables, c)
    BY <1>3, <1>4, <1>5, <1>6 DEF ViewIn
<1>8. View(copies[k])' = ViewIn(lists', keys', tables', c)
    BY DEF View, ViewIn, TableOf
<1>9. QED
    BY <1>3, <1>7, <1>8 DEF View

LEMMA HeapInitInv == ContextInit => HeapInv
<1> SUFFICES ASSUME ContextInit PROVE HeapInv
    OBVIOUS
<1>1. arch \in Policies /\ direction = arch.direction /\ stage = "sublayers"
    BY DEF ContextInit, ValidateInit
<1>2. PICK r \in Root : copies = <<[root |-> r, plain |-> arch.plain, at |-> FreshAt(TheCaller)]>>
    BY DEF ContextInit
<1>3. TheCaller \in 1..MaxCopies /\ 1 \in 1..MaxCopies /\ MaxCopies \in Nat
    BY ContextAssumption DEF TheCaller
<1>4. /\ copies \in Seq([root : Root, plain : Values, at : [Fields -> Addr]])
      /\ Len(copies) = 1 /\ DOMAIN copies = {1}
      /\ copies[1] = [root |-> r, plain |-> arch.plain, at |-> FreshAt(TheCaller)]
    <2>1. arch.plain \in Values /\ FreshAt(TheCaller) \in [Fields -> Addr]
        BY <1>1, <1>3, AddrFacts, ContextAssumption DEF Values
    <2> DEFINE new == [root |-> r, plain |-> arch.plain, at |-> FreshAt(TheCaller)]
    <2>2. new \in [root : Root, plain : Values, at : [Fields -> Addr]]
        BY <2>1
    <2> HIDE DEF new
    <2>3. copies = <<new>>
        BY <1>2 DEF new
    <2>4. QED
        BY <2>2, <2>3 DEF new
<1>5. /\ lists = [a \in Addr |->
             IF a[1] # TheCaller THEN <<>>
             ELSE IF a[2][2] = NoKey
                  THEN IF a[2][1] \in SliceFields THEN arch[a[2][1]] ELSE <<>>
             ELSE IF a[2][2] \in DOMAIN direction THEN direction[a[2][2]] ELSE <<>>]
      /\ keys = [a \in Addr |->
             IF a[1] = TheCaller /\ a[2][1] \in KeyFields THEN arch[a[2][1]] ELSE {}]
      /\ tables = [a \in Addr |->
             IF a = Cell(TheCaller, "direction")
             THEN [l \in DOMAIN direction |-> Inner(TheCaller, l)]
             ELSE <<>>]
    BY DEF ContextInit, Inner
<1>6. \A f \in Fields : /\ Cell(TheCaller, f) \in Addr /\ Cell(TheCaller, f)[1] = TheCaller
                        /\ Cell(TheCaller, f)[2][1] = f /\ Cell(TheCaller, f)[2][2] = NoKey
    BY <1>3, AddrFacts
<1>7. \A l \in DOMAIN direction : /\ l \in Layer /\ l # NoKey
                                  /\ Inner(TheCaller, l) \in Addr /\ Inner(TheCaller, l)[1] = TheCaller
                                  /\ Inner(TheCaller, l)[2][2] = l
    <2>1. NoKey \notin Layer
        BY ContextAssumption
    <2>2. \A l \in DOMAIN direction : l \in Layer
        BY <1>1, PolicyFacts
    <2>3. QED
        BY <1>3, <2>1, <2>2, AddrFacts
<1>8. tables[Cell(TheCaller, "direction")] = [l \in DOMAIN direction |-> Inner(TheCaller, l)]
    BY <1>5, <1>6 DEF Fields
<1>9. \A f \in SliceFields : lists[Cell(TheCaller, f)] = arch[f]
    BY <1>5, <1>6 DEF Fields
<1>10. \A f \in KeyFields : keys[Cell(TheCaller, f)] = arch[f]
    BY <1>5, <1>6 DEF Fields
<1>11. \A l \in DOMAIN direction : lists[Inner(TheCaller, l)] = direction[l]
    BY <1>5, <1>7
<1>12. Content(TheCaller)
    BY <1>8, <1>9, <1>10, <1>11 DEF Content
<1>13. QED
    BY <1>1, <1>3, <1>4, <1>5, <1>7, <1>8, <1>12 DEF HeapInv, TheCaller, TheContext

LEMMA CloneKeeps ==
    ASSUME HeapInv, NEW m \in DOMAIN copies, NEW n, n = Len(copies) + 1, n <= MaxCopies,
           Cloned(n, copies[m]), UNCHANGED <<vars, validateVars>>, Content(m),
           m = IF n = TheContext THEN TheCaller ELSE TheContext
    PROVE  HeapInv' /\ Content(n)'
<1> DEFINE new == [root |-> NormalRoot(copies[m].root), plain |-> arch.plain, at |-> FreshAt(n)]
           Copy == [root : Root, plain : Values, at : [Fields -> Addr]]
<1>1. UNCHANGED <<arch, direction, stage>>
    BY DEF vars, validateVars
<1>2. /\ n \in 1..MaxCopies /\ \A k \in 1..MaxCopies \ {n} : SameAt(k)
      /\ DOMAIN lists' = Addr /\ DOMAIN keys' = Addr /\ DOMAIN tables' = Addr
      /\ \A l \in DOMAIN tables'[Cell(n, "direction")] :
             l \in Layer /\ tables'[Cell(n, "direction")][l] = Inner(n, l)
      /\ Content(n)'
    BY <1>1, CloneFacts
<1>3. copies \in Seq(Copy) /\ Len(copies) \in 1..MaxCopies /\ MaxCopies \in Nat /\ DOMAIN copies = 1..Len(copies)
    BY ContextAssumption, LenProperties DEF HeapInv
<1>4. copies' = Append(copies, new)
    <2> DEFINE plain == [f \in PlainFields |-> IF f \in ClonedPlain THEN copies[m].plain[f] ELSE Zero(f)]
    <2>1. arch.plain \in Values /\ copies[m].plain = arch.plain
        BY ContextAssumption DEF HeapInv, Values
    <2>2. ClonedPlain = PlainFields
        BY DEF ClonedPlain, PlainFields, Switches
    <2>3. plain = [f \in PlainFields |-> arch.plain[f]]
        BY <2>1, <2>2
    <2>4. plain = arch.plain
        BY <2>1, <2>3 DEF Values
    <2>5. copies' = Append(copies, [root |-> NormalRoot(copies[m].root), at |-> FreshAt(n), plain |-> plain])
        BY DEF Cloned
    <2> HIDE DEF plain
    <2>6. QED
        BY <2>4, <2>5
<1>5. new \in Copy
    <2>1. copies[m] \in Copy
        BY <1>3, ElementOfSeq
    <2>2. NormalRoot(copies[m].root) \in Root
        BY <2>1, ContextAssumption DEF NormalRoot
    <2>3. arch.plain \in Values
        BY ContextAssumption DEF HeapInv, Values
    <2>4. QED
        BY <1>2, <2>2, <2>3, AddrFacts
<1> HIDE DEF new, Copy
<1>6. /\ copies' \in Seq(Copy) /\ Len(copies') = n /\ copies'[n] = new /\ DOMAIN copies' = 1..n
      /\ \A k \in DOMAIN copies : copies'[k] = copies[k]
    BY <1>3, <1>4, <1>5, AppendProperties
<1>7. n \in DOMAIN copies' /\ \A k \in DOMAIN copies' : k = n \/ k \in DOMAIN copies
    BY <1>2, <1>3, <1>6
<1>8. \A k \in DOMAIN copies : k # n /\ k \in 1..MaxCopies
    BY <1>3
<1>9. copies'[TheCaller] = copies[TheCaller] /\ TheCaller # n /\ TheCaller \in DOMAIN copies
    BY <1>3, <1>6 DEF TheCaller
<1>10. \A k \in DOMAIN copies' : copies'[k].at = FreshAt(k)
    BY <1>6, <1>7 DEF HeapInv, new
<1>18. \A k \in DOMAIN copies' : copies'[k].plain = arch'.plain
    BY <1>1, <1>6, <1>7 DEF HeapInv, new
<1>11. \A k \in DOMAIN copies' \ {TheCaller} : copies'[k].root = NormalRoot(copies'[TheCaller].root)
    <2>1. NormalRoot(copies[m].root) = NormalRoot(copies[TheCaller].root)
        BY ContextAssumption DEF HeapInv, NormalRoot
    <2>2. new.root = NormalRoot(copies[TheCaller].root)
        BY <2>1 DEF new
    <2>3. QED
        BY <1>6, <1>7, <1>9, <2>2 DEF HeapInv
<1>12. \A k \in DOMAIN copies' : \A l \in DOMAIN tables'[Cell(k, "direction")] :
           l \in Layer /\ tables'[Cell(k, "direction")][l] = Inner(k, l)
    <2>1. \A k \in DOMAIN copies : tables'[Cell(k, "direction")] = tables[Cell(k, "direction")]
        BY <1>2, <1>6, <1>8, ClonesKept
    <2>2. QED
        BY <1>2, <1>7, <2>1 DEF HeapInv
<1>13. n >= TheContext /\ Len(copies') = n
    BY <1>3, <1>6 DEF TheContext
<1>14. Content(TheContext)'
    <2>1. CASE n = TheContext
        BY <1>2, <2>1 DEF Content, Cell, Inner
    <2>2. CASE n # TheContext
        <3>1. TheContext \in 1..MaxCopies \ {n} /\ Content(TheContext)
            BY <1>8, <2>2
        <3>2. QED
            BY <1>1, <1>2, <3>1, ContentKept DEF HeapInv
    <2>3. QED
        BY <2>1, <2>2
<1>15. /\ arch' \in Policies /\ direction' = arch'.direction
       /\ copies' \in Seq([root : Root, plain : Values, at : [Fields -> Addr]]) /\ Len(copies') \in 1..MaxCopies
       /\ ~(Len(copies') < TheContext)
    BY <1>1, <1>2, <1>6, <1>13 DEF HeapInv, Copy, TheContext
<1>16. HeapInv'
    BY <1>2, <1>10, <1>11, <1>12, <1>14, <1>15, <1>18 DEF HeapInv, Cell, FreshAt, Inner, NormalRoot
<1>17. QED
    BY <1>2, <1>16
LEMMA WriteKeeps ==
    ASSUME HeapInv, NEW n \in DOMAIN copies, Write(n)
    PROVE  HeapInv'
<1>1. /\ Len(copies) >= TheContext /\ n # TheContext
      /\ UNCHANGED <<arch, direction, stage, copies>>
      /\ \A k \in 1..MaxCopies \ {n} : SameAt(k)
      /\ DOMAIN lists' = Addr /\ DOMAIN keys' = Addr /\ DOMAIN tables' = Addr
      /\ \A l \in DOMAIN tables'[Cell(n, "direction")] :
             l \in Layer /\ tables'[Cell(n, "direction")][l] = Inner(n, l)
    BY WriteFacts DEF vars, validateVars
<1>2. \A k \in DOMAIN copies : k \in 1..MaxCopies
    BY ViewFacts
<1>3. \A k \in DOMAIN copies : \A l \in DOMAIN tables'[Cell(k, "direction")] :
          l \in Layer /\ tables'[Cell(k, "direction")][l] = Inner(k, l)
    <2>1. \A k \in DOMAIN copies \ {n} : tables'[Cell(k, "direction")] = tables[Cell(k, "direction")]
        BY <1>1, <1>2, ClonesKept
    <2>2. QED
        BY <1>1, <2>1 DEF HeapInv
<1>4. Content(TheContext)'
    <2>1. TheContext \in 1..MaxCopies \ {n} /\ Content(TheContext)
        BY <1>1, ContextAssumption DEF HeapInv, TheContext
    <2>2. QED
        BY <1>1, <2>1, ContentKept DEF HeapInv
<1>5. Len(copies') >= TheContext /\ ~(Len(copies') < TheContext)
    <2>1. Len(copies) \in Nat
        BY ContextAssumption DEF HeapInv
    <2>2. QED
        BY <1>1, <2>1 DEF TheContext
<1>6. QED
    BY <1>1, <1>3, <1>4, <1>5 DEF HeapInv, Cell, FreshAt, Inner, NormalRoot

\* The steps of a Context, each with the clone it makes or writes.
LEMMA ContextSteps ==
    ASSUME HeapInv, [ContextNext]_allVars
    PROVE  \/ /\ UNCHANGED heapVars /\ UNCHANGED <<arch, direction>>
              /\ Len(copies) < TheContext => stage' = stage
           \/ \E n \in DOMAIN copies : Write(n)
           \/ \E m \in DOMAIN copies, n \in {Len(copies) + 1} :
                  /\ n <= MaxCopies /\ Cloned(n, copies[m]) /\ UNCHANGED <<vars, validateVars>> /\ Content(m)
                  /\ m = IF n = TheContext THEN TheCaller ELSE TheContext
<1>1. DOMAIN copies = 1..Len(copies) /\ Len(copies) \in 1..MaxCopies /\ MaxCopies \in Nat /\ MaxCopies >= 2
    BY ContextAssumption, LenProperties DEF HeapInv
<1>2. CASE UNCHANGED allVars
    BY <1>2 DEF allVars, vars, validateVars
<1>3. CASE Validating
    <2>1. Len(copies) >= TheContext /\ UNCHANGED heapVars /\ UNCHANGED <<arch, direction>>
        BY <1>3 DEF Validating, ValidateNext, CheckSublayers, CheckDirection, CheckContracts, CheckNames, SearchCycle,
                    Conclude, Block, vars, validateVars, Next, StartSource, SkipSource, Descend, SkipExplored,
                    MeetGray, Finish, AllExplored
    <2>2. ~(Len(copies) < TheContext)
        BY <1>1, <2>1 DEF TheContext
    <2>3. QED
        BY <2>1, <2>2
<1>4. CASE NewContext
    <2>1. Len(copies) = 1 /\ Cloned(2, copies[1]) /\ UNCHANGED <<vars, validateVars>> /\ Len(copies) + 1 = 2
        BY <1>4 DEF NewContext, TheCaller, TheContext
    <2>2. 1 \in DOMAIN copies /\ 2 <= MaxCopies
        BY <1>1, <2>1
    <2>3. Content(1)
        BY <2>1 DEF HeapInv, TheCaller, TheContext
    <2>4. QED
        BY <2>1, <2>2, <2>3 DEF TheCaller, TheContext
<1>5. CASE Arch
    <2>1. /\ Accepted /\ Len(copies) < MaxCopies /\ Cloned(Len(copies) + 1, copies[TheContext])
          /\ UNCHANGED <<vars, validateVars>>
        BY <1>5 DEF Arch
    <2>2. ~(Len(copies) < TheContext)
        BY <2>1 DEF Accepted, HeapInv
    <2>3. TheContext \in DOMAIN copies /\ Content(TheContext) /\ Len(copies) + 1 # TheContext /\ Len(copies) + 1 <= MaxCopies
        BY <1>1, <2>1, <2>2 DEF HeapInv, TheContext
    <2>4. QED
        BY <2>1, <2>3
<1>6. ASSUME NEW n \in 1..MaxCopies, Write(n)
      PROVE  n \in DOMAIN copies
    BY <1>6 DEF Write, WriteElement, WriteKeys, DeleteEntry, Writable
<1>7. QED
    BY <1>2, <1>3, <1>4, <1>5, <1>6 DEF ContextNext

LEMMA HeapStepInv == HeapInv /\ [ContextNext]_allVars => HeapInv'
<1> SUFFICES ASSUME HeapInv, [ContextNext]_allVars PROVE HeapInv'
    OBVIOUS
<1>1. CASE /\ UNCHANGED heapVars /\ UNCHANGED <<arch, direction>>
           /\ Len(copies) < TheContext => stage' = stage
    BY <1>1 DEF HeapInv, heapVars, Content
<1>2. QED
    BY <1>1, ContextSteps, CloneKeeps, WriteKeeps

(* Of every policy and with any number of copies and writes: each rule     *)
(* judges by the policy that was validated.                                *)
THEOREM PolicyStaysPrivate == ContextSpec => PolicyIsPrivate
<1> DEFINE Private ==
        /\ Len(copies') >= TheContext => (View(copies[TheContext]) = Passed)'
        /\ Len(copies') > Len(copies) => (View(copies[Len(copies)]) = Passed)'
        /\ \A n \in TheContext..Len(copies') : copies'[n].root # NoRoot
        /\ \A n \in DOMAIN copies : Write(n) =>
               \A m \in DOMAIN copies \ {n} : View(copies[m])' = View(copies[m])
<1>1. HeapInv => (Len(copies) >= TheContext => View(copies[TheContext]) = Passed)
    <2> SUFFICES ASSUME HeapInv, Len(copies) >= TheContext PROVE View(copies[TheContext]) = Passed
        OBVIOUS
    <2>1. DOMAIN copies = 1..Len(copies) /\ Len(copies) \in Nat
        BY LenProperties DEF HeapInv
    <2>2. TheContext \in DOMAIN copies /\ TheContext # TheCaller /\ Content(TheContext)
        BY <2>1 DEF HeapInv, TheContext, TheCaller
    <2>3. QED
        BY <2>2, ContentIsPassed
<1>2. HeapInv => \A n \in TheContext..Len(copies) : copies[n].root # NoRoot
    <2> SUFFICES ASSUME HeapInv, NEW n \in TheContext..Len(copies) PROVE copies[n].root # NoRoot
        OBVIOUS
    <2>1. DOMAIN copies = 1..Len(copies) /\ Len(copies) \in Nat
        BY LenProperties DEF HeapInv
    <2>2. n \in DOMAIN copies \ {TheCaller}
        BY <2>1 DEF TheContext, TheCaller
    <2>3. QED
        BY <2>2, ContextAssumption DEF HeapInv, NormalRoot
<1>3. HeapInv => (Len(copies) \in DOMAIN copies /\ Content(Len(copies)) /\ Len(copies) # TheCaller
                  => View(copies[Len(copies)]) = Passed)
    BY ContentIsPassed
<1>4. HeapInv' => (Len(copies) \in DOMAIN copies /\ Content(Len(copies)) /\ Len(copies) # TheCaller
                   => View(copies[Len(copies)]) = Passed)'
    BY <1>3, PTL
<1>5. ASSUME HeapInv, HeapInv', [ContextNext]_allVars, Len(copies') > Len(copies)
      PROVE  (View(copies[Len(copies)]) = Passed)'
    <2>1. Len(copies) \in Nat
        BY <1>5, LenProperties DEF HeapInv
    <2>2. copies' # copies
        BY <1>5, <2>1
    <2>3. ~(\E n \in DOMAIN copies : Write(n))
        BY <1>5, <2>2, WriteFacts
    <2>4. PICK m \in DOMAIN copies, n \in {Len(copies) + 1} :
              /\ n <= MaxCopies /\ Cloned(n, copies[m]) /\ UNCHANGED <<vars, validateVars>> /\ Content(m)
              /\ m = IF n = TheContext THEN TheCaller ELSE TheContext
        BY <1>5, <2>2, <2>3, ContextSteps DEF heapVars
    <2>5. Content(n)'
        BY <1>5, <2>4, CloneKeeps
    <2>6. Len(copies') = n /\ n # TheCaller
        <3>1. PICK c : copies' = Append(copies, c)
            BY <2>4 DEF Cloned
        <3>2. Len(copies') = Len(copies) + 1
            BY <3>1, <1>5, LenProperties DEF HeapInv
        <3>3. Len(copies) >= 1
            BY <1>5, ContextAssumption DEF HeapInv
        <3>4. QED
            BY <2>1, <3>2, <3>3 DEF TheCaller
    <2>7. (Len(copies) \in DOMAIN copies)'
        <3>1. DOMAIN copies' = 1..Len(copies') /\ Len(copies') >= 1
            BY <1>5, <2>1, LenProperties DEF HeapInv
        <3>2. Len(copies') \in Nat
            BY <1>5, LenProperties DEF HeapInv
        <3>3. QED
            BY <3>1, <3>2
    <2>8. (Content(Len(copies)) /\ Len(copies) # TheCaller)'
        BY <2>5, <2>6 DEF Content, Cell, Inner, TheCaller
    <2>9. QED
        BY <1>4, <1>5, <2>7, <2>8
<1>6. ASSUME HeapInv, NEW n \in DOMAIN copies, Write(n), NEW m \in DOMAIN copies \ {n}
      PROVE  View(copies[m])' = View(copies[m])
    <2>1. SameAt(m) /\ copies' = copies
        BY <1>6, WriteFacts, ViewFacts
    <2>2. QED
        BY <1>6, <2>1, ClonesKept
<1>7. HeapInv /\ HeapInv' /\ [ContextNext]_allVars => [Private]_allVars
    <2>1. HeapInv' => (Len(copies) >= TheContext => View(copies[TheContext]) = Passed)'
        BY <1>1, PTL
    <2>2. HeapInv' => (\A n \in TheContext..Len(copies) : copies[n].root # NoRoot)'
        BY <1>2, PTL
    <2>3. QED
        BY <1>5, <1>6, <2>1, <2>2
<1>8. ContextSpec => []HeapInv
    BY HeapInitInv, HeapStepInv, PTL DEF ContextSpec
<1>9. QED
    BY <1>7, <1>8, PTL DEF ContextSpec, PolicyIsPrivate

\* The policy an Architecture in the heap stands for.
PolicyOf(c) ==
    LET v == View(c) IN
    [sublayers |-> v.list["sublayers"], direction |-> v.direction,
     ports |-> v.list["ports"], contracts |-> v.list["contracts"],
     patternDirs |-> v.list["patternDirs"], pkgRestricted |-> v.keys["pkgRestricted"],
     excluded |-> v.keys["excluded"], dirNames |-> v.keys["dirNames"], topLevel |-> v.keys["topLevel"]]

\* A Context, the caller and the rules make no step of Validate but its own.
LEMMA ContextValidates == ContextSpec => ValidateSpec
<1>1. ContextInit => ValidateInit
    BY DEF ContextInit
<1>2. [ContextNext]_allVars => [ValidateNext]_<<vars, validateVars>>
    BY DEF ContextNext, NewContext, Validating, Arch, Write, WriteElement, WriteKeys, DeleteEntry, Writable, allVars
<1>3. QED
    BY <1>1, <1>2, PTL DEF ContextSpec, ValidateSpec

(* Once Run has accepted a policy, what the Context's slices and maps hold  *)
(* is well-formed, whatever the caller and the rules have written to theirs *)
(* since (runner.go 44, context.go 85-93).                                  *)
THEOREM HeldPolicyStaysWellFormed ==
    ContextSpec => [](Accepted => WellFormed(PolicyOf(copies[TheContext]), Empty))
<1>1. ASSUME HeapInv, ValidateIsExact, Accepted
      PROVE  WellFormed(PolicyOf(copies[TheContext]), Empty)
    <2>1. stage = "done" /\ WellFormed(arch, Empty)
        BY <1>1 DEF Accepted, ValidateIsExact
    <2>2. DOMAIN copies = 1..Len(copies) /\ Len(copies) \in Nat
        BY <1>1, LenProperties DEF HeapInv
    <2>3. TheContext \in DOMAIN copies /\ TheContext # TheCaller /\ Content(TheContext)
        BY <1>1, <2>1, <2>2 DEF HeapInv, TheContext, TheCaller
    <2>4. View(copies[TheContext]) = Passed
        BY <1>1, <2>3, ContentIsPassed
    <2>5. /\ Passed.direction = arch.direction
          /\ \A f \in SliceFields : Passed.list[f] = arch[f]
          /\ \A f \in KeyFields : Passed.keys[f] = arch[f]
        BY <1>1 DEF Passed, HeapInv
    <2> DEFINE p == PolicyOf(copies[TheContext])
    <2>6. /\ p.sublayers = arch.sublayers /\ p.direction = arch.direction /\ p.ports = arch.ports
          /\ p.contracts = arch.contracts /\ p.patternDirs = arch.patternDirs
          /\ p.pkgRestricted = arch.pkgRestricted /\ p.excluded = arch.excluded
          /\ p.dirNames = arch.dirNames /\ p.topLevel = arch.topLevel
        BY <2>4, <2>5 DEF PolicyOf, SliceFields, ListFields, KeyFields
    <2> HIDE DEF p
    <2>7. WellFormed(p, Empty)
        BY <2>1, <2>6 DEF WellFormed
    <2>8. QED
        BY <2>7 DEF p
<1>2. ContextSpec => []HeapInv
    BY HeapInitInv, HeapStepInv, PTL DEF ContextSpec
<1>3. ContextSpec => []ValidateIsExact
    BY ContextValidates, ValidatesExactly, PTL
<1>4. QED
    BY <1>1, <1>2, <1>3, PTL
===============================================================================
