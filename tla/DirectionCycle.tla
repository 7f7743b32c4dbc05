---------------------------- MODULE DirectionCycle ----------------------------
(***************************************************************************)
(* findDirectionCycle (src/core/architecture_validate.go): the depth-first *)
(* search by which Validate decides that LayerModel.Direction is a DAG.    *)
(*                                                                         *)
(* The Go function is recursive; its call stack is the variable frames,    *)
(* next to the slice stack the code keeps itself. One step is one          *)
(* iteration of the loop over direction[node], one return, or one          *)
(* iteration of the loop over the sources.                                 *)
(***************************************************************************)
EXTENDS Naturals, Sequences, DirectionGraph

CONSTANTS
    Layer,        \* sublayer names
    Directions,   \* Direction maps to search: layer -> imported layers
    Sources       \* a map's keys in string order (sort.Strings)

NoCycle == <<>>   \* nil

ASSUME DirectionAssumption ==
    /\ \A d \in Directions :
         /\ DOMAIN d \subseteq Layer /\ d \in [DOMAIN d -> Seq(Layer)]
         /\ Sources[d] \in Seq(DOMAIN d)
         /\ \A l \in DOMAIN d : \E i \in DOMAIN Sources[d] : Sources[d][i] = l

VARIABLES
    direction,   \* the argument; never changes
    color,       \* white, gray (on stack) or black (fully explored)
    stack,       \* the slice of gray nodes
    frames,      \* the calls of dfs in progress: [node, at]
    source,      \* index of the loop over the sources
    finished,    \* history: nodes in the order they became black
    result, pc

vars == <<direction, color, stack, frames, source, finished, result, pc>>

Top  == frames[Len(frames)]
Pop(s) == SubSeq(s, 1, Len(s) - 1)
\* the target the loop in the innermost dfs looks at
Target == Imports(direction, Top.node)[Top.at]

Searching == pc = "search" /\ frames # <<>>
AtTarget(c) ==
    /\ Searching
    /\ Top.at <= Len(Imports(direction, Top.node))
    /\ color[Target] = c

\* Mutant: the loop looks at the same target again.
SameTarget(f) == f

NextTarget(f) == [f EXCEPT ![Len(f)].at = @ + 1]
-------------------------------------------------------------------------------
\* Mutant: one visited mark instead of two.
VisitedOnly(l) == [color EXCEPT ![l] = "black"]

Grayed(l) == [color EXCEPT ![l] = "gray"]

\* dfs(l): what happens before the loop
Enter(l, callers) ==
    /\ color'  = Grayed(l)
    /\ stack'  = Append(stack, l)
    /\ frames' = Append(callers, [node |-> l, at |-> 1])

\* the loop over the sorted sources
StartSource ==
    /\ pc = "search" /\ frames = <<>> /\ source <= Len(Sources[direction])
    /\ color[Sources[direction][source]] = "white"
    /\ Enter(Sources[direction][source], <<>>)
    /\ source' = source + 1
    /\ UNCHANGED <<direction, finished, result, pc>>

SkipSource ==
    /\ pc = "search" /\ frames = <<>> /\ source <= Len(Sources[direction])
    /\ color[Sources[direction][source]] # "white"
    /\ source' = source + 1
    /\ UNCHANGED <<direction, color, stack, frames, finished, result, pc>>

\* case white: dfs(next)
Descend ==
    /\ AtTarget("white")
    /\ Enter(Target, NextTarget(frames))
    /\ UNCHANGED <<direction, source, finished, result, pc>>

\* no case for black
SkipExplored ==
    /\ AtTarget("black")
    /\ frames' = NextTarget(frames)
    /\ UNCHANGED <<direction, color, stack, source, finished, result, pc>>

\* Mutant: the whole stack is reported.
CycleFromBottom(l) == Append(stack, l)

\* the stack from the first occurrence of l, closed with l
CycleThrough(l) ==
    LET start == CHOOSE i \in DOMAIN stack :
                     stack[i] = l /\ \A j \in DOMAIN stack : stack[j] = l => i <= j
    IN  Append(SubSeq(stack, start, Len(stack)), l)

\* case gray: every caller returns the cycle; without a start, this call
\* returns nil, leaving node gray and on the stack.
MeetGray ==
    /\ AtTarget("gray")
    /\ IF \E i \in DOMAIN stack : stack[i] = Target
       THEN /\ result' = CycleThrough(Target)
            /\ pc' = "done"
            /\ UNCHANGED <<color, stack, frames, finished>>
       ELSE /\ frames' = Pop(frames)
            /\ UNCHANGED <<color, stack, finished, result, pc>>
    /\ UNCHANGED <<direction, source>>

Blackened(l) == [color EXCEPT ![l] = "black"]

\* the end of dfs
Finish ==
    /\ Searching /\ Top.at > Len(Imports(direction, Top.node))
    /\ stack'    = Pop(stack)
    /\ color'    = Blackened(Top.node)
    /\ frames'   = Pop(frames)
    /\ finished' = Append(finished, Top.node)
    /\ UNCHANGED <<direction, source, result, pc>>

AllExplored ==
    /\ pc = "search" /\ frames = <<>> /\ source > Len(Sources[direction])
    /\ pc' = "done"
    /\ UNCHANGED <<direction, color, stack, frames, source, finished, result>>

Init ==
    /\ direction \in Directions
    /\ color = [l \in Layer |-> "white"]
    /\ stack = <<>> /\ frames = <<>> /\ finished = <<>>
    /\ source = 1 /\ result = NoCycle /\ pc = "search"

Next == StartSource \/ SkipSource \/ Descend \/ SkipExplored \/ MeetGray
        \/ Finish \/ AllExplored

Spec == Init /\ [][Next]_vars
FairSpec == Spec /\ WF_vars(Next)
-------------------------------------------------------------------------------
(* The cycle named in the error message is one: it starts and ends at one  *)
(* layer, every hop is an entry of Direction, and it visits no other layer *)
(* twice.                                                                  *)
ReportedCycleIsReal ==
    result # NoCycle =>
        /\ IsCycle(direction, result)
        /\ \A i, j \in 1..Len(result) - 1 : result[i] = result[j] => i = j

(* nil means DAG: when the search ends without a cycle, no set of layers   *)
(* can import each other in a circle, whatever order the sources and       *)
(* targets were visited in. Validate relies on it to refuse every cyclic   *)
(* Direction (architecture_validate.go:125-129).                           *)
NilMeansAcyclic ==
    pc = "done" /\ result = NoCycle => \A S \in SUBSET Layer : ~Trap(direction, S)

(* The search ends.                                                        *)
Terminates == <>(pc = "done")
-------------------------------------------------------------------------------
Color == {"white", "gray", "black"}

\* The types, and the code's own reading of the colors: gray nodes are those
\* on the stack, black ones those that were finished.
TypeOK ==
    /\ direction \in Directions
    /\ color \in [Layer -> Color]
    /\ stack \in Seq(Layer) /\ finished \in Seq(Layer) /\ result \in Seq(Layer)
    /\ frames \in Seq([node : Layer, at : Nat \ {0}])
    /\ source \in Nat \ {0} /\ pc \in {"search", "done"}
    /\ \A l \in Layer : color[l] = "gray" <=> \E i \in DOMAIN stack : stack[i] = l

\* The slice mirrors the calls of dfs; each call but the last waits for the
\* next one; a target already passed is black or waited for.
CallsMatchStack ==
    /\ Len(stack) = Len(frames)
    /\ \A i \in DOMAIN frames :
         /\ frames[i].node = stack[i]
         /\ frames[i].at <= Len(Imports(direction, stack[i])) + 1
    /\ \A i, j \in DOMAIN stack : stack[i] = stack[j] => i = j
    /\ \A i \in 1..Len(frames) - 1 :
         /\ frames[i].at > 1
         /\ Imports(direction, stack[i])[frames[i].at - 1] = stack[i + 1]

PassedTargetsExplored ==
    \A i \in DOMAIN frames : \A k \in 1..frames[i].at - 1 :
        \/ color[Imports(direction, stack[i])[k]] = "black"
        \/ i < Len(frames) /\ k = frames[i].at - 1

\* A layer is finished after everything it imports: the reverse of finished
\* is a topological order of the explored part.
FinishedInOrder ==
    /\ \A l \in Layer : color[l] = "black" <=> \E i \in DOMAIN finished : finished[i] = l
    /\ \A i \in DOMAIN finished : \A b \in Layer :
         Edge(direction, finished[i], b) =>
             \E j \in DOMAIN finished : j < i /\ finished[j] = b

SourcesExplored ==
    /\ \A i \in DOMAIN Sources[direction] :
         i < source => color[Sources[direction][i]] # "white"
    /\ pc = "done" /\ result = NoCycle => frames = <<>> /\ source > Len(Sources[direction])

IInv ==
    /\ TypeOK /\ CallsMatchStack /\ PassedTargetsExplored
    /\ FinishedInOrder /\ SourcesExplored /\ ReportedCycleIsReal
===============================================================================
