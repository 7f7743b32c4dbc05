------------------------------ MODULE RuleSetHeap ------------------------------
(***************************************************************************)
(* RuleSet (src/core/ruleset.go) over Go's heap.                           *)
(*                                                                         *)
(* A RuleSet is passed by value but holds a slice and a map, which are     *)
(* references: whether "the original RuleSet is never mutated" is a        *)
(* question about which arrays and maps two RuleSets share. Several        *)
(* callers (tests running in parallel) derive RuleSets from the same ones, *)
(* one append or map write at a time, and overwrite the slices Rules()     *)
(* gave them.                                                              *)
(*                                                                         *)
(* An address is an index into array or maps; 0 is the nil slice or map.   *)
(* An array is its cells, so its length is the capacity of a slice of it.  *)
(***************************************************************************)
EXTENDS Naturals, Sequences

CONSTANTS
    Caller,       \* goroutines that use rule sets
    Rule, NilRule,
    ID,           \* violation IDs
    RuleArgs,     \* what With(rules...) is called with
    IdArgs,       \* what Without(ids...) is called with
    Slack,        \* bound: how much more than needed append may allocate
    MaxArrays, MaxMaps, MaxHandles  \* bounds on the heap and on the RuleSets

ASSUME HeapAssumption ==
    /\ NilRule \notin Rule
    /\ RuleArgs \subseteq Seq(Rule \cup {NilRule})
    /\ IdArgs \subseteq Seq(ID)
    /\ Slack \in Nat /\ MaxArrays \in Nat /\ MaxMaps \in Nat
    /\ MaxHandles \in Nat

VARIABLES
    array,     \* address -> cells
    maps,      \* address -> keys of a map[string]bool
    handles,   \* RuleSets the program holds: [rules, skip]
    meant,     \* history: the value each of them had when it was returned
    lent,      \* addresses of the arrays Rules() handed out
    call       \* what each caller is in the middle of

vars == <<array, maps, handles, meant, lent, call>>

NilSlice == [at |-> 0, len |-> 0]
Slice  == [at : Nat, len : Nat]
Handle == [rules : Slice, skip : Nat]
Value  == [rules : Seq(Rule), skip : SUBSET ID]
Idle   == [pc |-> "idle"]

\* The elements of a slice; NilRule fills cells that were never written.
Cells(arr, s) == IF s.at = 0 THEN <<>> ELSE SubSeq(arr[s.at], 1, s.len)
Keys(mps, m)  == IF m = 0 THEN {} ELSE mps[m]
ContentIn(arr, mps, h) == [rules |-> Cells(arr, h.rules), skip |-> Keys(mps, h.skip)]
Content(h) == ContentIn(array, maps, h)

Busy == {c \in Caller : call[c].pc # "idle"}

Published    == {handles[i].rules.at : i \in DOMAIN handles} \ {0}
PublishedMap == {handles[i].skip : i \in DOMAIN handles} \ {0}
-------------------------------------------------------------------------------
(* rs.copy(): the prologue of With and Without. *)

\* Mutant: the copy keeps the receiver's array.
CopiedSliceShared(s) == [slice |-> s, arrays |-> array]

\* make([]Rule, len(rs.rules)); copy(rules, rs.rules)
CopiedSlice(s) ==
    [slice  |-> [at |-> Len(array) + 1, len |-> s.len],
     arrays |-> Append(array, Cells(array, s))]

\* Mutant: the filter is not copied.
CopiedMapLost(m) == [map |-> 0, all |-> maps]

\* An empty map becomes nil; any other is cloned.
CopiedMap(m) ==
    IF Keys(maps, m) = {}
    THEN [map |-> 0, all |-> maps]
    ELSE [map |-> Len(maps) + 1, all |-> Append(maps, maps[m])]

\* copy(), then Without's `if out.skipViolationIDs == nil { make(...) }`.
WithMap(copied) ==
    IF copied.map = 0
    THEN [map |-> Len(copied.all) + 1, all |-> Append(copied.all, {})]
    ELSE copied

HeapHasRoom == Len(array) < MaxArrays /\ Len(maps) < MaxMaps

Begin(c, rs, pc, todo, slice, map) ==
    /\ array' = slice.arrays
    /\ maps'  = map.all
    /\ call'  = [call EXCEPT ![c] =
            [pc |-> pc, todo |-> todo,
             out |-> [rules |-> slice.slice, skip |-> map.map],
             value |-> meant[rs]]]
    /\ UNCHANGED <<handles, meant, lent>>

With(c, rs, args) ==
    /\ call[c].pc = "idle" /\ HeapHasRoom
    /\ Begin(c, rs, "with", args,
             CopiedSlice(handles[rs].rules), CopiedMap(handles[rs].skip))

Without(c, rs, ids) ==
    /\ call[c].pc = "idle" /\ HeapHasRoom
    /\ Begin(c, rs, "without", ids,
             CopiedSlice(handles[rs].rules), WithMap(CopiedMap(handles[rs].skip)))
-------------------------------------------------------------------------------
(* The loops of With and Without. *)

Dropped(r) == r = NilRule

SkipNil(c) ==
    /\ call[c].pc = "with" /\ call[c].todo # <<>>
    /\ Dropped(Head(call[c].todo))
    /\ call' = [call EXCEPT ![c].todo = Tail(@)]
    /\ UNCHANGED <<array, maps, handles, meant, lent>>

\* out.rules = append(out.rules, r)
Appended(c, slice, r) ==
    call' = [call EXCEPT ![c] =
        [pc |-> "with", todo |-> Tail(@.todo),
         out |-> [rules |-> slice, skip |-> @.out.skip],
         value |-> [rules |-> Append(@.value.rules, r), skip |-> @.value.skip]]]

HasSpare(s) == s.at # 0 /\ s.len < Len(array[s.at])

\* append into spare capacity, in place
AppendInPlace(c) ==
    LET s == call[c].out.rules
        r == Head(call[c].todo)
    IN
    /\ call[c].pc = "with" /\ call[c].todo # <<>> /\ ~Dropped(r)
    /\ HasSpare(s)
    /\ array' = [array EXCEPT ![s.at][s.len + 1] = r]
    /\ Appended(c, [at |-> s.at, len |-> s.len + 1], r)
    /\ UNCHANGED <<maps, handles, meant, lent>>

\* append that has to grow: a new array, larger than needed by up to Slack
AppendGrowing(c) ==
    LET s == call[c].out.rules
        r == Head(call[c].todo)
    IN
    /\ call[c].pc = "with" /\ call[c].todo # <<>> /\ ~Dropped(r)
    /\ ~HasSpare(s)
    /\ Len(array) < MaxArrays
    /\ \E spare \in 0..Slack :
           array' = Append(array, Append(Cells(array, s), r)
                                    \o [i \in 1..spare |-> NilRule])
    /\ Appended(c, [at |-> Len(array) + 1, len |-> s.len + 1], r)
    /\ UNCHANGED <<maps, handles, meant, lent>>

MarkSkipped(c) ==
    LET id == Head(call[c].todo) IN
    /\ call[c].pc = "without" /\ call[c].todo # <<>>
    /\ maps' = [maps EXCEPT ![call[c].out.skip] = @ \cup {id}]
    /\ call' = [call EXCEPT ![c] =
           [pc |-> "without", todo |-> Tail(@.todo), out |-> @.out,
            value |-> [rules |-> @.value.rules, skip |-> @.value.skip \cup {id}]]]
    /\ UNCHANGED <<array, handles, meant, lent>>

\* return out
Return(c) ==
    /\ c \in Busy /\ call[c].todo = <<>>
    /\ Len(handles) < MaxHandles
    /\ handles' = Append(handles, call[c].out)
    /\ meant'   = Append(meant, call[c].value)
    /\ call'    = [call EXCEPT ![c] = Idle]
    /\ UNCHANGED <<array, maps, lent>>
-------------------------------------------------------------------------------
(* Rules(), and what a caller may do with its result. *)

\* Mutant: Rules returns rs.rules itself.
RulesOfShared(rs) == [slice |-> handles[rs].rules, arrays |-> array]

RulesOf(rs) == CopiedSlice(handles[rs].rules)

Rules(c, rs) ==
    /\ call[c].pc = "idle" /\ HeapHasRoom
    /\ array' = RulesOf(rs).arrays
    /\ lent'  = lent \cup ({RulesOf(rs).slice.at} \ {0})
    /\ UNCHANGED <<maps, handles, meant, call>>

Overwrite(c, at, i, r) ==
    /\ call[c].pc = "idle"
    /\ array[at][i] # r
    /\ array' = [array EXCEPT ![at][i] = r]
    /\ UNCHANGED <<maps, handles, meant, lent, call>>
-------------------------------------------------------------------------------
\* RuleSet{} is there from the start; NewRuleSet is RuleSet{}.With.
Init ==
    /\ array = <<>> /\ maps = <<>> /\ lent = {}
    /\ handles = <<[rules |-> NilSlice, skip |-> 0]>>
    /\ meant   = <<[rules |-> <<>>, skip |-> {}]>>
    /\ call    = [c \in Caller |-> Idle]

Next ==
    \E c \in Caller :
        \/ \E rs \in DOMAIN handles :
               \/ \E args \in RuleArgs : With(c, rs, args)
               \/ \E ids \in IdArgs : Without(c, rs, ids)
               \/ Rules(c, rs)
        \/ SkipNil(c)
        \/ AppendInPlace(c)
        \/ AppendGrowing(c)
        \/ MarkSkipped(c)
        \/ Return(c)
        \/ \E at \in lent : \E i \in DOMAIN array[at], r \in Rule : Overwrite(c, at, i, r)

Spec == Init /\ [][Next]_vars
-------------------------------------------------------------------------------
(* A RuleSet is immutable (the doc comment of RuleSet, ruleset.go:5-7): no *)
(* RuleSet the program obtained ever changes its rules or its filter, not  *)
(* while others are derived from it and not when a caller overwrites what  *)
(* Rules() returned.                                                       *)
NeverMutated == \A i \in DOMAIN handles : Content(handles[i]) = meant[i]

(* Sharing a RuleSet between goroutines needs no lock: With, Without and   *)
(* Rules never write to an array or a map that a RuleSet already returned  *)
(* refers to, not even to the spare capacity behind its slice.             *)
NoWriteToShared ==
    [][/\ \A at \in Published : array'[at] = array[at]
       /\ \A m \in PublishedMap : maps'[m] = maps[m]]_vars

(* The heap with its sharing implements plain values: RuleSetValues.       *)
Values == INSTANCE RuleSetValues WITH
              values <- [i \in DOMAIN handles |-> Content(handles[i])]
ActsLikeValues == Values!Spec
-------------------------------------------------------------------------------
Call ==
    {Idle}
    \cup [pc : {"with"}, todo : Seq(Rule \cup {NilRule}), out : Handle, value : Value]
    \cup [pc : {"without"}, todo : Seq(ID), out : Handle, value : Value]

\* h refers to memory that is there.
Sound(arr, mps, h) ==
    /\ h.rules.at \in 0..Len(arr)
    /\ h.rules.at = 0 => h.rules.len = 0
    /\ h.rules.at # 0 => h.rules.len <= Len(arr[h.rules.at])
    /\ h.skip \in 0..Len(mps)

\* Besides the types: no RuleSet holds a nil rule, whose Spec() would be
\* called by Run, and every slice lies within its array.
TypeOK ==
    /\ array \in Seq(Seq(Rule \cup {NilRule}))
    /\ maps \in Seq(SUBSET ID)
    /\ handles \in Seq(Handle) /\ meant \in Seq(Value)
    /\ Len(meant) = Len(handles)
    /\ \A i \in DOMAIN handles : Sound(array, maps, handles[i])
    /\ lent \subseteq DOMAIN array
    /\ call \in [Caller -> Call]
(* Why it holds: the array and the map a call in progress writes to were   *)
(* allocated for it, so no RuleSet, no other call and no slice lent by     *)
(* Rules() refers to them.                                                 *)
CallOK(c) ==
    /\ Sound(array, maps, call[c].out) /\ call[c].out.rules.at # 0
    /\ call[c].pc = "without" => call[c].out.skip # 0
    /\ Content(call[c].out) = call[c].value

Private(c) ==
    /\ call[c].out.rules.at \notin Published \cup lent
    /\ call[c].out.skip \notin PublishedMap
    /\ \A d \in Busy \ {c} :
           /\ call[d].out.rules.at # call[c].out.rules.at
           /\ call[d].out.skip = call[c].out.skip => call[c].out.skip = 0

IInv ==
    /\ TypeOK
    /\ NeverMutated
    /\ \A c \in Busy : CallOK(c) /\ Private(c)
    /\ Published \cap lent = {}
================================================================================
