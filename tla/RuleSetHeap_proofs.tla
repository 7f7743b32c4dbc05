-------------------------- MODULE RuleSetHeap_proofs --------------------------
(***************************************************************************)
(* RuleSet is immutable, for any number of callers, rules, IDs and derived *)
(* rule sets and any way append may grow an array.                         *)
(*                                                                         *)
(* The inductive invariant IInv says why: a call in progress writes only   *)
(* to the array and the map it allocated, and nothing else refers to them. *)
(***************************************************************************)
EXTENDS RuleSetHeap, NatLemmas, SequenceTheorems, TLAPS

Cell == Rule \cup {NilRule}

\* b extends a and agrees with it at the addresses in kept.
Grows(a, b, kept) == Len(a) <= Len(b) /\ \A k \in kept : b[k] = a[k]

-------------------------------------------------------------------------------
(* Slices and maps. *)

\* What an address in kept holds is the same after the heap grew.
LEMMA SameContent ==
    ASSUME NEW arr, NEW arr2, NEW mps, NEW mps2, NEW h \in Handle,
           Len(arr) \in Nat, Len(arr2) \in Nat, Len(mps) \in Nat, Len(mps2) \in Nat,
           Grows(arr, arr2, {h.rules.at} \ {0}), Grows(mps, mps2, {h.skip} \ {0}),
           Sound(arr, mps, h)
    PROVE  /\ Sound(arr2, mps2, h)
           /\ ContentIn(arr2, mps2, h) = ContentIn(arr, mps, h)
<1>1. h.rules.at \in Nat /\ h.rules.len \in Nat /\ h.skip \in Nat
    BY DEF Handle, Slice
<1>2. h.rules.at # 0 => arr2[h.rules.at] = arr[h.rules.at]
    BY DEF Grows
<1>3. h.skip # 0 => mps2[h.skip] = mps[h.skip]
    BY DEF Grows
<1>4. Len(arr) <= Len(arr2) /\ Len(mps) <= Len(mps2)
    BY DEF Grows
<1>5. Sound(arr2, mps2, h)
    BY <1>1, <1>2, <1>3, <1>4 DEF Sound
<1>6. Cells(arr2, h.rules) = Cells(arr, h.rules)
    BY <1>2 DEF Cells
<1>7. Keys(mps2, h.skip) = Keys(mps, h.skip)
    BY <1>3 DEF Keys
<1> QED BY <1>5, <1>6, <1>7 DEF ContentIn

\* Allocating leaves every address that existed alone.
LEMMA AllocationGrows ==
    ASSUME NEW S, NEW a \in Seq(S), NEW e \in S, NEW kept, kept \subseteq 1..Len(a)
    PROVE  /\ Grows(a, Append(a, e), kept)
           /\ Append(a, e) \in Seq(S)
           /\ Len(Append(a, e)) = Len(a) + 1
           /\ Append(a, e)[Len(a) + 1] = e
<1>1. Append(a, e) \in Seq(S) /\ Len(Append(a, e)) = Len(a) + 1
      /\ (\A i \in 1..Len(a) : Append(a, e)[i] = a[i])
      /\ Append(a, e)[Len(a) + 1] = e
    BY AppendProperties
<1>2. Len(a) \in Nat
    BY LenProperties
<1> QED BY <1>1, <1>2 DEF Grows

\* Writing at one address leaves the others alone.
LEMMA WriteGrows ==
    ASSUME NEW S, NEW a \in Seq(S), NEW at \in 1..Len(a), NEW e \in S,
           NEW kept, kept \subseteq 1..Len(a), at \notin kept
    PROVE  /\ Grows(a, [a EXCEPT ![at] = e], kept)
           /\ [a EXCEPT ![at] = e] \in Seq(S)
           /\ Len([a EXCEPT ![at] = e]) = Len(a)
           /\ [a EXCEPT ![at] = e][at] = e
<1>1. [a EXCEPT ![at] = e] \in Seq(S) /\ Len([a EXCEPT ![at] = e]) = Len(a)
      /\ \A j \in 1..Len(a) : [a EXCEPT ![at] = e][j] = IF j = at THEN e ELSE a[j]
    BY ExceptSeq
<1>2. Len(a) \in Nat
    BY LenProperties
<1> QED BY <1>1, <1>2 DEF Grows

\* The elements of a slice of cells.
LEMMA CellsType ==
    ASSUME NEW arr \in Seq(Seq(Cell)), NEW s \in Slice,
           s.at \in 0..Len(arr), s.at = 0 => s.len = 0,
           s.at # 0 => s.len <= Len(arr[s.at])
    PROVE  /\ Cells(arr, s) \in Seq(Cell)
           /\ Len(Cells(arr, s)) = s.len
           /\ s.at # 0 => \A i \in 1..s.len : Cells(arr, s)[i] = arr[s.at][i]
<1>1. CASE s.at = 0
    BY <1>1, EmptySeq DEF Cells
<1>2. CASE s.at # 0
    <2>1. s.len \in Nat /\ Len(arr) \in Nat /\ s.at \in 1..Len(arr)
        BY <1>2, LenProperties DEF Slice
    <2>2. arr[s.at] \in Seq(Cell)
        BY <2>1, ElementOfSeq
    <2>3. Len(arr[s.at]) \in Nat /\ \A i \in 1..s.len : arr[s.at][i] \in Cell
        BY <2>1, <2>2, <1>2, LenProperties, ElementOfSeq
    <2>4. 1 \in Int /\ s.len \in Int
        BY <2>1
    <2>5. SubSeq(arr[s.at], 1, s.len) \in Seq(Cell)
          /\ Len(SubSeq(arr[s.at], 1, s.len)) = (IF 1 <= s.len THEN s.len - 1 + 1 ELSE 0)
          /\ \A i \in 1..s.len - 1 + 1 : SubSeq(arr[s.at], 1, s.len)[i] = arr[s.at][1 + i - 1]
        BY ONLY <2>3, <2>4, SubSeqProperties, Z3
    <2> QED BY <1>2, <2>1, <2>5 DEF Cells
<1> QED BY <1>1, <1>2

\* append within the capacity of an array
LEMMA AppendedInPlace ==
    ASSUME NEW arr \in Seq(Seq(Cell)), NEW s \in Slice, NEW r \in Cell,
           s.at \in 1..Len(arr), s.len < Len(arr[s.at])
    PROVE  LET arr2 == [arr EXCEPT ![s.at][s.len + 1] = r]
               s2   == [at |-> s.at, len |-> s.len + 1]
           IN  /\ arr2 \in Seq(Seq(Cell)) /\ Len(arr2) = Len(arr)
               /\ Len(arr2[s.at]) = Len(arr[s.at])
               /\ \A kept \in SUBSET (1..Len(arr)) :
                      s.at \notin kept => Grows(arr, arr2, kept)
               /\ Cells(arr2, s2) = Append(Cells(arr, s), r)
<1> DEFINE cells == arr[s.at]
           cells2 == [cells EXCEPT ![s.len + 1] = r]
           arr2 == [arr EXCEPT ![s.at] = cells2]
           s2 == [at |-> s.at, len |-> s.len + 1]
<1>1. s.len \in Nat /\ s.at \in Nat /\ Len(arr) \in Nat
    BY LenProperties DEF Slice
<1>2. cells \in Seq(Cell)
    BY ElementOfSeq
<1>3. Len(cells) \in Nat /\ s.len + 1 \in 1..Len(cells)
    BY <1>1, <1>2, LenProperties
<1>4. cells2 \in Seq(Cell) /\ Len(cells2) = Len(cells)
      /\ \A j \in 1..Len(cells) : cells2[j] = IF j = s.len + 1 THEN r ELSE cells[j]
    BY <1>2, <1>3, ExceptSeq
<1>5. arr2 \in Seq(Seq(Cell)) /\ Len(arr2) = Len(arr) /\ arr2[s.at] = cells2
    <2> HIDE DEF cells2
    <2> QED BY <1>4, WriteGrows
<1>6. ASSUME NEW kept \in SUBSET (1..Len(arr)), s.at \notin kept
      PROVE  Grows(arr, arr2, kept)
    <2> HIDE DEF cells2
    <2> QED BY <1>4, <1>6, WriteGrows
<1>7. s2 \in Slice /\ s2.at = s.at /\ s2.len = s.len + 1
    BY <1>1 DEF Slice
<1>8. Cells(arr, s) \in Seq(Cell) /\ Len(Cells(arr, s)) = s.len
      /\ \A i \in 1..s.len : Cells(arr, s)[i] = cells[i]
    <2>1. s.at \in 0..Len(arr) /\ s.at # 0 /\ s.len <= Len(arr[s.at])
        BY <1>1, <1>3
    <2> QED BY <2>1, CellsType
<1>9. Cells(arr2, s2) \in Seq(Cell) /\ Len(Cells(arr2, s2)) = s.len + 1
      /\ \A i \in 1..s.len + 1 : Cells(arr2, s2)[i] = cells2[i]
    <2>1. s2.at \in 0..Len(arr2) /\ s2.at # 0 /\ s2.len <= Len(arr2[s2.at])
        BY <1>1, <1>3, <1>4, <1>5, <1>7
    <2> HIDE DEF arr2, s2, cells2
    <2>2. Cells(arr2, s2) \in Seq(Cell) /\ Len(Cells(arr2, s2)) = s2.len
          /\ \A i \in 1..s2.len : Cells(arr2, s2)[i] = arr2[s2.at][i]
        BY <2>1, <1>5, <1>7, CellsType
    <2> QED BY <2>2, <1>5, <1>7
<1>10. Cells(arr2, s2) = Append(Cells(arr, s), r)
    <2> HIDE DEF arr2, s2, cells2
    <2>1. Append(Cells(arr, s), r) \in Seq(Cell)
          /\ Len(Append(Cells(arr, s), r)) = s.len + 1
          /\ (\A i \in 1..s.len : Append(Cells(arr, s), r)[i] = Cells(arr, s)[i])
          /\ Append(Cells(arr, s), r)[s.len + 1] = r
        BY <1>8, AppendProperties
    <2>2. ASSUME NEW i \in 1..s.len + 1
          PROVE  Cells(arr2, s2)[i] = Append(Cells(arr, s), r)[i]
        <3> HIDE DEF cells
        <3>1. i \in 1..Len(cells) /\ Cells(arr2, s2)[i] = cells2[i]
            BY <1>1, <1>3, <1>9
        <3>2. CASE i = s.len + 1
            BY <1>4, <2>1, <3>1, <3>2
        <3>3. CASE i \in 1..s.len
            BY <1>1, <1>4, <1>8, <2>1, <3>1, <3>3
        <3>4. i = s.len + 1 \/ i \in 1..s.len
            BY SMTT(40), <1>1
        <3> QED BY <3>2, <3>3, <3>4
    <2>3. \A i \in 1..Len(Cells(arr2, s2)) : Cells(arr2, s2)[i] = Append(Cells(arr, s), r)[i]
        BY <2>2, <1>9
    <2> QED BY <1>9, <2>1, <2>3, SeqEqual
<1>11. [arr EXCEPT ![s.at][s.len + 1] = r] = arr2
    OBVIOUS
<1> QED BY <1>4, <1>5, <1>6, <1>10, <1>11

\* append that moves to a new array with some spare cells
LEMMA AppendedGrowing ==
    ASSUME NEW arr \in Seq(Seq(Cell)), NEW old \in Seq(Cell), NEW r \in Cell,
           NEW spare \in Nat
    PROVE  LET new  == Append(old, r) \o [i \in 1..spare |-> NilRule]
               arr2 == Append(arr, new)
               s2   == [at |-> Len(arr) + 1, len |-> Len(old) + 1]
           IN  /\ arr2 \in Seq(Seq(Cell)) /\ Len(arr2) = Len(arr) + 1
               /\ Len(old) + 1 <= Len(arr2[Len(arr) + 1])
               /\ \A kept \in SUBSET (1..Len(arr)) : Grows(arr, arr2, kept)
               /\ Cells(arr2, s2) = Append(old, r)
<1> DEFINE pad == [i \in 1..spare |-> NilRule]
           new == Append(old, r) \o pad
           arr2 == Append(arr, new)
           s2 == [at |-> Len(arr) + 1, len |-> Len(old) + 1]
<1>1. Len(old) \in Nat /\ Len(arr) \in Nat
    BY LenProperties
<1>2. Append(old, r) \in Seq(Cell) /\ Len(Append(old, r)) = Len(old) + 1
    BY AppendProperties
<1>3. pad \in Seq(Cell)
    <2>1. NilRule \in Cell
        BY DEF Cell
    <2> QED BY <2>1, IsASeq
<1>4. Len(pad) \in Nat
    BY <1>3, LenProperties
<1>5. new \in Seq(Cell) /\ Len(new) = Len(old) + 1 + Len(pad)
      /\ \A i \in 1..Len(old) + 1 + Len(pad) :
            new[i] = IF i <= Len(old) + 1 THEN Append(old, r)[i] ELSE pad[i - (Len(old) + 1)]
    <2> HIDE DEF pad
    <2> QED BY SMTT(40), <1>2, <1>3, ConcatProperties
<1>6. arr2 \in Seq(Seq(Cell)) /\ Len(arr2) = Len(arr) + 1 /\ arr2[Len(arr) + 1] = new
      /\ \A kept \in SUBSET (1..Len(arr)) : Grows(arr, arr2, kept)
    <2> HIDE DEF new
    <2> QED BY ZenonT(40), <1>5, AllocationGrows
<1>7. s2 \in Slice /\ s2.at = Len(arr) + 1 /\ s2.len = Len(old) + 1
    BY <1>1 DEF Slice
<1>8. Cells(arr2, s2) \in Seq(Cell) /\ Len(Cells(arr2, s2)) = Len(old) + 1
      /\ \A i \in 1..Len(old) + 1 : Cells(arr2, s2)[i] = new[i]
    <2> HIDE DEF pad, new, arr2, s2
    <2>1. s2.at \in 0..Len(arr2) /\ s2.at # 0 /\ s2.len <= Len(arr2[s2.at])
        BY <1>1, <1>4, <1>5, <1>6, <1>7
    <2>2. Cells(arr2, s2) \in Seq(Cell) /\ Len(Cells(arr2, s2)) = s2.len
          /\ \A i \in 1..s2.len : Cells(arr2, s2)[i] = arr2[s2.at][i]
        BY <2>1, <1>6, <1>7, CellsType
    <2> QED BY <2>2, <1>6, <1>7
<1>9. Cells(arr2, s2) = Append(old, r)
    <2> HIDE DEF pad, new, arr2, s2
    <2>1. \A i \in 1..Len(Cells(arr2, s2)) : Cells(arr2, s2)[i] = Append(old, r)[i]
        BY <1>1, <1>4, <1>5, <1>8
    <2> QED BY <1>2, <1>8, <2>1, SeqEqual
<1>10. Len(old) + 1 <= Len(new)
    BY <1>1, <1>4, <1>5
<1> QED BY <1>6, <1>9, <1>10
-------------------------------------------------------------------------------
(* What a step that touches nothing published keeps. *)

\* The parts of the invariant the lemmas below need, as they unfold.
LEMMA Unfolded ==
    ASSUME IInv
    PROVE  /\ array \in Seq(Seq(Cell)) /\ Len(array) \in Nat
           /\ maps \in Seq(SUBSET ID) /\ Len(maps) \in Nat
           /\ handles \in Seq(Handle) /\ meant \in Seq(Value)
           /\ Len(meant) = Len(handles) /\ DOMAIN meant = DOMAIN handles
           /\ \A i \in DOMAIN handles : /\ handles[i] \in Handle /\ meant[i] \in Value
                                        /\ Sound(array, maps, handles[i])
                                        /\ Content(handles[i]) = meant[i]
           /\ Published \subseteq 1..Len(array) /\ PublishedMap \subseteq 1..Len(maps)
           /\ lent \subseteq 1..Len(array) /\ call \in [Caller -> Call]
           /\ Busy \subseteq Caller
           /\ \A c \in Busy : /\ call[c] \in Call \ {Idle}
                              /\ call[c].out \in Handle /\ call[c].value \in Value
                              /\ CallOK(c) /\ Private(c)
<1>1. TypeOK
    BY DEF IInv
<1>2. array \in Seq(Seq(Cell)) /\ maps \in Seq(SUBSET ID)
      /\ handles \in Seq(Handle) /\ meant \in Seq(Value) /\ Len(meant) = Len(handles)
      /\ lent \subseteq DOMAIN array /\ call \in [Caller -> Call]
      /\ \A i \in DOMAIN handles : Sound(array, maps, handles[i])
    BY <1>1 DEF TypeOK, Cell
<1>3. Len(array) \in Nat /\ Len(maps) \in Nat /\ DOMAIN array = 1..Len(array)
    BY <1>2, LenProperties
<1>4. DOMAIN handles = 1..Len(handles) /\ DOMAIN meant = 1..Len(meant)
    BY <1>2, LenProperties
<1>5. \A i \in DOMAIN handles : handles[i] \in Handle /\ meant[i] \in Value
    BY <1>2, <1>4, ElementOfSeq
<1>6. \A i \in DOMAIN handles : Content(handles[i]) = meant[i]
    BY DEF IInv, NeverMutated
<1>7. Published \subseteq 1..Len(array)
    BY <1>2, <1>3 DEF Published, Sound
<1>8. PublishedMap \subseteq 1..Len(maps)
    BY <1>2, <1>3 DEF PublishedMap, Sound
<1>9. Busy \subseteq Caller
    BY DEF Busy
<1>10. \A c \in Busy : call[c] \in Call \ {Idle} /\ call[c].out \in Handle
                       /\ call[c].value \in Value
    <2> SUFFICES ASSUME NEW c \in Busy
                 PROVE  call[c] \in Call \ {Idle} /\ call[c].out \in Handle
                        /\ call[c].value \in Value
        OBVIOUS
    <2>1. call[c] \in Call /\ call[c].pc # "idle"
        BY <1>2, <1>9 DEF Busy
    <2>2. call[c] # Idle
        BY <2>1 DEF Idle
    <2> QED BY <2>1, <2>2 DEF Call
<1>11. \A c \in Busy : CallOK(c) /\ Private(c)
    BY DEF IInv
<1> QED BY <1>2, <1>3, <1>4, <1>5, <1>6, <1>7, <1>8, <1>9, <1>10, <1>11

LEMMA KeepsHandles ==
    ASSUME IInv, UNCHANGED <<handles, meant>>,
           Len(array') \in Nat, Len(maps') \in Nat,
           Grows(array, array', Published), Grows(maps, maps', PublishedMap)
    PROVE  /\ NeverMutated'
           /\ \A i \in DOMAIN handles' : Sound(array', maps', handles'[i])
           /\ Published' = Published /\ PublishedMap' = PublishedMap
<1>1. Published' = Published /\ PublishedMap' = PublishedMap
    BY DEF Published, PublishedMap
<1>2. ASSUME NEW i \in DOMAIN handles
      PROVE  Sound(array', maps', handles[i])
             /\ ContentIn(array', maps', handles[i]) = meant[i]
    <2>1. handles[i] \in Handle /\ Sound(array, maps, handles[i])
          /\ ContentIn(array, maps, handles[i]) = meant[i]
          /\ Len(array) \in Nat /\ Len(maps) \in Nat
        BY <1>2, Unfolded DEF Content
    <2>2. {handles[i].rules.at} \ {0} \subseteq Published
          /\ {handles[i].skip} \ {0} \subseteq PublishedMap
        BY <1>2 DEF Published, PublishedMap
    <2>3. Grows(array, array', {handles[i].rules.at} \ {0})
          /\ Grows(maps, maps', {handles[i].skip} \ {0})
        BY <2>2 DEF Grows
    <2> QED BY <2>1, <2>3, SameContent
<1>3. NeverMutated'
    BY <1>2 DEF NeverMutated, Content
<1> QED BY <1>1, <1>2, <1>3

\* A call whose array and map are left alone stays as it is.
LEMMA KeepsCall ==
    ASSUME IInv, NEW d \in Busy, call'[d] = call[d],
           Len(array') \in Nat, Len(maps') \in Nat,
           Grows(array, array', {call[d].out.rules.at}),
           Grows(maps, maps', {call[d].out.skip} \ {0})
    PROVE  CallOK(d)'
<1>1. call[d].out \in Handle /\ CallOK(d) /\ Len(array) \in Nat /\ Len(maps) \in Nat
    BY Unfolded
<1>2. Grows(array, array', {call[d].out.rules.at} \ {0})
    BY DEF Grows
<1>3. Sound(array', maps', call[d].out)
      /\ ContentIn(array', maps', call[d].out) = ContentIn(array, maps, call[d].out)
    BY <1>1, <1>2, SameContent DEF CallOK
<1> QED BY <1>1, <1>3 DEF CallOK, Content
-------------------------------------------------------------------------------
(* copy() *)

\* The copy of a slice is new and holds what the original holds.
LEMMA CopiedSliceFacts ==
    ASSUME NEW s \in Slice, array \in Seq(Seq(Cell)), s.at \in 0..Len(array),
           s.at = 0 => s.len = 0, s.at # 0 => s.len <= Len(array[s.at])
    PROVE  LET copied == CopiedSlice(s) IN
           /\ copied.arrays \in Seq(Seq(Cell)) /\ Len(copied.arrays) = Len(array) + 1
           /\ copied.slice = [at |-> Len(array) + 1, len |-> s.len]
           /\ s.len <= Len(copied.arrays[Len(array) + 1])
           /\ Cells(copied.arrays, copied.slice) = Cells(array, s)
           /\ \A kept \in SUBSET (1..Len(array)) : Grows(array, copied.arrays, kept)
<1> DEFINE cells == Cells(array, s)
           arr2 == Append(array, cells)
           s2 == [at |-> Len(array) + 1, len |-> s.len]
<1>1. cells \in Seq(Cell) /\ Len(cells) = s.len
    BY CellsType
<1>2. Len(array) \in Nat /\ s.len \in Nat
    BY LenProperties DEF Slice
<1>3. arr2 \in Seq(Seq(Cell)) /\ Len(arr2) = Len(array) + 1 /\ arr2[Len(array) + 1] = cells
      /\ \A kept \in SUBSET (1..Len(array)) : Grows(array, arr2, kept)
    <2> HIDE DEF cells
    <2>1. arr2 \in Seq(Seq(Cell)) /\ Len(arr2) = Len(array) + 1 /\ arr2[Len(array) + 1] = cells
        BY <1>1, AppendProperties
    <2>2. ASSUME NEW kept \in SUBSET (1..Len(array))
          PROVE  Grows(array, arr2, kept)
        <3>1. kept \subseteq 1..Len(array)
            OBVIOUS
        <3> QED BY <1>1, <3>1, AllocationGrows
    <2> QED BY <2>1, <2>2
<1>4. Cells(arr2, s2) = SubSeq(cells, 1, Len(cells))
    <2> HIDE DEF cells, arr2
    <2> QED BY <1>1, <1>2, <1>3 DEF Cells
<1>5. Cells(arr2, s2) = cells
    <2> HIDE DEF cells, arr2, s2
    <2> QED BY <1>1, <1>4, SubSeqFull
<1>6. s.len <= Len(cells)
    <2> HIDE DEF cells
    <2> QED BY <1>1, <1>2
<1> QED BY <1>3, <1>5, <1>6 DEF CopiedSlice

\* copied is a map with the keys of m that nothing refers to yet.
FreshMap(m, copied) ==
    /\ copied.all \in Seq(SUBSET ID) /\ Len(copied.all) \in Nat
    /\ copied.map \in 0..Len(copied.all)
    /\ copied.map = 0 \/ copied.map > Len(maps)
    /\ Keys(copied.all, copied.map) = Keys(maps, m)
    /\ \A kept \in SUBSET (1..Len(maps)) : Grows(maps, copied.all, kept)

LEMMA CopiedMapFacts ==
    ASSUME maps \in Seq(SUBSET ID), NEW m \in 0..Len(maps)
    PROVE  FreshMap(m, CopiedMap(m))
<1>1. Len(maps) \in Nat
    BY LenProperties
<1>2. CASE Keys(maps, m) = {}
    BY <1>1, <1>2 DEF CopiedMap, FreshMap, Keys, Grows
<1>3. CASE Keys(maps, m) # {}
    <2>1. m # 0 /\ m \in 1..Len(maps) /\ Keys(maps, m) = maps[m]
        BY <1>1, <1>3 DEF Keys
    <2>2. maps[m] \in SUBSET ID
        BY <2>1, ElementOfSeq
    <2> DEFINE all == Append(maps, maps[m])
    <2>3. all \in Seq(SUBSET ID) /\ Len(all) = Len(maps) + 1 /\ all[Len(maps) + 1] = maps[m]
          /\ \A kept \in SUBSET (1..Len(maps)) : Grows(maps, all, kept)
        BY <2>2, AllocationGrows
    <2>4. CopiedMap(m) = [map |-> Len(maps) + 1, all |-> all]
        BY <1>3 DEF CopiedMap
    <2> HIDE DEF all
    <2> QED BY <1>1, <2>1, <2>3, <2>4 DEF FreshMap, Keys
<1> QED BY <1>2, <1>3

LEMMA WithMapFacts ==
    ASSUME maps \in Seq(SUBSET ID), NEW m \in 0..Len(maps)
    PROVE  FreshMap(m, WithMap(CopiedMap(m))) /\ WithMap(CopiedMap(m)).map # 0
<1>1. Len(maps) \in Nat /\ FreshMap(m, CopiedMap(m))
    BY LenProperties, CopiedMapFacts
<1>2. CASE Keys(maps, m) = {}
    <2>1. CopiedMap(m) = [map |-> 0, all |-> maps]
        BY <1>2 DEF CopiedMap
    <2> DEFINE all == Append(maps, {})
    <2>2. {} \in SUBSET ID
        OBVIOUS
    <2>3. all \in Seq(SUBSET ID) /\ Len(all) = Len(maps) + 1 /\ all[Len(maps) + 1] = {}
          /\ \A kept \in SUBSET (1..Len(maps)) : Grows(maps, all, kept)
        BY <2>2, AllocationGrows
    <2>4. WithMap(CopiedMap(m)) = [map |-> Len(maps) + 1, all |-> all]
        BY <2>1 DEF WithMap
    <2> HIDE DEF all
    <2>5. Keys(all, Len(maps) + 1) = {}
        BY <1>1, <2>3 DEF Keys
    <2> QED BY <1>1, <1>2, <2>3, <2>4, <2>5 DEF FreshMap
<1>3. CASE Keys(maps, m) # {}
    <2>1. CopiedMap(m).map # 0
        BY <1>1, <1>3 DEF CopiedMap
    <2> QED BY <1>1, <2>1 DEF WithMap
<1> QED BY <1>2, <1>3
-------------------------------------------------------------------------------
(* Every step keeps IInv and leaves what is published alone. *)

SafeStep ==
    /\ IInv'
    /\ Grows(array, array', Published)
    /\ Grows(maps, maps', PublishedMap)


\* With and Without up to their loops
LEMMA BeginKeeps ==
    ASSUME IInv, NEW c \in Caller, call[c].pc = "idle", NEW rs \in DOMAIN handles,
           NEW pc, NEW todo, NEW map,
           \/ pc = "with" /\ todo \in Seq(Cell)
           \/ pc = "without" /\ todo \in Seq(ID) /\ map.map # 0,
           FreshMap(handles[rs].skip, map),
           Begin(c, rs, pc, todo, CopiedSlice(handles[rs].rules), map)
    PROVE  SafeStep
<1> DEFINE new == [at |-> Len(array) + 1, len |-> handles[rs].rules.len]
           out == [rules |-> new, skip |-> map.map]
           started == [pc |-> pc, todo |-> todo, out |-> out, value |-> meant[rs]]
<1>1. handles[rs] \in Handle /\ meant[rs] \in Value /\ Sound(array, maps, handles[rs])
      /\ ContentIn(array, maps, handles[rs]) = meant[rs]
      /\ array \in Seq(Seq(Cell)) /\ Len(array) \in Nat /\ Len(maps) \in Nat
    BY Unfolded DEF Content
<1>2. handles[rs].rules \in Slice /\ handles[rs].skip \in Nat
      /\ handles[rs].rules.len \in Nat
    BY <1>1 DEF Handle, Slice
<1>3. array' \in Seq(Seq(Cell)) /\ Len(array') = Len(array) + 1
      /\ handles[rs].rules.len <= Len(array'[Len(array) + 1])
      /\ Cells(array', new) = Cells(array, handles[rs].rules)
      /\ (\A kept \in SUBSET (1..Len(array)) : Grows(array, array', kept))
      /\ CopiedSlice(handles[rs].rules).slice = new
    BY <1>1, <1>2, CopiedSliceFacts DEF Begin, Sound
<1>4. maps' \in Seq(SUBSET ID) /\ Len(maps') \in Nat /\ map.map \in 0..Len(maps')
      /\ (map.map = 0 \/ map.map > Len(maps))
      /\ Keys(maps', map.map) = Keys(maps, handles[rs].skip)
      /\ \A kept \in SUBSET (1..Len(maps)) : Grows(maps, maps', kept)
    BY DEF Begin, FreshMap
<1>5. UNCHANGED <<handles, meant, lent>> /\ call' = [call EXCEPT ![c] = started]
    BY <1>3 DEF Begin
<1>6. Len(array') \in Nat
    BY <1>1, <1>3
<1>7. Published \subseteq 1..Len(array) /\ PublishedMap \subseteq 1..Len(maps)
      /\ lent \subseteq 1..Len(array)
    BY Unfolded
<1>8. NeverMutated' /\ Published' = Published /\ PublishedMap' = PublishedMap
      /\ \A i \in DOMAIN handles' : Sound(array', maps', handles'[i])
    BY <1>3, <1>4, <1>5, <1>6, <1>7, KeepsHandles
<1>9. new \in Slice /\ out \in Handle
    <2>1. new \in Slice
        BY <1>1, <1>2 DEF Slice
    <2>2. map.map \in Nat
        BY <1>4
    <2> HIDE DEF new
    <2> QED BY <2>1, <2>2 DEF Handle
<1>10. started \in Call
    <2>1. (pc = "with" /\ todo \in Seq(Cell)) \/ (pc = "without" /\ todo \in Seq(ID))
        OBVIOUS
    <2> HIDE DEF out
    <2> QED BY <1>1, <1>9, <2>1 DEF Call, Cell
<1>11. c \notin Busy /\ Busy' = Busy \cup {c} /\ call'[c] = started
       /\ \A d \in Busy : call'[d] = call[d]
    <2>1. call \in [Caller -> Call] /\ started.pc # "idle"
        BY Unfolded
    <2> HIDE DEF started
    <2> QED BY <1>5, <2>1 DEF Busy
<1>12. TypeOK'
    <2>1. call \in [Caller -> Call]
        BY Unfolded
    <2>2. call' \in [Caller -> Call]
        <3> HIDE DEF started
        <3> QED BY <1>5, <1>10, <2>1
    <2>3. DOMAIN array' = 1..Len(array') /\ DOMAIN array = 1..Len(array)
        BY <1>1, <1>3, LenProperties
    <2>4. lent' \subseteq DOMAIN array'
        BY <1>1, <1>3, <1>5, <1>7, <2>3
    <2>5. handles' \in Seq(Handle) /\ meant' \in Seq(Value) /\ Len(meant') = Len(handles')
        BY <1>5, Unfolded
    <2> QED BY <1>3, <1>4, <1>8, <2>2, <2>4, <2>5 DEF TypeOK, Cell
<1>13. CallOK(c)'
    <2>1. Sound(array', maps', out)
        BY <1>1, <1>2, <1>3, <1>4 DEF Sound
    <2>2. Cells(array', out.rules) = meant[rs].rules /\ Keys(maps', out.skip) = meant[rs].skip
        BY <1>1, <1>3, <1>4 DEF ContentIn
    <2>3. ContentIn(array', maps', out) = meant[rs]
        <3> HIDE DEF out
        <3> QED BY <1>1, <2>2 DEF ContentIn, Value
    <2>4. out.rules.at # 0 /\ (pc = "without" => out.skip # 0)
        BY <1>1
    <2> HIDE DEF out
    <2> QED BY <1>11, <2>1, <2>3, <2>4 DEF CallOK, Content
<1>14. ASSUME NEW d \in Busy
       PROVE  CallOK(d)' /\ call[d].out.rules.at \in 1..Len(array)
              /\ call[d].out.skip \in 0..Len(maps)
    <2>1. CallOK(d) /\ call[d].out \in Handle
        BY Unfolded
    <2>2. call[d].out.rules.at \in 1..Len(array) /\ call[d].out.skip \in 0..Len(maps)
        BY <1>1, <2>1 DEF CallOK, Sound
    <2>3. {call[d].out.skip} \ {0} \subseteq 1..Len(maps)
        BY <1>1, <2>2
    <2>4. Grows(array, array', {call[d].out.rules.at})
          /\ Grows(maps, maps', {call[d].out.skip} \ {0})
        BY <1>3, <1>4, <2>2, <2>3
    <2> QED BY <1>4, <1>6, <1>11, <2>2, <2>4, KeepsCall
<1>15. Private(c)'
    <2>1. out.rules.at = Len(array) + 1 /\ out.skip = map.map
        OBVIOUS
    <2>2. out.rules.at \notin Published' \cup lent'
        BY <1>1, <1>5, <1>7, <1>8, <2>1
    <2>3. out.skip \notin PublishedMap'
        BY <1>1, <1>4, <1>7, <1>8, <2>1
    <2>4. ASSUME NEW d \in Busy
          PROVE  call[d].out.rules.at # out.rules.at
                 /\ (call[d].out.skip = out.skip => out.skip = 0)
        BY <1>1, <1>4, <1>14, <2>1
    <2> HIDE DEF out
    <2> QED BY <1>11, <2>2, <2>3, <2>4 DEF Private
<1>16. ASSUME NEW d \in Busy
       PROVE  Private(d)'
    <2>1. Private(d)
        BY Unfolded
    <2>2. d # c /\ Busy' \ {d} = (Busy \ {d}) \cup {c}
        BY <1>11
    <2>3. out.rules.at # call[d].out.rules.at
          /\ (out.skip = call[d].out.skip => call[d].out.skip = 0)
        BY <1>1, <1>4, <1>14
    <2> HIDE DEF out
    <2> QED BY <1>5, <1>8, <1>11, <2>1, <2>2, <2>3 DEF Private
<1>17. Grows(array, array', Published) /\ Grows(maps, maps', PublishedMap)
    BY <1>3, <1>4, <1>7
<1> QED BY <1>5, <1>8, <1>11, <1>12, <1>13, <1>14, <1>15, <1>16, <1>17, Unfolded DEF IInv, SafeStep

\* Steps of a call that change only what it allocated: NewAt and NewSkip say
\* where its array and map are afterwards.
LEMMA OwnStepKeeps ==
    ASSUME IInv, NEW c \in Busy, NEW after \in Call \ {Idle},
           call' = [call EXCEPT ![c] = after],
           UNCHANGED <<handles, meant, lent>>,
           array' \in Seq(Seq(Cell)), maps' \in Seq(SUBSET ID),
           Len(array') >= Len(array), Len(maps') >= Len(maps),
           \A kept \in SUBSET (1..Len(array)) :
               call[c].out.rules.at \notin kept => Grows(array, array', kept),
           \A kept \in SUBSET (1..Len(maps)) :
               call[c].out.skip \notin kept => Grows(maps, maps', kept),
           after.out.rules.at \in {call[c].out.rules.at} \cup {Len(array) + 1},
           after.out.skip = call[c].out.skip,
           CallOK(c)'
    PROVE  SafeStep
<1>1. Len(array) \in Nat /\ Len(array') \in Nat /\ Len(maps) \in Nat /\ Len(maps') \in Nat
    BY Unfolded, LenProperties
<1>2. Published \subseteq 1..Len(array) /\ PublishedMap \subseteq 1..Len(maps)
      /\ lent \subseteq 1..Len(array) /\ call \in [Caller -> Call] /\ c \in Caller
    BY Unfolded
<1>3. ASSUME NEW d \in Busy
      PROVE  call[d].out.rules.at \in 1..Len(array) /\ call[d].out.skip \in 0..Len(maps)
             /\ Private(d)
    <2>1. CallOK(d) /\ Private(d) /\ call[d].out \in Handle
        BY Unfolded
    <2> QED BY <1>1, <2>1 DEF CallOK, Sound
<1>4. call[c].out.rules.at \notin Published /\ call[c].out.skip \notin PublishedMap
    BY <1>3 DEF Private
<1>5. NeverMutated' /\ Published' = Published /\ PublishedMap' = PublishedMap
      /\ \A i \in DOMAIN handles' : Sound(array', maps', handles'[i])
    BY <1>1, <1>2, <1>4, KeepsHandles
<1>6. after.pc # "idle"
    BY DEF Call
<1>7. Busy' = Busy /\ call'[c] = after /\ \A d \in Busy \ {c} : call'[d] = call[d]
    BY <1>2, <1>6 DEF Busy
<1>8. TypeOK'
    <2>1. call' \in [Caller -> Call]
        BY <1>2
    <2>2. DOMAIN array' = 1..Len(array') /\ DOMAIN array = 1..Len(array)
        BY Unfolded, LenProperties
    <2>3. lent' \subseteq DOMAIN array'
        BY <1>1, <1>2, <2>2
    <2>4. handles' \in Seq(Handle) /\ meant' \in Seq(Value) /\ Len(meant') = Len(handles')
        BY Unfolded
    <2> QED BY <1>5, <2>1, <2>3, <2>4 DEF TypeOK, Cell
<1>9. ASSUME NEW d \in Busy \ {c}
      PROVE  CallOK(d)' /\ Private(d)'
    <2>1. call[d].out.rules.at # call[c].out.rules.at
          /\ (call[d].out.skip = call[c].out.skip => call[d].out.skip = 0)
        BY <1>3 DEF Private
    <2>2. {call[d].out.skip} \ {0} \subseteq 1..Len(maps)
          /\ call[c].out.skip \notin {call[d].out.skip} \ {0}
        BY <1>1, <1>3, <2>1
    <2>3. Grows(array, array', {call[d].out.rules.at})
          /\ Grows(maps, maps', {call[d].out.skip} \ {0})
        BY <1>3, <2>1, <2>2
    <2>4. CallOK(d)'
        BY <1>1, <1>7, <2>3, KeepsCall
    <2>5. after.out.rules.at # call[d].out.rules.at
        <3>1. CASE after.out.rules.at = call[c].out.rules.at
            BY <2>1, <3>1
        <3>2. CASE after.out.rules.at = Len(array) + 1
            BY <1>1, <1>3, <3>2
        <3> QED BY <3>1, <3>2
    <2> QED BY <1>3, <1>5, <1>7, <2>4, <2>5 DEF Private
<1>10. Private(c)'
    <2>1. after.out.rules.at \notin Published \cup lent
        BY SMTT(40), <1>1, <1>2, <1>3 DEF Private
    <2>2. after.out.skip \notin PublishedMap
        BY <1>4
    <2>3. ASSUME NEW d \in Busy \ {c}
          PROVE  call[d].out.rules.at # after.out.rules.at
                 /\ (call[d].out.skip = after.out.skip => after.out.skip = 0)
        <3>1. call[d].out.rules.at # call[c].out.rules.at
              /\ (call[d].out.skip = call[c].out.skip => call[c].out.skip = 0)
            BY <1>3 DEF Private
        <3>2. CASE after.out.rules.at = call[c].out.rules.at
            BY <3>1, <3>2
        <3>3. CASE after.out.rules.at = Len(array) + 1
            BY <1>1, <1>3, <3>1, <3>3
        <3> QED BY <3>2, <3>3
    <2> QED BY <1>5, <1>7, <2>1, <2>2, <2>3 DEF Private
<1>11. Grows(array, array', Published) /\ Grows(maps, maps', PublishedMap)
    BY <1>2, <1>4
<1> QED BY <1>5, <1>7, <1>8, <1>9, <1>10, <1>11 DEF IInv, SafeStep

\* The fields of a call in each loop
LEMMA CallFields ==
    ASSUME IInv, NEW c \in Caller, call[c].pc \in {"with", "without"}
    PROVE  /\ c \in Busy /\ call[c].out \in Handle /\ call[c].value \in Value
           /\ call[c].out.rules \in Slice /\ call[c].out.skip \in Nat
           /\ call[c].value.rules \in Seq(Rule) /\ call[c].value.skip \in SUBSET ID
           /\ call[c].pc = "with" => call[c].todo \in Seq(Cell)
           /\ call[c].pc = "without" => call[c].todo \in Seq(ID)
           /\ call[c] = [pc |-> call[c].pc, todo |-> call[c].todo,
                         out |-> call[c].out, value |-> call[c].value]
<1>1. c \in Busy
    BY DEF Busy
<1>2. call[c] \in Call \ {Idle}
    BY <1>1, Unfolded
<1>3. call[c].out \in Handle /\ call[c].value \in Value
      /\ call[c] = [pc |-> call[c].pc, todo |-> call[c].todo,
                    out |-> call[c].out, value |-> call[c].value]
    BY <1>2 DEF Call
<1>4. (call[c].pc = "with" => call[c].todo \in Seq(Cell))
      /\ (call[c].pc = "without" => call[c].todo \in Seq(ID))
    BY <1>2 DEF Call, Cell
<1> QED BY <1>1, <1>3, <1>4 DEF Handle, Value

LEMMA SkipNilKeeps == ASSUME IInv, NEW c \in Caller, SkipNil(c) PROVE SafeStep
<1> DEFINE after == [call[c] EXCEPT !.todo = Tail(@)]
<1>1. call[c].pc = "with" /\ call[c].todo # <<>> /\ call' = [call EXCEPT ![c] = after]
      /\ UNCHANGED <<array, maps, handles, meant, lent>>
    BY DEF SkipNil
<1>2. c \in Busy /\ call[c].todo \in Seq(Cell) /\ CallOK(c) /\ call \in [Caller -> Call]
      /\ call[c] \in Call \ {Idle}
    BY <1>1, CallFields, Unfolded
<1>3. Tail(call[c].todo) \in Seq(Cell)
    BY <1>1, <1>2, HeadTailProperties
<1>4. after \in Call \ {Idle} /\ after.out = call[c].out /\ after.value = call[c].value
      /\ after.pc = "with"
    BY <1>1, <1>2, <1>3 DEF Call, Cell, Idle
<1>5. array \in Seq(Seq(Cell)) /\ maps \in Seq(SUBSET ID)
      /\ Len(array) \in Nat /\ Len(maps) \in Nat
    BY Unfolded
<1>6. array' = array /\ maps' = maps
      /\ Len(array') >= Len(array) /\ Len(maps') >= Len(maps)
    BY <1>1, <1>5
<1>7. \A kept : Grows(array, array', kept) /\ Grows(maps, maps', kept)
    BY <1>5, <1>6 DEF Grows
<1>8. call'[c] = after
    BY <1>1, <1>2
<1> HIDE DEF after
<1>9. CallOK(c)'
    BY <1>1, <1>2, <1>4, <1>8 DEF CallOK, Content
<1> QED BY <1>1, <1>2, <1>4, <1>5, <1>6, <1>7, <1>9, OwnStepKeeps

LEMMA AppendInPlaceKeeps == ASSUME IInv, NEW c \in Caller, AppendInPlace(c) PROVE SafeStep
<1> DEFINE s == call[c].out.rules
           r == Head(call[c].todo)
           s2 == [at |-> s.at, len |-> s.len + 1]
           out2 == [rules |-> s2, skip |-> call[c].out.skip]
           value2 == [rules |-> Append(call[c].value.rules, r), skip |-> call[c].value.skip]
           after == [pc |-> "with", todo |-> Tail(call[c].todo), out |-> out2,
                     value |-> value2]
<1>1. call[c].pc = "with" /\ call[c].todo # <<>> /\ r # NilRule
      /\ s.at # 0 /\ s.len < Len(array[s.at])
      /\ array' = [array EXCEPT ![s.at][s.len + 1] = r]
      /\ UNCHANGED <<maps, handles, meant, lent>>
    BY DEF AppendInPlace, Dropped, HasSpare
<1>2. c \in Busy /\ call[c].todo \in Seq(Cell) /\ CallOK(c) /\ call \in [Caller -> Call]
      /\ call[c].out \in Handle /\ s \in Slice /\ call[c].out.skip \in Nat
      /\ call[c].value.rules \in Seq(Rule) /\ call[c].value.skip \in SUBSET ID
      /\ call[c].value \in Value
    BY <1>1, CallFields, Unfolded
<1>3. Tail(call[c].todo) \in Seq(Cell) /\ r \in Rule
    BY <1>1, <1>2, HeadTailProperties DEF Cell
<1>4. call' = [call EXCEPT ![c] = after]
    BY DEF AppendInPlace, Appended
<1>5. array \in Seq(Seq(Cell)) /\ maps \in Seq(SUBSET ID) /\ Len(array) \in Nat
      /\ Len(maps) \in Nat /\ s.at \in 1..Len(array) /\ s.len \in Nat
    <2>1. array \in Seq(Seq(Cell)) /\ maps \in Seq(SUBSET ID)
          /\ Len(array) \in Nat /\ Len(maps) \in Nat
        BY Unfolded
    <2> QED BY <1>1, <1>2, <2>1 DEF CallOK, Sound, Slice
<1>6. array' \in Seq(Seq(Cell)) /\ Len(array') = Len(array)
      /\ Len(array'[s.at]) = Len(array[s.at])
      /\ (\A kept \in SUBSET (1..Len(array)) : s.at \notin kept => Grows(array, array', kept))
      /\ Cells(array', s2) = Append(Cells(array, s), r)
    <2>1. r \in Cell
        BY <1>3 DEF Cell
    <2>2. s \in Slice /\ s.at \in 1..Len(array) /\ s.len < Len(array[s.at])
        BY <1>1, <1>2, <1>5
    <2>3. array \in Seq(Seq(Cell)) /\ array' = [array EXCEPT ![s.at][s.len + 1] = r]
        BY <1>1, <1>5
    <2> HIDE DEF s, r
    <2> QED BY ONLY ZenonT(40), <2>1, <2>2, <2>3, AppendedInPlace
<1>7. after \in Call \ {Idle}
    <2>1. s2 \in Slice
        BY SMTT(40), <1>5 DEF Slice
    <2>2. value2 \in Value
        BY <1>2, <1>3, AppendProperties DEF Value
    <2>3. out2 \in Handle
        BY <1>2, <2>1 DEF Handle
    <2> HIDE DEF s2, out2, value2
    <2> QED BY <1>3, <2>2, <2>3 DEF Call, Cell, Idle
<1>8. call'[c] = after
    BY <1>2, <1>4
<1>9. CallOK(c)'
    <2>1. Content(call[c].out) = call[c].value /\ Sound(array, maps, call[c].out)
        BY <1>2 DEF CallOK
    <2>2. Cells(array, s) = call[c].value.rules
          /\ Keys(maps, call[c].out.skip) = call[c].value.skip
        BY <2>1 DEF Content, ContentIn
    <2>3. ContentIn(array', maps', out2) = value2
        BY <1>1, <1>6, <2>2 DEF ContentIn
    <2>4. s.len + 1 <= Len(array'[s.at])
        <3>1. array[s.at] \in Seq(Cell)
            BY <1>5, ElementOfSeq
        <3>2. Len(array[s.at]) \in Nat
            BY <3>1, LenProperties
        <3> HIDE DEF s
        <3> QED BY <1>1, <1>5, <1>6, <3>2
    <2>5. Sound(array', maps', out2)
        BY <1>1, <1>5, <1>6, <2>1, <2>4 DEF Sound
    <2>6. out2.rules.at # 0
        BY <1>1
    <2> HIDE DEF s, s2, out2, value2
    <2> QED BY <1>8, <2>3, <2>5, <2>6 DEF CallOK, Content
<1>10. Len(array') >= Len(array) /\ Len(maps') >= Len(maps) /\ maps' \in Seq(SUBSET ID)
       /\ \A kept \in SUBSET (1..Len(maps)) : Grows(maps, maps', kept)
    <2>1. maps' = maps
        BY <1>1
    <2> HIDE DEF s, s2
    <2>2. Len(array') = Len(array) /\ Len(array) \in Nat
        BY <1>5, <1>6
    <2> QED BY <1>5, <2>1, <2>2 DEF Grows
<1>11. after.out.rules.at = call[c].out.rules.at /\ after.out.skip = call[c].out.skip
    OBVIOUS
<1> HIDE DEF after
<1> QED BY <1>1, <1>2, <1>4, <1>6, <1>7, <1>9, <1>10, <1>11, OwnStepKeeps

LEMMA AppendGrowingKeeps == ASSUME IInv, NEW c \in Caller, AppendGrowing(c) PROVE SafeStep
<1> DEFINE s == call[c].out.rules
           r == Head(call[c].todo)
           old == Cells(array, s)
           s2 == [at |-> Len(array) + 1, len |-> s.len + 1]
           out2 == [rules |-> s2, skip |-> call[c].out.skip]
           value2 == [rules |-> Append(call[c].value.rules, r), skip |-> call[c].value.skip]
           after == [pc |-> "with", todo |-> Tail(call[c].todo), out |-> out2,
                     value |-> value2]
<1>1. call[c].pc = "with" /\ call[c].todo # <<>> /\ r # NilRule
      /\ UNCHANGED <<maps, handles, meant, lent>>
      /\ call' = [call EXCEPT ![c] = after]
    BY DEF AppendGrowing, Dropped, Appended
<1>2. PICK spare \in 0..Slack :
          array' = Append(array, Append(old, r) \o [i \in 1..spare |-> NilRule])
    BY DEF AppendGrowing
<1>3. c \in Busy /\ call[c].todo \in Seq(Cell) /\ CallOK(c) /\ call \in [Caller -> Call]
      /\ call[c].out \in Handle /\ s \in Slice /\ call[c].out.skip \in Nat
      /\ call[c].value.rules \in Seq(Rule) /\ call[c].value.skip \in SUBSET ID
      /\ call[c].value \in Value
    BY <1>1, CallFields, Unfolded
<1>4. Tail(call[c].todo) \in Seq(Cell) /\ r \in Rule
    BY <1>1, <1>3, HeadTailProperties DEF Cell
<1>5. array \in Seq(Seq(Cell)) /\ maps \in Seq(SUBSET ID) /\ Len(array) \in Nat
      /\ Len(maps) \in Nat /\ s.len \in Nat
    BY <1>3, Unfolded DEF Slice
<1>6. old \in Seq(Cell) /\ Len(old) = s.len
    <2>1. Sound(array, maps, call[c].out)
        BY <1>3 DEF CallOK
    <2>2. s.at \in 0..Len(array) /\ (s.at = 0 => s.len = 0)
          /\ (s.at # 0 => s.len <= Len(array[s.at]))
        BY <2>1 DEF Sound
    <2> HIDE DEF s
    <2> QED BY <1>3, <1>5, <2>2, CellsType
<1>7. array' \in Seq(Seq(Cell)) /\ Len(array') = Len(array) + 1
      /\ s.len + 1 <= Len(array'[Len(array) + 1])
      /\ (\A kept \in SUBSET (1..Len(array)) : Grows(array, array', kept))
      /\ Cells(array', s2) = Append(old, r)
    <2>1. r \in Cell /\ spare \in Nat
        BY <1>4, <1>2, HeapAssumption DEF Cell
    <2> DEFINE new == Append(array, Append(old, r) \o [i \in 1..spare |-> NilRule])
               s3 == [at |-> Len(array) + 1, len |-> Len(old) + 1]
    <2> HIDE DEF s, r, old
    <2>2. new \in Seq(Seq(Cell)) /\ Len(new) = Len(array) + 1
          /\ Len(old) + 1 <= Len(new[Len(array) + 1])
          /\ (\A kept \in SUBSET (1..Len(array)) : Grows(array, new, kept))
          /\ Cells(new, s3) = Append(old, r)
        BY ONLY ZenonT(40), <1>5, <1>6, <2>1, AppendedGrowing
    <2>3. array' = new /\ s3 = s2
        BY <1>2, <1>6
    <2> HIDE DEF new, s3, s2
    <2> QED BY <1>6, <2>2, <2>3
<1>8. after \in Call \ {Idle}
    <2>1. s2 \in Slice
        BY <1>5 DEF Slice
    <2>2. value2 \in Value
        BY <1>3, <1>4, AppendProperties DEF Value
    <2>3. out2 \in Handle
        BY <1>3, <2>1 DEF Handle
    <2> HIDE DEF s2, out2, value2
    <2> QED BY <1>4, <2>2, <2>3 DEF Call, Cell, Idle
<1>9. call'[c] = after
    BY <1>1, <1>3
<1>10. CallOK(c)'
    <2>1. Content(call[c].out) = call[c].value /\ Sound(array, maps, call[c].out)
        BY <1>3 DEF CallOK
    <2>2. old = call[c].value.rules /\ Keys(maps, call[c].out.skip) = call[c].value.skip
        BY <2>1 DEF Content, ContentIn
    <2>3. maps' = maps
        BY <1>1
    <2>4. ContentIn(array', maps', out2) = value2
        <3> HIDE DEF r, old, s2
        <3> QED BY <1>7, <2>2, <2>3 DEF ContentIn
    <2>5. Sound(array', maps', out2)
        <3>1. call[c].out.skip \in 0..Len(maps')
            BY <2>1, <2>3 DEF Sound
        <3>2. s2.at \in 0..Len(array') /\ s2.at # 0 /\ s2.len <= Len(array'[s2.at])
            BY <1>5, <1>7
        <3> HIDE DEF s, s2
        <3> QED BY <3>1, <3>2 DEF Sound
    <2>6. out2.rules.at # 0
        BY <1>5
    <2> HIDE DEF s, s2, out2, value2
    <2> QED BY <1>9, <2>4, <2>5, <2>6 DEF CallOK, Content
<1>11. Len(array') >= Len(array)
    BY <1>5, <1>7
<1>12. Len(maps') >= Len(maps) /\ maps' \in Seq(SUBSET ID)
       /\ \A kept \in SUBSET (1..Len(maps)) : Grows(maps, maps', kept)
    <2>1. maps' = maps
        BY <1>1
    <2> QED BY <1>5, <2>1 DEF Grows
<1>13. after.out.rules.at = Len(array) + 1 /\ after.out.skip = call[c].out.skip
    OBVIOUS
<1> HIDE DEF after
<1> QED BY <1>1, <1>3, <1>7, <1>8, <1>10, <1>11, <1>12, <1>13, OwnStepKeeps

LEMMA MarkSkippedKeeps == ASSUME IInv, NEW c \in Caller, MarkSkipped(c) PROVE SafeStep
<1> DEFINE m == call[c].out.skip
           id == Head(call[c].todo)
           value2 == [rules |-> call[c].value.rules, skip |-> call[c].value.skip \cup {id}]
           after == [pc |-> "without", todo |-> Tail(call[c].todo), out |-> call[c].out,
                     value |-> value2]
<1>1. call[c].pc = "without" /\ call[c].todo # <<>>
      /\ maps' = [maps EXCEPT ![m] = maps[m] \cup {id}]
      /\ UNCHANGED <<array, handles, meant, lent>>
      /\ call' = [call EXCEPT ![c] = after]
    BY DEF MarkSkipped
<1>2. c \in Busy /\ call[c].todo \in Seq(ID) /\ CallOK(c) /\ call \in [Caller -> Call]
      /\ call[c].out \in Handle /\ m \in Nat /\ call[c].value \in Value
      /\ call[c].value.rules \in Seq(Rule) /\ call[c].value.skip \in SUBSET ID
    BY <1>1, CallFields, Unfolded
<1>3. Tail(call[c].todo) \in Seq(ID) /\ id \in ID
    BY <1>1, <1>2, HeadTailProperties
<1>4. array \in Seq(Seq(Cell)) /\ maps \in Seq(SUBSET ID) /\ Len(array) \in Nat
      /\ Len(maps) \in Nat
    BY Unfolded
<1>5. m \in 1..Len(maps) /\ Sound(array, maps, call[c].out)
      /\ Content(call[c].out) = call[c].value
    BY <1>1, <1>2, <1>4 DEF CallOK, Sound
<1>6. maps[m] \in SUBSET ID
    BY <1>4, <1>5, ElementOfSeq
<1>7. maps' \in Seq(SUBSET ID) /\ Len(maps') = Len(maps) /\ maps'[m] = maps[m] \cup {id}
      /\ \A kept \in SUBSET (1..Len(maps)) : m \notin kept => Grows(maps, maps', kept)
    <2> DEFINE e == maps[m] \cup {id}
    <2>1. e \in SUBSET ID
        BY <1>3, <1>6
    <2>2. maps' = [maps EXCEPT ![m] = e]
        BY <1>1
    <2> HIDE DEF e, m
    <2> DEFINE new == [maps EXCEPT ![m] = e]
    <2>4. new \in Seq(SUBSET ID) /\ Len(new) = Len(maps) /\ new[m] = e
        BY <1>4, <1>5, <2>1, ExceptSeq
    <2>5. ASSUME NEW kept \in SUBSET (1..Len(maps)), m \notin kept
          PROVE  Grows(maps, new, kept)
        BY <1>4, <1>5, <2>1, <2>5, WriteGrows
    <2> HIDE DEF new
    <2>3. maps' \in Seq(SUBSET ID) /\ Len(maps') = Len(maps) /\ maps'[m] = e
          /\ \A kept \in SUBSET (1..Len(maps)) : m \notin kept => Grows(maps, maps', kept)
        BY <2>2, <2>4, <2>5 DEF new
    <2> QED BY <2>3 DEF e
<1>8. after \in Call \ {Idle}
    <2>1. value2 \in Value
        BY <1>2, <1>3 DEF Value
    <2> HIDE DEF value2
    <2> QED BY <1>2, <1>3, <2>1 DEF Call, Idle
<1>9. call'[c] = after
    BY <1>1, <1>2
<1>10. CallOK(c)'
    <2>1. array' = array
        BY <1>1
    <2>2. Cells(array', call[c].out.rules) = call[c].value.rules
          /\ Keys(maps, m) = call[c].value.skip
        BY <1>5, <2>1 DEF Content, ContentIn
    <2>3. Keys(maps', m) = call[c].value.skip \cup {id}
        <3>1. m # 0
            BY <1>5
        <3> HIDE DEF m, id
        <3> QED BY <1>7, <2>2, <3>1 DEF Keys
    <2>4. ContentIn(array', maps', call[c].out) = value2
        <3> HIDE DEF id
        <3> QED BY <2>2, <2>3 DEF ContentIn
    <2>5. Sound(array', maps', call[c].out)
        BY <1>5, <1>7, <2>1 DEF Sound
    <2>6. call[c].out.rules.at # 0 /\ call[c].out.skip # 0
        BY <1>2, <1>5 DEF CallOK
    <2> HIDE DEF m, value2
    <2> QED BY <1>9, <2>4, <2>5, <2>6 DEF CallOK, Content
<1>11. array' \in Seq(Seq(Cell)) /\ Len(array') >= Len(array) /\ Len(maps') >= Len(maps)
       /\ \A kept \in SUBSET (1..Len(array)) : Grows(array, array', kept)
    <2>1. array' = array
        BY <1>1
    <2> QED BY <1>4, <1>7, <2>1 DEF Grows
<1>12. after.out.rules.at = call[c].out.rules.at /\ after.out.skip = call[c].out.skip
    OBVIOUS
<1> HIDE DEF after
<1> QED BY <1>1, <1>2, <1>7, <1>8, <1>10, <1>11, <1>12, OwnStepKeeps

LEMMA ReturnKeeps == ASSUME IInv, NEW c \in Caller, Return(c) PROVE SafeStep
<1>1. c \in Busy /\ UNCHANGED <<array, maps, lent>>
      /\ handles' = Append(handles, call[c].out) /\ meant' = Append(meant, call[c].value)
      /\ call' = [call EXCEPT ![c] = Idle]
    BY DEF Return
<1>2. call[c].out \in Handle /\ call[c].value \in Value /\ CallOK(c) /\ Private(c)
      /\ call \in [Caller -> Call]
      /\ handles \in Seq(Handle) /\ meant \in Seq(Value) /\ Len(meant) = Len(handles)
    BY <1>1, Unfolded
<1>3. handles' \in Seq(Handle) /\ meant' \in Seq(Value) /\ Len(handles') = Len(handles) + 1
      /\ Len(meant') = Len(meant) + 1
      /\ handles'[Len(handles) + 1] = call[c].out /\ meant'[Len(handles) + 1] = call[c].value
      /\ \A i \in 1..Len(handles) : handles'[i] = handles[i] /\ meant'[i] = meant[i]
    BY <1>1, <1>2, AppendProperties
<1>4. DOMAIN handles = 1..Len(handles) /\ DOMAIN handles' = 1..Len(handles')
      /\ Len(handles) \in Nat
    BY <1>2, <1>3, LenProperties
<1>5. DOMAIN handles' = DOMAIN handles \cup {Len(handles) + 1}
    BY <1>3, <1>4
<1>6. ASSUME NEW i \in DOMAIN handles'
      PROVE  Sound(array, maps, handles'[i]) /\ ContentIn(array, maps, handles'[i]) = meant'[i]
    <2>1. CASE i \in DOMAIN handles
        BY <1>3, <1>4, <2>1, Unfolded DEF Content
    <2>2. CASE i = Len(handles) + 1
        BY <1>2, <1>3, <2>2 DEF CallOK, Content
    <2> QED BY <1>5, <2>1, <2>2
<1>7. NeverMutated'
    BY <1>1, <1>6 DEF NeverMutated, Content
<1>8. Published' \subseteq Published \cup {call[c].out.rules.at}
      /\ PublishedMap' \subseteq PublishedMap \cup ({call[c].out.skip} \ {0})
    BY SMTT(40), <1>3, <1>4, <1>5 DEF Published, PublishedMap
<1>9. Idle.pc = "idle" /\ Idle \in Call
    BY DEF Idle, Call
<1>10. Busy' = Busy \ {c} /\ \A d \in Busy' : call'[d] = call[d]
    BY <1>1, <1>2, <1>9 DEF Busy
<1>11. TypeOK'
    <2>1. call' \in [Caller -> Call]
        BY <1>1, <1>2, <1>9
    <2>2. array' \in Seq(Seq(Cell)) /\ maps' \in Seq(SUBSET ID) /\ lent' \subseteq DOMAIN array'
        BY <1>1, Unfolded DEF IInv, TypeOK
    <2>3. \A i \in DOMAIN handles' : Sound(array', maps', handles'[i])
        BY <1>1, <1>6
    <2> QED BY <1>2, <1>3, <2>1, <2>2, <2>3 DEF TypeOK, Cell
<1>12. ASSUME NEW d \in Busy'
       PROVE  CallOK(d)' /\ Private(d)'
    <2>1. d \in Busy /\ d # c /\ CallOK(d) /\ Private(d)
        BY <1>10, Unfolded
    <2>2. CallOK(d)'
        BY <1>1, <1>10, <2>1 DEF CallOK, Content
    <2>3. call[d].out.rules.at # call[c].out.rules.at
          /\ (call[c].out.skip = call[d].out.skip => call[d].out.skip = 0)
        BY <1>1, <2>1 DEF Private
    <2>4. call[d].out.rules.at \notin Published' \cup lent' /\ call[d].out.skip \notin PublishedMap'
        BY <1>1, <1>8, <2>1, <2>3 DEF Private
    <2> QED BY <1>10, <2>1, <2>2, <2>4 DEF Private
<1>13. Published' \cap lent' = {}
    BY <1>1, <1>2, <1>8 DEF Private, IInv
<1>14. Grows(array, array', Published) /\ Grows(maps, maps', PublishedMap)
    BY <1>1, Unfolded DEF Grows
<1> QED BY <1>7, <1>11, <1>12, <1>13, <1>14 DEF IInv, SafeStep

\* Steps that leave every call, handle and map alone and write, if anything,
\* to a lent array.
LEMMA LentStepKeeps ==
    ASSUME IInv, UNCHANGED <<maps, handles, meant, call>>,
           array' \in Seq(Seq(Cell)), Len(array') >= Len(array),
           \A kept \in SUBSET (1..Len(array)) :
               kept \cap lent = {} => Grows(array, array', kept),
           lent' \subseteq lent \cup {Len(array) + 1}, lent' \subseteq 1..Len(array')
    PROVE  SafeStep
<1>1. Len(array) \in Nat /\ Len(array') \in Nat /\ Len(maps) \in Nat
      /\ Len(maps') \in Nat /\ maps' = maps
    BY Unfolded, LenProperties
<1>2. Published \subseteq 1..Len(array) /\ PublishedMap \subseteq 1..Len(maps)
      /\ Published \cap lent = {}
    BY Unfolded DEF IInv
<1>3. \A kept : Grows(maps, maps', kept)
    BY <1>1 DEF Grows
<1>4. Grows(array, array', Published)
    BY <1>2
<1>5. NeverMutated' /\ Published' = Published /\ PublishedMap' = PublishedMap
      /\ \A i \in DOMAIN handles' : Sound(array', maps', handles'[i])
    BY <1>1, <1>3, <1>4, KeepsHandles
<1>6. TypeOK'
    <2>1. DOMAIN array' = 1..Len(array')
        BY LenProperties
    <2>2. handles' \in Seq(Handle) /\ meant' \in Seq(Value) /\ Len(meant') = Len(handles')
          /\ call' \in [Caller -> Call] /\ maps' \in Seq(SUBSET ID)
        BY <1>1, Unfolded
    <2> QED BY <1>5, <2>1, <2>2 DEF TypeOK, Cell
<1>7. Busy' = Busy
    BY DEF Busy
<1>8. ASSUME NEW d \in Busy
      PROVE  CallOK(d)' /\ Private(d)'
    <2>1. CallOK(d) /\ Private(d) /\ call[d].out \in Handle
        BY Unfolded
    <2>2. call[d].out.rules.at \in 1..Len(array) /\ call[d].out.rules.at \notin lent
        BY <1>1, <2>1 DEF CallOK, Private, Sound
    <2>3. Grows(array, array', {call[d].out.rules.at})
        BY <2>2
    <2>4. CallOK(d)'
        BY <1>1, <1>3, <2>3, KeepsCall
    <2>5. call[d].out.rules.at \notin lent'
        BY SMTT(30), <1>1, <2>2
    <2> QED BY <1>5, <1>7, <2>1, <2>4, <2>5 DEF Private
<1>9. Published' \cap lent' = {}
    BY <1>1, <1>2, <1>5
<1> QED BY <1>3, <1>4, <1>5, <1>6, <1>7, <1>8, <1>9 DEF IInv, SafeStep

LEMMA RulesKeeps ==
    ASSUME IInv, NEW c \in Caller, NEW rs \in DOMAIN handles, Rules(c, rs) PROVE SafeStep
<1> DEFINE s == handles[rs].rules
<1>1. array' = CopiedSlice(s).arrays /\ lent' = lent \cup ({CopiedSlice(s).slice.at} \ {0})
      /\ UNCHANGED <<maps, handles, meant, call>>
    BY DEF Rules, RulesOf
<1>2. handles[rs] \in Handle /\ Sound(array, maps, handles[rs])
      /\ array \in Seq(Seq(Cell)) /\ Len(array) \in Nat /\ lent \subseteq 1..Len(array)
    BY Unfolded
<1>3. s \in Slice
    BY <1>2 DEF Handle
<1>4. array' \in Seq(Seq(Cell)) /\ Len(array') = Len(array) + 1
      /\ CopiedSlice(s).slice.at = Len(array) + 1
      /\ \A kept \in SUBSET (1..Len(array)) : Grows(array, array', kept)
    <2>1. s.at \in 0..Len(array) /\ (s.at = 0 => s.len = 0)
          /\ (s.at # 0 => s.len <= Len(array[s.at]))
        BY <1>2 DEF Sound
    <2> HIDE DEF s
    <2>2. CopiedSlice(s).arrays \in Seq(Seq(Cell))
          /\ Len(CopiedSlice(s).arrays) = Len(array) + 1
          /\ CopiedSlice(s).slice = [at |-> Len(array) + 1, len |-> s.len]
          /\ \A kept \in SUBSET (1..Len(array)) : Grows(array, CopiedSlice(s).arrays, kept)
        BY <1>2, <1>3, <2>1, CopiedSliceFacts
    <2> QED BY <1>1, <2>2
<1>5. lent' \subseteq lent \cup {Len(array) + 1} /\ lent' \subseteq 1..Len(array')
      /\ Len(array') >= Len(array)
    BY <1>1, <1>2, <1>4
<1> QED BY <1>1, <1>4, <1>5, LentStepKeeps

LEMMA OverwriteKeeps ==
    ASSUME IInv, NEW c \in Caller, NEW at \in lent, NEW i \in DOMAIN array[at], NEW r \in Rule,
           Overwrite(c, at, i, r)
    PROVE  SafeStep
<1> DEFINE cells == [array[at] EXCEPT ![i] = r]
<1>1. array' = [array EXCEPT ![at] = cells] /\ UNCHANGED <<maps, handles, meant, lent, call>>
    BY DEF Overwrite
<1>2. array \in Seq(Seq(Cell)) /\ Len(array) \in Nat /\ lent \subseteq 1..Len(array)
      /\ at \in 1..Len(array)
    BY Unfolded
<1>3. array[at] \in Seq(Cell)
    BY <1>2, ElementOfSeq
<1>4. i \in 1..Len(array[at]) /\ r \in Cell
    BY <1>3, LenProperties DEF Cell
<1>5. cells \in Seq(Cell)
    BY <1>3, <1>4, ExceptSeq
<1> DEFINE new == [array EXCEPT ![at] = cells]
<1> HIDE DEF cells
<1>6. new \in Seq(Seq(Cell)) /\ Len(new) = Len(array)
    BY <1>2, <1>5, ExceptSeq
<1>7. ASSUME NEW kept \in SUBSET (1..Len(array)), kept \cap lent = {}
      PROVE  Grows(array, new, kept)
    BY <1>2, <1>5, <1>7, WriteGrows
<1> HIDE DEF new
<1>8. array' = new
    BY <1>1 DEF new
<1>9. Len(array') >= Len(array) /\ lent' \subseteq lent \cup {Len(array) + 1}
      /\ lent' \subseteq 1..Len(array')
    BY <1>1, <1>2, <1>6, <1>8
<1> QED BY <1>1, <1>6, <1>7, <1>8, <1>9, LentStepKeeps

LEMMA StepKeeps == IInv /\ [Next]_vars => SafeStep
<1> SUFFICES ASSUME IInv, [Next]_vars
             PROVE  SafeStep
    OBVIOUS
<1>1. ASSUME NEW c \in Caller, NEW rs \in DOMAIN handles, NEW args \in RuleArgs,
             With(c, rs, args)
      PROVE  SafeStep
    <2>1. args \in Seq(Cell)
        BY HeapAssumption DEF Cell
    <2>2. handles[rs].skip \in 0..Len(maps) /\ maps \in Seq(SUBSET ID)
        BY Unfolded DEF Sound
    <2>3. FreshMap(handles[rs].skip, CopiedMap(handles[rs].skip))
        BY <2>2, CopiedMapFacts
    <2> QED BY <1>1, <2>1, <2>3, BeginKeeps DEF With
<1>2. ASSUME NEW c \in Caller, NEW rs \in DOMAIN handles, NEW ids \in IdArgs,
             Without(c, rs, ids)
      PROVE  SafeStep
    <2>1. ids \in Seq(ID)
        BY HeapAssumption
    <2>2. handles[rs].skip \in 0..Len(maps) /\ maps \in Seq(SUBSET ID)
        BY Unfolded DEF Sound
    <2>3. FreshMap(handles[rs].skip, WithMap(CopiedMap(handles[rs].skip)))
          /\ WithMap(CopiedMap(handles[rs].skip)).map # 0
        BY <2>2, WithMapFacts
    <2> QED BY <1>2, <2>1, <2>3, BeginKeeps DEF Without
<1>3. ASSUME UNCHANGED vars
      PROVE  SafeStep
    <2>1. UNCHANGED <<array, maps, handles, meant, lent, call>>
        BY <1>3 DEF vars
    <2>2. Published' = Published /\ PublishedMap' = PublishedMap /\ Busy' = Busy
        BY <2>1 DEF Published, PublishedMap, Busy
    <2>3. TypeOK'
        BY <2>1 DEF IInv, TypeOK
    <2>4. NeverMutated'
        BY <2>1 DEF IInv, NeverMutated, Content
    <2>5. \A c \in Busy : CallOK(c)' /\ Private(c)'
        BY <2>1, <2>2 DEF IInv, CallOK, Private, Content
    <2>6. Grows(array, array', Published) /\ Grows(maps, maps', PublishedMap)
        BY <2>1, Unfolded DEF Grows
    <2> QED BY <2>1, <2>2, <2>3, <2>4, <2>5, <2>6 DEF IInv, SafeStep
<1> QED BY <1>1, <1>2, <1>3, RulesKeeps, SkipNilKeeps, AppendInPlaceKeeps,
           AppendGrowingKeeps, MarkSkippedKeeps, ReturnKeeps, OverwriteKeeps DEF Next

LEMMA InitHolds == Init => IInv
<1> SUFFICES ASSUME Init PROVE IInv
    OBVIOUS
<1>1. Busy = {}
    BY DEF Init, Busy, Idle
<1> DEFINE zero == [rules |-> NilSlice, skip |-> 0]
           none == [rules |-> <<>>, skip |-> {}]
<1>2. zero \in Handle /\ none \in Value
    BY EmptySeq DEF Handle, Slice, NilSlice, Value
<1>3. handles = <<zero>> /\ meant = <<none>> /\ array = <<>> /\ maps = <<>> /\ lent = {}
    BY DEF Init
<1>4. Sound(<<>>, <<>>, zero) /\ ContentIn(<<>>, <<>>, zero) = none
    <2>1. zero.rules.at = 0 /\ zero.rules.len = 0 /\ zero.skip = 0
          /\ none.rules = <<>> /\ none.skip = {}
        BY DEF NilSlice
    <2>2. Len(<<>>) = 0
        BY EmptySeq
    <2>3. Cells(<<>>, zero.rules) = <<>> /\ Keys(<<>>, zero.skip) = {}
        BY <2>1 DEF Cells, Keys
    <2>4. Sound(<<>>, <<>>, zero)
        BY <2>1, <2>2 DEF Sound
    <2> QED BY <2>3, <2>4 DEF ContentIn
<1> HIDE DEF zero, none
<1>5. handles \in Seq(Handle) /\ meant \in Seq(Value) /\ Len(meant) = Len(handles)
      /\ DOMAIN handles = {1} /\ handles[1] = zero /\ meant[1] = none
    BY <1>2, <1>3
<1>6. NeverMutated
    BY <1>3, <1>4, <1>5 DEF NeverMutated, Content
<1>7. call \in [Caller -> Call]
    BY DEF Init, Call
<1>8. array \in Seq(Seq(Cell)) /\ maps \in Seq(SUBSET ID)
    BY <1>3, EmptySeq
<1>9. TypeOK
    BY <1>3, <1>4, <1>5, <1>7, <1>8 DEF TypeOK, Cell
<1> QED BY <1>1, <1>3, <1>6, <1>9 DEF IInv

THEOREM HeapInvariant == Spec => []IInv
<1>1. IInv /\ [Next]_vars => IInv'
    BY StepKeeps DEF SafeStep
<1> QED BY <1>1, InitHolds, PTL DEF Spec

(* The types of the heap, and no RuleSet holding a nil rule.              *)
THEOREM HeapTypeCorrect == Spec => []TypeOK
<1>1. IInv => TypeOK
    BY DEF IInv
<1> QED BY <1>1, HeapInvariant, PTL

(* No RuleSet the program obtained ever changes.                          *)
THEOREM RuleSetsAreImmutable == Spec => []NeverMutated
<1>1. IInv => NeverMutated
    BY DEF IInv
<1> QED BY <1>1, HeapInvariant, PTL

(* No step writes to memory that a RuleSet already returned refers to.    *)
THEOREM SharedMemoryIsReadOnly == Spec => NoWriteToShared
<1>1. IInv /\ [Next]_vars =>
        [/\ \A at \in Published : array'[at] = array[at]
         /\ \A m \in PublishedMap : maps'[m] = maps[m]]_vars
    BY StepKeeps DEF SafeStep, Grows
<1> QED BY <1>1, HeapInvariant, PTL DEF Spec, NoWriteToShared
-------------------------------------------------------------------------------
(* Plain values.  A call in progress has gone through some of its          *)
(* arguments, and its value is what With or Without of a RuleSet the       *)
(* program holds makes of these; so Return adds what it makes of all.      *)

\* The rules among the first arguments that are not nil, as in RuleSetValues.
Kept(args) ==
    CHOOSE kept : kept = [n \in 0..Len(args) |->
                             IF n = 0 THEN <<>>
                             ELSE IF args[n] = NilRule THEN kept[n - 1]
                             ELSE Append(kept[n - 1], args[n])]

\* todo is what is left of args after the first n.
LeftOf(args, n, todo) ==
    Len(todo) = Len(args) - n /\ \A i \in 1..Len(todo) : todo[i] = args[n + i]

OnWith(c, rs, args, n) ==
    /\ rs \in DOMAIN meant /\ args \in RuleArgs /\ n \in 0..Len(args)
    /\ LeftOf(args, n, call[c].todo)
    /\ Kept(args)[n] \in Seq(Rule)
    /\ call[c].value = [rules |-> meant[rs].rules \o Kept(args)[n], skip |-> meant[rs].skip]

OnWithout(c, rs, ids, n) ==
    /\ rs \in DOMAIN meant /\ ids \in IdArgs /\ n \in 0..Len(ids)
    /\ LeftOf(ids, n, call[c].todo)
    /\ call[c].value = [rules |-> meant[rs].rules,
                        skip |-> meant[rs].skip \cup {ids[i] : i \in 1..n}]

OnItsWay(c) ==
    /\ call[c].pc = "with" => \E rs, args, n : OnWith(c, rs, args, n)
    /\ call[c].pc = "without" => \E rs, ids, n : OnWithout(c, rs, ids, n)

\* The recursive function exists.
LEMMA KeptExists ==
    ASSUME NEW args \in Seq(Cell)
    PROVE  \E kept : kept = [n \in 0..Len(args) |->
                                IF n = 0 THEN <<>>
                                ELSE IF args[n] = NilRule THEN kept[n - 1]
                                ELSE Append(kept[n - 1], args[n])]
<1> DEFINE step == [n \in 1..Len(args) |->
                       [s \in Seq(Cell) |-> IF args[n] = NilRule THEN s ELSE Append(s, args[n])]]
<1>1. Len(args) \in Nat /\ \A n \in 1..Len(args) : args[n] \in Cell
    BY LenProperties, ElementOfSeq
<1>2. step \in [1..Len(args) -> [Seq(Cell) -> Seq(Cell)]]
    <2>1. ASSUME NEW n \in 1..Len(args), NEW s \in Seq(Cell)
          PROVE  (IF args[n] = NilRule THEN s ELSE Append(s, args[n])) \in Seq(Cell)
        BY <1>1, <2>1, AppendProperties
    <2> QED BY <2>1
<1>3. <<>> \in Seq(Cell)
    BY EmptySeq
<1> HIDE DEF step
<1>4. PICK f : Recurses(Seq(Cell), <<>>, Len(args), step, f)
    BY <1>1, <1>2, <1>3, RecursionExists
<1>5. f \in [0..Len(args) -> Seq(Cell)] /\ f[0] = <<>>
      /\ \A n \in 1..Len(args) : f[n] = step[n][f[n - 1]]
    BY <1>4 DEF Recurses
<1>6. ASSUME NEW n \in 0..Len(args)
      PROVE  f[n] = IF n = 0 THEN <<>>
                    ELSE IF args[n] = NilRule THEN f[n - 1] ELSE Append(f[n - 1], args[n])
    <2>1. CASE n = 0
        BY <1>5, <2>1
    <2>2. CASE n # 0
        <3>1. n \in 1..Len(args) /\ n - 1 \in 0..Len(args)
            BY <1>1, <2>2
        <3>2. f[n - 1] \in Seq(Cell)
            BY <1>5, <3>1
        <3> QED BY <1>5, <2>2, <3>1, <3>2 DEF step
    <2> QED BY <2>1, <2>2
<1>7. f = [n \in 0..Len(args) |-> f[n]]
    BY <1>5
<1>8. f = [n \in 0..Len(args) |->
              IF n = 0 THEN <<>>
              ELSE IF args[n] = NilRule THEN f[n - 1]
              ELSE Append(f[n - 1], args[n])]
    BY <1>6, <1>7
<1> QED BY <1>8

LEMMA KeptFacts ==
    ASSUME NEW args \in Seq(Cell)
    PROVE  /\ Kept(args)[0] = <<>>
           /\ \A n \in 1..Len(args) :
                  Kept(args)[n] = IF args[n] = NilRule THEN Kept(args)[n - 1]
                                  ELSE Append(Kept(args)[n - 1], args[n])
           /\ Values!NonNil(args) = Kept(args)[Len(args)]
<1>1. Kept(args) = [n \in 0..Len(args) |->
                        IF n = 0 THEN <<>>
                        ELSE IF args[n] = NilRule THEN Kept(args)[n - 1]
                        ELSE Append(Kept(args)[n - 1], args[n])]
    BY KeptExists DEF Kept
<1>2. Len(args) \in Nat
    BY LenProperties
<1>3. Values!NonNil(args) = Kept(args)[Len(args)]
    BY DEF Values!NonNil, Kept
<1> DEFINE k == Kept(args)
<1> HIDE DEF k
<1>4. k = [n \in 0..Len(args) |-> IF n = 0 THEN <<>>
                                  ELSE IF args[n] = NilRule THEN k[n - 1]
                                  ELSE Append(k[n - 1], args[n])]
    BY <1>1 DEF k
<1>5. k[0] = <<>>
    BY <1>2, <1>4
<1>6. ASSUME NEW n \in 1..Len(args)
      PROVE  k[n] = IF args[n] = NilRule THEN k[n - 1] ELSE Append(k[n - 1], args[n])
    <2>1. n \in 0..Len(args) /\ n # 0
        BY <1>2
    <2> QED BY <1>4, <2>1
<1> QED BY <1>3, <1>5, <1>6 DEF k

\* One more element at the end of the second part.
LEMMA AppendToConcat ==
    ASSUME NEW S, NEW s \in Seq(S), NEW t \in Seq(S), NEW e \in S
    PROVE  s \o Append(t, e) = Append(s \o t, e)
<1>1. s \o t \in Seq(S)
    BY ConcatProperties
<1>2. <<e>> \in Seq(S)
    OBVIOUS
<1>3. Append(t, e) = t \o <<e>> /\ Append(s \o t, e) = (s \o t) \o <<e>>
    BY <1>1, AppendIsConcat
<1>4. (s \o t) \o <<e>> = s \o (t \o <<e>>)
    BY <1>2, ConcatAssociative
<1> QED BY <1>3, <1>4

\* The next argument is the head of what is left.
LEMMA NextArgument ==
    ASSUME NEW S, NEW args \in Seq(S), NEW todo \in Seq(S), NEW n \in 0..Len(args),
           LeftOf(args, n, todo), todo # <<>>
    PROVE  /\ n + 1 \in 1..Len(args) /\ Head(todo) = args[n + 1]
           /\ LeftOf(args, n + 1, Tail(todo))
<1>1. Len(args) \in Nat /\ Len(todo) \in Nat
    BY LenProperties
<1>2. Len(todo) # 0
    BY EmptySeq
<1>3. Len(todo) = Len(args) - n /\ \A i \in 1..Len(todo) : todo[i] = args[n + i]
    BY DEF LeftOf
<1>4. n \in Nat /\ 1 \in 1..Len(todo) /\ n + 1 \in 1..Len(args)
    BY <1>1, <1>2, <1>3
<1>5. Head(todo) = todo[1] /\ Len(Tail(todo)) = Len(todo) - 1
      /\ \A i \in 1..Len(Tail(todo)) : Tail(todo)[i] = todo[i + 1]
    BY HeadTailProperties
<1>6. Head(todo) = args[n + 1]
    BY <1>3, <1>4, <1>5
<1>7. ASSUME NEW i \in 1..Len(Tail(todo))
      PROVE  Tail(todo)[i] = args[(n + 1) + i]
    <2>1. i + 1 \in 1..Len(todo) /\ n + (i + 1) = (n + 1) + i
        BY <1>1, <1>4, <1>5
    <2> QED BY <1>3, <1>5, <2>1
<1>8. Len(Tail(todo)) = Len(args) - (n + 1)
    BY <1>1, <1>3, <1>4, <1>5
<1> QED BY <1>4, <1>6, <1>7, <1>8 DEF LeftOf

\* A call that does not move is on its way as before, whatever is returned.
LEMMA StaysOnItsWay ==
    ASSUME NEW c, OnItsWay(c), call'[c] = call[c],
           DOMAIN meant \subseteq DOMAIN meant', \A i \in DOMAIN meant : meant'[i] = meant[i]
    PROVE  OnItsWay(c)'
<1>1. \A rs, args, n : OnWith(c, rs, args, n) => OnWith(c, rs, args, n)'
    BY DEF OnWith
<1>2. \A rs, ids, n : OnWithout(c, rs, ids, n) => OnWithout(c, rs, ids, n)'
    BY DEF OnWithout
<1> QED BY <1>1, <1>2 DEF OnItsWay

\* A call starts with all its arguments before it.
LEMMA BeginOnItsWay ==
    ASSUME IInv, NEW c \in Caller, NEW rs \in DOMAIN handles, NEW slice, NEW map, NEW todo, NEW pc,
           \/ pc = "with" /\ todo \in RuleArgs
           \/ pc = "without" /\ todo \in IdArgs,
           Begin(c, rs, pc, todo, slice, map)
    PROVE  OnItsWay(c)'
<1>1. call \in [Caller -> Call] /\ rs \in DOMAIN meant /\ meant[rs] \in Value
    BY Unfolded
<1>2. meant' = meant /\ call'[c].pc = pc /\ call'[c].todo = todo /\ call'[c].value = meant[rs]
    BY <1>1 DEF Begin
<1>3. meant[rs] = [rules |-> meant[rs].rules, skip |-> meant[rs].skip]
      /\ meant[rs].rules \in Seq(Rule)
    BY <1>1 DEF Value
<1>4. ASSUME pc = "with"
      PROVE  OnWith(c, rs, todo, 0)'
    <2>1. todo \in Seq(Cell) /\ todo \in RuleArgs
        BY <1>4, HeapAssumption DEF Cell
    <2>2. Len(todo) \in Nat /\ LeftOf(todo, 0, todo)
        BY <2>1, LenProperties DEF LeftOf
    <2>3. Kept(todo)[0] = <<>> /\ <<>> \in Seq(Rule)
        BY <2>1, KeptFacts, EmptySeq
    <2>4. meant[rs].rules \o <<>> = meant[rs].rules
        BY <1>3, ConcatEmptySeq
    <2> QED BY <1>1, <1>2, <1>3, <2>1, <2>2, <2>3, <2>4 DEF OnWith
<1>5. ASSUME pc = "without"
      PROVE  OnWithout(c, rs, todo, 0)'
    <2>1. todo \in Seq(ID) /\ todo \in IdArgs
        BY <1>5, HeapAssumption
    <2>2. Len(todo) \in Nat /\ LeftOf(todo, 0, todo)
        BY <2>1, LenProperties DEF LeftOf
    <2>3. meant[rs].skip \cup {todo[i] : i \in 1..0} = meant[rs].skip
        OBVIOUS
    <2> QED BY <1>1, <1>2, <1>3, <2>1, <2>2, <2>3 DEF OnWithout
<1> QED BY <1>2, <1>4, <1>5 DEF OnItsWay

\* A step of the loop of With that keeps or drops the next rule
LEMMA LoopOnItsWay ==
    ASSUME IInv, NEW c \in Caller, OnItsWay(c), call[c].pc = "with", call[c].todo # <<>>,
           meant' = meant, call'[c].pc = "with", call'[c].todo = Tail(call[c].todo),
           IF Head(call[c].todo) = NilRule
           THEN call'[c].value = call[c].value
           ELSE call'[c].value = [rules |-> Append(call[c].value.rules, Head(call[c].todo)),
                                  skip |-> call[c].value.skip]
    PROVE  OnItsWay(c)'
<1>1. PICK rs, args, n : OnWith(c, rs, args, n)
    BY DEF OnItsWay
<1>2. rs \in DOMAIN meant /\ args \in RuleArgs /\ n \in 0..Len(args) /\ LeftOf(args, n, call[c].todo)
      /\ Kept(args)[n] \in Seq(Rule)
      /\ call[c].value = [rules |-> meant[rs].rules \o Kept(args)[n], skip |-> meant[rs].skip]
    BY <1>1 DEF OnWith
<1>3. args \in Seq(Cell) /\ call[c].todo \in Seq(Cell) /\ meant[rs].rules \in Seq(Rule)
    BY <1>2, CallFields, Unfolded, HeapAssumption DEF Cell, Value
<1>4. n + 1 \in 1..Len(args) /\ Head(call[c].todo) = args[n + 1]
      /\ LeftOf(args, n + 1, Tail(call[c].todo))
    BY <1>2, <1>3, NextArgument
<1>5. (n + 1) - 1 = n /\ n + 1 \in 0..Len(args)
    BY <1>2, <1>4
<1>6. Kept(args)[n + 1] = IF args[n + 1] = NilRule THEN Kept(args)[n]
                          ELSE Append(Kept(args)[n], args[n + 1])
    BY <1>3, <1>4, <1>5, KeptFacts
<1>7. CASE args[n + 1] = NilRule
    <2>1. OnWith(c, rs, args, n + 1)'
        BY <1>2, <1>4, <1>5, <1>6, <1>7 DEF OnWith
    <2> QED BY <2>1 DEF OnItsWay
<1>8. CASE args[n + 1] # NilRule
    <2>1. args[n + 1] \in Rule
        BY <1>3, <1>4, <1>8, ElementOfSeq DEF Cell
    <2>2. Kept(args)[n + 1] = Append(Kept(args)[n], args[n + 1])
          /\ Append(Kept(args)[n], args[n + 1]) \in Seq(Rule)
        BY <1>2, <1>6, <1>8, <2>1, AppendProperties
    <2>3. meant[rs].rules \o Kept(args)[n + 1] = Append(meant[rs].rules \o Kept(args)[n], args[n + 1])
        <3>1. meant[rs].rules \o Append(Kept(args)[n], args[n + 1])
                  = Append(meant[rs].rules \o Kept(args)[n], args[n + 1])
            <4> DEFINE rules == meant[rs].rules
                       kept == Kept(args)[n]
                       r == args[n + 1]
            <4>1. rules \in Seq(Rule) /\ kept \in Seq(Rule) /\ r \in Rule
                BY <1>2, <1>3, <2>1
            <4> HIDE DEF rules, kept, r
            <4>2. rules \o Append(kept, r) = Append(rules \o kept, r)
                BY <4>1, AppendToConcat
            <4> QED BY <4>2 DEF rules, kept, r
        <3> QED BY <2>2, <3>1
    <2>4. call'[c].value = [rules |-> meant[rs].rules \o Kept(args)[n + 1], skip |-> meant[rs].skip]
        <3>1. call'[c].value = [rules |-> Append(call[c].value.rules, args[n + 1]),
                                skip |-> call[c].value.skip]
            BY <1>4, <1>8
        <3>2. call[c].value.rules = meant[rs].rules \o Kept(args)[n]
              /\ call[c].value.skip = meant[rs].skip
            <4> DEFINE value == call[c].value
                       rules == meant[rs].rules \o Kept(args)[n]
            <4>1. value = [rules |-> rules, skip |-> meant[rs].skip]
                BY <1>2
            <4> HIDE DEF value, rules
            <4>2. value.rules = rules /\ value.skip = meant[rs].skip
                BY <4>1
            <4> QED BY <4>2 DEF value, rules
        <3> QED BY <2>3, <3>1, <3>2
    <2>5. OnWith(c, rs, args, n + 1)'
        BY <1>2, <1>4, <1>5, <2>2, <2>4 DEF OnWith
    <2> QED BY <2>5 DEF OnItsWay
<1> QED BY <1>7, <1>8

\* A step of the loop of Without
LEMMA MarkOnItsWay ==
    ASSUME IInv, NEW c \in Caller, OnItsWay(c), MarkSkipped(c)
    PROVE  OnItsWay(c)'
<1>1. call[c].pc = "without" /\ call[c].todo # <<>> /\ meant' = meant
    BY DEF MarkSkipped
<1>2. call \in [Caller -> Call]
    BY Unfolded
<1>3. /\ call'[c].pc = "without" /\ call'[c].todo = Tail(call[c].todo)
      /\ call'[c].value = [rules |-> call[c].value.rules,
                           skip |-> call[c].value.skip \cup {Head(call[c].todo)}]
    BY <1>2 DEF MarkSkipped
<1>4. PICK rs, ids, n : OnWithout(c, rs, ids, n)
    BY <1>1 DEF OnItsWay
<1>5. rs \in DOMAIN meant /\ ids \in IdArgs /\ n \in 0..Len(ids) /\ LeftOf(ids, n, call[c].todo)
      /\ call[c].value = [rules |-> meant[rs].rules, skip |-> meant[rs].skip \cup {ids[i] : i \in 1..n}]
    BY <1>4 DEF OnWithout
<1>6. ids \in Seq(ID) /\ call[c].todo \in Seq(ID)
    BY <1>1, <1>5, CallFields, HeapAssumption
<1>7. n + 1 \in 1..Len(ids) /\ Head(call[c].todo) = ids[n + 1]
      /\ LeftOf(ids, n + 1, Tail(call[c].todo))
    BY <1>1, <1>5, <1>6, NextArgument
<1>8. n \in Nat /\ n + 1 \in 0..Len(ids) /\ 1..(n + 1) = (1..n) \cup {n + 1}
    BY <1>5, <1>7
<1>9. {ids[i] : i \in 1..(n + 1)} = {ids[i] : i \in 1..n} \cup {ids[n + 1]}
    BY <1>8
<1>10. call'[c].value = [rules |-> meant[rs].rules, skip |-> meant[rs].skip \cup {ids[i] : i \in 1..(n + 1)}]
    <2> DEFINE before == {ids[i] : i \in 1..n}
               after == {ids[i] : i \in 1..(n + 1)}
    <2>1. after = before \cup {ids[n + 1]} /\ call[c].value.skip = meant[rs].skip \cup before
          /\ call[c].value.rules = meant[rs].rules
        BY <1>5, <1>9
    <2> HIDE DEF before, after
    <2>2. call[c].value.skip \cup {ids[n + 1]} = meant[rs].skip \cup after
        BY <2>1
    <2>3. call'[c].value = [rules |-> meant[rs].rules, skip |-> meant[rs].skip \cup after]
        BY <1>3, <1>7, <2>1, <2>2
    <2> QED BY <2>3 DEF after
<1>11. OnWithout(c, rs, ids, n + 1)'
    BY <1>1, <1>3, <1>5, <1>7, <1>8, <1>10 DEF OnWithout
<1> QED BY <1>3, <1>11 DEF OnItsWay

\* Everything a caller does in a call keeps it on its way.
LEMMA StepOnItsWay ==
    ASSUME IInv, \A c \in Busy : OnItsWay(c), [Next]_vars
    PROVE  \A c \in Busy' : OnItsWay(c)'
<1> DEFINE Others(c) == \A d \in Caller \ {c} : call'[d] = call[d]
           Kept_ == DOMAIN meant \subseteq DOMAIN meant' /\ \A i \in DOMAIN meant : meant'[i] = meant[i]
<1>1. call \in [Caller -> Call] /\ Busy \subseteq Caller
    BY Unfolded
<1>2. ASSUME NEW c \in Caller, Others(c), Kept_, c \in Busy' => OnItsWay(c)'
      PROVE  \A d \in Busy' : OnItsWay(d)'
    <2> SUFFICES ASSUME NEW d \in Busy', d # c PROVE OnItsWay(d)'
        BY <1>2
    <2>1. d \in Caller /\ call'[d] = call[d] /\ d \in Busy
        BY <1>2 DEF Busy
    <2> QED BY <1>2, <2>1, StaysOnItsWay
<1>3. ASSUME UNCHANGED call, Kept_
      PROVE  \A d \in Busy' : OnItsWay(d)'
    BY <1>3, StaysOnItsWay DEF Busy
<1>4. CASE UNCHANGED vars
    BY <1>3, <1>4 DEF vars
<1>5. ASSUME NEW c \in Caller, NEW rs \in DOMAIN handles, NEW args \in RuleArgs, With(c, rs, args)
      PROVE  \A d \in Busy' : OnItsWay(d)'
    <2>1. OnItsWay(c)'
        BY <1>5, BeginOnItsWay DEF With
    <2>2. Others(c) /\ Kept_
        BY <1>1, <1>5 DEF With, Begin
    <2> QED BY <1>2, <2>1, <2>2
<1>6. ASSUME NEW c \in Caller, NEW rs \in DOMAIN handles, NEW ids \in IdArgs, Without(c, rs, ids)
      PROVE  \A d \in Busy' : OnItsWay(d)'
    <2>1. OnItsWay(c)'
        BY <1>6, BeginOnItsWay DEF Without
    <2>2. Others(c) /\ Kept_
        BY <1>1, <1>6 DEF Without, Begin
    <2> QED BY <1>2, <2>1, <2>2
<1>7. ASSUME NEW c \in Caller, SkipNil(c)
      PROVE  \A d \in Busy' : OnItsWay(d)'
    <2>1. call[c].pc = "with" /\ call[c].todo # <<>> /\ Head(call[c].todo) = NilRule
          /\ meant' = meant /\ call' = [call EXCEPT ![c].todo = Tail(@)]
        BY <1>7 DEF SkipNil, Dropped
    <2>2. c \in Busy /\ call[c] \in Call \ {Idle}
        BY <2>1, Unfolded DEF Busy
    <2>3. call'[c].pc = "with" /\ call'[c].todo = Tail(call[c].todo) /\ call'[c].value = call[c].value
        BY <1>1, <2>1, <2>2 DEF Call
    <2>4. OnItsWay(c)'
        BY <2>1, <2>2, <2>3, LoopOnItsWay
    <2>5. Others(c) /\ Kept_
        BY <1>1, <2>1
    <2> QED BY <1>2, <2>4, <2>5
<1>8. ASSUME NEW c \in Caller, AppendInPlace(c) \/ AppendGrowing(c)
      PROVE  \A d \in Busy' : OnItsWay(d)'
    <2>1. PICK slice : Appended(c, slice, Head(call[c].todo))
        BY <1>8 DEF AppendInPlace, AppendGrowing
    <2>2. call[c].pc = "with" /\ call[c].todo # <<>> /\ Head(call[c].todo) # NilRule /\ meant' = meant
        BY <1>8 DEF AppendInPlace, AppendGrowing, Dropped
    <2>3. c \in Busy
        BY <2>2 DEF Busy
    <2>4. call'[c].pc = "with" /\ call'[c].todo = Tail(call[c].todo)
          /\ call'[c].value = [rules |-> Append(call[c].value.rules, Head(call[c].todo)),
                               skip |-> call[c].value.skip]
        BY <1>1, <2>1 DEF Appended
    <2>5. OnItsWay(c)'
        BY <2>2, <2>3, <2>4, LoopOnItsWay
    <2>6. Others(c) /\ Kept_
        BY <1>1, <2>1, <2>2 DEF Appended
    <2> QED BY <1>2, <2>5, <2>6
<1>9. ASSUME NEW c \in Caller, MarkSkipped(c)
      PROVE  \A d \in Busy' : OnItsWay(d)'
    <2>1. c \in Busy
        BY <1>9 DEF Busy, MarkSkipped
    <2>2. OnItsWay(c)'
        BY <1>9, <2>1, MarkOnItsWay
    <2>3. Others(c) /\ Kept_
        BY <1>1, <1>9 DEF MarkSkipped
    <2> QED BY <1>2, <2>2, <2>3
<1>10. ASSUME NEW c \in Caller, Return(c)
       PROVE  \A d \in Busy' : OnItsWay(d)'
    <2>1. meant' = Append(meant, call[c].value) /\ call' = [call EXCEPT ![c] = Idle] /\ c \in Busy
        BY <1>10 DEF Return
    <2>2. meant \in Seq(Value) /\ call[c].value \in Value
        BY <2>1, Unfolded
    <2>3. Kept_
        <3>1. meant' \in Seq(Value) /\ Len(meant') = Len(meant) + 1 /\ Len(meant) \in Nat
              /\ \A i \in 1..Len(meant) : meant'[i] = meant[i]
            BY <2>1, <2>2, AppendProperties, LenProperties
        <3>2. DOMAIN meant = 1..Len(meant) /\ DOMAIN meant' = 1..Len(meant')
            BY <2>2, <3>1, LenProperties
        <3> QED BY <3>1, <3>2
    <2>4. c \notin Busy' /\ Others(c)
        BY <1>1, <2>1 DEF Busy, Idle
    <2> QED BY <1>2, <2>3, <2>4
<1>11. ASSUME NEW c \in Caller, NEW rs \in DOMAIN handles, Rules(c, rs)
       PROVE  \A d \in Busy' : OnItsWay(d)'
    BY <1>3, <1>11 DEF Rules
<1>12. ASSUME NEW c \in Caller, NEW at, NEW i, NEW r, Overwrite(c, at, i, r)
       PROVE  \A d \in Busy' : OnItsWay(d)'
    BY <1>3, <1>12 DEF Overwrite
<1>13. CASE Next
    BY <1>13, <1>5, <1>6, <1>7, <1>8, <1>9, <1>10, <1>11, <1>12 DEF Next
<1> QED BY <1>4, <1>13

\* What the program holds, read as values: these are the values meant.
Shown == [i \in DOMAIN handles |-> Content(handles[i])]

LEMMA ValuesAreMeant ==
    ASSUME IInv
    PROVE  Shown = meant
<1>1. meant \in Seq(Value) /\ DOMAIN meant = DOMAIN handles
      /\ \A i \in DOMAIN handles : Content(handles[i]) = meant[i]
    BY Unfolded
<1>2. meant = [i \in DOMAIN meant |-> meant[i]]
    BY <1>1, LenProperties
<1> QED BY <1>1, <1>2 DEF Shown

\* A RuleSet with another slice, and one with another filter
LEMMA ValueExcept ==
    ASSUME NEW v \in Value, NEW x
    PROVE  /\ [v EXCEPT !.rules = x] = [rules |-> x, skip |-> v.skip]
           /\ [v EXCEPT !.skip = x] = [rules |-> v.rules, skip |-> x]
BY DEF Value

\* With or Without returns.
LEMMA ReturnsAValue ==
    ASSUME IInv, NEW c \in Caller, OnItsWay(c), Return(c)
    PROVE  \E rs \in DOMAIN meant :
               \/ \E args \in RuleArgs :
                      meant' = Append(meant, [meant[rs] EXCEPT !.rules = @ \o Values!NonNil(args)])
               \/ \E ids \in IdArgs :
                      meant' = Append(meant, [meant[rs] EXCEPT !.skip = @ \cup Values!ToSet(ids)])
<1>1. c \in Busy /\ call[c].todo = <<>> /\ meant' = Append(meant, call[c].value)
    BY DEF Return
<1>2. call[c] \in Call \ {Idle} /\ \A i \in DOMAIN meant : meant[i] \in Value
    BY <1>1, Unfolded
<1>3. ASSUME call[c].pc = "with"
      PROVE  \E rs \in DOMAIN meant, args \in RuleArgs :
                 meant' = Append(meant, [meant[rs] EXCEPT !.rules = @ \o Values!NonNil(args)])
    <2>1. PICK rs, args, n : OnWith(c, rs, args, n)
        BY <1>3 DEF OnItsWay
    <2>2. rs \in DOMAIN meant /\ args \in RuleArgs /\ n \in 0..Len(args) /\ LeftOf(args, n, <<>>)
          /\ call[c].value = [rules |-> meant[rs].rules \o Kept(args)[n], skip |-> meant[rs].skip]
        BY <1>1, <2>1 DEF OnWith
    <2>3. args \in Seq(Cell) /\ Len(args) \in Nat
        BY <2>2, HeapAssumption, LenProperties DEF Cell
    <2>4. n = Len(args)
        BY <2>2, <2>3 DEF LeftOf
    <2>5. Kept(args)[n] = Values!NonNil(args)
        BY <2>3, <2>4, KeptFacts
    <2>6. call[c].value = [meant[rs] EXCEPT !.rules = @ \o Values!NonNil(args)]
        <3>1. meant[rs] \in Value
            BY <1>2, <2>2
        <3>2. call[c].value = [rules |-> meant[rs].rules \o Values!NonNil(args), skip |-> meant[rs].skip]
            BY <2>2, <2>5
        <3> QED BY <3>1, <3>2, ValueExcept
    <2> QED BY <1>1, <2>2, <2>6
<1>4. ASSUME call[c].pc = "without"
      PROVE  \E rs \in DOMAIN meant, ids \in IdArgs :
                 meant' = Append(meant, [meant[rs] EXCEPT !.skip = @ \cup Values!ToSet(ids)])
    <2>1. PICK rs, ids, n : OnWithout(c, rs, ids, n)
        BY <1>4 DEF OnItsWay
    <2>2. rs \in DOMAIN meant /\ ids \in IdArgs /\ n \in 0..Len(ids) /\ LeftOf(ids, n, <<>>)
          /\ call[c].value = [rules |-> meant[rs].rules, skip |-> meant[rs].skip \cup {ids[i] : i \in 1..n}]
        BY <1>1, <2>1 DEF OnWithout
    <2>3. ids \in Seq(ID) /\ Len(ids) \in Nat /\ DOMAIN ids = 1..Len(ids)
        BY <2>2, HeapAssumption, LenProperties
    <2>4. n = Len(ids)
        BY <2>2, <2>3 DEF LeftOf
    <2>5. {ids[i] : i \in 1..n} = Values!ToSet(ids)
        BY <2>3, <2>4 DEF Values!ToSet
    <2>6. call[c].value = [meant[rs] EXCEPT !.skip = @ \cup Values!ToSet(ids)]
        <3>1. meant[rs] \in Value
            BY <1>2, <2>2
        <3>2. call[c].value = [rules |-> meant[rs].rules, skip |-> meant[rs].skip \cup Values!ToSet(ids)]
            BY <2>2, <2>5
        <3> QED BY <3>1, <3>2, ValueExcept
    <2> QED BY <1>1, <2>2, <2>6
<1> QED BY <1>2, <1>3, <1>4 DEF Call

(* The heap implements plain values: whatever callers do to it, and in     *)
(* whatever order, each RuleSet returned is the value that With or Without *)
(* of an earlier one has, and every earlier one is still what it was.      *)
THEOREM HeapImplementsValues == Spec => ActsLikeValues
<1> DEFINE OnTheWay == \A c \in Busy : OnItsWay(c)
<1>1. Init => OnTheWay
    <2>1. Idle.pc = "idle"
        BY DEF Idle
    <2>2. Init => Busy = {}
        BY <2>1 DEF Init, Busy
    <2> QED BY <2>2
<1>2. IInv /\ OnTheWay /\ [Next]_vars => OnTheWay'
    BY StepOnItsWay
<1>3. Init => Values!Init
    <2> SUFFICES ASSUME Init PROVE Values!Init
        OBVIOUS
    <2>1. meant = <<[rules |-> <<>>, skip |-> {}]>>
        BY DEF Init
    <2> QED BY <2>1, InitHolds, ValuesAreMeant DEF Values!Init, Values!Zero, Shown
<1>4. IInv => Shown = meant
    BY ValuesAreMeant
<1>5. (IInv => Shown = meant)'
    BY <1>4, PTL
<1>6. IInv /\ IInv' /\ OnTheWay /\ [Next]_vars
          => [Values!Next]_[i \in DOMAIN handles |-> Content(handles[i])]
    <2> SUFFICES ASSUME IInv, IInv', OnTheWay, [Next]_vars
                 PROVE  [Values!Next]_[i \in DOMAIN handles |-> Content(handles[i])]
        OBVIOUS
    <2>1. [i \in DOMAIN handles |-> Content(handles[i])] = meant
        BY <1>4 DEF Shown
    <2>2. [i \in DOMAIN handles |-> Content(handles[i])]' = meant'
        BY <1>5 DEF Shown
    <2>3. CASE meant' = meant
        BY <2>1, <2>2, <2>3
    <2>4. ASSUME NEW c \in Caller, Return(c)
          PROVE  Values!Next
        <3>1. OnItsWay(c)
            BY <2>4 DEF Return
        <3>2. PICK rs \in DOMAIN meant :
                 \/ \E args \in RuleArgs :
                        meant' = Append(meant, [meant[rs] EXCEPT !.rules = @ \o Values!NonNil(args)])
                 \/ \E ids \in IdArgs :
                        meant' = Append(meant, [meant[rs] EXCEPT !.skip = @ \cup Values!ToSet(ids)])
            BY <2>4, <3>1, ReturnsAValue
        <3>3. CASE \E args \in RuleArgs :
                      meant' = Append(meant, [meant[rs] EXCEPT !.rules = @ \o Values!NonNil(args)])
            <4>1. \E args \in RuleArgs : Values!With(rs, args)
                BY <2>1, <2>2, <3>3 DEF Values!With
            <4>2. QED
                BY <2>1, <4>1 DEF Values!Next
        <3>4. CASE \E ids \in IdArgs :
                      meant' = Append(meant, [meant[rs] EXCEPT !.skip = @ \cup Values!ToSet(ids)])
            <4>1. \E ids \in IdArgs : Values!Without(rs, ids)
                BY <2>1, <2>2, <3>4 DEF Values!Without
            <4>2. QED
                BY <2>1, <4>1 DEF Values!Next
        <3> QED BY <3>2, <3>3, <3>4
    <2>5. meant' = meant \/ \E c \in Caller : Return(c)
        BY DEF Next, vars, With, Without, Begin, Rules, SkipNil, AppendInPlace, AppendGrowing, MarkSkipped, Overwrite
    <2> QED BY <2>3, <2>4, <2>5
<1>7. Spec => []OnTheWay
    BY <1>1, <1>2, HeapInvariant, PTL DEF Spec
<1> QED BY <1>3, <1>6, <1>7, HeapInvariant, PTL DEF Spec, ActsLikeValues, Values!Spec
===============================================================================
