------------------------------ MODULE ContextArch ------------------------------
(***************************************************************************)
(* Who can change the policy a rule reads (src/core/context.go,            *)
(* src/core/architecture.go).                                              *)
(*                                                                         *)
(* An Architecture is passed by value and holds slices and maps, which are *)
(* references. NewContext clones the caller's, Run validates the clone,    *)
(* and every Arch() gives a rule a clone of the clone; the caller and the  *)
(* rules go on writing to theirs. Validate's own steps are ArchValidate's. *)
(*                                                                         *)
(* copies[1] is the caller's Architecture, copies[2] the Context's, the    *)
(* others are what Arch() returned. A clone allocates one cell for each    *)
(* slice and map it copies; address <<n, slot>> is such a cell of the n-th *)
(* clone. The other fields are strings and booleans, which a struct copy   *)
(* copies.                                                                 *)
(***************************************************************************)
EXTENDS ArchValidate

CONSTANTS
    NoKey,        \* the slot of a field itself, not of one of its entries
    Root,         \* values of Layout.InternalRoot
    NoRoot,       \* "", which cloneArchitecture replaces
    DefaultRoot,  \* "internal"
    Disturbed,    \* bound: the policies that are written to or have another root
    MaxCopies,    \* bound on Architectures in the program
    MaxWrites     \* bound on the writes

TheCaller == 1
TheContext == 2

\* The fields of an Architecture: what Validate reads of it, and
\* Naming.BannedPkgNames and LegacyPkgNames, slices too; Layout without the
\* internal root, and the fields of Naming and Structure that hold one value.
SliceFields  == ListFields \cup {"banned", "legacy"}
LayoutFields == {"domainDir", "orchestrationDir", "sharedDir", "appDir", "serverDir"}
Switches     == {"requireAlias", "requireModel"}
PlainFields  == LayoutFields \cup Switches \cup {"aliasFile", "modelPath"}

ASSUME ContextAssumption ==
    /\ \A a \in Policies :
         /\ \A f \in SliceFields : a[f] \in Seq(Layer)
         /\ a.plain \in [PlainFields -> Layer \cup BOOLEAN]
    /\ NoKey \notin Layer /\ NoRoot \in Root /\ DefaultRoot \in Root \ {NoRoot}
    /\ Disturbed \subseteq Policies
    /\ MaxCopies \in Nat \ {0, 1} /\ MaxWrites \in Nat

Slot == ((SliceFields \cup KeyFields \cup {"direction"}) \X {NoKey})
          \cup ({"direction"} \X Layer)
Addr == (1..MaxCopies) \X Slot
Cell(n, field) == <<n, <<field, NoKey>>>>

VARIABLES
    copies,      \* the Architectures: values and, for each slice and map, its address
    lists,       \* address -> elements of a slice
    keys,        \* address -> keys of a map[string]bool
    tables,      \* address -> Direction, each entry the address of a slice
    writes       \* writes made so far

heapVars == <<copies, lists, keys, tables, writes>>

\* An Architecture's references: all of them, through the map of slices.
ListsOf(c)  == {c.at[f] : f \in SliceFields}
TableOf(c)  == c.at["direction"]
InnerOf(tbl, c) == {tbl[TableOf(c)][l] : l \in DOMAIN tbl[TableOf(c)]}
KeysOf(c)   == {c.at[f] : f \in KeyFields}

\* The value a reader of it sees.
ViewIn(lst, kys, tbl, c) ==
    [root |-> c.root, plain |-> c.plain,
     list |-> [f \in SliceFields |-> lst[c.at[f]]],
     keys |-> [f \in KeyFields |-> kys[c.at[f]]],
     direction |-> [l \in DOMAIN tbl[TableOf(c)] |-> lst[tbl[TableOf(c)][l]]]]
View(c) == ViewIn(lists, keys, tables, c)

NormalRoot(r) == IF r = NoRoot THEN DefaultRoot ELSE r
-------------------------------------------------------------------------------
FreshAt(n) == [f \in SliceFields \cup KeyFields \cup {"direction"} |-> Cell(n, f)]

\* Mutant: the fields Validate reads, and a slice of Naming forgotten.
NamingForgotten == ListFields \cup {"legacy"}

\* The fields cloneArchitecture names, by how it copies them. One it forgot
\* would be the zero value of its type.
ClonedLists == {"sublayers", "ports", "contracts", "patternDirs", "banned", "legacy"}
ClonedKeys  == {"pkgRestricted", "excluded", "dirNames", "topLevel"}
ClonedPlain == LayoutFields \cup {"aliasFile", "requireAlias", "requireModel", "modelPath"}
Zero(f) == IF f \in Switches THEN FALSE ELSE Empty

\* Mutant: the map is new, the slices in it are not.
InnerShared(n, tbl) == tbl

\* cloneStringSliceMap
InnerCopied(n, tbl) == [l \in DOMAIN tbl |-> <<n, <<"direction", l>>>>]

\* cloneArchitecture: clone n of c. A cell of the new clone holds what the
\* cell it copies holds.
Cloned(n, c) ==
    LET table == tables[TableOf(c)]
        inner == InnerCopied(n, table)
    IN  /\ copies' = Append(copies,
               [root |-> NormalRoot(c.root), at |-> FreshAt(n),
                plain |-> [f \in PlainFields |-> IF f \in ClonedPlain THEN c.plain[f] ELSE Zero(f)]])
        /\ lists' = [a \in Addr |->
               IF \E f \in ClonedLists : a = Cell(n, f) THEN lists[c.at[a[2][1]]]
               ELSE IF \E l \in DOMAIN table : a = <<n, <<"direction", l>>>>
                    THEN lists[table[a[2][2]]]
               ELSE lists[a]]
        /\ keys' = [a \in Addr |->
               IF \E f \in ClonedKeys : a = Cell(n, f) THEN keys[c.at[a[2][1]]] ELSE keys[a]]
        /\ tables' = [tables EXCEPT ![Cell(n, "direction")] = inner]

\* NewContext
NewContext ==
    /\ Len(copies) = TheCaller
    /\ Cloned(TheContext, copies[TheCaller])
    /\ UNCHANGED <<vars, validateVars, writes>>

\* Run: ctx.Arch().Validate(); Validate only reads.
Validating ==
    /\ Len(copies) >= TheContext
    /\ ValidateNext
    /\ UNCHANGED heapVars

\* A rule calls Context.Arch().
Arch ==
    /\ Accepted /\ arch \in Disturbed
    /\ Len(copies) < MaxCopies
    /\ Cloned(Len(copies) + 1, copies[TheContext])
    /\ UNCHANGED <<vars, validateVars, writes>>

\* The caller or a rule writes through the Architecture it holds. Nobody
\* but the Context itself holds the Context's. A write before NewContext
\* would only be another policy to begin with.
Writable(n) ==
    /\ Len(copies) >= TheContext
    /\ n \in DOMAIN copies \ {TheContext} /\ arch \in Disturbed
    /\ writes < MaxWrites /\ writes' = writes + 1
    /\ UNCHANGED <<vars, validateVars, copies>>

WriteElement(n) ==
    /\ Writable(n)
    /\ \E a \in ListsOf(copies[n]) \cup InnerOf(tables, copies[n]) :
         /\ lists[a] # <<>>
         /\ lists' = [lists EXCEPT ![a] = [@ EXCEPT ![1] = Empty]]
    /\ UNCHANGED <<keys, tables>>

WriteKeys(n) ==
    /\ Writable(n)
    /\ \E a \in KeysOf(copies[n]) : keys' = [keys EXCEPT ![a] = {Empty}]
    /\ UNCHANGED <<lists, tables>>

\* delete(direction, l)
DeleteEntry(n) ==
    /\ Writable(n)
    /\ \E l \in DOMAIN tables[TableOf(copies[n])] :
         tables' = [tables EXCEPT ![TableOf(copies[n])] =
                       [k \in DOMAIN @ \ {l} |-> @[k]]]
    /\ UNCHANGED <<lists, keys>>

Write(n) == WriteElement(n) \/ WriteKeys(n) \/ DeleteEntry(n)

\* The caller has built its Architecture, each slice and map on its own.
ContextInit ==
    /\ ValidateInit
    /\ \E r \in Root :
         /\ r = DefaultRoot \/ arch \in Disturbed
         /\ copies = <<[root |-> r, plain |-> arch.plain, at |-> FreshAt(TheCaller)]>>
    /\ lists = [a \in Addr |->
           IF a[1] # TheCaller THEN <<>>
           ELSE IF a[2][2] = NoKey
                THEN IF a[2][1] \in SliceFields THEN arch[a[2][1]] ELSE <<>>
           ELSE IF a[2][2] \in DOMAIN direction THEN direction[a[2][2]] ELSE <<>>]
    /\ keys = [a \in Addr |->
           IF a[1] = TheCaller /\ a[2][1] \in KeyFields THEN arch[a[2][1]] ELSE {}]
    /\ tables = [a \in Addr |->
           IF a = Cell(TheCaller, "direction")
           THEN [l \in DOMAIN direction |-> <<TheCaller, <<"direction", l>>>>]
           ELSE <<>>]
    /\ writes = 0

ContextNext ==
    \/ NewContext \/ Validating \/ Arch
    \/ \E n \in 1..MaxCopies : Write(n)

allVars == <<vars, validateVars, heapVars>>
ContextSpec == ContextInit /\ [][ContextNext]_allVars

\* Run's own steps are taken; nobody has to write or to ask.
FairContextSpec == ContextSpec /\ WF_allVars(NewContext \/ Validating)
-------------------------------------------------------------------------------
\* The policy the caller passed to NewContext, with the default root.
Passed ==
    [root |-> IF copies[TheCaller].root = NoRoot THEN DefaultRoot ELSE copies[TheCaller].root,
     plain |-> arch.plain,
     list |-> [f \in SliceFields |-> arch[f]],
     keys |-> [f \in KeyFields |-> arch[f]],
     direction |-> direction]

(* Every rule judges by the policy that was validated: whatever the caller *)
(* and the rules before it wrote to the Architectures they hold, the       *)
(* Context's is worth what was passed to NewContext, and so is each one    *)
(* Arch() returns (context.go 85-93); none has an empty internal root, and *)
(* a write through one Architecture shows in no other, not even in a slice *)
(* inside a map (architecture.go 100-171). A field that the clone forgets  *)
(* would come back as its zero value and not be worth what was passed.     *)
PolicyIsPrivate ==
    [][/\ Len(copies') >= TheContext => (View(copies[TheContext]) = Passed)'
       /\ Len(copies') > Len(copies) => (View(copies[Len(copies)]) = Passed)'
       /\ \A n \in TheContext..Len(copies') : copies'[n].root # NoRoot
       /\ \A n \in DOMAIN copies : Write(n) =>
              \A m \in DOMAIN copies \ {n} : View(copies[m])' = View(copies[m])]_allVars
===============================================================================
