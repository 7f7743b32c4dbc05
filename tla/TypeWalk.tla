-------------------------------- MODULE TypeWalk --------------------------------
(***************************************************************************)
(* analysisutil.WalkSignatureNamedTypes as checkSignatureField uses it     *)
(* (src/core/analysisutil/ast.go, src/rules/tx/boundary.go): the           *)
(* transaction types named anywhere in the type of one parameter or result.*)
(*                                                                         *)
(* types maps a type to [kind, id, parts]. The parts of a named type are   *)
(* its type arguments: what it stands for is not expanded; an alias has    *)
(* one part, the type it names; any other type its element, key, fields,   *)
(* parameters, results and methods. Interfaces may lead back to themselves.*)
(***************************************************************************)
EXTENDS Naturals, Sequences, FiniteSets, SequencesExt

CONSTANT TxTypes   \* Config.Types

VARIABLES types,   \* never changes while a field is walked
          stack,   \* types still to be walked, innermost call first
          walked,  \* seen of WalkSignatureNamedTypes
          named    \* the findings of the field, in order

walkVars == <<stack, walked, named>>

\* An alias names one type, and no alias is behind itself.
IsAlias(t) == types[t].kind = "alias"
AliasesEnd(ts) ==
    LET aliases == {t \in DOMAIN ts : ts[t].kind = "alias"}
    IN  /\ \A t \in aliases : Len(ts[t].parts) = 1
        /\ \A S \in SUBSET aliases : S # {} => \E t \in S : ts[t].parts[1] \notin S

\* types.Unalias follows a chain of aliases.
Unalias(t) ==
    LET target[u \in DOMAIN types] == IF IsAlias(u) THEN target[types[u].parts[1]] ELSE u
    IN  target[t]

StartField(t) == stack' = <<t>> /\ walked' = {} /\ named' = <<>>

WalkSeen == /\ stack # <<>> /\ Head(stack) \in walked
            /\ stack' = Tail(stack) /\ UNCHANGED <<walked, named>>
\* The alias is marked, not its target.
Mark(t) == walked \cup {t}
\* Mutant: a type that comes back by another name is reported again.
VisitAgain(id) == IF id \in TxTypes THEN Append(named, id) ELSE named
Visit(id) == IF id \in TxTypes \ Range(named) THEN Append(named, id) ELSE named
WalkType ==
    /\ stack # <<>> /\ Head(stack) \notin walked
    /\ LET t == Head(stack)
           u == types[Unalias(t)]
       IN  /\ walked' = Mark(t)
           /\ named' = IF u.kind = "named" THEN Visit(u.id) ELSE named
           /\ stack' = u.parts \o Tail(stack)
Walk == WalkSeen \/ WalkType

\* all types a type is written with
Within(t) ==
    LET closed == {S \in SUBSET DOMAIN types : t \in S /\ \A u \in S : Range(types[u].parts) \subseteq S}
    IN  {u \in DOMAIN types : \A S \in closed : u \in S}

\* Every transaction type a signature is written with, behind any aliases,
\* callbacks, type arguments and recursive interfaces, is reported, each once.
SignatureExact(t) ==
    stack = <<>> =>
        /\ Range(named) = TxTypes \cap {types[u].id : u \in {w \in Within(t) : types[w].kind = "named"}}
        /\ Len(named) = Cardinality(Range(named))
=================================================================================
