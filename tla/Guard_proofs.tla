------------------------------ MODULE Guard_proofs ------------------------------
(***************************************************************************)
(* For every project: what the loader hands over and names as left out,    *)
(* what the walk of a signature finds, how the three readings of a layer   *)
(* compare, which branches the logic budget leaves uncounted, that its     *)
(* walk counts what the README says and judges every function of a         *)
(* package, and that a verdict is never taken for one on more than was     *)
(* loaded and checked.                                                     *)
(***************************************************************************)
EXTENDS Guard, SequenceTheorems, NatLemmas

-------------------------------------------------------------------------------
(* The types a signature is written with *)

\* What the project's types promise while a field is walked.
WalkTypes == /\ \A t \in DOMAIN types : types[t].parts \in Seq(DOMAIN types)
             /\ AliasesEnd(types)

PartsOf(t) == Range(types[t].parts)
ClosedUnder(S) == S \subseteq DOMAIN types /\ \A u \in S : PartsOf(u) \subseteq S

LEMMA AliasPart ==
    ASSUME WalkTypes, NEW t \in DOMAIN types, IsAlias(t)
    PROVE  types[t].parts[1] \in DOMAIN types /\ PartsOf(t) = {types[t].parts[1]}
<1>1. types[t].parts \in Seq(DOMAIN types) /\ Len(types[t].parts) = 1
    BY DEF WalkTypes, AliasesEnd, IsAlias
<1>2. DOMAIN types[t].parts = 1..1 /\ types[t].parts \in [1..1 -> DOMAIN types]
    BY <1>1, LenProperties
<1>3. QED
    BY <1>2 DEF PartsOf, Range

\* A property that an alias has when the type it names has it, and that every
\* other type has, is one of all types: there is no set of aliases without end.
LEMMA AliasesWellFounded ==
    ASSUME WalkTypes, NEW B, B \subseteq DOMAIN types,
           \A t \in B : IsAlias(t) /\ types[t].parts[1] \in B
    PROVE  B = {}
<1>1. B \in SUBSET {t \in DOMAIN types : types[t].kind = "alias"}
    BY DEF IsAlias
<1>2. B # {} => \E t \in B : types[t].parts[1] \notin B
    BY <1>1 DEF WalkTypes, AliasesEnd
<1>3. QED
    BY <1>2

\* The least set with t that holds what its aliases name.
Chain(t) == {v \in DOMAIN types :
                \A S \in SUBSET DOMAIN types :
                    t \in S /\ (\A u \in S : IsAlias(u) => types[u].parts[1] \in S) => v \in S}

\* Unalias has a value to compute: the type at the end of the chain.
LEMMA UnaliasSolves ==
    ASSUME WalkTypes, NEW t \in DOMAIN types
    PROVE  Unalias(t) = IF IsAlias(t) THEN Unalias(types[t].parts[1]) ELSE t
<1> DEFINE Solves(f) == f = [u \in DOMAIN types |-> IF IsAlias(u) THEN f[types[u].parts[1]] ELSE u]
           End0(u) == CHOOSE v \in Chain(u) : ~IsAlias(v)
           w == [u \in DOMAIN types |-> End0(u)]
<1>1. ASSUME NEW u \in DOMAIN types, ~IsAlias(u)
      PROVE  End0(u) = u
    <2>1. {u} \in SUBSET DOMAIN types
        OBVIOUS
    <2>2. Chain(u) \subseteq {u}
        BY <1>1, <2>1 DEF Chain
    <2>3. u \in Chain(u)
        BY DEF Chain
    <2>4. QED
        BY <1>1, <2>2, <2>3
<1>2. ASSUME NEW u \in DOMAIN types, IsAlias(u)
      PROVE  End0(u) = End0(types[u].parts[1])
    <2> DEFINE p == types[u].parts[1]
    <2>1. p \in DOMAIN types
        BY <1>2, AliasPart
    <2>2. ASSUME NEW v \in Chain(p)
          PROVE  v \in Chain(u)
        BY <1>2, <2>1 DEF Chain
    <2>3. ASSUME NEW v \in Chain(u), v # u
          PROVE  v \in Chain(p)
        <3>1. v \in DOMAIN types
            BY DEF Chain
        <3>2. ASSUME NEW S \in SUBSET DOMAIN types, p \in S,
                     \A x \in S : IsAlias(x) => types[x].parts[1] \in S
              PROVE  v \in S
            <4>1. S \cup {u} \in SUBSET DOMAIN types
                OBVIOUS
            <4>2. \A x \in S \cup {u} : IsAlias(x) => types[x].parts[1] \in S \cup {u}
                BY <3>2
            <4>3. v \in S \cup {u}
                BY <4>1, <4>2 DEF Chain
            <4>4. QED
                BY <4>3, <2>3
        <3>3. QED
            BY <3>1, <3>2 DEF Chain
    <2> HIDE DEF p
    <2>4. {v \in Chain(u) : ~IsAlias(v)} = {v \in Chain(p) : ~IsAlias(v)}
        BY <1>2, <2>2, <2>3
    <2>5. End0(u) = End0(p)
        <3>1. \A v : (v \in Chain(u) /\ ~IsAlias(v)) <=> (v \in Chain(p) /\ ~IsAlias(v))
            BY <2>4
        <3>2. QED
            BY <3>1
    <2>6. QED
        BY <2>5 DEF p
<1>3. Solves(w)
    <2>1. \A u \in DOMAIN types : IsAlias(u) => types[u].parts[1] \in DOMAIN types
        BY AliasPart
    <2> HIDE DEF End0
    <2>2. \A u \in DOMAIN types : IsAlias(u) => w[types[u].parts[1]] = End0(types[u].parts[1])
        BY <2>1
    <2>3. \A u \in DOMAIN types : End0(u) = IF IsAlias(u) THEN w[types[u].parts[1]] ELSE u
        BY <1>1, <1>2, <2>2
    <2>4. QED
        BY <2>3
<1>4. \E f : Solves(f)
    BY <1>3
<1> DEFINE target == CHOOSE f : Solves(f)
<1> HIDE DEF Solves
<1>5. Solves(target)
    BY <1>4
<1>6. \A u \in DOMAIN types : Unalias(u) = target[u]
    BY DEF Unalias, Solves
<1>7. target[t] = IF IsAlias(t) THEN target[types[t].parts[1]] ELSE t
    BY <1>5 DEF Solves
<1>8. IsAlias(t) => types[t].parts[1] \in DOMAIN types
    BY AliasPart
<1> HIDE DEF target
<1>9. QED
    BY <1>6, <1>7, <1>8

\* Behind an alias is a type that is none, within any set closed under parts.
LEMMA UnaliasWithin ==
    ASSUME WalkTypes, NEW t \in DOMAIN types, NEW S, ClosedUnder(S), t \in S
    PROVE  Unalias(t) \in S /\ ~IsAlias(Unalias(t))
<1> DEFINE B == {u \in S : ~(Unalias(u) \in S /\ ~IsAlias(Unalias(u)))}
<1>1. B \subseteq DOMAIN types
    BY DEF ClosedUnder
<1>2. ASSUME NEW u \in B
      PROVE  IsAlias(u) /\ types[u].parts[1] \in B
    <2>1. u \in DOMAIN types /\ u \in S
        BY <1>1
    <2>2. Unalias(u) = IF IsAlias(u) THEN Unalias(types[u].parts[1]) ELSE u
        BY <2>1, UnaliasSolves
    <2>3. IsAlias(u)
        BY <2>1, <2>2
    <2>4. types[u].parts[1] \in S
        BY <2>1, <2>3, AliasPart DEF ClosedUnder
    <2>5. QED
        BY <2>2, <2>3, <2>4
<1>3. B = {}
    BY <1>1, <1>2, AliasesWellFounded
<1>4. QED
    BY <1>3

LEMMA WithinFacts ==
    ASSUME WalkTypes, NEW t \in DOMAIN types
    PROVE  /\ Within(t) \subseteq DOMAIN types /\ t \in Within(t) /\ ClosedUnder(Within(t))
           /\ \A S : ClosedUnder(S) /\ t \in S => Within(t) \subseteq S
<1> DEFINE closed == {S \in SUBSET DOMAIN types : t \in S /\ \A u \in S : PartsOf(u) \subseteq S}
<1>1. Within(t) = {u \in DOMAIN types : \A S \in closed : u \in S}
    BY DEF Within, PartsOf
<1>2. \A u \in DOMAIN types : PartsOf(u) \subseteq DOMAIN types
    <2>1. \A u \in DOMAIN types : types[u].parts \in Seq(DOMAIN types)
        BY DEF WalkTypes
    <2>2. QED
        BY <2>1, RangeOfSeq DEF PartsOf
<1>3. \A S : S \in closed <=> ClosedUnder(S) /\ t \in S
    BY DEF ClosedUnder
<1> HIDE DEF closed
<1>4. Within(t) \subseteq DOMAIN types /\ t \in Within(t)
    BY <1>1, <1>3
<1>5. \A S : ClosedUnder(S) /\ t \in S => Within(t) \subseteq S
    BY <1>1, <1>3
<1>6. ASSUME NEW u \in Within(t), NEW v \in PartsOf(u)
      PROVE  v \in Within(t)
    <2>1. \A S \in closed : v \in S
        BY <1>1, <1>3, <1>6 DEF ClosedUnder
    <2>2. QED
        BY <1>1, <1>2, <1>4, <2>1
<1>7. QED
    BY <1>4, <1>5, <1>6 DEF ClosedUnder

\* The types of TxTypes behind the types of a set.
TxBehind(S) == TxTypes \cap {types[Unalias(t)].id : t \in {u \in S : types[Unalias(u)].kind = "named"}}

\* The walk of the type t, half way: what has been seen has its parts seen or
\* waiting, and named holds what lies behind it, each once.
WalkInv(t) ==
    /\ walked \subseteq Within(t) /\ stack \in Seq(Within(t))
    /\ t \in walked \cup Range(stack)
    /\ \A u \in walked : PartsOf(Unalias(u)) \subseteq walked \cup Range(stack)
    /\ named \in Seq(TxTypes) /\ \A i, j \in DOMAIN named : named[i] = named[j] => i = j
    /\ Range(named) = TxBehind(walked)

\* The first element of a sequence and the rest.
LEMMA HeadFacts ==
    ASSUME NEW S, NEW s \in Seq(S), s # <<>>
    PROVE  /\ Head(s) \in S /\ Tail(s) \in Seq(S)
           /\ Range(s) = {Head(s)} \cup Range(Tail(s))
<1>1. /\ Head(s) \in S /\ Tail(s) \in Seq(S) /\ s = <<Head(s)>> \o Tail(s)
      /\ Len(s) \in Nat /\ Len(s) >= 1 /\ Len(Tail(s)) = Len(s) - 1
      /\ Head(s) = s[1] /\ \A i \in 1..Len(Tail(s)) : Tail(s)[i] = s[i + 1]
    BY HeadTailProperties, EmptySeq, LenProperties
<1>2. DOMAIN s = 1..Len(s) /\ DOMAIN Tail(s) = 1..Len(Tail(s))
    BY <1>1, LenProperties
<1>3. \A i \in 1..Len(s) : i = 1 \/ i - 1 \in 1..Len(Tail(s))
    BY <1>1
<1>4. ASSUME NEW i \in DOMAIN s
      PROVE  s[i] \in {Head(s)} \cup Range(Tail(s))
    <2>1. CASE i = 1
        BY <1>1, <2>1
    <2>2. CASE i # 1
        <3>1. i - 1 \in DOMAIN Tail(s) /\ i - 1 + 1 = i
            BY <1>2, <1>3, <2>2
        <3>2. Tail(s)[i - 1] = s[i]
            BY <3>1, <1>1, <1>2
        <3>3. QED
            BY <3>1, <3>2 DEF Range
    <2>3. QED
        BY <2>1, <2>2
<1>5. ASSUME NEW i \in DOMAIN Tail(s)
      PROVE  Tail(s)[i] \in Range(s)
    <2>1. i + 1 \in DOMAIN s /\ Tail(s)[i] = s[i + 1]
        BY <1>1, <1>2
    <2>2. QED
        BY <2>1 DEF Range
<1>6. Head(s) \in Range(s)
    BY <1>1, <1>2 DEF Range
<1>7. QED
    BY <1>1, <1>4, <1>5, <1>6 DEF Range

\* One call of the walk keeps its invariant.
LEMMA WalkKeeps ==
    ASSUME WalkTypes, NEW t \in DOMAIN types, WalkInv(t), Walk, UNCHANGED types
    PROVE  WalkInv(t)'
<1> DEFINE W == Within(t)
<1>1. W \subseteq DOMAIN types /\ t \in W /\ ClosedUnder(W)
    BY WithinFacts
<1>2. Within(t)' = W /\ \A u : Unalias(u)' = Unalias(u) /\ PartsOf(u)' = PartsOf(u)
    BY DEF Within, Unalias, IsAlias, PartsOf
<1> DEFINE Kept == /\ walked' \subseteq W /\ stack' \in Seq(W)
                   /\ t \in walked' \cup Range(stack')
                   /\ \A u \in walked' : PartsOf(Unalias(u)) \subseteq walked' \cup Range(stack')
                   /\ named' \in Seq(TxTypes) /\ \A i, j \in DOMAIN named' : named'[i] = named'[j] => i = j
                   /\ Range(named') = TxBehind(walked')
<1>3. TxBehind(walked)' = TxBehind(walked')
    BY DEF TxBehind, Unalias, IsAlias
<1>4. \A u \in walked' : PartsOf(Unalias(u))' = PartsOf(Unalias(u))
    BY DEF PartsOf, Unalias, IsAlias
<1>5. SUFFICES Kept
    BY <1>2, <1>3, <1>4 DEF WalkInv
<1>6. stack \in Seq(W) /\ stack # <<>>
    BY DEF WalkInv, Walk, WalkSeen, WalkType
<1> DEFINE h == Head(stack)
           rest == Tail(stack)
<1>7. h \in W /\ rest \in Seq(W) /\ Range(stack) = {h} \cup Range(rest)
    BY <1>6, HeadFacts
<1>8. CASE WalkSeen
    <2>1. h \in walked /\ stack' = rest /\ walked' = walked /\ named' = named
        BY <1>8 DEF WalkSeen
    <2>2. walked \cup Range(stack) = walked' \cup Range(stack')
        BY <1>7, <2>1
    <2>3. QED
        BY <1>7, <2>1, <2>2 DEF WalkInv
<1>9. CASE WalkType
    <2> DEFINE u == Unalias(h)
    <2>1. /\ h \notin walked /\ walked' = walked \cup {h}
          /\ named' = IF types[u].kind = "named" THEN Visit(types[u].id) ELSE named
          /\ stack' = types[u].parts \o rest
        BY <1>9 DEF WalkType, Mark
    <2>2. u \in W
        BY <1>1, <1>7, UnaliasWithin
    <2>3. PartsOf(u) \subseteq W /\ types[u].parts \in Seq(DOMAIN types)
        BY <1>1, <2>2 DEF ClosedUnder, WalkTypes
    <2>4. types[u].parts \in Seq(W)
        BY <2>3, SeqOfRange DEF PartsOf
    <2>5. stack' \in Seq(W) /\ Range(stack') = PartsOf(u) \cup Range(rest)
        <3> DEFINE ps == types[u].parts
        <3>1. stack' = ps \o rest /\ PartsOf(u) = Range(ps) /\ ps \in Seq(W) /\ rest \in Seq(W)
            BY <1>7, <2>1, <2>4 DEF PartsOf
        <3> HIDE DEF ps, rest, W
        <3>2. QED
            BY <3>1, ConcatProperties, RangeConcatenation
    <2>6. walked' \subseteq W /\ t \in walked' \cup Range(stack')
        BY <1>7, <2>1, <2>5 DEF WalkInv
    <2>7. \A v \in walked' : PartsOf(Unalias(v)) \subseteq walked' \cup Range(stack')
        BY <1>7, <2>1, <2>5 DEF WalkInv
    <2>8. TxBehind(walked') = TxBehind(walked) \cup (IF types[u].kind = "named" THEN TxTypes \cap {types[u].id} ELSE {})
        BY <2>1 DEF TxBehind
    <2>9. CASE types[u].kind = "named" /\ types[u].id \in TxTypes \ Range(named)
        <3> DEFINE id == types[u].id
        <3>1. named' = Append(named, id) /\ named \in Seq(TxTypes) /\ id \in TxTypes
            BY <2>1, <2>9 DEF Visit, WalkInv
        <3>2. /\ named' \in Seq(TxTypes) /\ Len(named') = Len(named) + 1 /\ Len(named) \in Nat
              /\ \A i \in 1..Len(named) : named'[i] = named[i]
              /\ named'[Len(named) + 1] = id
              /\ DOMAIN named = 1..Len(named) /\ DOMAIN named' = 1..Len(named) + 1
            <4> HIDE DEF id
            <4>1. QED
                BY <3>1, AppendProperties, LenProperties
        <3>3. \A i \in DOMAIN named : named[i] # id
            BY <2>9 DEF Range
        <3> HIDE DEF id
        <3>4. \A i \in DOMAIN named' : i \in DOMAIN named \/ i = Len(named) + 1
            BY <3>2
        <3>5. ASSUME NEW i \in DOMAIN named', NEW j \in DOMAIN named', named'[i] = named'[j]
              PROVE  i = j
            <4>1. \A a, b \in DOMAIN named : named[a] = named[b] => a = b
                BY DEF WalkInv
            <4>2. QED
                BY <3>2, <3>3, <3>4, <3>5, <4>1
        <3>6. Range(named') = Range(named) \cup {id}
            <4>1. \A i \in DOMAIN named' : named'[i] \in Range(named) \cup {id}
                BY <3>2, <3>4 DEF Range
            <4>2. \A i \in DOMAIN named : named[i] \in Range(named')
                BY <3>2 DEF Range
            <4>3. id \in Range(named')
                BY <3>2 DEF Range
            <4>4. QED
                BY <4>1, <4>2, <4>3 DEF Range
        <3>7. Range(named') = TxBehind(walked')
            BY <2>8, <2>9, <3>1, <3>6 DEF WalkInv, id
        <3>8. QED
            BY <3>2, <3>5, <3>7, <2>5, <2>6, <2>7
    <2>10. CASE ~(types[u].kind = "named" /\ types[u].id \in TxTypes \ Range(named))
        <3>1. named' = named
            BY <2>1, <2>10 DEF Visit
        <3>2. Range(named) = TxBehind(walked')
            BY <2>8, <2>10 DEF WalkInv
        <3>3. QED
            BY <3>1, <3>2, <2>5, <2>6, <2>7 DEF WalkInv
    <2>11. QED
        BY <2>9, <2>10
<1>10. QED
    BY <1>8, <1>9 DEF Walk

\* A field starts with its type alone.
LEMMA StartInv ==
    ASSUME WalkTypes, NEW t \in DOMAIN types, StartField(t), UNCHANGED types
    PROVE  WalkInv(t)'
<1>1. stack' = <<t>> /\ walked' = {} /\ named' = <<>>
    BY DEF StartField
<1>2. t \in Within(t) /\ Within(t)' = Within(t)
    BY WithinFacts DEF Within
<1>3. <<t>> \in Seq(Within(t)) /\ Range(<<t>>) = {t}
    BY <1>2 DEF Range
<1>4. named' \in Seq(TxTypes) /\ DOMAIN named' = {} /\ Range(named') = {}
    BY <1>1 DEF Range
<1>5. TxBehind(walked)' = {}
    BY <1>1 DEF TxBehind
<1>6. QED
    BY <1>1, <1>2, <1>3, <1>4, <1>5 DEF WalkInv

\* When nothing waits any more, what was seen leads to all the field is written
\* with: types that differ from a seen one by an alias chain are closed.
LEMMA WalkFinished ==
    ASSUME WalkTypes, NEW t \in DOMAIN types, WalkInv(t)
    PROVE  SignatureExact(t)
<1> SUFFICES ASSUME stack = <<>>
             PROVE  /\ Range(named) = TxTypes \cap {types[u].id : u \in {w \in Within(t) : types[w].kind = "named"}}
                    /\ Len(named) = Cardinality(Range(named))
    BY DEF SignatureExact
<1>1. Range(stack) = {}
    BY DEF Range
<1>2. /\ walked \subseteq Within(t) /\ t \in walked
      /\ \A u \in walked : PartsOf(Unalias(u)) \subseteq walked
    BY <1>1 DEF WalkInv
<1>3. Within(t) \subseteq DOMAIN types /\ ClosedUnder(Within(t))
    BY WithinFacts
<1> DEFINE S == {u \in Within(t) : \E v \in walked : Unalias(u) = Unalias(v)}
<1>4. ClosedUnder(S)
    <2>1. ASSUME NEW u \in S
          PROVE  PartsOf(u) \subseteq S
        <3>1. PICK v \in walked : Unalias(u) = Unalias(v)
            OBVIOUS
        <3>2. u \in DOMAIN types /\ PartsOf(u) \subseteq Within(t)
            BY <1>3 DEF ClosedUnder
        <3>3. CASE IsAlias(u)
            <4>1. PartsOf(u) = {types[u].parts[1]} /\ Unalias(u) = Unalias(types[u].parts[1])
                BY <3>2, <3>3, AliasPart, UnaliasSolves
            <4>2. QED
                BY <3>1, <3>2, <4>1
        <3>4. CASE ~IsAlias(u)
            <4>1. u = Unalias(v)
                BY <3>1, <3>2, <3>4, UnaliasSolves
            <4>2. PartsOf(u) \subseteq walked
                BY <4>1, <1>2
            <4>3. QED
                BY <4>2, <1>2
        <3>5. QED
            BY <3>3, <3>4
    <2>2. QED
        BY <2>1, <1>3 DEF ClosedUnder
<1>5. Within(t) \subseteq S
    BY <1>2, <1>4, WithinFacts
<1>6. TxBehind(walked) = TxTypes \cap {types[u].id : u \in {w \in Within(t) : types[w].kind = "named"}}
    <2>1. ASSUME NEW u \in walked, types[Unalias(u)].kind = "named"
          PROVE  Unalias(u) \in {w \in Within(t) : types[w].kind = "named"}
        BY <1>2, <1>3, <2>1, UnaliasWithin
    <2>2. ASSUME NEW w \in Within(t), types[w].kind = "named"
          PROVE  \E v \in walked : w = Unalias(v) /\ types[Unalias(v)].kind = "named"
        <3>1. ~IsAlias(w) /\ w \in DOMAIN types
            BY <2>2, <1>3 DEF IsAlias
        <3>2. Unalias(w) = w
            BY <3>1, UnaliasSolves
        <3>3. QED
            BY <2>2, <3>2, <1>5
    <2>3. QED
        BY <2>1, <2>2 DEF TxBehind
<1>7. Len(named) = Cardinality(Range(named))
    <2>1. named \in [1..Len(named) -> TxTypes] /\ Len(named) \in Nat /\ DOMAIN named = 1..Len(named)
        BY LenProperties DEF WalkInv
    <2>2. \A i, j \in DOMAIN named : named[i] = named[j] => i = j
        BY DEF WalkInv
    <2>3. named \in Bijection(1..Len(named), Range(named))
        <3>1. named \in [1..Len(named) -> Range(named)]
            BY <2>1 DEF Range
        <3>2. \A r \in Range(named) : \E i \in 1..Len(named) : named[i] = r
            BY <2>1 DEF Range
        <3>3. QED
            BY <3>1, <3>2, <2>1, <2>2 DEF Bijection, Injection, Surjection, IsInjective
    <2>4. IsFiniteSet(1..Len(named)) /\ Cardinality(1..Len(named)) = Len(named)
        <3>1. \A n \in Nat : IsFiniteSet(1..n) /\ Cardinality(1..n) = n
            <4> TAKE n \in Nat
            <4>1. IsFiniteSet(1..n) /\ Cardinality(1..n) = IF 1 > n THEN 0 ELSE n - 1 + 1
                BY FS_Interval
            <4>2. QED
                BY <4>1
        <3>2. QED
            BY <2>1, <3>1
    <2>5. QED
        BY <2>3, <2>4, FS_Bijection DEF ExistsBijection
<1>8. QED
    BY <1>6, <1>7 DEF WalkInv
-------------------------------------------------------------------------------
(* The loader *)

PackageIds == DOMAIN project.imports

LEMMA ProjectFacts ==
    ASSUME project \in Projects
    PROVE  /\ PackageIds \subseteq Nat \ {NoError} /\ project.roots \in Seq(PackageIds)
           /\ \A q \in PackageIds : project.imports[q] \subseteq PackageIds
           /\ \A q \in PackageIds : project.errors[q] \in Seq(ErrorKinds)
           /\ \A q \in PackageIds : Code(q).path \in Seq(Segment)
           /\ \A q \in PackageIds : Code(q).file.sigs \in Seq(DOMAIN project.types)
BY ProjectsAssumption DEF PackageIds, Code

\* Visit's search of the imports has a result: the least set with the package
\* that holds the imports of its members.
LEMMA ReachSolves ==
    ASSUME project \in Projects, NEW p \in PackageIds
    PROVE  Reach(p) = {p} \cup UNION {Reach(d) : d \in project.imports[p]}
<1> DEFINE P == PackageIds
           imports == project.imports
           Solves(f) == f = [q \in P |-> {q} \cup UNION {f[d] : d \in imports[q]}]
           Closed(S) == \A q \in S : imports[q] \subseteq S
           Least(q) == {r \in P : \A S \in SUBSET P : q \in S /\ Closed(S) => r \in S}
           w == [q \in P |-> Least(q)]
<1>1. \A q \in P : imports[q] \subseteq P
    BY ProjectFacts
<1>2. ASSUME NEW q \in P
      PROVE  Least(q) = {q} \cup UNION {Least(d) : d \in imports[q]}
    <2> DEFINE R == {q} \cup UNION {Least(d) : d \in imports[q]}
    <2>1. q \in Least(q)
        OBVIOUS
    <2>2. ASSUME NEW d \in imports[q]
          PROVE  Least(d) \subseteq Least(q)
        <3>1. \A S \in SUBSET P : q \in S /\ Closed(S) => d \in S
            OBVIOUS
        <3>2. QED
            BY <3>1
    <2>3. Closed(R)
        <3>1. imports[q] \subseteq R
            BY <1>1
        <3>2. ASSUME NEW d \in imports[q], NEW r \in Least(d), NEW x \in imports[r]
              PROVE  x \in Least(d)
            <4>1. r \in P /\ x \in P
                BY <1>1
            <4>2. ASSUME NEW S \in SUBSET P, d \in S, Closed(S)
                  PROVE  x \in S
                <5>1. r \in S
                    BY <4>2
                <5>2. QED
                    BY <4>2, <5>1
            <4>3. QED
                BY <4>1, <4>2
        <3> HIDE DEF Least
        <3>3. QED
            BY <3>1, <3>2
    <2>4. R \in SUBSET P /\ q \in R
        OBVIOUS
    <2>5. Least(q) \subseteq R
        BY <2>3, <2>4
    <2> HIDE DEF Least
    <2>6. QED
        BY <2>1, <2>2, <2>5
<1>3. Solves(w)
    <2> HIDE DEF Least
    <2>1. \A q \in P : UNION {w[d] : d \in imports[q]} = UNION {Least(d) : d \in imports[q]}
        BY <1>1
    <2>2. QED
        BY <1>2, <2>1
<1>4. \E f : Solves(f)
    BY <1>3
<1> DEFINE reach == CHOOSE f : Solves(f)
<1> HIDE DEF Solves
<1>5. Solves(reach)
    BY <1>4
<1>6. \A q \in P : Reach(q) = reach[q]
    BY DEF Reach, Solves, PackageIds
<1> HIDE DEF reach
<1>7. reach[p] = {p} \cup UNION {reach[d] : d \in imports[p]}
    BY <1>5 DEF Solves
<1>8. UNION {reach[d] : d \in imports[p]} = UNION {Reach(d) : d \in imports[p]}
    BY <1>1, <1>6
<1>9. QED
    BY <1>6, <1>7, <1>8

\* No package the root reaches, itself included, has a fatal error.
Clean(p) == \A q \in Reach(p) : ~Fatal(q)
Passed == 1..root - 1

LoadInv ==
    /\ project \in Projects
    /\ step \in {"start", "roots", "returned"} /\ root \in 1..Len(project.roots) + 1
    /\ result \in Seq(PackageIds) /\ loadErrs \in Seq(PackageIds)
    /\ step = "start" => root = 1 /\ visited = {}
    /\ step # "start" /\ ~failed => flags = loadBuildFlags
    /\ visited \subseteq PackageIds
    /\ fatal = NoError => \A d \in visited : ~Fatal(d)
    /\ fatal # NoError => AtRoot /\ fatal \in PackageIds \cap Deps(Current) /\ Fatal(fatal)
    /\ Range(result) = {project.roots[i] : i \in {j \in Passed : Clean(project.roots[j])}}
    /\ \A i \in Passed : Clean(project.roots[i])
                         \/ \E e \in DOMAIN loadErrs : loadErrs[e] \in Reach(project.roots[i])
    /\ step = "returned" /\ ~failed => root = Len(project.roots) + 1

LEMMA CurrentFacts ==
    ASSUME LoadInv, AtRoot
    PROVE  /\ Current \in PackageIds /\ Current \in Reach(Current)
           /\ root \in 1..Len(project.roots) /\ root + 1 \in 1..Len(project.roots) + 1
           /\ 1..(root + 1) - 1 = Passed \cup {root}
<1>1. project.roots \in Seq(PackageIds) /\ Len(project.roots) \in Nat
    BY ProjectFacts, LenProperties DEF LoadInv
<1>2. root \in 1..Len(project.roots) /\ root \in Nat
    BY <1>1 DEF LoadInv, AtRoot
<1>3. Current \in PackageIds
    BY <1>1, <1>2, ElementOfSeq DEF Current
<1>4. Current \in Reach(Current)
    BY <1>3, ReachSolves DEF LoadInv
<1>5. root + 1 \in 1..Len(project.roots) + 1 /\ 1..(root + 1) - 1 = Passed \cup {root}
    BY <1>1, <1>2 DEF Passed
<1>6. QED
    BY <1>2, <1>3, <1>4, <1>5

\* What is appended to a sequence joins its range.
LEMMA AppendRange ==
    ASSUME NEW S, NEW s \in Seq(S), NEW x \in S
    PROVE  Append(s, x) \in Seq(S) /\ Range(Append(s, x)) = Range(s) \cup {x}
<1> DEFINE last == <<x>>
<1>1. Append(s, x) = s \o last
    BY AppendIsConcat
<1>2. last \in Seq(S) /\ Range(last) = {x}
    BY DEF Range
<1> HIDE DEF last
<1>3. QED
    BY <1>1, <1>2, ConcatProperties, RangeConcatenation

\* With the same flags, every package has the same errors.
LEMMA SameBuild ==
    ASSUME UNCHANGED <<project, flags>>
    PROVE  /\ \A q : Errors(q)' = Errors(q) /\ Fatal(q)' = Fatal(q) /\ Reach(q)' = Reach(q) /\ Clean(q)' = Clean(q)
           /\ PackageIds' = PackageIds /\ loadBuildFlags' = loadBuildFlags
<1>1. \A q : Errors(q)' = Errors(q)
    BY DEF Errors
<1>2. \A q : Reach(q)' = Reach(q)
    BY DEF Reach
<1>3. \A q : Fatal(q)' = Fatal(q)
    BY DEF Fatal, Errors
<1>4. \A q : Clean(q)' = Clean(q)
    BY DEF Clean, Fatal, Errors, Reach
<1>5. PackageIds' = PackageIds /\ loadBuildFlags' = loadBuildFlags
    BY DEF PackageIds, loadBuildFlags
<1>6. QED
    BY <1>1, <1>2, <1>3, <1>4, <1>5

\* Done with a root: it is in the result when it is clean, and else an error
\* names a package that it reaches.
LEMMA NextRootKeeps ==
    ASSUME LoadInv, AtRoot, NextRoot, UNCHANGED project,
           result' \in Seq(PackageIds), loadErrs' \in Seq(PackageIds),
           Range(result') = Range(result) \cup (IF Clean(Current) THEN {Current} ELSE {}),
           Range(loadErrs) \subseteq Range(loadErrs'),
           Clean(Current) \/ \E e \in Range(loadErrs') : e \in Reach(Current)
    PROVE  LoadInv'
<1>1. /\ root' = root + 1 /\ visited' = {} /\ fatal' = NoError /\ step' = step /\ failed' = failed
      /\ step = "roots" /\ flags' = flags
    BY DEF NextRoot, AtRoot
<1>2. /\ \A q : Fatal(q)' = Fatal(q) /\ Reach(q)' = Reach(q) /\ Clean(q)' = Clean(q)
      /\ PackageIds' = PackageIds /\ loadBuildFlags' = loadBuildFlags
    BY <1>1, SameBuild
<1>3. \A p : Clean(p)' = Clean(p)
    BY <1>2
<1>4. Passed' = Passed \cup {root} /\ root' \in 1..Len(project.roots) + 1
    BY <1>1, CurrentFacts DEF Passed
<1>5. Range(result') = {project.roots[i] : i \in {j \in Passed' : Clean(project.roots[j])}}
    <2>1. {j \in Passed' : Clean(project.roots[j])}
             = {j \in Passed : Clean(project.roots[j])} \cup (IF Clean(Current) THEN {root} ELSE {})
        BY <1>4 DEF Current
    <2>2. QED
        BY <2>1 DEF LoadInv, Current
<1>6. \A i \in Passed' : Clean(project.roots[i])
                         \/ \E e \in DOMAIN loadErrs' : loadErrs'[e] \in Reach(project.roots[i])
    <2>1. ASSUME NEW i \in Passed, ~Clean(project.roots[i])
          PROVE  \E e \in Range(loadErrs') : e \in Reach(project.roots[i])
        <3>1. PICK e \in DOMAIN loadErrs : loadErrs[e] \in Reach(project.roots[i])
            BY <2>1 DEF LoadInv
        <3>2. loadErrs[e] \in Range(loadErrs)
            BY DEF Range
        <3>3. QED
            BY <3>1, <3>2
    <2>2. \A i \in Passed' : Clean(project.roots[i]) \/ \E e \in Range(loadErrs') : e \in Reach(project.roots[i])
        BY <1>4, <2>1 DEF Current
    <2>3. QED
        BY <2>2 DEF Range
<1>7. QED
    BY <1>1, <1>2, <1>3, <1>4, <1>5, <1>6 DEF LoadInv, Passed

LEMMA VisitDepKeeps ==
    ASSUME LoadInv, NEW dep \in DOMAIN project.imports, VisitDep(dep), UNCHANGED project
    PROVE  LoadInv'
<1>1. /\ AtRoot /\ dep \in Deps(Current) /\ visited' = visited \cup {dep}
      /\ fatal' = FirstFatal(dep) /\ UNCHANGED <<step, flags, root, result, loadErrs, failed>>
    BY DEF VisitDep
<1>2. /\ \A q : Fatal(q)' = Fatal(q)
      /\ \A q : Reach(q)' = Reach(q)
      /\ PackageIds' = PackageIds /\ AtRoot' /\ Deps(Current)' = Deps(Current) /\ Passed' = Passed
      /\ loadBuildFlags' = loadBuildFlags
    BY <1>1, SameBuild DEF AtRoot, Deps, Current, Passed, Reach
<1>3. \A p : Clean(p)' = Clean(p)
    BY <1>1, SameBuild
<1>4. visited' \subseteq PackageIds
    BY <1>1 DEF LoadInv, PackageIds
<1>5. dep # NoError /\ dep \in PackageIds
    BY ProjectFacts DEF LoadInv, PackageIds
<1>6. /\ fatal' = NoError => \A d \in visited' : ~Fatal(d)
      /\ fatal' # NoError => fatal' \in PackageIds \cap Deps(Current) /\ Fatal(fatal')
    <2>1. CASE fatal = NoError /\ Fatal(dep)
        BY <1>1, <1>5, <2>1 DEF FirstFatal
    <2>2. CASE ~(fatal = NoError /\ Fatal(dep))
        BY <1>1, <2>2 DEF FirstFatal, LoadInv
    <2>3. QED
        BY <2>1, <2>2
<1>7. (fatal # NoError => AtRoot /\ fatal \in PackageIds \cap Deps(Current) /\ Fatal(fatal))'
    <2>1. Fatal(fatal)' <=> Fatal(fatal')
        BY <1>1 DEF Fatal, Errors
    <2>2. QED
        BY <1>2, <1>6, <2>1
<1>8. AtRoot /\ step # "start"
    BY <1>1 DEF AtRoot
<1>9. QED
    BY <1>1, <1>2, <1>3, <1>4, <1>6, <1>7, <1>8 DEF LoadInv

\* A package is kept exactly when nothing it reaches has a fatal error.
LEMMA DecidedFacts ==
    ASSUME LoadInv, Decided
    PROVE  /\ AtRoot /\ Current \in PackageIds /\ Current \in Reach(Current)
           /\ fatal # NoError => fatal \in PackageIds \cap Reach(Current) /\ Fatal(fatal)
           /\ fatal = NoError => (Clean(Current) <=> ~Fatal(Current))
<1>1. AtRoot /\ Deps(Current) \subseteq visited
    BY DEF Decided
<1>2. Current \in PackageIds /\ Current \in Reach(Current)
    BY <1>1, CurrentFacts
<1>3. fatal = NoError => (Clean(Current) <=> ~Fatal(Current))
    BY <1>1, <1>2 DEF LoadInv, Clean, Deps
<1>4. QED
    BY <1>1, <1>2, <1>3 DEF LoadInv, Deps

LEMMA LoadKeeps ==
    ASSUME LoadInv, Load, UNCHANGED project
    PROVE  LoadInv'
<1> USE DEF LoadInv
<1>1. CASE FailEarly \/ BeginRoots \/ Return
    <2>1. /\ UNCHANGED <<root, visited, fatal, result, loadErrs>>
          /\ \/ step = "start" /\ step' = "returned" /\ failed' /\ flags' = flags
             \/ step = "start" /\ step' = "roots" /\ flags' = loadBuildFlags
             \/ /\ step = "roots" /\ root > Len(project.roots) /\ step' = "returned"
                /\ flags' = flags /\ failed' = failed
        BY <1>1 DEF FailEarly, BeginRoots, Return
    <2>2. /\ PackageIds' = PackageIds /\ Passed' = Passed /\ loadBuildFlags' = loadBuildFlags
          /\ \A p : Reach(p)' = Reach(p)
        BY <2>1 DEF PackageIds, Passed, loadBuildFlags, Reach
    <2>3. fatal' = NoError
        BY <2>1 DEF AtRoot
    <2>4. Len(project.roots) \in Nat
        BY ProjectFacts, LenProperties
    <2>5. (step = "returned" /\ ~failed => root = Len(project.roots) + 1)'
        BY <2>1, <2>4
    <2>6. /\ (\A d \in visited : ~Fatal(d))'
          /\ (Range(result) = {project.roots[i] : i \in {j \in Passed : Clean(project.roots[j])}})'
          /\ (\A i \in Passed : \/ Clean(project.roots[i])
                               \/ \E e \in DOMAIN loadErrs : loadErrs[e] \in Reach(project.roots[i]))'
        <3>1. CASE step = "start"
            <4>1. visited' = {} /\ Passed = {} /\ Range(result) = {}
                BY <2>4, <3>1, <2>1 DEF Passed
            <4>2. QED
                BY <2>1, <2>2, <4>1
        <3>2. CASE step # "start"
            <4>1. \A p : Clean(p)' = Clean(p) /\ Fatal(p)' = Fatal(p)
                BY <2>1, <3>2, SameBuild
            <4>2. \A d \in visited' : ~Fatal(d)'
                BY <2>1, <2>3, <4>1
            <4>3. QED
                BY <2>1, <2>2, <4>1, <4>2
        <3>3. QED
            BY <3>1, <3>2
    <2>7. QED
        BY <2>1, <2>2, <2>3, <2>5, <2>6
<1>2. ASSUME NEW dep \in DOMAIN project.imports, VisitDep(dep)
      PROVE  LoadInv'
    BY <1>2, VisitDepKeeps
<1>3. CASE SkipForDep
    <2>1. /\ Decided /\ fatal # NoError /\ loadErrs' = Append(loadErrs, fatal) /\ result' = result
          /\ NextRoot
        BY <1>3 DEF SkipForDep
    <2>2. AtRoot /\ fatal \in PackageIds \cap Reach(Current) /\ Fatal(fatal)
        BY <2>1, DecidedFacts
    <2>3. loadErrs' \in Seq(PackageIds) /\ Range(loadErrs') = Range(loadErrs) \cup {fatal}
        BY <2>1, <2>2, AppendRange
    <2>4. ~Clean(Current)
        BY <2>2 DEF Clean
    <2>5. Range(loadErrs) \subseteq Range(loadErrs') /\ \E e \in Range(loadErrs') : e \in Reach(Current)
        BY <2>2, <2>3
    <2>6. QED
        BY <2>1, <2>2, <2>3, <2>4, <2>5, NextRootKeeps
<1>4. CASE Keep
    <2>1. /\ Decided /\ fatal = NoError /\ result' = Append(result, Current) /\ loadErrs' = loadErrs
          /\ NextRoot /\ (Errors(Current) = <<>> \/ OnlyTypeErrors(Current))
        BY <1>4 DEF Keep
    <2>2. AtRoot /\ Current \in PackageIds /\ (Clean(Current) <=> ~Fatal(Current))
        BY <2>1, DecidedFacts
    <2>3. ~Fatal(Current)
        <3>1. Errors(Current) = <<>> => DOMAIN Errors(Current) = {}
            OBVIOUS
        <3>2. QED
            BY <2>1, <3>1 DEF OnlyTypeErrors, Fatal
    <2>4. result' \in Seq(PackageIds) /\ Range(result') = Range(result) \cup {Current}
        BY <2>1, <2>2, AppendRange
    <2>5. QED
        BY <2>1, <2>2, <2>3, <2>4, NextRootKeeps
<1>5. CASE SkipForOwn
    <2>1. /\ Decided /\ fatal = NoError /\ loadErrs' = loadErrs \o OwnErrors(Current) /\ result' = result
          /\ NextRoot /\ Errors(Current) # <<>> /\ ~OnlyTypeErrors(Current)
        BY <1>5 DEF SkipForOwn
    <2>2. /\ AtRoot /\ Current \in PackageIds /\ Current \in Reach(Current)
          /\ (Clean(Current) <=> ~Fatal(Current))
        BY <2>1, DecidedFacts
    <2>3. Fatal(Current)
        BY <2>1, <2>2 DEF OnlyTypeErrors, IllTyped
    <2> DEFINE own == OwnErrors(Current)
               errors == Errors(Current)
    <2>4. errors \in Seq(ErrorKinds) /\ errors # <<>>
        BY <2>1, <2>2, ProjectFacts DEF Errors
    <2>5. Len(errors) \in Nat /\ Len(errors) # 0 /\ DOMAIN errors = 1..Len(errors)
        BY <2>4, EmptySeq, LenProperties
    <2>6. own \in [1..Len(errors) -> PackageIds] /\ \A e \in 1..Len(errors) : own[e] = Current
        BY <2>2, <2>5 DEF OwnErrors
    <2>7. own \in Seq(PackageIds) /\ Range(own) = {Current}
        <3>1. own \in Seq(PackageIds)
            <4>1. PICK n \in Nat : own \in [1..n -> PackageIds]
                BY <2>5, <2>6
            <4> HIDE DEF own
            <4>2. QED
                BY <4>1, SeqDef
        <3>2. DOMAIN own = 1..Len(errors) /\ 1 \in 1..Len(errors)
            BY <2>5, <2>6
        <3>3. QED
            BY <2>6, <3>1, <3>2 DEF Range
    <2> HIDE DEF own, errors
    <2>8. loadErrs' \in Seq(PackageIds) /\ Range(loadErrs') = Range(loadErrs) \cup {Current}
        <3>1. loadErrs' = loadErrs \o own
            BY <2>1 DEF own
        <3>2. QED
            BY <3>1, <2>7, ConcatProperties, RangeConcatenation
    <2>9. Range(loadErrs) \subseteq Range(loadErrs') /\ \E e \in Range(loadErrs') : e \in Reach(Current)
        BY <2>2, <2>8
    <2>10. QED
        BY <2>1, <2>2, <2>3, <2>8, <2>9, NextRootKeeps
<1>6. QED
    BY <1>1, <1>2, <1>3, <1>4, <1>5 DEF Load

\* The last of the arguments that give an option is the one that counts.
LEMMA LastGiven ==
    ASSUME NEW args, NEW option, NEW k \in Given(args, option), DOMAIN args \subseteq Nat,
           \A j \in Given(args, option) : j <= k
    PROVE  InBuild(args, option) =
               IF args[k].eq THEN args[k].value
               ELSE IF option = "-tags" THEN args[k + 1].name ELSE "true"
<1> DEFINE last == CHOOSE i \in Given(args, option) : \A j \in Given(args, option) : j <= i
<1>1. /\ last \in Given(args, option) /\ \A j \in Given(args, option) : j <= last
      /\ Given(args, option) \subseteq Nat
    BY DEF Given
<1> HIDE DEF last
<1>2. last = k
    <2>1. last \in Nat /\ k \in Nat /\ last <= k /\ k <= last
        BY <1>1
    <2>2. QED
        BY <2>1
<1>3. Given(args, option) # {}
    OBVIOUS
<1>4. QED
    BY <1>2, <1>3 DEF InBuild, last

\* An option has one name without, and one with a second dash.
LEMMA OptionNames ==
    ASSUME NEW arg
    PROVE  /\ arg.name \in Options => OptionOf(arg) = arg.name
           /\ arg.name \notin DOMAIN TwoDashes => OptionOf(arg) = arg.name
<1>1. arg.name \in Options => arg.name \notin DOMAIN TwoDashes
    BY DEF Options, TwoDashes
<1>2. QED
    BY <1>1 DEF OptionOf

\* mergeBuildFlags: the flag of the caller replaces the inherited one of its
\* name, or comes after it.
LEMMA MergedFlags ==
    ASSUME project \in Projects, NEW option \in Options
    PROVE  InBuild(mergeBuildFlags(project.settings, project.explicit), option)
               = IF Given(project.explicit, option) # {} THEN InBuild(project.explicit, option)
                 ELSE IF {s \in Range(project.settings) : s.name = option} = {} THEN NotGiven(option)
                 ELSE (CHOOSE s \in {t \in Range(project.settings) : t.name = option} : TRUE).value
<1> DEFINE settings == project.settings
           explicit == project.explicit
           n == Len(settings)
           m == Len(explicit)
           kept == {k \in DOMAIN settings : Inherited(settings[k], explicit)}
           args == mergeBuildFlags(settings, explicit)
           S == {s \in Range(settings) : s.name = option}
<1>1. /\ m \in Nat /\ DOMAIN explicit = 1..m /\ n \in Nat /\ DOMAIN settings = 1..n
      /\ \A k \in DOMAIN explicit :
             OptionOf(explicit[k]) = "-tags" /\ ~explicit[k].eq => k + 1 \in DOMAIN explicit
      /\ \A k \in DOMAIN settings :
             /\ settings[k].eq /\ settings[k].name \notin DOMAIN TwoDashes
             /\ settings[k].name \in Options \ {"-tags"} => settings[k].value \in {"true", "false"}
             /\ \A j \in DOMAIN settings : settings[j].name = settings[k].name => j = k
    BY FlagsAssumption
<1>2. args = [k \in kept \cup {n + j : j \in DOMAIN explicit} |-> IF k <= n THEN settings[k] ELSE explicit[k - n]]
    BY DEF mergeBuildFlags
<1> HIDE DEF n, m, settings, explicit, args
<1>3. DOMAIN args \subseteq Nat
    BY <1>1, <1>2
<1>4. \A k \in kept : k \in DOMAIN args /\ args[k] = settings[k]
    BY <1>1, <1>2
<1>5. \A j \in DOMAIN explicit : n + j \in DOMAIN args /\ args[n + j] = explicit[j]
    BY <1>1, <1>2
<1>6. \A k \in DOMAIN args : k \in kept \/ \E j \in DOMAIN explicit : k = n + j
    BY <1>2
<1> HIDE DEF kept
<1>7. CASE Given(explicit, option) # {}
    <2>1. PICK k \in Given(explicit, option) : \A j \in Given(explicit, option) : j <= k
        <3>1. Given(explicit, option) \subseteq 1..m
            BY <1>1 DEF Given
        <3>2. QED
            BY <1>1, <1>7, <3>1, GreatestElement
    <2>2. k \in DOMAIN explicit /\ OptionOf(explicit[k]) = option
        BY DEF Given
    <2>3. n + k \in Given(args, option)
        BY <1>5, <2>2 DEF Given
    <2>4. \A j \in Given(args, option) : j <= n + k
        <3> SUFFICES ASSUME NEW j \in Given(args, option) PROVE j <= n + k
            OBVIOUS
        <3>1. CASE j \in kept
            BY <1>1, <2>2, <3>1 DEF kept
        <3>2. CASE j \notin kept
            <4>1. PICK i \in DOMAIN explicit : j = n + i
                BY <1>6, <3>2 DEF Given
            <4>2. i \in Given(explicit, option)
                BY <1>5, <4>1 DEF Given
            <4>3. i <= k
                BY <2>1, <4>2
            <4>4. QED
                BY <1>1, <2>2, <4>1, <4>3
        <3>3. QED
            BY <3>1, <3>2
    <2>5. args[n + k] = explicit[k]
        BY <1>5, <2>2
    <2>6. option = "-tags" /\ ~explicit[k].eq => args[(n + k) + 1] = explicit[k + 1]
        <3> SUFFICES ASSUME option = "-tags", ~explicit[k].eq PROVE args[(n + k) + 1] = explicit[k + 1]
            OBVIOUS
        <3>1. k + 1 \in DOMAIN explicit
            BY <1>1, <2>2
        <3>2. n + (k + 1) = (n + k) + 1
            BY <1>1, <2>2
        <3>3. QED
            BY <1>5, <3>1, <3>2
    <2>7. InBuild(args, option) = InBuild(explicit, option)
        <3>1. InBuild(args, option) =
                  IF args[n + k].eq THEN args[n + k].value
                  ELSE IF option = "-tags" THEN args[(n + k) + 1].name ELSE "true"
            BY <1>3, <2>3, <2>4, LastGiven
        <3>2. InBuild(explicit, option) =
                  IF explicit[k].eq THEN explicit[k].value
                  ELSE IF option = "-tags" THEN explicit[k + 1].name ELSE "true"
            <4>1. DOMAIN explicit \subseteq Nat
                BY <1>1
            <4>2. QED
                BY <2>1, <4>1, LastGiven
        <3>3. QED
            BY <2>5, <2>6, <3>1, <3>2
    <2>8. QED
        BY <1>7, <2>7 DEF args, explicit, settings
<1>8. CASE Given(explicit, option) = {}
    <2>1. option \notin Overridden(explicit)
        BY <1>8, OptionNames DEF Overridden, Given
    <2>2. \A k \in Given(args, option) : k \in kept /\ settings[k].name = option
        <3> SUFFICES ASSUME NEW k \in Given(args, option) PROVE k \in kept /\ settings[k].name = option
            OBVIOUS
        <3>1. k \in kept
            BY <1>5, <1>6, <1>8 DEF Given
        <3>2. OptionOf(settings[k]) = option
            BY <1>4, <3>1 DEF Given
        <3>3. QED
            BY <1>1, <3>1, <3>2, OptionNames DEF kept
    <2>3. \A s \in S : \E k \in DOMAIN settings : s = settings[k]
        BY DEF Range
    <2>4. CASE S = {}
        <3>1. Given(args, option) = {}
            <4> SUFFICES ASSUME NEW k \in Given(args, option) PROVE FALSE
                OBVIOUS
            <4>1. settings[k] \in S
                BY <2>2 DEF kept, Range
            <4>2. QED
                BY <2>4, <4>1
        <3>2. QED
            BY <1>8, <2>4, <3>1 DEF InBuild, args, explicit, settings
    <2>5. CASE S # {}
        <3> DEFINE s == CHOOSE t \in S : TRUE
        <3>1. s \in S /\ s.name = option
            BY <2>5
        <3> HIDE DEF s
        <3>2. PICK k \in DOMAIN settings : s = settings[k]
            BY <2>3, <3>1
        <3>3. \A j \in Given(args, option) : j = k
            BY <1>1, <2>2, <3>1, <3>2 DEF kept
        <3>4. CASE k \in kept
            <4>1. k \in Given(args, option)
                BY <1>4, <3>1, <3>2, <3>4, OptionNames DEF Given
            <4>2. InBuild(args, option) = settings[k].value
                <5>1. \A j \in Given(args, option) : j <= k
                    BY <1>1, <3>2, <3>3
                <5>2. args[k] = settings[k] /\ settings[k].eq
                    BY <1>1, <1>4, <3>2, <3>4
                <5>3. QED
                    BY <1>3, <4>1, <5>1, <5>2, LastGiven
            <4>3. QED
                BY <1>8, <2>5, <3>2, <4>2 DEF s, S, args, explicit, settings
        <3>5. CASE k \notin kept
            <4>1. Given(args, option) = {}
                BY <2>2, <3>3, <3>5
            <4>2. ~Inherited(s, explicit)
                BY <3>2, <3>5 DEF kept
            <4>3. IF option = "-tags" THEN s.value = "" ELSE s.value = "false"
                <5>1. option = "-tags" \/ option \in {"-race", "-msan", "-asan"}
                    BY DEF Options
                <5>2. option # "-tags" => s.value \in {"true", "false"}
                    BY <1>1, <3>1, <3>2
                <5>3. QED
                    BY <2>1, <3>1, <4>2, <5>1, <5>2 DEF Inherited
            <4>4. InBuild(args, option) = s.value
                BY <4>1, <4>3 DEF InBuild, NotGiven
            <4>5. QED
                BY <1>8, <2>5, <4>4 DEF s, S, args, explicit, settings
        <3>6. QED
            BY <3>4, <3>5
    <2>6. QED
        BY <2>4, <2>5
<1>9. QED
    BY <1>7, <1>8

\* The build is the one that the comments of LoadOptions and Load promise.
LEMMA FlagsAreResolved ==
    ASSUME project \in Projects, flags = loadBuildFlags
    PROVE  FlagsResolved
<1> SUFFICES ASSUME NEW option \in Options PROVE InBuild(flags, option) = Promised(option)
    BY DEF FlagsResolved
<1>1. CASE ~project.disable /\ project.info
    BY <1>1, MergedFlags DEF loadBuildFlags, Promised
<1>2. CASE ~(~project.disable /\ project.info)
    <2>1. flags = project.explicit
        BY <1>2 DEF loadBuildFlags
    <2>2. QED
        BY <1>2, <2>1 DEF Promised, InBuild
<1>3. QED
    BY <1>1, <1>2

\* What is left when the loader returns.
LEMMA LoadInvSound == LoadInv => LoadSound
<1> SUFFICES ASSUME LoadInv, Returned, ~failed PROVE LoadSound
    BY DEF LoadSound
<1>1. project.roots \in Seq(PackageIds) /\ Len(project.roots) \in Nat
    BY ProjectFacts, LenProperties DEF LoadInv
<1>2. Passed = 1..Len(project.roots) /\ Range(project.roots) = {project.roots[i] : i \in Passed}
    BY <1>1, RangeEquality DEF LoadInv, Returned, Passed
<1>3. Range(result) = {p \in Range(project.roots) : Clean(p)}
    BY <1>2 DEF LoadInv
<1>4. \A p \in Range(project.roots) \ Range(result) : \E e \in DOMAIN loadErrs : loadErrs[e] \in Reach(p)
    BY <1>2, <1>3 DEF LoadInv
<1>5. FlagsResolved
    BY FlagsAreResolved DEF LoadInv, Returned
<1>6. QED
    BY <1>3, <1>4, <1>5 DEF LoadSound, Clean
-------------------------------------------------------------------------------
(* The layer of a package *)

LEMMA PartFacts ==
    ASSUME NEW S, NEW s \in Seq(S), NEW m \in Nat, NEW n \in Nat, m >= 1, n <= Len(s)
    PROVE  /\ SubSeq(s, m, n) \in Seq(S)
           /\ Len(SubSeq(s, m, n)) = IF m <= n THEN n - m + 1 ELSE 0
           /\ \A i \in 1..n - m + 1 : SubSeq(s, m, n)[i] = s[m + i - 1]
<1>1. s \in [1..Len(s) -> S] /\ Len(s) \in Nat
    BY LenProperties
<1>2. \A i \in m..n : s[i] \in S
    BY <1>1
<1>3. QED
    BY <1>2, SubSeqProperties

LEMMA IsPrefixByElements ==
    ASSUME NEW S, NEW s \in Seq(S), NEW t \in Seq(S)
    PROVE  IsPrefix(s, t) <=> Len(s) <= Len(t) /\ \A i \in 1..Len(s) : s[i] = t[i]
<1>1. Len(s) \in Nat /\ Len(t) \in Nat
    BY LenProperties
<1>2. ASSUME Len(s) <= Len(t)
      PROVE  SubSeq(s, 1, Len(s)) = SubSeq(t, 1, Len(s)) <=> \A i \in 1..Len(s) : s[i] = t[i]
    <2> DEFINE n == Len(s)
               a == SubSeq(s, 1, n)
               b == SubSeq(t, 1, n)
    <2>1. /\ a \in Seq(S) /\ Len(a) = (IF 1 <= n THEN n - 1 + 1 ELSE 0)
          /\ \A i \in 1..n - 1 + 1 : a[i] = s[1 + i - 1]
        BY <1>1, PartFacts
    <2>2. /\ b \in Seq(S) /\ Len(b) = (IF 1 <= n THEN n - 1 + 1 ELSE 0)
          /\ \A i \in 1..n - 1 + 1 : b[i] = t[1 + i - 1]
        BY <1>1, <1>2, PartFacts
    <2> HIDE DEF n, a, b
    <2>3. n \in Nat
        BY <1>1 DEF n
    <2>4. Len(a) = n /\ Len(b) = n /\ \A i \in 1..n : a[i] = s[i] /\ b[i] = t[i]
        BY <2>1, <2>2, <2>3
    <2>5. a = b <=> \A i \in 1..n : a[i] = b[i]
        BY <2>1, <2>2, <2>4, SeqEqual
    <2>6. a = b <=> \A i \in 1..n : s[i] = t[i]
        BY <2>4, <2>5
    <2>7. QED
        BY <2>6 DEF n, a, b
<1>3. QED
    BY <1>2 DEF IsPrefix

\* The path of an internal package below the internal root.
LEMMA RelFacts ==
    ASSUME NEW arch, NEW module, NEW path \in Seq(Segment), arch.root \in Seq(Segment)
    PROVE  /\ InternalPrefix(arch, module) \in Seq(Segment \cup {module})
           /\ Len(InternalPrefix(arch, module)) \in Nat
           /\ Internal(arch, module, path) =>
                  Rel(arch, module, path) \in Seq(Segment) /\ Len(Rel(arch, module, path)) >= 1
<1> DEFINE S == Segment \cup {module}
           head == <<module>>
           pre == InternalPrefix(arch, module)
<1>1. head \in Seq(S)
    OBVIOUS
<1>2. arch.root \in Seq(S)
    BY SeqMonotonic
<1>3. pre = head \o arch.root
    BY DEF InternalPrefix
<1> HIDE DEF head, pre, S
<1>4. pre \in Seq(S) /\ Len(pre) \in Nat
    BY <1>1, <1>2, <1>3, ConcatProperties, LenProperties
<1>5. ASSUME Internal(arch, module, path)
      PROVE  Rel(arch, module, path) \in Seq(Segment) /\ Len(Rel(arch, module, path)) >= 1
    <2>1. Len(path) > Len(pre) /\ Len(path) \in Nat
        BY <1>5, LenProperties DEF Internal, Under, pre
    <2>2. Rel(arch, module, path) = SubSeq(path, Len(pre) + 1, Len(path))
        BY DEF Rel, pre
    <2>3. /\ Rel(arch, module, path) \in Seq(Segment)
          /\ Len(Rel(arch, module, path)) = Len(path) - (Len(pre) + 1) + 1
        BY <1>4, <2>1, <2>2, PartFacts
    <2>4. QED
        BY <1>4, <2>1, <2>3
<1>6. QED
    BY <1>4, <1>5 DEF pre, S

\* Where a package of a domain lies, and how its sublayer is written.
LEMMA DomainFacts ==
    ASSUME NEW arch, NEW module, NEW path \in Seq(Segment), arch.root \in Seq(Segment),
           Classify(arch, module, path).kind = "domain"
    PROVE  LET rel == Rel(arch, module, path)
               class == Classify(arch, module, path)
           IN  /\ Internal(arch, module, path) /\ rel \in Seq(Segment) /\ Len(rel) >= 1
               /\ arch.domainDir = NoDir => class.sublayer = <<rel[1]>> /\ KnownSublayer(arch, <<rel[1]>>)
               /\ arch.domainDir # NoDir =>
                     /\ rel[1] = arch.domainDir /\ Len(rel) >= 3
                     /\ class.sublayer = IdentifySublayer(arch, SubSeq(rel, 3, Len(rel)))
<1> DEFINE rel == Rel(arch, module, path)
           class == Classify(arch, module, path)
<1>1. Internal(arch, module, path) /\ class = ClassifyRel(arch, rel)
    BY DEF Classify, Unclassified, Class
<1>2. rel \in Seq(Segment) /\ Len(rel) >= 1 /\ Len(rel) \in Nat
    BY <1>1, RelFacts, LenProperties
<1>3. class.kind = "domain"
    OBVIOUS
<1> HIDE DEF class, rel
<1>4. class = IF arch.domainDir # NoDir THEN ClassifyInDomains(arch, rel) ELSE ClassifyFlat(arch, rel)
    BY <1>1, <1>3 DEF ClassifyRel, Class
<1>5. CASE arch.domainDir = NoDir
    BY <1>1, <1>2, <1>3, <1>4, <1>5 DEF ClassifyFlat, Unclassified, Class, class, rel
<1>6. CASE arch.domainDir # NoDir
    <2>1. rel[1] = arch.domainDir /\ Len(rel) # 1 /\ Len(rel) # 2
        BY <1>3, <1>4, <1>6 DEF ClassifyInDomains, Unclassified, Class
    <2>2. class = Class("domain", rel[2], IdentifySublayer(arch, SubSeq(rel, 3, Len(rel))))
        BY <1>4, <1>6, <2>1 DEF ClassifyInDomains
    <2>3. class.sublayer = IdentifySublayer(arch, SubSeq(rel, 3, Len(rel)))
        BY <2>2 DEF Class
    <2>4. Len(rel) >= 3
        <3>1. \A n \in Nat : n >= 1 /\ n # 1 /\ n # 2 => n >= 3
            OBVIOUS
        <3>2. QED
            BY <1>2, <2>1, <3>1
    <2>5. QED
        BY <1>1, <1>2, <1>6, <2>1, <2>3, <2>4 DEF class, rel
<1>7. QED
    BY <1>5, <1>6

\* The path inside a domain, and what its first elements are as sequences.
LEMMA InsideFacts ==
    ASSUME NEW s \in Seq(Segment), Len(s) >= 1
    PROVE  /\ Len(s) \in Nat
           /\ SubSeq(s, 1, 1) \in Seq(Segment) /\ Len(SubSeq(s, 1, 1)) = 1 /\ SubSeq(s, 1, 1)[1] = s[1]
           /\ SubSeq(s, 1, 1) = <<s[1]>> /\ s[1] \in Segment
           /\ Len(s) >= 2 => /\ SubSeq(s, 1, 2) \in Seq(Segment) /\ Len(SubSeq(s, 1, 2)) = 2
                             /\ SubSeq(s, 1, 2)[1] = s[1] /\ SubSeq(s, 1, 2)[2] = s[2]
           /\ Len(s) >= 3 => /\ SubSeq(s, 3, Len(s)) \in Seq(Segment)
                             /\ Len(SubSeq(s, 3, Len(s))) = Len(s) - 2
                             /\ Len(SubSeq(s, 3, Len(s))) >= 1
<1>1. Len(s) \in Nat /\ s[1] \in Segment
    BY LenProperties, ElementOfSeq
<1>2. SubSeq(s, 1, 1) \in Seq(Segment) /\ Len(SubSeq(s, 1, 1)) = 1 /\ SubSeq(s, 1, 1)[1] = s[1]
    <2>1. /\ SubSeq(s, 1, 1) \in Seq(Segment)
          /\ Len(SubSeq(s, 1, 1)) = IF 1 <= 1 THEN 1 - 1 + 1 ELSE 0
          /\ \A i \in 1..1 - 1 + 1 : SubSeq(s, 1, 1)[i] = s[1 + i - 1]
        BY <1>1, PartFacts
    <2>2. QED
        BY <2>1
<1>3. SubSeq(s, 1, 1) = <<s[1]>>
    <2> DEFINE one == <<s[1]>>
               p == SubSeq(s, 1, 1)
    <2>1. one \in Seq(Segment) /\ Len(one) = 1 /\ one[1] = s[1]
        BY <1>1
    <2>2. p \in Seq(Segment) /\ Len(p) = 1 /\ p[1] = s[1]
        BY <1>2
    <2> HIDE DEF one, p
    <2>3. one = p
        BY <2>1, <2>2, SeqEqual
    <2>4. QED
        BY <2>3 DEF one, p
<1>4. ASSUME Len(s) >= 2
      PROVE  /\ SubSeq(s, 1, 2) \in Seq(Segment) /\ Len(SubSeq(s, 1, 2)) = 2
             /\ SubSeq(s, 1, 2)[1] = s[1] /\ SubSeq(s, 1, 2)[2] = s[2]
    <2>1. /\ SubSeq(s, 1, 2) \in Seq(Segment)
          /\ Len(SubSeq(s, 1, 2)) = IF 1 <= 2 THEN 2 - 1 + 1 ELSE 0
          /\ \A i \in 1..2 - 1 + 1 : SubSeq(s, 1, 2)[i] = s[1 + i - 1]
        BY <1>1, <1>4, PartFacts
    <2>2. QED
        BY <2>1
<1>5. ASSUME Len(s) >= 3
      PROVE  /\ SubSeq(s, 3, Len(s)) \in Seq(Segment)
             /\ Len(SubSeq(s, 3, Len(s))) = Len(s) - 2 /\ Len(SubSeq(s, 3, Len(s))) >= 1
    <2>1. /\ SubSeq(s, 3, Len(s)) \in Seq(Segment)
          /\ Len(SubSeq(s, 3, Len(s))) = IF 3 <= Len(s) THEN Len(s) - 3 + 1 ELSE 0
        BY <1>1, PartFacts
    <2>2. QED
        BY <1>1, <1>5, <2>1
<1>6. QED
    BY <1>1, <1>2, <1>3, <1>4, <1>5

\* boundary.go cuts the same sublayer as the import rules, if they know it.
LEMMA NestedAgrees ==
    ASSUME NEW arch, NEW s \in Seq(Segment), Len(s) >= 1
    PROVE  /\ KnownSublayer(arch, IdentifySublayer(arch, s)) => NestedLayer(arch, s) = IdentifySublayer(arch, s)
           /\ ~KnownSublayer(arch, IdentifySublayer(arch, s)) => NestedLayer(arch, s) = NoSublayer
           /\ IdentifySublayer(arch, s) # NoSublayer
           /\ IdentifySublayer(arch, s) = SubSeq(s, 1, 1)
              \/ (Len(s) >= 2 /\ IdentifySublayer(arch, s) = SubSeq(s, 1, 2))
<1> DEFINE one == SubSeq(s, 1, 1)
           two == SubSeq(s, 1, 2)
<1>1. Len(s) >= 2 => two # <<>>
    BY InsideFacts, EmptySeq
<1>2. one # <<>>
    BY InsideFacts, EmptySeq
<1> HIDE DEF one, two
<1>3. IdentifySublayer(arch, s) =
          IF Len(s) >= 2 /\ (KnownSublayer(arch, two) \/ HasNestedSublayers(arch, s[1])) THEN two ELSE one
    BY DEF IdentifySublayer, one, two
<1>4. NestedLayer(arch, s) =
          IF Len(s) >= 2 /\ KnownSublayer(arch, two) THEN two
          ELSE IF Len(s) >= 2 /\ HasNestedSublayers(arch, s[1]) THEN NoSublayer
          ELSE IF KnownSublayer(arch, one) THEN one ELSE NoSublayer
    BY DEF NestedLayer, one, two
<1>5. QED
    BY <1>1, <1>2, <1>3, <1>4 DEF one, two, NoSublayer

LEMMA PackageLayerAgrees ==
    ASSUME NEW arch, NEW module, NEW path \in Seq(Segment), arch.root \in Seq(Segment),
           Classify(arch, module, path).kind = "domain"
    PROVE  LET sublayer == Classify(arch, module, path).sublayer
           IN  /\ sublayer # NoSublayer
               /\ PackageLayer(arch, module, path) = IF KnownSublayer(arch, sublayer) THEN sublayer ELSE NoSublayer
<1> DEFINE sublayer == Classify(arch, module, path).sublayer
           rel == Rel(arch, module, path)
<1>1. /\ Internal(arch, module, path) /\ rel \in Seq(Segment) /\ Len(rel) >= 1
      /\ arch.domainDir = NoDir => sublayer = <<rel[1]>> /\ KnownSublayer(arch, <<rel[1]>>)
      /\ arch.domainDir # NoDir => /\ rel[1] = arch.domainDir /\ Len(rel) >= 3
                                   /\ sublayer = IdentifySublayer(arch, SubSeq(rel, 3, Len(rel)))
    BY DomainFacts
<1>2. PackageLayer(arch, module, path) =
          IF arch.domainDir = NoDir THEN FlatLayer(arch, rel)
          ELSE IF Len(rel) >= 3 /\ rel[1] = arch.domainDir THEN NestedLayer(arch, SubSeq(rel, 3, Len(rel)))
          ELSE NoSublayer
    BY <1>1 DEF PackageLayer
<1> HIDE DEF sublayer, rel
<1>3. CASE arch.domainDir = NoDir
    <2>1. SubSeq(rel, 1, 1) = <<rel[1]>> /\ SubSeq(rel, 1, 1) \in Seq(Segment) /\ Len(SubSeq(rel, 1, 1)) = 1
        BY <1>1, InsideFacts
    <2>2. SubSeq(rel, 1, 1) # <<>>
        BY <2>1, EmptySeq
    <2>3. QED
        BY <1>1, <1>2, <1>3, <2>1, <2>2 DEF FlatLayer, NoSublayer, sublayer
<1>4. CASE arch.domainDir # NoDir
    <2> DEFINE inside == SubSeq(rel, 3, Len(rel))
    <2>1. inside \in Seq(Segment) /\ Len(inside) >= 1
        BY <1>1, <1>4, InsideFacts
    <2>2. PackageLayer(arch, module, path) = NestedLayer(arch, inside) /\ sublayer = IdentifySublayer(arch, inside)
        BY <1>1, <1>2, <1>4
    <2> HIDE DEF inside
    <2>3. QED
        BY <2>1, <2>2, NestedAgrees DEF sublayer
<1>5. QED
    BY <1>3, <1>4

\* The two rules that look for a layer under a prefix agree on every package.
LEMMA InspectionsAgree ==
    ASSUME NEW arch, NEW module, NEW path \in Seq(Segment), arch.root \in Seq(Segment),
           NEW layer \in Seq(Segment), Len(layer) >= 1
    PROVE  /\ FailureInspects(arch, module, path, {layer}) <=> PurityInspects(arch, module, path, {layer})
           /\ FailureInspects(arch, module, path, {layer}) <=>
                  Internal(arch, module, path) /\ MatchesLayer(arch, Rel(arch, module, path), layer)
<1> DEFINE pre == InternalPrefix(arch, module)
           S == Segment \cup {module}
           rest == Rel(arch, module, path)
<1>1. pre \in Seq(S) /\ Len(pre) \in Nat /\ path \in Seq(S) /\ Len(path) \in Nat
    <2>1. path \in Seq(S)
        BY SeqMonotonic
    <2>2. QED
        BY <2>1, RelFacts, LenProperties
<1>2. IsPrefix(pre, path) <=> Len(pre) <= Len(path) /\ \A i \in 1..Len(pre) : pre[i] = path[i]
    <2> HIDE DEF pre, S
    <2>1. QED
        BY <1>1, IsPrefixByElements
<1>3. Internal(arch, module, path) <=> Len(path) > Len(pre) /\ \A i \in 1..Len(pre) : path[i] = pre[i]
    BY DEF Internal, Under
<1>4. Len(path) = Len(pre) => ~MatchesLayer(arch, rest, layer)
    <2> SUFFICES ASSUME Len(path) = Len(pre) PROVE ~MatchesLayer(arch, rest, layer)
        OBVIOUS
    <2>1. rest = <<>>
        <3>1. rest = SubSeq(path, Len(pre) + 1, Len(path)) /\ Len(path) < Len(pre) + 1
            BY <1>1 DEF Rel
        <3> HIDE DEF pre, rest
        <3>2. QED
            BY <1>1, <3>1, SubSeqEmpty
    <2>2. Len(rest) = 0
        BY <2>1, EmptySeq
    <2> HIDE DEF rest
    <2>3. Len(layer) \in Nat
        BY LenProperties
    <2>4. QED
        BY <2>2, <2>3 DEF MatchesLayer, IsPrefix
<1> HIDE DEF pre, rest
<1>5. FailureInspects(arch, module, path, {layer}) <=> IsPrefix(pre, path) /\ MatchesLayer(arch, rest, layer)
    BY DEF FailureInspects, pre, rest
<1>6. PurityInspects(arch, module, path, {layer}) <=> Internal(arch, module, path) /\ MatchesLayer(arch, rest, layer)
    BY DEF PurityInspects, rest
<1>7. Internal(arch, module, path) => IsPrefix(pre, path)
    BY <1>1, <1>2, <1>3
<1>8. IsPrefix(pre, path) /\ ~Internal(arch, module, path) => Len(path) = Len(pre)
    BY <1>1, <1>2, <1>3
<1>9. QED
    BY <1>4, <1>5, <1>6, <1>7, <1>8 DEF rest

\* In a domain, a layer is inspected exactly when it is the sublayer of the
\* package or the directory that holds it.
LEMMA InspectedSublayer ==
    ASSUME NEW arch, NEW module, NEW path \in Seq(Segment), arch.root \in Seq(Segment),
           Classify(arch, module, path).kind = "domain",
           Legible(arch), NEW layer \in Sublayers(arch), layer \in Seq(Segment)
    PROVE  MatchesLayer(arch, Rel(arch, module, path), layer)
               <=> IsPrefix(layer, Classify(arch, module, path).sublayer)
<1> DEFINE rel == Rel(arch, module, path)
           sublayer == Classify(arch, module, path).sublayer
<1>1. /\ rel \in Seq(Segment) /\ Len(rel) >= 1
      /\ arch.domainDir = NoDir => sublayer = <<rel[1]>>
      /\ arch.domainDir # NoDir => /\ rel[1] = arch.domainDir /\ Len(rel) >= 3
                                   /\ sublayer = IdentifySublayer(arch, SubSeq(rel, 3, Len(rel)))
    BY DomainFacts
<1>2. Len(layer) \in 1..2 /\ (arch.domainDir = NoDir => Len(layer) = 1) /\ KnownSublayer(arch, layer)
    BY DEF Legible, Sublayers, KnownSublayer, Range
<1> HIDE DEF rel, sublayer
<1>3. CASE arch.domainDir = NoDir
    <2> DEFINE one == SubSeq(rel, 1, 1)
    <2>1. one = sublayer /\ one \in Seq(Segment) /\ Len(one) = 1 /\ one[1] = rel[1] /\ Len(rel) \in Nat
        BY <1>1, <1>3, InsideFacts
    <2> HIDE DEF one
    <2>2. IsPrefix(layer, rel) <=> layer[1] = rel[1]
        BY <1>1, <1>2, <1>3, <2>1, IsPrefixByElements
    <2>3. IsPrefix(layer, one) <=> layer[1] = rel[1]
        BY <1>2, <1>3, <2>1, IsPrefixByElements
    <2>4. QED
        BY <1>3, <2>1, <2>2, <2>3 DEF MatchesLayer, rel, sublayer
<1>4. CASE arch.domainDir # NoDir
    <2> DEFINE inside == SubSeq(rel, 3, Len(rel))
               one == SubSeq(inside, 1, 1)
               two == SubSeq(inside, 1, 2)
    <2>1. inside \in Seq(Segment) /\ Len(inside) >= 1 /\ Len(inside) \in Nat /\ Len(rel) \in Nat
        BY <1>1, <1>4, InsideFacts
    <2>2. sublayer = IdentifySublayer(arch, inside) /\ Len(rel) >= 2 /\ rel[1] = arch.domainDir
        BY <1>1, <1>4, <2>1
    <2>3. MatchesLayer(arch, rel, layer) <=> IsPrefix(layer, inside)
        BY <1>4, <2>2 DEF MatchesLayer
    <2> HIDE DEF inside
    <2>4. /\ one \in Seq(Segment) /\ Len(one) = 1 /\ one[1] = inside[1]
          /\ Len(inside) >= 2 => /\ two \in Seq(Segment) /\ Len(two) = 2
                                 /\ two[1] = inside[1] /\ two[2] = inside[2]
        BY <2>1, InsideFacts
    <2>5. sublayer = one \/ (Len(inside) >= 2 /\ sublayer = two)
        BY <2>1, <2>2, NestedAgrees
    <2>6. Len(inside) >= 2 /\ KnownSublayer(arch, two) => sublayer = two
        BY <2>2 DEF IdentifySublayer
    <2> HIDE DEF one, two
    <2>7. IsPrefix(layer, inside) <=> Len(layer) <= Len(inside) /\ \A i \in 1..Len(layer) : layer[i] = inside[i]
        BY <2>1, IsPrefixByElements
    <2>8. sublayer \in Seq(Segment)
        BY <2>4, <2>5
    <2>9. IsPrefix(layer, sublayer) <=> Len(layer) <= Len(sublayer) /\ \A i \in 1..Len(layer) : layer[i] = sublayer[i]
        BY <2>8, IsPrefixByElements
    <2>10. CASE Len(layer) = 1
        <3>1. IsPrefix(layer, inside) <=> layer[1] = inside[1]
            BY <2>1, <2>7, <2>10
        <3>2. Len(sublayer) \in 1..2 /\ sublayer[1] = inside[1]
            BY <2>4, <2>5
        <3>3. IsPrefix(layer, sublayer) <=> layer[1] = sublayer[1]
            BY <2>9, <2>10, <3>2
        <3>4. QED
            BY <2>3, <3>1, <3>2, <3>3 DEF rel, sublayer
    <2>11. CASE Len(layer) = 2
        <3>1. ASSUME IsPrefix(layer, inside)
              PROVE  IsPrefix(layer, sublayer)
            <4>1. Len(inside) >= 2 /\ layer[1] = inside[1] /\ layer[2] = inside[2]
                BY <2>7, <2>11, <3>1
            <4>2. two = layer
                BY <2>4, <2>11, <4>1, SeqEqual
            <4>3. sublayer = layer
                BY <1>2, <2>6, <4>1, <4>2
            <4>4. Len(sublayer) = Len(layer) /\ \A i : sublayer[i] = layer[i]
                BY <4>3
            <4>5. Len(layer) <= Len(sublayer)
                BY <2>11, <4>4
            <4>6. QED
                BY <2>9, <4>4, <4>5
        <3>2. ASSUME IsPrefix(layer, sublayer)
              PROVE  IsPrefix(layer, inside)
            <4>1. Len(inside) >= 2 /\ sublayer = two
                BY <2>4, <2>5, <2>9, <2>11, <3>2
            <4>2. layer[1] = inside[1] /\ layer[2] = inside[2]
                BY <2>4, <2>9, <2>11, <3>2, <4>1
            <4>3. QED
                BY <2>1, <2>7, <2>11, <4>1, <4>2
        <3>3. QED
            BY <2>3, <3>1, <3>2 DEF rel, sublayer
    <2>12. QED
        BY <1>2, <2>10, <2>11
<1>5. QED
    BY <1>3, <1>4

\* What boundary.go takes for a layer lies in a domain.
LEMMA LayersLieInDomains ==
    ASSUME NEW arch, NEW module, NEW path \in Seq(Segment), arch.root \in Seq(Segment),
           Legible(arch), NEW layer \in Sublayers(arch), PackageLayer(arch, module, path) = layer
    PROVE  Classify(arch, module, path).kind = "domain"
<1> DEFINE rel == Rel(arch, module, path)
           dirs == {arch.sharedDir, arch.appDir, arch.serverDir, arch.orchestrationDir} \ {NoDir}
<1>1. /\ Len(layer) \in 1..2 /\ arch.domainDir \notin dirs
      /\ arch.domainDir = NoDir => layer[1] \notin dirs
    BY DEF Legible
<1>2. layer # NoSublayer
    <2> SUFFICES ASSUME layer = NoSublayer PROVE FALSE
        OBVIOUS
    <2>1. Len(layer) = 0
        BY EmptySeq DEF NoSublayer
    <2>2. \A n : n \in 1..2 => n # 0
        OBVIOUS
    <2> HIDE DEF rel, dirs
    <2>3. QED
        BY <1>1, <2>1, <2>2
<1>3. Internal(arch, module, path)
    BY <1>2 DEF PackageLayer
<1>4. rel \in Seq(Segment) /\ Len(rel) >= 1 /\ Len(rel) \in Nat
    BY <1>3, RelFacts, LenProperties
<1>5. Classify(arch, module, path) = ClassifyRel(arch, rel)
    BY <1>3 DEF Classify
<1>6. layer = IF arch.domainDir = NoDir THEN FlatLayer(arch, rel)
              ELSE IF Len(rel) >= 3 /\ rel[1] = arch.domainDir THEN NestedLayer(arch, SubSeq(rel, 3, Len(rel)))
              ELSE NoSublayer
    BY <1>3 DEF PackageLayer
<1> HIDE DEF rel
<1>7. ASSUME rel[1] \notin dirs
      PROVE  ClassifyRel(arch, rel) =
                 IF arch.domainDir # NoDir THEN ClassifyInDomains(arch, rel) ELSE ClassifyFlat(arch, rel)
    BY <1>7 DEF ClassifyRel, InDir
<1> HIDE DEF dirs
<1>8. CASE arch.domainDir = NoDir
    <2>1. SubSeq(rel, 1, 1) = <<rel[1]>>
        BY <1>4, InsideFacts
    <2>2. layer = <<rel[1]>> /\ KnownSublayer(arch, <<rel[1]>>)
        BY <1>2, <1>6, <1>8, <2>1 DEF FlatLayer
    <2>3. rel[1] \notin dirs
        BY <1>1, <1>8, <2>2
    <2>4. QED
        BY <1>5, <1>7, <1>8, <2>2, <2>3 DEF ClassifyFlat, Class
<1>9. CASE arch.domainDir # NoDir
    <2>1. Len(rel) >= 3 /\ rel[1] = arch.domainDir
        BY <1>2, <1>6, <1>9
    <2>2. ClassifyRel(arch, rel) = ClassifyInDomains(arch, rel) /\ Len(rel) # 1 /\ Len(rel) # 2
        <3>1. \A n \in Nat : n >= 3 => n # 1 /\ n # 2
            OBVIOUS
        <3>2. ClassifyRel(arch, rel) = ClassifyInDomains(arch, rel)
            BY <1>1, <1>7, <1>9, <2>1
        <3>3. QED
            BY <1>4, <2>1, <3>1, <3>2
    <2>3. QED
        BY <1>5, <2>1, <2>2 DEF ClassifyInDomains, Class
<1>10. QED
    BY <1>8, <1>9
-------------------------------------------------------------------------------
(* From the load to the verdict *)

\* A project whose rules run, or ran: the callers have let it through.
Going == phase \in {"budget", "calls", "signatures"} \/ verdict \in {"pass", "fail", "shown"}

\* The viewer said whether the loader left anything out.
AcceptedInv == Going => Acceptable /\ (project.caller = "viewer" => warned = LoadErr)

CallsInv == phase = "signatures" \/ verdict = "pass" => CallFindings \subseteq found

\* Field f of package i, when it may show no transaction type and does.
BoundedAt(i) == Bounded(result[i])
SigsAt(i) == Code(result[i]).file.sigs
Shows(t) == \E u \in Within(t) : types[u].kind = "named" /\ types[u].id \in TxTypes
TellsType(g) == g.rule = "tx.type-in-signature"
Reported(i, f) ==
    BoundedAt(i) /\ f \in DOMAIN SigsAt(i) /\ Shows(SigsAt(i)[f]) => \E g \in found : TellsType(g)

\* Between the fields nothing waits; in a field the walk has its invariant; the
\* fields before have been reported.
FieldsInv ==
    /\ phase \in {"load", "budget", "calls"} => stack = <<>> /\ named = <<>>
    /\ phase = "signatures" =>
           /\ at \in 1..Len(result) + 1 /\ field \in Nat
           /\ field = 0 => stack = <<>> /\ named = <<>>
           /\ field # 0 => /\ at \in 1..Len(result) /\ field \in DOMAIN SigsAt(at)
                           /\ BoundedAt(at) /\ WalkInv(SigsAt(at)[field])
           /\ \A i \in 1..at - 1 : \A f \in Nat : Reported(i, f)
           /\ \A f \in 0..field - 1 : Reported(at, f)
    /\ verdict = "pass" => /\ \A i \in 1..Len(result) : \A f \in Nat : Reported(i, f)
                           /\ \A g \in found : ~IsError(g)

PhaseInv ==
    /\ phase \in {"load", "budget", "calls", "signatures", "done"}
    /\ verdict \in {"none", "pass", "fail", "fatal", "shown"}
    /\ phase # "done" => verdict = "none"
    /\ phase # "load" => Returned
    /\ verdict = "pass" => project.caller = "test"
    /\ verdict = "shown" => project.caller = "viewer"

GuardInv == /\ LoadInv /\ types = project.types
            /\ PhaseInv /\ AcceptedInv /\ CallsInv /\ FieldsInv

LEMMA GuardInitInv == GuardInit => GuardInv
<1> SUFFICES ASSUME GuardInit PROVE GuardInv
    OBVIOUS
<1>1. /\ project \in Projects /\ types = project.types /\ LoadInit
      /\ stack = <<>> /\ named = <<>> /\ phase = "load" /\ verdict = "none"
    BY DEF GuardInit
<1>2. LoadInv
    <2>1. /\ step = "start" /\ root = 1 /\ visited = {} /\ fatal = NoError /\ result = <<>> /\ loadErrs = <<>>
          /\ failed = FALSE
        BY <1>1 DEF LoadInit
    <2>2. Len(project.roots) \in Nat
        BY <1>1, ProjectFacts, LenProperties
    <2>3. root \in 1..Len(project.roots) + 1 /\ Passed = {}
        BY <2>1, <2>2 DEF Passed
    <2>4. Range(result) = {} /\ result \in Seq(PackageIds) /\ loadErrs \in Seq(PackageIds)
        BY <2>1 DEF Range
    <2>5. QED
        BY <1>1, <2>1, <2>3, <2>4 DEF LoadInv
<1>3. PhaseInv /\ AcceptedInv /\ CallsInv /\ FieldsInv
    BY <1>1 DEF PhaseInv, AcceptedInv, CallsInv, FieldsInv, Going
<1>4. QED
    BY <1>1, <1>2, <1>3 DEF GuardInv

\* After the load, project and what was loaded stay.
LEMMA GuardFrame ==
    ASSUME UNCHANGED <<project, loadVars, types>>
    PROVE  /\ LoadInv' <=> LoadInv
           /\ Acceptable' <=> Acceptable
           /\ LoadErr' <=> LoadErr
           /\ Returned' <=> Returned
           /\ CallFindings' = CallFindings
           /\ \A i : BoundedAt(i)' <=> BoundedAt(i)
           /\ \A i : SigsAt(i)' = SigsAt(i)
           /\ \A t : Shows(t)' <=> Shows(t)
           /\ \A t : Within(t)' = Within(t)
<1>1. /\ project' = project /\ types' = types /\ step' = step /\ root' = root /\ visited' = visited
      /\ fatal' = fatal /\ result' = result /\ loadErrs' = loadErrs /\ failed' = failed /\ flags' = flags
    BY DEF loadVars
<1>2. /\ \A q : Fatal(q)' = Fatal(q) /\ Reach(q)' = Reach(q) /\ Errors(q)' = Errors(q) /\ Clean(q)' = Clean(q)
      /\ \A q : Code(q)' = Code(q)
      /\ loadBuildFlags' = loadBuildFlags /\ PackageIds' = PackageIds
    BY <1>1, SameBuild DEF Code
<1>3. \A q : Deps(q)' = Deps(q) /\ (IllTyped(q)' <=> IllTyped(q))
    BY <1>1 DEF Reach, Deps, IllTyped, Errors
<1>4. Passed' = Passed /\ Current' = Current /\ Deps(Current)' = Deps(Current)
      /\ (AtRoot' <=> AtRoot) /\ Packages' = Packages /\ Module' = Module
    BY <1>1 DEF Passed, Current, AtRoot, Packages, Module, ModuleOf, Deps, Reach
<1>5. LoadInv' <=> LoadInv
    <2>1. Fatal(fatal)' <=> Fatal(fatal)
        BY <1>1 DEF Fatal, Errors
    <2>2. QED
        BY <1>1, <1>2, <1>3, <1>4, <2>1 DEF LoadInv
<1>6. Acceptable' <=> Acceptable
    <2>1. \A q : Complete(q)' <=> Complete(q)
        BY <1>2, <1>3 DEF Complete
    <2>2. (LoadErr' <=> LoadErr) /\ (HasRoot' <=> HasRoot)
        BY <1>1, <1>4 DEF LoadErr, HasRoot
    <2>3. QED
        BY <1>1, <1>4, <2>1, <2>2 DEF Acceptable
<1>7. CallFindings' = CallFindings
    <2>1. \A rule : Checked(rule)' = Checked(rule)
        BY <1>1, <1>2, <1>4 DEF Checked
    <2>2. QED
        BY <1>1, <2>1 DEF CallFindings
<1>8. \A i : (BoundedAt(i)' <=> BoundedAt(i)) /\ SigsAt(i)' = SigsAt(i)
    BY <1>1, <1>2, <1>4 DEF BoundedAt, Bounded, Registered, SigsAt, Code
<1>9. \A t : Within(t)' = Within(t) /\ (Shows(t)' <=> Shows(t))
    BY <1>1 DEF Within, Shows
<1>10. QED
    BY <1>1, <1>5, <1>6, <1>7, <1>8, <1>9 DEF LoadErr, Returned

\* The steps of the loader, and its end.
LEMMA LoadingKeeps ==
    ASSUME GuardInv, Loading \/ Accept
    PROVE  GuardInv'
<1>1. CASE Loading
    <2>1. /\ phase = "load" /\ Load /\ UNCHANGED <<project, types, phase, verdict, stack, named>>
        BY <1>1 DEF Loading, walkVars
    <2>2. LoadInv'
        BY <2>1, LoadKeeps DEF GuardInv
    <2>3. verdict = "none" /\ (types = project.types)'
        BY <2>1 DEF GuardInv, PhaseInv
    <2>4. (PhaseInv /\ AcceptedInv /\ CallsInv)'
        BY <2>1, <2>3 DEF PhaseInv, AcceptedInv, CallsInv, Going
    <2>5. FieldsInv'
        BY <2>1, <2>3 DEF FieldsInv, GuardInv
    <2>6. QED
        BY <2>2, <2>3, <2>4, <2>5 DEF GuardInv
<1>2. CASE Accept
    <2>1. /\ phase = "load" /\ Returned /\ UNCHANGED <<project, loadVars, types, stack, named>>
          /\ \/ Acceptable /\ phase' = "budget" /\ verdict' = verdict
             \/ ~Acceptable /\ phase' = "done" /\ verdict' = "fatal"
          /\ warned' = (project.caller = "viewer" /\ LoadErr)
        BY <1>2 DEF Accept, End, walkVars, Warns
    <2>2. LoadInv' /\ (Acceptable' <=> Acceptable) /\ (LoadErr' <=> LoadErr) /\ Returned'
        BY <2>1, GuardFrame DEF GuardInv
    <2>3. verdict = "none" /\ (types = project.types)'
        BY <2>1 DEF GuardInv, PhaseInv
    <2>4. (PhaseInv /\ CallsInv)'
        BY <2>1, <2>2, <2>3 DEF PhaseInv, CallsInv
    <2>5. AcceptedInv'
        <3>1. project.caller = "viewer" => warned' = LoadErr
            <4> SUFFICES ASSUME project.caller = "viewer" PROVE warned' = LoadErr
                OBVIOUS
            <4>1. (project.caller = "viewer" /\ LoadErr) <=> LoadErr
                OBVIOUS
            <4>2. (project.caller = "viewer" /\ LoadErr) = LoadErr
                <5>1. LoadErr \in BOOLEAN
                    BY DEF LoadErr
                <5>2. QED
                    BY <4>1, <5>1
            <4>3. QED
                BY <2>1, <4>2
        <3>2. project.caller = "viewer" => (warned' <=> LoadErr')
            BY <3>1, <2>2
        <3>3. Going' => Acceptable
            BY <2>1 DEF Going
        <3>4. warned' \in BOOLEAN /\ LoadErr' \in BOOLEAN
            BY <2>1 DEF LoadErr
        <3>5. QED
            BY <2>1, <2>2, <3>2, <3>3, <3>4 DEF AcceptedInv
    <2>6. FieldsInv'
        BY <2>1, <2>3 DEF FieldsInv, GuardInv
    <2>7. QED
        BY <2>2, <2>3, <2>4, <2>5, <2>6 DEF GuardInv
<1>3. QED
    BY <1>1, <1>2

\* The logic budget leaves everything as it is but its findings.
LEMMA BudgetKeeps ==
    ASSUME GuardInv, OpenPackage \/ NextFunction \/ MeasureStep \/ ClosePackage \/ BudgetPanics \/ BudgetDone
    PROVE  GuardInv'
<1>1. /\ phase = "budget" /\ phase' \in {"budget", "calls"}
      /\ UNCHANGED <<project, loadVars, types, walkVars, warned, verdict>>
    BY DEF OpenPackage, NextFunction, MeasureStep, ClosePackage, BudgetPanics, BudgetDone, AtPackage
<1>2. LoadInv' /\ (Acceptable' <=> Acceptable) /\ (LoadErr' <=> LoadErr) /\ (Returned' <=> Returned)
    BY <1>1, GuardFrame DEF GuardInv
<1>3. verdict = "none" /\ (types = project.types)' /\ stack' = <<>> /\ named' = <<>> /\ verdict' = "none"
    BY <1>1 DEF GuardInv, PhaseInv, FieldsInv, walkVars
<1>4. (PhaseInv /\ CallsInv)'
    BY <1>1, <1>2, <1>3 DEF PhaseInv, CallsInv, GuardInv
<1>5. AcceptedInv'
    <2>1. Going
        BY <1>1 DEF Going
    <2>2. Acceptable /\ (project.caller = "viewer" => warned = LoadErr)
        BY <2>1 DEF GuardInv, AcceptedInv
    <2>3. LoadErr' = LoadErr
        BY <1>1 DEF LoadErr, loadVars
    <2>4. QED
        BY <1>1, <1>2, <2>2, <2>3 DEF AcceptedInv
<1>6. FieldsInv'
    BY <1>1, <1>3 DEF FieldsInv
<1>7. QED
    BY <1>2, <1>3, <1>4, <1>5, <1>6 DEF GuardInv

\* The types of the project are what the walk asks for.
LEMMA SignatureTypes ==
    ASSUME GuardInv
    PROVE  /\ WalkTypes /\ Len(result) \in Nat
           /\ \A i \in 1..Len(result) : SigsAt(i) \in Seq(DOMAIN types)
           /\ \A i \in 1..Len(result) : \A f \in DOMAIN SigsAt(i) : SigsAt(i)[f] \in DOMAIN types
<1>1. project \in Projects /\ types = project.types /\ result \in Seq(PackageIds)
    BY DEF GuardInv, LoadInv
<1>2. WalkTypes
    BY <1>1, ProjectsAssumption DEF WalkTypes
<1>3. Len(result) \in Nat /\ \A i \in 1..Len(result) : result[i] \in PackageIds
    BY <1>1, LenProperties, ElementOfSeq
<1>4. \A i \in 1..Len(result) : SigsAt(i) \in Seq(DOMAIN types)
    BY <1>1, <1>3, ProjectFacts DEF SigsAt
<1>5. ASSUME NEW i \in 1..Len(result), NEW f \in DOMAIN SigsAt(i)
      PROVE  SigsAt(i)[f] \in DOMAIN types
    <2> DEFINE s == SigsAt(i)
    <2>1. s \in Seq(DOMAIN types) /\ f \in DOMAIN s
        BY <1>4
    <2> HIDE DEF s
    <2>2. f \in 1..Len(s)
        BY <2>1, LenProperties
    <2>3. s[f] \in DOMAIN types
        BY <2>1, <2>2, ElementOfSeq
    <2>4. QED
        BY <2>3 DEF s
<1>6. QED
    BY <1>2, <1>3, <1>4, <1>5

LEMMA CheckCallsKeeps ==
    ASSUME GuardInv, CheckCalls
    PROVE  GuardInv'
<1>1. /\ phase = "calls" /\ phase' = "signatures" /\ at' = 1 /\ field' = 0
      /\ found' = found \cup CallFindings
      /\ UNCHANGED <<project, loadVars, types, walkVars, warned, verdict>>
    BY DEF CheckCalls
<1>2. /\ LoadInv' /\ (Acceptable' <=> Acceptable) /\ (LoadErr' <=> LoadErr) /\ (Returned' <=> Returned)
      /\ CallFindings' = CallFindings
    BY <1>1, GuardFrame DEF GuardInv
<1>3. verdict = "none" /\ (types = project.types)' /\ stack' = <<>> /\ named' = <<>> /\ verdict' = "none"
    BY <1>1 DEF GuardInv, PhaseInv, FieldsInv, walkVars
<1>4. (PhaseInv /\ CallsInv)'
    BY <1>1, <1>2, <1>3 DEF PhaseInv, CallsInv, GuardInv
<1>5. AcceptedInv'
    <2>1. Acceptable /\ (project.caller = "viewer" => warned = LoadErr)
        BY <1>1 DEF GuardInv, AcceptedInv, Going
    <2>2. LoadErr' = LoadErr
        BY <1>1 DEF LoadErr, loadVars
    <2>3. QED
        BY <1>1, <1>2, <2>1, <2>2 DEF AcceptedInv
<1>6. FieldsInv'
    <2>1. result' = result /\ Len(result) \in Nat
        BY <1>1, LenProperties DEF loadVars, GuardInv, LoadInv
    <2>2. at' \in 1..Len(result') + 1 /\ 1..at' - 1 = {} /\ 0..field' - 1 = {} /\ field' \in Nat
        BY <1>1, <2>1
    <2>3. QED
        BY <1>1, <1>3, <2>2 DEF FieldsInv
<1>7. QED
    BY <1>2, <1>3, <1>4, <1>5, <1>6 DEF GuardInv

\* The field that has been walked is reported when its findings are.
LEMMA FieldReported ==
    ASSUME GuardInv, AtSignatures, field # 0
    PROVE  Shows(SigsAt(at)[field]) => \E g \in NamedFindings : TellsType(g)
<1>1. phase = "signatures" /\ stack = <<>>
    BY DEF AtSignatures
<1>2. /\ at \in 1..Len(result) /\ field \in DOMAIN SigsAt(at) /\ WalkInv(SigsAt(at)[field])
    BY <1>1 DEF GuardInv, FieldsInv
<1> DEFINE t == SigsAt(at)[field]
<1>3. WalkTypes /\ t \in DOMAIN types
    BY <1>2, SignatureTypes
<1> HIDE DEF t
<1>4. Range(named) = TxTypes \cap {types[u].id : u \in {w \in Within(t) : types[w].kind = "named"}}
    BY <1>1, <1>2, <1>3, WalkFinished DEF SignatureExact, t
<1>5. ASSUME Shows(t)
      PROVE  \E i : i \in DOMAIN named
    <2>1. PICK u \in Within(t) : types[u].kind = "named" /\ types[u].id \in TxTypes
        BY <1>5 DEF Shows
    <2>2. types[u].id \in Range(named)
        BY <1>4, <2>1
    <2>3. QED
        BY <2>2 DEF Range
<1>6. \A i \in DOMAIN named : \E g \in NamedFindings : TellsType(g)
    <2>1. ASSUME NEW i \in DOMAIN named
          PROVE  \E g \in NamedFindings : TellsType(g)
        <3> DEFINE g == Finding("tx.type-in-signature", Code(result[at]).path, i)
        <3>1. g \in NamedFindings
            BY DEF NamedFindings
        <3>2. TellsType(g)
            BY DEF TellsType, Finding
        <3>3. QED
            BY <3>1, <3>2
    <2>2. QED
        BY <2>1
<1>7. QED
    BY <1>5, <1>6 DEF t

\* Between the fields and in them, only the fields' own part is at stake.
LEMMA SignaturesFrame ==
    ASSUME GuardInv, phase = "signatures", phase' = "signatures", found \subseteq found',
           UNCHANGED <<project, loadVars, types, warned, verdict>>
    PROVE  /\ LoadInv' /\ (types = project.types)' /\ (PhaseInv /\ AcceptedInv /\ CallsInv)'
           /\ verdict' = "none" /\ result' = result
           /\ \A i, f : Reported(i, f) => Reported(i, f)'
           /\ \A i : (BoundedAt(i)' <=> BoundedAt(i)) /\ SigsAt(i)' = SigsAt(i)
<1>1. /\ LoadInv' /\ (Acceptable' <=> Acceptable) /\ (LoadErr' <=> LoadErr) /\ (Returned' <=> Returned)
      /\ CallFindings' = CallFindings /\ \A i : (BoundedAt(i)' <=> BoundedAt(i)) /\ SigsAt(i)' = SigsAt(i)
      /\ \A t : Shows(t)' <=> Shows(t)
    BY GuardFrame DEF GuardInv
<1>2. verdict = "none" /\ (types = project.types)' /\ result' = result
    BY DEF GuardInv, PhaseInv, loadVars
<1>3. (PhaseInv /\ CallsInv)'
    BY <1>1, <1>2 DEF PhaseInv, CallsInv, GuardInv
<1>4. AcceptedInv'
    <2>1. Acceptable /\ (project.caller = "viewer" => warned = LoadErr)
        BY DEF GuardInv, AcceptedInv, Going
    <2>2. LoadErr' = LoadErr
        BY DEF LoadErr, loadVars
    <2>3. QED
        BY <1>1, <2>1, <2>2 DEF AcceptedInv
<1>5. \A i, f : Reported(i, f) => Reported(i, f)'
    <2>1. (\E g \in found : TellsType(g)) => \E g \in found' : TellsType(g)
        OBVIOUS
    <2>2. \A i, f : Shows(SigsAt(i)[f])' <=> Shows(SigsAt(i)[f])
        BY <1>1 DEF Shows, Within
    <2> SUFFICES ASSUME NEW i, NEW f, Reported(i, f) PROVE Reported(i, f)'
        OBVIOUS
    <2>3. SigsAt(i)' = SigsAt(i) /\ (BoundedAt(i)' <=> BoundedAt(i)) /\ (Shows(SigsAt(i)[f])' <=> Shows(SigsAt(i)[f]))
        BY <1>1, <2>2
    <2>4. QED
        BY <2>1, <2>3 DEF Reported, TellsType
<1>6. QED
    BY <1>1, <1>2, <1>3, <1>4, <1>5

\* With the findings of the field, the field is reported.
LEMMA NowReported ==
    ASSUME GuardInv, AtSignatures, found' = found \cup NamedFindings,
           UNCHANGED <<project, loadVars, types>>,
           \A i, f : Reported(i, f) => Reported(i, f)'
    PROVE  \A i, f : i = at /\ f \in 0..field => Reported(i, f)'
<1>1. /\ phase = "signatures" /\ at <= Len(result) /\ Len(result) \in Nat /\ at \in 1..Len(result) + 1
      /\ field \in Nat /\ \A f \in 0..field - 1 : Reported(at, f)
    BY SignatureTypes DEF AtSignatures, GuardInv, FieldsInv
<1>2. at \in 1..Len(result)
    BY <1>1
<1> SUFFICES ASSUME NEW i, i = at, NEW f \in 0..field PROVE Reported(i, f)'
    OBVIOUS
<1>3. CASE f # field
    <2>1. f \in 0..field - 1
        BY <1>1, <1>3
    <2>2. QED
        BY <1>1, <2>1
<1>4. CASE f = field /\ field = 0
    <2>1. SigsAt(at) \in Seq(DOMAIN types)
        BY <1>2, SignatureTypes
    <2>2. f \notin DOMAIN SigsAt(i)
        BY <1>4, <2>1, LenProperties
    <2>3. Reported(i, f)
        BY <2>2 DEF Reported
    <2>4. QED
        BY <2>3
<1>5. CASE f = field /\ field # 0
    <2>1. Shows(SigsAt(i)[f]) => \E g \in NamedFindings : TellsType(g)
        BY <1>5, FieldReported
    <2>2. Shows(SigsAt(i)[f])' <=> Shows(SigsAt(i)[f])
        BY DEF Shows, Within, SigsAt, Code, loadVars
    <2>3. Shows(SigsAt(i)[f])' => \E g \in found' : TellsType(g)
        BY <2>1, <2>2
    <2>4. QED
        BY <2>3 DEF Reported, TellsType
<1>6. QED
    BY <1>3, <1>4, <1>5

LEMMA NextFieldKeeps ==
    ASSUME GuardInv, NextField
    PROVE  GuardInv'
<1>1. /\ AtSignatures /\ BoundedAt(at) /\ field < Len(SigsAt(at))
      /\ field' = field + 1 /\ StartField(SigsAt(at)[field + 1]) /\ found' = found \cup NamedFindings
      /\ phase = "signatures" /\ at <= Len(result)
      /\ UNCHANGED <<project, loadVars, types, warned, verdict>> /\ phase' = phase /\ at' = at
    BY DEF NextField, AtSignatures, BoundedAt, SigsAt, Sigs
<1>2. /\ LoadInv' /\ (types = project.types)' /\ (PhaseInv /\ AcceptedInv /\ CallsInv)'
      /\ verdict' = "none" /\ result' = result
      /\ \A i, f : Reported(i, f) => Reported(i, f)'
      /\ \A i : (BoundedAt(i)' <=> BoundedAt(i)) /\ SigsAt(i)' = SigsAt(i)
    BY <1>1, SignaturesFrame
<1>3. /\ WalkTypes /\ Len(result) \in Nat /\ at \in 1..Len(result) + 1 /\ field \in Nat
      /\ \A i \in 1..at - 1 : \A f \in Nat : Reported(i, f)
      /\ \A f \in 0..field - 1 : Reported(at, f)
    BY <1>1, SignatureTypes DEF GuardInv, FieldsInv
<1>4. at \in 1..Len(result)
    BY <1>1, <1>3
<1>5. /\ SigsAt(at) \in Seq(DOMAIN types) /\ \A f \in DOMAIN SigsAt(at) : SigsAt(at)[f] \in DOMAIN types
    BY <1>4, SignatureTypes
<1>6. field + 1 \in DOMAIN SigsAt(at)
    <2>1. DOMAIN SigsAt(at) = 1..Len(SigsAt(at)) /\ Len(SigsAt(at)) \in Nat
        BY <1>5, LenProperties
    <2>2. QED
        BY <1>1, <1>3, <2>1
<1>7. PICK t \in DOMAIN types : t = SigsAt(at)[field + 1]
    BY <1>5, <1>6
<1>8. WalkInv(t)'
    BY <1>1, <1>3, <1>7, StartInv
<1>9. WalkInv(SigsAt(at)[field])'
    <2>1. SigsAt(at)'[field'] = t
        BY <1>1, <1>2, <1>7 DEF SigsAt, Code, loadVars
    <2>2. QED
        BY <1>8, <2>1 DEF WalkInv, Within
<1>10. /\ \A i \in 1..at - 1 : \A f \in Nat : Reported(i, f)'
       /\ \A i, f : i = at /\ f \in 0..field => Reported(i, f)'
    BY <1>1, <1>2, <1>3, NowReported
<1>11. FieldsInv'
    <2>1. /\ at' = at /\ result' = result /\ field' = field + 1 /\ field' \in Nat /\ field' # 0
          /\ 0..field' - 1 = 0..field
        BY <1>1, <1>2, <1>3
    <2>2. (\A i \in 1..at - 1 : \A f \in Nat : Reported(i, f))'
        BY <1>10, <2>1
    <2>3. (\A f \in 0..field - 1 : Reported(at, f))'
        <3>1. \A i, f : i = at' /\ f \in 0..field' - 1 => Reported(i, f)'
            BY <1>10, <2>1
        <3>2. QED
            BY <3>1
    <2>4. (field \in DOMAIN SigsAt(at) /\ BoundedAt(at))'
        <3>1. SigsAt(at)' = SigsAt(at) /\ (BoundedAt(at)' <=> BoundedAt(at))
            BY <2>1, <1>1 DEF SigsAt, Code, loadVars, BoundedAt, Bounded, Registered, Module, ModuleOf
        <3>2. QED
            BY <1>1, <1>6, <2>1, <3>1
    <2>5. phase' = "signatures" /\ verdict' # "pass"
        BY <1>1, <1>2
    <2>6. QED
        BY <1>3, <1>4, <1>9, <2>1, <2>2, <2>3, <2>4, <2>5 DEF FieldsInv
<1>12. QED
    BY <1>2, <1>11 DEF GuardInv

LEMMA WalkStepKeeps ==
    ASSUME GuardInv, WalkStep
    PROVE  GuardInv'
<1>1. /\ phase = "signatures" /\ Walk /\ phase' = phase /\ at' = at /\ field' = field /\ found' = found
      /\ UNCHANGED <<project, loadVars, types, warned, verdict>>
    BY DEF WalkStep
<1>2. /\ LoadInv' /\ (types = project.types)' /\ (PhaseInv /\ AcceptedInv /\ CallsInv)'
      /\ verdict' = "none" /\ result' = result
      /\ \A i, f : Reported(i, f) => Reported(i, f)'
      /\ \A i : (BoundedAt(i)' <=> BoundedAt(i)) /\ SigsAt(i)' = SigsAt(i)
    BY <1>1, SignaturesFrame
<1>3. stack # <<>>
    BY <1>1 DEF Walk, WalkSeen, WalkType
<1>4. /\ at \in 1..Len(result) /\ at \in 1..Len(result) + 1 /\ field \in Nat /\ field # 0
      /\ field \in DOMAIN SigsAt(at) /\ BoundedAt(at) /\ WalkInv(SigsAt(at)[field])
      /\ \A i \in 1..at - 1 : \A f \in Nat : Reported(i, f)
      /\ \A f \in 0..field - 1 : Reported(at, f)
    BY <1>1, <1>3 DEF GuardInv, FieldsInv
<1>5. WalkTypes /\ SigsAt(at)[field] \in DOMAIN types
    BY <1>4, SignatureTypes
<1>6. PICK t \in DOMAIN types : t = SigsAt(at)[field]
    BY <1>5
<1>7. WalkInv(t)'
    BY <1>1, <1>4, <1>5, <1>6, WalkKeeps
<1>8. SigsAt(at)' = SigsAt(at) /\ (BoundedAt(at)' <=> BoundedAt(at))
    BY <1>1 DEF SigsAt, Code, loadVars, BoundedAt, Bounded, Registered, Module, ModuleOf
<1>9. WalkInv(SigsAt(at)[field])'
    <2>1. SigsAt(at)'[field'] = t
        BY <1>1, <1>6, <1>8
    <2>2. QED
        BY <1>7, <2>1 DEF WalkInv, Within
<1>10. /\ (\A i \in 1..at - 1 : \A f \in Nat : Reported(i, f))'
       /\ (\A f \in 0..field - 1 : Reported(at, f))'
    <2>1. \A i \in 1..at' - 1 : \A f \in Nat : Reported(i, f)'
        BY <1>1, <1>2, <1>4
    <2>2. \A i, f : i = at' /\ f \in 0..field' - 1 => Reported(i, f)'
        BY <1>1, <1>2, <1>4
    <2>3. QED
        BY <2>1, <2>2
<1>11. FieldsInv'
    <2>1. phase' = "signatures" /\ verdict' # "pass"
        BY <1>1, <1>2
    <2>2. /\ (at \in 1..Len(result) + 1 /\ field \in Nat /\ field # 0 /\ at \in 1..Len(result))'
          /\ (field \in DOMAIN SigsAt(at) /\ BoundedAt(at))'
        BY <1>1, <1>2, <1>4, <1>8
    <2>3. QED
        BY <1>9, <1>10, <2>1, <2>2 DEF FieldsInv
<1>12. QED
    BY <1>2, <1>11 DEF GuardInv

LEMMA NextSignaturesKeeps ==
    ASSUME GuardInv, NextSignatures
    PROVE  GuardInv'
<1>1. /\ AtSignatures /\ (BoundedAt(at) => field = Len(SigsAt(at))) /\ found' = found \cup NamedFindings
      /\ at' = at + 1 /\ field' = 0 /\ named' = <<>> /\ stack' = stack /\ stack = <<>>
      /\ phase = "signatures" /\ at <= Len(result)
      /\ UNCHANGED <<project, loadVars, types, warned, verdict>> /\ phase' = phase
    BY DEF NextSignatures, AtSignatures, BoundedAt, SigsAt, Sigs
<1>2. /\ LoadInv' /\ (types = project.types)' /\ (PhaseInv /\ AcceptedInv /\ CallsInv)'
      /\ verdict' = "none" /\ result' = result
      /\ \A i, f : Reported(i, f) => Reported(i, f)'
      /\ \A i : (BoundedAt(i)' <=> BoundedAt(i)) /\ SigsAt(i)' = SigsAt(i)
    BY <1>1, SignaturesFrame
<1>3. /\ Len(result) \in Nat /\ at \in 1..Len(result) + 1 /\ field \in Nat
      /\ \A i \in 1..at - 1 : \A f \in Nat : Reported(i, f)
      /\ \A f \in 0..field - 1 : Reported(at, f)
    BY <1>1, SignatureTypes DEF GuardInv, FieldsInv
<1>4. at \in 1..Len(result) /\ at + 1 \in 1..Len(result) + 1
    BY <1>1, <1>3
<1>5. SigsAt(at) \in Seq(DOMAIN types) /\ Len(SigsAt(at)) \in Nat /\ DOMAIN SigsAt(at) = 1..Len(SigsAt(at))
    BY <1>4, SignatureTypes, LenProperties
<1>6. \A i, f : i = at /\ f \in 0..field => Reported(i, f)'
    BY <1>1, <1>2, <1>3, NowReported
<1>7. \A i, f : i = at /\ f \in Nat => Reported(i, f)'
    <2> SUFFICES ASSUME NEW i, i = at, NEW f \in Nat PROVE Reported(i, f)'
        OBVIOUS
    <2>1. CASE f \in DOMAIN SigsAt(at) /\ BoundedAt(at)
        <3>1. f \in 0..field
            BY <1>1, <1>3, <1>5, <2>1
        <3>2. QED
            BY <1>6, <3>1
    <2>2. CASE ~(f \in DOMAIN SigsAt(at) /\ BoundedAt(at))
        <3>1. Reported(i, f)
            BY <2>2 DEF Reported
        <3>2. QED
            BY <1>2, <3>1
    <2>3. QED
        BY <2>1, <2>2
<1>8. (\A i \in 1..at - 1 : \A f \in Nat : Reported(i, f))'
    <2>1. \A i \in 1..at' - 1 : i \in 1..at - 1 \/ i = at
        BY <1>1, <1>3
    <2>2. \A i \in 1..at' - 1 : \A f \in Nat : Reported(i, f)'
        BY <1>2, <1>3, <1>7, <2>1
    <2>3. QED
        BY <2>2
<1>9. FieldsInv'
    <2>1. phase' = "signatures" /\ verdict' # "pass" /\ field' = 0 /\ 0..field' - 1 = {} /\ field' \in Nat
        BY <1>1, <1>2
    <2>2. (at \in 1..Len(result) + 1)'
        BY <1>1, <1>2, <1>4
    <2>3. stack' = <<>> /\ named' = <<>>
        BY <1>1
    <2>4. QED
        BY <1>8, <2>1, <2>2, <2>3 DEF FieldsInv
<1>10. QED
    BY <1>2, <1>9 DEF GuardInv

LEMMA ConcludeKeeps ==
    ASSUME GuardInv, Conclude
    PROVE  GuardInv'
<1>1. /\ phase = "signatures" /\ at > Len(result) /\ phase' = "done"
      /\ verdict' = IF project.caller = "viewer" THEN "shown"
                    ELSE IF \E f \in found : IsError(f) THEN "fail" ELSE "pass"
      /\ UNCHANGED <<project, loadVars, types, found, warned>>
    BY DEF Conclude, End
<1>2. /\ LoadInv' /\ (Acceptable' <=> Acceptable) /\ (LoadErr' <=> LoadErr) /\ (Returned' <=> Returned)
      /\ CallFindings' = CallFindings /\ \A i : (BoundedAt(i)' <=> BoundedAt(i)) /\ SigsAt(i)' = SigsAt(i)
      /\ result' = result /\ project' = project
    BY <1>1, GuardFrame DEF GuardInv, loadVars
<1>3. (types = project.types)'
    BY <1>1 DEF GuardInv
<1>4. project.caller \in {"test", "viewer"}
    BY ProjectsAssumption DEF GuardInv, LoadInv
<1>5. PhaseInv'
    BY <1>1, <1>2, <1>4 DEF PhaseInv, GuardInv
<1>6. CallsInv'
    BY <1>1, <1>2 DEF CallsInv, GuardInv
<1>7. AcceptedInv'
    <2>1. Acceptable /\ (project.caller = "viewer" => warned = LoadErr)
        BY <1>1 DEF GuardInv, AcceptedInv, Going
    <2>2. LoadErr' = LoadErr
        BY <1>1 DEF LoadErr, loadVars
    <2>3. QED
        BY <1>1, <1>2, <2>1, <2>2 DEF AcceptedInv
<1>8. verdict' = "pass" => /\ \A i \in 1..Len(result) : \A f \in Nat : Reported(i, f)
                           /\ \A g \in found : ~IsError(g)
    <2>1. Len(result) \in Nat /\ at \in 1..Len(result) + 1
        BY <1>1, SignatureTypes DEF GuardInv, FieldsInv
    <2>2. 1..at - 1 = 1..Len(result)
        BY <1>1, <2>1
    <2>3. QED
        BY <1>1, <2>2 DEF GuardInv, FieldsInv
<1>9. FieldsInv'
    <2>1. \A i, f : Shows(SigsAt(i)[f])' <=> Shows(SigsAt(i)[f])
        BY <1>1, <1>2 DEF Shows, Within
    <2>2. \A i, f : Reported(i, f) => Reported(i, f)'
        BY <1>1, <1>2, <2>1 DEF Reported, TellsType
    <2>3. phase' = "done" /\ \A g : IsError(g)' <=> IsError(g)
        BY <1>1 DEF IsError, Enforced, RuleOf
    <2>4. verdict' = "pass" => /\ \A i \in 1..Len(result') : \A f \in Nat : Reported(i, f)'
                               /\ \A g \in found' : ~IsError(g)'
        BY <1>1, <1>2, <1>8, <2>2, <2>3
    <2>5. QED
        BY <2>3, <2>4 DEF FieldsInv
<1>10. QED
    BY <1>2, <1>3, <1>5, <1>6, <1>7, <1>9 DEF GuardInv

LEMMA GuardNextInv == GuardInv /\ [GuardNext]_guardVars => GuardInv'
<1> SUFFICES ASSUME GuardInv, [GuardNext]_guardVars PROVE GuardInv'
    OBVIOUS
<1>1. CASE Loading \/ Accept
    BY <1>1, LoadingKeeps
<1>2. CASE OpenPackage \/ NextFunction \/ MeasureStep \/ ClosePackage \/ BudgetPanics \/ BudgetDone
    BY <1>2, BudgetKeeps
<1>3. CASE CheckCalls
    BY <1>3, CheckCallsKeeps
<1>4. CASE NextField
    BY <1>4, NextFieldKeeps
<1>5. CASE WalkStep
    BY <1>5, WalkStepKeeps
<1>6. CASE NextSignatures
    BY <1>6, NextSignaturesKeeps
<1>7. CASE Conclude
    BY <1>7, ConcludeKeeps
<1>8. CASE UNCHANGED guardVars
    <2>1. /\ UNCHANGED <<project, loadVars, types, phase, at, field, found, warned, verdict>>
          /\ UNCHANGED <<stack, walked, named>> /\ result' = result
        BY <1>8 DEF guardVars, walkVars, loadVars
    <2>2. /\ LoadInv' /\ (Acceptable' <=> Acceptable) /\ (Returned' <=> Returned) /\ LoadErr' = LoadErr
          /\ CallFindings' = CallFindings /\ \A i : (BoundedAt(i)' <=> BoundedAt(i)) /\ SigsAt(i)' = SigsAt(i)
        <3>1. LoadErr' = LoadErr
            BY <2>1 DEF LoadErr, loadVars
        <3>2. QED
            BY <2>1, <3>1, GuardFrame DEF GuardInv
    <2>3. (types = project.types /\ PhaseInv /\ AcceptedInv /\ CallsInv)'
        BY <2>1, <2>2 DEF GuardInv, PhaseInv, AcceptedInv, CallsInv, Going
    <2>4. /\ \A i, f : Reported(i, f)' <=> Reported(i, f)
          /\ \A t : WalkInv(t)' <=> WalkInv(t)
          /\ \A g : IsError(g)' <=> IsError(g)
        <3>1. \A i, f : Shows(SigsAt(i)[f])' <=> Shows(SigsAt(i)[f])
            BY <2>1, <2>2 DEF Shows, Within
        <3>2. \A t : WalkInv(t)' <=> WalkInv(t)
            BY <2>1 DEF WalkInv, Within, PartsOf, Unalias, IsAlias, TxBehind
        <3>3. QED
            BY <2>1, <2>2, <3>1, <3>2 DEF Reported, TellsType, IsError, Enforced, RuleOf
    <2>5. FieldsInv'
        <3>1. /\ SigsAt(at)' = SigsAt(at) /\ (BoundedAt(at)' <=> BoundedAt(at))
              /\ (WalkInv(SigsAt(at)[field])' <=> WalkInv(SigsAt(at)[field]))
              /\ \A i, f : Reported(i, f)' <=> Reported(i, f)
            BY <2>1, <2>2, <2>4 DEF SigsAt, Code, loadVars, BoundedAt, Bounded, Registered, Module, ModuleOf, WalkInv, Within, PartsOf, Unalias, IsAlias, TxBehind
        <3>2. \A f : Reported(at, f)' <=> Reported(at, f)
            BY <2>1, <2>4
        <3>3. QED
            BY <2>1, <2>4, <3>1, <3>2 DEF FieldsInv, GuardInv
    <2>6. QED
        BY <2>2, <2>3, <2>5 DEF GuardInv
<1>9. QED
    BY <1>1, <1>2, <1>3, <1>4, <1>5, <1>6, <1>7, <1>8 DEF GuardNext

LEMMA GuardInvAlways == GuardSpec => []GuardInv
BY GuardInitInv, GuardNextInv, PTL DEF GuardSpec
-------------------------------------------------------------------------------
(* What follows *)

\* Of every project, the loader hands over just the packages without a fatal
\* error in themselves or below, and names one in what it leaves out.
THEOREM LoadIsSound == GuardSpec => []LoadSound
<1>1. GuardInv => LoadSound
    BY LoadInvSound DEF GuardInv
<1>2. QED
    BY <1>1, GuardInvAlways, PTL

\* Of every type with aliases that end, the transaction types are found, once.
THEOREM SignaturesAreExact == GuardSpec => []SignaturesExact
<1>1. GuardInv => SignaturesExact
    <2> SUFFICES ASSUME GuardInv, phase = "signatures", field > 0
                 PROVE  SignatureExact(Sigs[field])
        BY DEF SignaturesExact
    <2>1. field # 0
        BY DEF GuardInv, FieldsInv
    <2>2. at \in 1..Len(result) /\ field \in DOMAIN SigsAt(at) /\ WalkInv(SigsAt(at)[field])
        BY <2>1 DEF GuardInv, FieldsInv
    <2>3. WalkTypes /\ SigsAt(at)[field] \in DOMAIN types
        BY <2>2, SignatureTypes
    <2>4. SignatureExact(SigsAt(at)[field])
        BY <2>2, <2>3, WalkFinished
    <2>5. QED
        BY <2>4 DEF Sigs, SigsAt
<1>2. QED
    BY <1>1, GuardInvAlways, PTL

\* What the import rules see in an inspected sublayer, both readings inspect.
LEMMA InspectedLayers ==
    ASSUME GuardInv, NEW p \in Packages, NEW layers,
           Classify(project.arch, Module, Code(p).path).kind = "domain",
           Inspected(layers, Classify(project.arch, Module, Code(p).path).sublayer)
    PROVE  /\ FailureInspects(project.arch, Module, Code(p).path, layers)
           /\ PurityInspects(project.arch, Module, Code(p).path, layers)
<1> DEFINE arch == project.arch
           path == Code(p).path
           sublayer == Classify(arch, Module, path).sublayer
<1>1. project \in Projects /\ result \in Seq(PackageIds) /\ Legible(arch)
    BY LegibleAssumption DEF GuardInv, LoadInv
<1>2. path \in Seq(Segment) /\ arch.root \in Seq(Segment) /\ Sublayers(arch) \subseteq Seq(Segment)
    <2>1. p \in PackageIds
        BY <1>1, RangeOfSeq DEF Packages
    <2>2. QED
        BY <1>1, <2>1, ProjectFacts, ProjectsAssumption DEF Sublayers
<1>3. PICK l \in layers \cap Sublayers(arch) : IsPrefix(l, sublayer)
    BY DEF Inspected
<1>4. l \in Seq(Segment) /\ Len(l) >= 1
    <2>1. Len(l) \in 1..2
        BY <1>1, <1>3 DEF Legible
    <2>2. \A n \in 1..2 : n >= 1
        OBVIOUS
    <2> HIDE DEF arch
    <2>3. QED
        BY <1>2, <1>3, <2>1, <2>2
<1>5. Internal(arch, Module, path)
    BY <1>2, DomainFacts
<1>6. MatchesLayer(arch, Rel(arch, Module, path), l)
    BY <1>1, <1>2, <1>3, <1>4, InspectedSublayer
<1>7. /\ FailureInspects(arch, Module, path, {l}) <=> PurityInspects(arch, Module, path, {l})
      /\ FailureInspects(arch, Module, path, {l}) <=>
             Internal(arch, Module, path) /\ MatchesLayer(arch, Rel(arch, Module, path), l)
    BY <1>2, <1>4, InspectionsAgree
<1> HIDE DEF arch, path, sublayer
<1>8. FailureInspects(arch, Module, path, {l}) /\ PurityInspects(arch, Module, path, {l})
    BY <1>5, <1>6, <1>7
<1>9. FailureInspects(arch, Module, path, layers) /\ PurityInspects(arch, Module, path, layers)
    BY <1>3, <1>8 DEF FailureInspects, PurityInspects
<1>10. QED
    BY <1>9 DEF arch, path

\* What lies below a module begins with it.
LEMMA ModuleFirst ==
    ASSUME NEW S, NEW m \in S, NEW rest \in Seq(S), NEW path \in Seq(S), Under(path, <<m>> \o rest)
    PROVE  IsPrefix(<<m>>, path)
<1> DEFINE head == <<m>>
           pre == head \o rest
           n == Len(rest)
<1>1. head \in Seq(S) /\ Len(head) = 1 /\ head[1] = m
    OBVIOUS
<1>2. n \in Nat /\ Len(path) \in Nat
    BY LenProperties
<1>3. Len(path) > Len(pre) /\ \A i \in 1..Len(pre) : path[i] = pre[i]
    BY DEF Under
<1> HIDE DEF head
<1>4. Len(pre) = Len(head) + n /\ \A i \in 1..Len(head) : pre[i] = head[i]
    <2>1. /\ Len(pre) = Len(head) + Len(rest)
          /\ \A i \in 1..Len(head) + Len(rest) :
                 pre[i] = IF i <= Len(head) THEN head[i] ELSE rest[i - Len(head)]
        BY <1>1, ConcatProperties
    <2>2. \A i \in 1..Len(head) : i \in 1..Len(head) + Len(rest) /\ i <= Len(head)
        BY <1>1, <1>2
    <2> HIDE DEF pre
    <2>3. \A i \in 1..Len(head) : pre[i] = head[i]
        BY <2>1, <2>2
    <2>4. QED
        BY <2>1, <2>3
<1> HIDE DEF pre, n
<1>5. 1 \in 1..Len(head) /\ 1 \in 1..Len(pre) /\ Len(head) <= Len(path)
    <2>1. Len(pre) = 1 + n
        BY <1>1, <1>4
    <2>2. QED
        BY <1>1, <1>2, <1>3, <2>1
<1>6. \A i \in 1..Len(head) : head[i] = path[i]
    BY <1>1, <1>3, <1>4, <1>5
<1>7. QED
    BY <1>1, <1>5, <1>6, IsPrefixByElements DEF head

\* A project with a package of a domain matches its module.
LEMMA DomainMatches ==
    ASSUME GuardInv, Module # "", NEW p \in Packages,
           Classify(project.arch, Module, Code(p).path).kind = "domain"
    PROVE  ~MatchesNothing(Module, {Code(q) : q \in Packages})
<1> DEFINE path == Code(p).path
           rest == project.arch.root
           S == Segment \cup {Module}
<1>1. project \in Projects /\ result \in Seq(PackageIds)
    BY DEF GuardInv, LoadInv
<1>2. path \in Seq(Segment) /\ rest \in Seq(Segment)
    <2>1. p \in PackageIds
        BY <1>1, RangeOfSeq DEF Packages
    <2>2. QED
        BY <1>1, <2>1, ProjectFacts, ProjectsAssumption
<1>3. Under(path, <<Module>> \o rest)
    BY <1>2, DomainFacts DEF Internal, InternalPrefix
<1> HIDE DEF path, rest
<1>4. rest \in Seq(S) /\ path \in Seq(S) /\ Module \in S
    BY <1>2, SeqMonotonic
<1> HIDE DEF S
<1>5. IsPrefix(<<Module>>, path)
    BY <1>3, <1>4, ModuleFirst
<1>6. QED
    BY <1>5 DEF MatchesNothing, path

\* In a test that passed, a package is clear of what the rules that are
\* registered as errors forbid.
LEMMA PassedPackage ==
    ASSUME GuardInv, verdict = "pass", NEW p \in Packages, NEW rule \in RuleIds, Enforced(rule),
           Classify(project.arch, Module, Code(p).path).kind = "domain"
    PROVE  Clear(rule, p, Classify(project.arch, Module, Code(p).path).sublayer)
<1> DEFINE arch == project.arch
           pkgs == {Code(q) : q \in Packages}
           file == Code(p).file
           sublayer == Classify(project.arch, Module, Code(p).path).sublayer
<1>1. /\ project \in Projects /\ result \in Seq(PackageIds) /\ project.caller = "test" /\ Acceptable
      /\ CallFindings \subseteq found /\ \A g \in found : ~IsError(g)
      /\ \A i \in 1..Len(result) : \A f \in Nat : Reported(i, f)
    BY DEF GuardInv, LoadInv, PhaseInv, AcceptedInv, CallsInv, FieldsInv, Going
<1>2. Module # ""
    BY <1>1 DEF Acceptable
<1>3. p \in PackageIds /\ \E i \in 1..Len(result) : result[i] = p
    <2>1. DOMAIN result = 1..Len(result) /\ Range(result) \subseteq PackageIds
        BY <1>1, LenProperties, RangeOfSeq
    <2>2. QED
        BY <2>1 DEF Packages, Range
<1>4. Code(p).path \in Seq(Segment) /\ project.arch.root \in Seq(Segment)
    BY <1>1, <1>3, ProjectFacts, ProjectsAssumption
<1>5. Registered(rule)
    BY <1>1, ProjectsAssumption DEF Registered, Enforced
<1>6. \A g \in Checked(rule) : ~IsError(g)
    BY <1>1, <1>5 DEF CallFindings, Registered
<1>7. ~MatchesNothing(Module, pkgs) /\ Code(p) \in pkgs
    BY <1>2, DomainMatches
<1>8. CASE rule = NoPanic
    <2>1. Checked(rule) = FailureFindings(arch, Module, pkgs)
        BY <1>8 DEF Checked, NoPanic, Purity, Tx
    <2> SUFFICES ASSUME Inspected(FailureLayers(arch), sublayer),
                        file.flags \cap {"test", "generated", "excluded", "allowed"} = {},
                        NEW i \in InspectedCalls(file), FailureCallID(file.tree[i].data) \in FailureCalls
                 PROVE  FALSE
        BY <1>8 DEF Clear, NoPanic, Purity, Tx
    <2>2. FailureInspects(arch, Module, Code(p).path, FailureLayers(arch))
        BY InspectedLayers
    <2>3. Finding("errors.no-panic-in-domain", Code(p).path, i) \in Checked(rule)
        <3> HIDE DEF pkgs, arch
        <3>1. QED
            BY <1>7, <2>1, <2>2 DEF FailureFindings
    <2>4. IsError(Finding("errors.no-panic-in-domain", Code(p).path, i))
        BY <1>8 DEF IsError, RuleOf, Finding, NoPanic
    <2>5. QED
        BY <1>6, <2>3, <2>4
<1>9. CASE rule = Purity
    <2>1. Checked(rule) = PurityFindings(arch, Module, pkgs)
        BY <1>9 DEF Checked, NoPanic, Purity, Tx
    <2> SUFFICES ASSUME Inspected(PurityLayers(arch), sublayer),
                        file.flags \cap {"test", "generated", "excluded"} = {},
                        NEW c \in CalleesIn(p), c.object = "func", c.id \in DeniedCalls \ AllowedCalls
                 PROVE  FALSE
        BY <1>9 DEF Clear, NoPanic, Purity, Tx
    <2>2. PICK i \in Calls(file.tree) : c = file.tree[i].data
        BY DEF CalleesIn
    <2>3. PurityInspects(arch, Module, Code(p).path, PurityLayers(arch))
        BY InspectedLayers
    <2>4. ResolveCalleeID(file.tree[i].data) \in DeniedCalls \ AllowedCalls
        BY <2>2 DEF ResolveCalleeID
    <2>5. Finding("purity.no-side-effect-call-in-core", Code(p).path, i) \in Checked(rule)
        <3> HIDE DEF pkgs, arch
        <3>1. QED
            BY <1>7, <2>1, <2>3, <2>4 DEF PurityFindings
    <2>6. IsError(Finding("purity.no-side-effect-call-in-core", Code(p).path, i))
        BY <1>9 DEF IsError, RuleOf, Finding, Purity
    <2>7. QED
        BY <1>6, <2>5, <2>6
<1>10. CASE rule = Tx
    <2>1. Checked(rule) = StartFindings(arch, Module, pkgs)
        BY <1>10 DEF Checked, NoPanic, Purity, Tx
    <2> SUFFICES ASSUME KnownSublayer(arch, sublayer), sublayer \notin AllowedLayers,
                        ~Code(p).excluded, file.flags \cap {"test", "excluded"} = {}
                 PROVE  /\ \A c \in CalleesIn(p) : c.object = "func" => c.id \notin StartSymbols
                        /\ \A f \in DOMAIN file.sigs : ~Shows(file.sigs[f])
        BY <1>10 DEF Clear, NoPanic, Purity, Tx, Shows
    <2>2. PackageLayer(arch, Module, Code(p).path) = sublayer /\ sublayer # NoSublayer
        BY <1>4, PackageLayerAgrees
    <2>3. Confined(arch, Module, Code(p))
        BY <1>2, <2>2 DEF Confined
    <2>4. ASSUME NEW c \in CalleesIn(p), c.object = "func", c.id \in StartSymbols
          PROVE  FALSE
        <3>1. PICK i \in Calls(file.tree) : c = file.tree[i].data
            BY DEF CalleesIn
        <3>2. ResolveCalleeID(file.tree[i].data) \in StartSymbols
            BY <2>4, <3>1 DEF ResolveCalleeID
        <3>3. Finding("tx.start-outside-allowed-layer", Code(p).path, i) \in Checked(rule)
            <4> HIDE DEF pkgs, arch
            <4>1. QED
                BY <1>7, <2>1, <2>3, <3>2 DEF StartFindings
        <3>4. IsError(Finding("tx.start-outside-allowed-layer", Code(p).path, i))
            BY <1>10 DEF IsError, RuleOf, Finding
        <3>5. QED
            BY <1>6, <3>3, <3>4
    <2>5. ASSUME NEW f \in DOMAIN file.sigs
          PROVE  ~Shows(file.sigs[f])
        <3>1. PICK i \in 1..Len(result) : result[i] = p
            BY <1>3
        <3>2. f \in Nat
            <4>1. file.sigs \in Seq(DOMAIN project.types)
                BY <1>1, <1>3, ProjectFacts
            <4>2. DOMAIN file.sigs = 1..Len(file.sigs)
                BY <4>1, LenProperties
            <4>3. QED
                BY <4>2
        <3>3. Reported(i, f)
            BY <1>1, <3>2
        <3>4. BoundedAt(i) /\ SigsAt(i) = file.sigs
            BY <1>5, <1>10, <2>3, <3>1 DEF BoundedAt, Bounded, SigsAt
        <3>5. \A g \in found : ~TellsType(g)
            BY <1>1, <1>10 DEF TellsType, IsError, RuleOf
        <3>6. QED
            BY <3>3, <3>4, <3>5 DEF Reported
    <2>6. QED
        BY <2>4, <2>5
<1>11. CASE rule = Budgets
    BY <1>11 DEF Clear, NoPanic, Purity, Tx, Budgets
<1>12. QED
    BY <1>8, <1>9, <1>10, <1>11 DEF RuleIds

\* For every project and rule set: a test that passes has seen all the matched
\* packages, error free to the bottom, and each one of a domain is clear of what
\* the rules registered as errors forbid there; a viewer that shows less than
\* was asked for has said so.
THEOREM HolesAreAlwaysTold == GuardSpec => []HolesAreNeverSilent
<1>1. ASSUME GuardInv, ~LoadErr
      PROVE  Returned => Packages = Range(project.roots)
    <2> SUFFICES ASSUME Returned PROVE Packages = Range(project.roots)
        OBVIOUS
    <2>1. LoadSound /\ ~failed /\ loadErrs = <<>>
        BY <1>1, LoadInvSound DEF GuardInv, LoadErr
    <2>2. DOMAIN loadErrs = {}
        BY <2>1
    <2>3. QED
        BY <2>1, <2>2 DEF LoadSound, Packages
<1>2. ASSUME GuardInv
      PROVE  PassMeansChecked
    <2> SUFFICES ASSUME phase = "done", verdict = "pass", NEW p \in Range(project.roots)
                 PROVE  LET class == Classify(project.arch, Module, Code(p).path)
                        IN  /\ p \in Packages /\ \A q \in Reach(p) : Errors(q) = <<>>
                            /\ class.kind = "domain" =>
                                   \A rule \in RuleIds : Enforced(rule) => Clear(rule, p, class.sublayer)
        BY DEF PassMeansChecked
    <2>1. Returned /\ project.caller = "test" /\ Acceptable
        BY <1>2 DEF GuardInv, PhaseInv, AcceptedInv, Going
    <2>2. ~LoadErr /\ \A q \in Packages : Complete(q)
        BY <2>1 DEF Acceptable
    <2>3. p \in Packages
        BY <1>1, <1>2, <2>1, <2>2
    <2>4. \A q \in Reach(p) : Errors(q) = <<>>
        BY <2>2, <2>3 DEF Complete, IllTyped
    <2>5. QED
        BY <1>2, <2>3, <2>4, PassedPackage
<1>3. ASSUME GuardInv
      PROVE  PartialIsAnnounced
    <2> SUFFICES ASSUME phase = "done", verdict = "shown", Packages # Range(project.roots)
                 PROVE  warned
        BY DEF PartialIsAnnounced
    <2>1. Returned /\ project.caller = "viewer" /\ warned = LoadErr
        BY <1>3 DEF GuardInv, PhaseInv, AcceptedInv, Going
    <2>2. LoadErr
        BY <1>1, <1>3, <2>1
    <2>3. QED
        BY <2>1, <2>2
<1>4. QED
    BY <1>2, <1>3, GuardInvAlways, PTL DEF HolesAreNeverSilent

\* For every legible layout and every path: the three readings of a layer agree
\* with each other and with the import rules.
THEOREM ReadingsAlwaysAgree == GuardSpec => []LayerReadingsAgree
<1>1. ASSUME GuardInv
      PROVE  LayerReadingsAgree
    <2> SUFFICES ASSUME NEW p \in Packages, NEW layer \in Sublayers(project.arch)
                 PROVE  LET path == Code(p).path
                            class == Classify(project.arch, Module, path)
                            inspected == FailureInspects(project.arch, Module, path, {layer})
                        IN  /\ inspected = PurityInspects(project.arch, Module, path, {layer})
                            /\ class.kind = "domain" =>
                                   /\ (PackageLayer(project.arch, Module, path) = layer) = (class.sublayer = layer)
                                   /\ inspected = IsPrefix(layer, class.sublayer)
                            /\ PackageLayer(project.arch, Module, path) = layer => class.kind = "domain"
        BY DEF LayerReadingsAgree
    <2> DEFINE arch == project.arch
               path == Code(p).path
               class == Classify(arch, Module, path)
               inspected == FailureInspects(arch, Module, path, {layer})
               purity == PurityInspects(arch, Module, path, {layer})
    <2>1. project \in Projects /\ result \in Seq(PackageIds) /\ Legible(arch)
        BY <1>1, LegibleAssumption DEF GuardInv, LoadInv
    <2>2. path \in Seq(Segment) /\ arch.root \in Seq(Segment) /\ Sublayers(arch) \subseteq Seq(Segment)
        <3>1. p \in PackageIds
            BY <2>1, RangeOfSeq DEF Packages
        <3>2. QED
            BY <2>1, <3>1, ProjectFacts, ProjectsAssumption DEF Sublayers
    <2>3. layer \in Seq(Segment) /\ Len(layer) >= 1 /\ layer # NoSublayer /\ KnownSublayer(arch, layer)
        <3>1. Len(layer) \in 1..2
            BY <2>1 DEF Legible
        <3>2. Len(layer) >= 1 /\ layer # NoSublayer
            <4>1. \A n \in 1..2 : n >= 1 /\ n # 0
                OBVIOUS
            <4>2. layer = NoSublayer => Len(layer) = 0
                BY EmptySeq DEF NoSublayer
            <4>3. QED
                BY <3>1, <4>1, <4>2
        <3>3. KnownSublayer(arch, layer)
            BY DEF KnownSublayer, Sublayers, Range
        <3>4. layer \in Sublayers(arch)
            OBVIOUS
        <3> HIDE DEF arch
        <3>5. QED
            BY <2>2, <3>2, <3>3, <3>4
    <2>4. inspected <=> purity
        BY <2>2, <2>3, InspectionsAgree
    <2>5. inspected <=> Internal(arch, Module, path) /\ MatchesLayer(arch, Rel(arch, Module, path), layer)
        BY <2>2, <2>3, InspectionsAgree
    <2>6. PackageLayer(arch, Module, path) = layer => class.kind = "domain"
        BY <2>1, <2>2, LayersLieInDomains
    <2>7. ASSUME class.kind = "domain"
          PROVE  /\ PackageLayer(arch, Module, path) = layer <=> class.sublayer = layer
                 /\ inspected <=> IsPrefix(layer, class.sublayer)
        <3>1. Internal(arch, Module, path)
            BY <2>2, <2>7, DomainFacts
        <3>2. MatchesLayer(arch, Rel(arch, Module, path), layer) <=> IsPrefix(layer, class.sublayer)
            BY <2>1, <2>2, <2>3, <2>7, InspectedSublayer
        <3>3. /\ class.sublayer # NoSublayer
              /\ PackageLayer(arch, Module, path) =
                     IF KnownSublayer(arch, class.sublayer) THEN class.sublayer ELSE NoSublayer
            BY <2>2, <2>7, PackageLayerAgrees
        <3>4. PackageLayer(arch, Module, path) = layer <=> class.sublayer = layer
            <4> HIDE DEF arch, path, class
            <4>1. QED
                BY <2>3, <3>3
        <3>5. QED
            BY <2>5, <3>1, <3>2, <3>4
    <2>8. inspected \in BOOLEAN /\ purity \in BOOLEAN
        BY DEF FailureInspects, PurityInspects
    <2>9. IsPrefix(layer, class.sublayer) \in BOOLEAN
        BY DEF IsPrefix
    <2> HIDE DEF arch, path, class, inspected, purity
    <2>10. inspected = purity
        BY <2>4, <2>8
    <2>11. class.kind = "domain" =>
              /\ (PackageLayer(arch, Module, path) = layer) = (class.sublayer = layer)
              /\ inspected = IsPrefix(layer, class.sublayer)
        BY <2>7, <2>8, <2>9
    <2>12. QED
        BY <2>6, <2>10, <2>11 DEF arch, path, class, inspected, purity
<1>2. QED
    BY <1>1, GuardInvAlways, PTL
-------------------------------------------------------------------------------
(* Error flow                                                              *)

FormatState == [next : Nat, wraps : SUBSET Nat]
FirstState == [next |-> 1, wraps |-> {}]
PlainDirectives == {v \in Directives : Written(v) /\ ReadAlike(v)}

\* In a directive that both read alike, the verb has one argument.
LEMMA SameArgument ==
    ASSUME NEW v \in PlainDirectives, NEW next \in Nat
    PROVE  LET free == AfterStar(v.prec, v.second, AfterStar(v.width, WidthIndex(v), next))
           IN  ArgOf(v, next) \in Nat /\ ArgOf(v, next) = At(VerbIndex(v), free)
<1>1. /\ v.first \in Nat /\ v.second \in Nat /\ v.index \in Nat /\ v.flagged \in BOOLEAN
      /\ Written(v) /\ ReadAlike(v)
    BY DEF PlainDirectives, Directives
<1> USE DEF At, Past, AfterStar, WidthIndex, VerbIndex
<1>2. At(v.first, next) \in Nat /\ Past(v.width, At(v.first, next)) \in Nat
    BY <1>1
<1>3. ArgOf(v, next) \in Nat
    <2> DEFINE width == Past(v.width, At(v.first, next))
    <2> HIDE DEF width
    <2>1. At(v.second, width) \in Nat /\ Past(v.prec, At(v.second, width)) \in Nat
        BY <1>1, <1>2 DEF width
    <2>2. QED
        BY <1>1, <2>1 DEF ArgOf, width
<1>4. CASE v.index # 0
    BY <1>3, <1>4 DEF ArgOf
<1>5. CASE v.index = 0 /\ v.second # 0 /\ v.prec = ""
    BY <1>3, <1>5 DEF ArgOf
<1>6. CASE v.index = 0 /\ v.second # 0 /\ v.prec # ""
    <2>1. v.prec = "*" /\ v.dot
        BY <1>1, <1>6 DEF Written
    <2>2. v.first # 0 => v.width = "*" /\ v.flagged
        BY <1>1, <1>6, <2>1 DEF Written, ReadAlike
    <2>3. QED
        BY <1>1, <1>3, <1>6, <2>1, <2>2 DEF ArgOf
<1>7. CASE v.index = 0 /\ v.second = 0
    <2>1. CASE v.first = 0
        BY <1>3, <1>7, <2>1 DEF ArgOf
    <2>2. CASE v.first # 0 /\ v.width = "*"
        <3>1. v.flagged
            BY <1>1, <1>7, <2>2 DEF ReadAlike
        <3>2. QED
            BY <1>3, <1>7, <2>2, <3>1 DEF ArgOf
    <2>3. CASE v.first # 0 /\ v.width # "*"
        <3>1. v.width = "" /\ ~v.dot /\ v.prec = ""
            BY <1>1, <2>3 DEF Written
        <3>2. QED
            BY <1>3, <1>7, <2>3, <3>1 DEF ArgOf
    <2>4. QED
        BY <2>1, <2>2, <2>3
<1>8. QED
    BY <1>3, <1>4, <1>5, <1>6, <1>7

LEMMA DirectiveFacts ==
    ASSUME NEW s \in FormatState, NEW v \in PlainDirectives
    PROVE  /\ Directive(s, v) \in FormatState
           /\ Directive(s, v).next = After(v, ArgOf(v, s.next)) /\ ArgOf(v, s.next) \in Nat
           /\ Directive(s, v).wraps = s.wraps \cup (IF v.verb = "w" THEN {ArgOf(v, s.next)} ELSE {})
<1>1. s.next \in Nat /\ s.wraps \in SUBSET Nat
    BY DEF FormatState
<1> DEFINE free == AfterStar(v.prec, v.second, AfterStar(v.width, WidthIndex(v), s.next))
           arg == At(VerbIndex(v), free)
<1>2. arg \in Nat /\ arg = ArgOf(v, s.next)
    BY <1>1, SameArgument
<1>3. v.verb = "%" => free = arg
    BY DEF PlainDirectives, ReadAlike, At
<1>4. Directive(s, v) = [next |-> IF v.verb = "%" THEN free ELSE arg + 1,
                         wraps |-> s.wraps \cup (IF v.verb = "w" THEN {arg} ELSE {})]
    BY DEF Directive
<1> HIDE DEF free, arg
<1>5. (IF v.verb = "%" THEN free ELSE arg + 1) = After(v, arg) /\ After(v, arg) \in Nat
    BY <1>2, <1>3 DEF After
<1>6. s.wraps \cup (IF v.verb = "w" THEN {arg} ELSE {}) \in SUBSET Nat
    BY <1>1, <1>2
<1>7. QED
    BY <1>2, <1>4, <1>5, <1>6 DEF FormatState

\* The two readings of a format, each by its own equation.
ReadBy(verbs, f) ==
    f = [k \in 0..Len(verbs) |-> IF k = 0 THEN FirstState ELSE Directive(f[k - 1], verbs[k])]
NumberedBy(verbs, g) ==
    g = [k \in 1..Len(verbs) |-> ArgOf(verbs[k], IF k = 1 THEN 1 ELSE After(verbs[k - 1], g[k - 1]))]

LEMMA ReadingsExist ==
    ASSUME NEW verbs \in Seq(PlainDirectives)
    PROVE  (\E f : ReadBy(verbs, f)) /\ (\E g : NumberedBy(verbs, g))
<1> DEFINE n == Len(verbs)
           advance == [k \in 1..n |-> [s \in FormatState |-> Directive(s, verbs[k])]]
<1>1. n \in Nat /\ \A k \in 1..n : verbs[k] \in PlainDirectives
    OBVIOUS
<1> HIDE DEF n
<1>2. FirstState \in FormatState
    BY DEF FirstState, FormatState
<1>3. advance \in [1..n -> [FormatState -> FormatState]]
    BY <1>1, DirectiveFacts
<1>4. PICK f : Recurses(FormatState, FirstState, n, advance, f)
    BY <1>1, <1>2, <1>3, RecursionExists
<1>5. /\ f \in [0..n -> FormatState] /\ f[0] = FirstState
      /\ \A k \in 1..n : f[k] = advance[k][f[k - 1]]
    BY <1>4 DEF Recurses
<1>6. \A k \in 1..n : k \in 0..n /\ k - 1 \in 0..n /\ k # 0
    BY <1>1
<1>7. \A k \in 1..n : f[k - 1] \in FormatState /\ f[k] = Directive(f[k - 1], verbs[k])
    BY <1>5, <1>6
<1>8. ReadBy(verbs, f)
    <2>1. \A k \in 0..n : f[k] = IF k = 0 THEN FirstState ELSE Directive(f[k - 1], verbs[k])
        <3>1. \A k \in 0..n : k # 0 => k \in 1..n
            BY <1>1
        <3> QED BY <1>5, <1>7, <3>1
    <2>2. f = [k \in 0..n |-> f[k]]
        BY <1>5
    <2> HIDE DEF advance
    <2>3. [k \in 0..n |-> f[k]] = [k \in 0..n |-> IF k = 0 THEN FirstState ELSE Directive(f[k - 1], verbs[k])]
        BY <2>1
    <2> QED BY <2>2, <2>3 DEF ReadBy, n
<1> DEFINE Number(k) == ArgOf(verbs[k], f[k - 1].next)
           g == [k \in 1..n |-> Number(k)]
           Right(k) == ArgOf(verbs[k], IF k = 1 THEN 1 ELSE After(verbs[k - 1], g[k - 1]))
<1>9. ASSUME NEW k \in 1..n
      PROVE  Number(k) = Right(k)
    <2>1. f[k - 1].next = IF k = 1 THEN 1 ELSE After(verbs[k - 1], g[k - 1])
        <3>1. CASE k = 1
            BY <1>5, <3>1 DEF FirstState
        <3>2. CASE k # 1
            <4>1. k - 1 \in 1..n
                BY <1>1, <3>2
            <4>2. f[k - 1].next = After(verbs[k - 1], Number(k - 1))
                BY <1>1, <1>7, <4>1, DirectiveFacts
            <4>3. g[k - 1] = Number(k - 1)
                BY <4>1
            <4> HIDE DEF g, Number
            <4> QED BY <3>2, <4>2, <4>3
        <3> QED BY <3>1, <3>2
    <2> HIDE DEF g
    <2> QED BY <2>1
<1>10. NumberedBy(verbs, g)
    <2>1. g = [k \in 1..n |-> Right(k)]
        <3> HIDE DEF Right, Number
        <3> QED BY <1>9
    <2> HIDE DEF g
    <2> QED BY <2>1 DEF NumberedBy, n
<1> HIDE DEF g
<1>11. QED
    BY <1>8, <1>10

\* fmtWrapArgIndexes names the arguments that the directives %w take.
LEMMA WrapsByNumber ==
    ASSUME NEW verbs \in Seq(PlainDirectives)
    PROVE  WrapArgs(verbs) = {ArgNumber(verbs)[k] : k \in {v \in DOMAIN verbs : verbs[v].verb = "w"}}
<1> DEFINE n == Len(verbs)
           f == CHOOSE h : ReadBy(verbs, h)
           g == CHOOSE h : NumberedBy(verbs, h)
           Wrapped(k) == {g[j] : j \in {v \in 1..k : verbs[v].verb = "w"}}
           Agree(k) == /\ f[k] \in FormatState
                       /\ f[k].next = IF k = 0 THEN 1 ELSE After(verbs[k], g[k])
                       /\ f[k].wraps = Wrapped(k)
<1>1. ReadBy(verbs, f) /\ NumberedBy(verbs, g)
    BY ReadingsExist
<1>2. WrapArgs(verbs) = f[n].wraps /\ ArgNumber(verbs) = g
    BY DEF WrapArgs, ArgNumber, ReadBy, NumberedBy, FirstState
<1>3. n \in Nat /\ DOMAIN verbs = 1..n /\ \A k \in 1..n : verbs[k] \in PlainDirectives
    OBVIOUS
<1> HIDE DEF f, g, n
<1>4. /\ f[0] = FirstState
      /\ \A k \in 1..n : f[k] = Directive(f[k - 1], verbs[k])
    <2>1. f = [k \in 0..n |-> IF k = 0 THEN FirstState ELSE Directive(f[k - 1], verbs[k])]
        BY <1>1 DEF ReadBy, n
    <2>2. 0 \in 0..n /\ \A k \in 1..n : k \in 0..n /\ k # 0
        BY <1>3
    <2> QED BY <2>1, <2>2
<1>5. \A k \in 1..n : g[k] = ArgOf(verbs[k], IF k = 1 THEN 1 ELSE After(verbs[k - 1], g[k - 1]))
    BY <1>1 DEF NumberedBy, n
<1>6. Agree(0)
    <2>1. Wrapped(0) = {}
        OBVIOUS
    <2> HIDE DEF Wrapped
    <2> QED BY <1>4, <2>1 DEF FirstState, FormatState
<1>7. ASSUME NEW k \in 1..n, Agree(k - 1)
      PROVE  Agree(k)
    <2> DEFINE s == f[k - 1]
               arg == ArgOf(verbs[k], s.next)
    <2>1. s \in FormatState /\ f[k] = Directive(s, verbs[k]) /\ verbs[k] \in PlainDirectives
        BY <1>3, <1>4, <1>7
    <2>2. s.next = IF k = 1 THEN 1 ELSE After(verbs[k - 1], g[k - 1])
        BY <1>3, <1>7
    <2>3. s.wraps = Wrapped(k - 1)
        BY <1>7
    <2>4. g[k] = arg
        BY <1>5, <2>2
    <2>5. Wrapped(k) = Wrapped(k - 1) \cup (IF verbs[k].verb = "w" THEN {g[k]} ELSE {})
        <3>1. 1..k = (1..(k - 1)) \cup {k}
            BY <1>3
        <3>2. {v \in 1..k : verbs[v].verb = "w"} =
                  {v \in 1..(k - 1) : verbs[v].verb = "w"} \cup (IF verbs[k].verb = "w" THEN {k} ELSE {})
            BY <3>1
        <3> QED BY <3>2
    <2> HIDE DEF s, Wrapped
    <2>6. f[k] \in FormatState /\ f[k].next = After(verbs[k], arg)
          /\ f[k].wraps = s.wraps \cup (IF verbs[k].verb = "w" THEN {arg} ELSE {})
        <3> DEFINE v == verbs[k]
        <3>1. v \in PlainDirectives
            BY <2>1
        <3> HIDE DEF v
        <3>2. /\ Directive(s, v) \in FormatState
              /\ Directive(s, v).next = After(v, ArgOf(v, s.next))
              /\ Directive(s, v).wraps = s.wraps \cup (IF v.verb = "w" THEN {ArgOf(v, s.next)} ELSE {})
            BY <2>1, <3>1, DirectiveFacts
        <3>3. f[k] = Directive(s, v)
            BY <2>1 DEF v
        <3>4. QED
            BY <3>2, <3>3 DEF v
    <2> HIDE DEF arg
    <2>7. f[k].next = After(verbs[k], g[k]) /\ f[k].wraps = Wrapped(k) /\ k # 0
        BY <1>3, <2>3, <2>4, <2>5, <2>6
    <2> QED BY <2>6, <2>7
<1> DEFINE Bad == {k \in 0..n : ~Agree(k)}
<1> HIDE DEF Agree
<1>8. ASSUME Bad # {}
      PROVE  FALSE
    <2>1. PICK k \in Bad : \A j \in Bad : k <= j
        <3>1. Bad \subseteq Nat
            BY <1>3
        <3> HIDE DEF Bad
        <3> QED BY <1>8, <3>1, LeastElement
    <2>2. k \in 0..n /\ ~Agree(k)
        OBVIOUS
    <2>3. k \in 1..n /\ k - 1 \in 0..n /\ ~(k <= k - 1)
        BY <1>3, <1>6, <2>2
    <2>4. k - 1 \notin Bad
        <3> HIDE DEF Bad
        <3> QED BY <2>1, <2>3
    <2>5. Agree(k - 1)
        BY <2>3, <2>4
    <2> QED BY <1>7, <2>2, <2>3, <2>5
<1>9. Agree(n)
    BY <1>3, <1>8
<1>10. f[n].wraps = Wrapped(n)
    BY <1>9 DEF Agree
<1>11. QED
    BY <1>2, <1>3, <1>10

\* Of all that propagates err in a format read alike, err is the one error wrapped.
LEMMA PropagatesOnly ==
    ASSUME NEW e, NEW err, err # "nil", e.verbs \in Seq(Directives), Propagates(e, err),
           \A v \in Range(e.verbs) : Written(v), FormatReadAlike(e)
    PROVE  WrappedBy(e) = {err}
<1>1. CASE e.form = "ident" /\ e.name = err
    BY <1>1 DEF WrappedBy
<1>2. CASE e.form = "fmt.Errorf" /\ ErrorfWraps(e, err)
    <2> DEFINE verbs == e.verbs
               Ws == {v \in DOMAIN verbs : verbs[v].verb = "w"}
    <2>1. verbs \in Seq(PlainDirectives)
        <3>1. \A k \in DOMAIN verbs : ReadAlike(verbs[k]) /\ Written(verbs[k])
            BY DEF FormatReadAlike, Range
        <3>2. verbs \in Seq(Directives)
            OBVIOUS
        <3> HIDE DEF verbs
        <3>3. \A k \in 1..Len(verbs) : verbs[k] \in PlainDirectives
            BY <3>1, <3>2 DEF PlainDirectives
        <3>4. QED
            BY <3>2, <3>3
    <2>2. WrapArgs(e.verbs) = {ArgNumber(e.verbs)[k] : k \in Ws}
        BY <2>1, WrapsByNumber
    <2>3. WrapArgs(e.verbs) # {} /\ \A arg \in WrapArgs(e.verbs) : arg \in DOMAIN e.args /\ e.args[arg] = err
        BY <1>2 DEF ErrorfWraps
    <2>4. WrappedBy(e) = {e.args[arg] : arg \in {ArgNumber(e.verbs)[k] : k \in Ws} \cap DOMAIN e.args}
        BY <1>2 DEF WrappedBy
    <2> HIDE DEF Ws
    <2>5. QED
        BY <2>2, <2>3, <2>4
<1>3. CASE e.form = "errors.Join" /\ JoinsOnly(e, err)
    <2>1. WrappedBy(e) = Range(e.args) \ {"nil"}
        BY <1>3 DEF WrappedBy
    <2>2. QED
        BY <1>3, <2>1 DEF JoinsOnly, Range
<1>4. QED
    BY <1>1, <1>2, <1>3 DEF Propagates

\* The tree that is measured is one of a loaded package.
TreeInv == /\ at \in Nat \ {0} /\ (phase = "load" => tree = NoTree)
           /\ tree = NoTree \/ \E q \in Packages : tree = Code(q).file.tree

LEMMA TreeKept == GuardInv /\ TreeInv /\ [GuardNext]_guardVars => TreeInv'
<1> SUFFICES ASSUME GuardInv, TreeInv, [GuardNext]_guardVars PROVE TreeInv'
    OBVIOUS
<1>1. CASE Loading
    BY <1>1 DEF Loading, TreeInv, NoTree
<1>2. ASSUME UNCHANGED <<project, loadVars>>
      PROVE  Packages' = Packages /\ \A q : Code(q)' = Code(q)
    BY <1>2 DEF Packages, Code, loadVars
<1>3. CASE Accept \/ NextFunction \/ MeasureStep \/ BudgetDone \/ NextField \/ WalkStep \/ Conclude \/ UNCHANGED guardVars
    <2>1. UNCHANGED <<project, loadVars, tree, at>>
        BY <1>3 DEF Accept, NextFunction, MeasureStep, BudgetDone, NextField, WalkStep, Conclude, guardVars
    <2>2. phase' = "load" => phase = "load"
        BY <1>3 DEF Accept, NextFunction, MeasureStep, BudgetDone, NextField, WalkStep, Conclude, guardVars, End
    <2>3. QED
        BY <1>2, <2>1, <2>2 DEF TreeInv, NoTree
<1>4. CASE OpenPackage
    <2>1. UNCHANGED <<project, loadVars, at, phase>> /\ phase = "budget" /\ at <= Len(result)
          /\ tree' = Code(result[at]).file.tree
        BY <1>4 DEF OpenPackage, AtPackage
    <2>2. result[at] \in Packages
        BY <2>1 DEF Packages, Range, GuardInv, LoadInv, TreeInv
    <2>3. QED
        BY <1>2, <2>1, <2>2 DEF TreeInv
<1>5. CASE ClosePackage \/ BudgetPanics
    <2>1. phase' # "load" /\ tree' = NoTree /\ at' \in {at, at + 1}
        BY <1>5 DEF ClosePackage, BudgetPanics, AtPackage
    <2>2. QED
        BY <2>1 DEF TreeInv, NoTree
<1>6. CASE CheckCalls \/ NextSignatures
    <2>1. UNCHANGED <<project, loadVars, tree>> /\ phase' # "load" /\ at' \in {1, at + 1}
        BY <1>6 DEF CheckCalls, NextSignatures, AtSignatures
    <2>2. QED
        BY <1>2, <2>1 DEF TreeInv, NoTree
<1>7. QED
    BY <1>1, <1>3, <1>4, <1>5, <1>6 DEF GuardNext

LEMMA TreeInvAlways == GuardSpec => [](GuardInv /\ TreeInv)
<1>1. GuardInit => TreeInv
    BY DEF GuardInit, TreeInv
<1>2. QED
    BY <1>1, GuardInvAlways, TreeKept, PTL DEF GuardSpec

(* Whatever the function and its results, in every format that is read as   *)
(* fmt reads it: the branch that logic-budget does not count returns the    *)
(* checked error, alone or wrapped, and no other.                           *)
THEOREM OnlyErrorFlowIsDiscounted == GuardSpec => []DiscountsOnlyErrorFlow
<1>1. ASSUME GuardInv, TreeInv, NEW i \in Below(tree, fn), Discounted(i, ResultsAt(i)),
             NEW r \in DOMAIN ResultsAt(i), ResultsAt(i)[r] = "error",
             FormatReadAlike(tree[Part(tree, i, "body")[1]].data[r])
      PROVE  WrappedBy(tree[Part(tree, i, "body")[1]].data[r]) = {tree[Part(tree, i, "cond")[1]].data}
    <2> DEFINE results == ResultsAt(i)
    <2>1. PICK ret \in DOMAIN tree, check \in DOMAIN tree :
              /\ Part(tree, i, "body") = <<ret>> /\ tree[ret].kind = "return"
              /\ Part(tree, i, "cond") = <<check>> /\ tree[check].kind = "errcheck"
              /\ PropagatesReturn(tree[ret].data, tree[check].data, results)
        BY <1>1 DEF Discounted, IsSimpleErrorReturn
    <2>2. i \in DOMAIN tree
        BY DEF Below
    <2>3. PICK q \in Packages : tree = Code(q).file.tree
        BY <1>1, <2>2 DEF TreeInv, NoTree
    <2>4. project \in Projects /\ q \in DOMAIN project.imports
        BY <1>1 DEF GuardInv, LoadInv, Packages, PackageIds, Range
    <2>5. tree[check] \in Range(tree) /\ tree[ret] \in Range(tree)
        BY DEF Range
    <2>6. /\ tree[check].data # "nil"
          /\ \A e \in Range(tree[ret].data) :
                 e.verbs \in Seq(Directives) /\ \A v \in Range(e.verbs) : Written(v)
        BY <2>1, <2>3, <2>4, <2>5, FilesAssumption DEF Code
    <2>7. Propagates(tree[ret].data[r], tree[check].data) /\ r \in DOMAIN tree[ret].data
        BY <1>1, <2>1 DEF PropagatesReturn
    <2>8. /\ tree[ret].data[r].verbs \in Seq(Directives) /\ FormatReadAlike(tree[ret].data[r])
          /\ \A v \in Range(tree[ret].data[r].verbs) : Written(v)
        BY <1>1, <2>1, <2>6, <2>7 DEF Range
    <2>9. WrappedBy(tree[ret].data[r]) = {tree[check].data}
        BY <2>6, <2>7, <2>8, PropagatesOnly
    <2>10. QED
        BY <2>1, <2>9
<1>2. GuardInv /\ TreeInv => DiscountsOnlyErrorFlow
    BY <1>1 DEF DiscountsOnlyErrorFlow
<1>3. QED
    BY <1>2, TreeInvAlways, PTL

-------------------------------------------------------------------------------
(* Syntax trees                                                            *)

Children(t, i) == {j \in DOMAIN t : t[j].up = i}

\* What the grammar says of one node.
LEMMA NodeFacts ==
    ASSUME NEW t, Grammatical(t)
    PROVE  /\ Len(t) \in Nat /\ DOMAIN t = 1..Len(t)
           /\ \A i \in 1..Len(t) : t[i].up \in 0..Len(t) /\ t[i].up < i /\ t[i].up \in Nat
           /\ \A i \in 1..Len(t) : t[i].kind \in Decls <=> t[i].up = 0
           /\ \A i \in 1..Len(t) : t[i].up # 0 => t[i].part \in PartsIn(t[t[i].up].kind)
           /\ \A i \in 1..Len(t) : t[i].part = "cond" <=> IsExpression(t[i])
<1>1. Len(t) \in Nat /\ DOMAIN t = 1..Len(t)
    BY LenProperties DEF Grammatical
<1>2. \A i \in 1..Len(t) : t[i].up \in 0..i - 1
    BY <1>1 DEF Grammatical
<1>3. \A i \in 1..Len(t) : t[i].up \in 0..Len(t) /\ t[i].up < i /\ t[i].up \in Nat
    BY <1>1, <1>2
<1>4. \A i \in 1..Len(t) : t[i].kind \in Decls <=> t[i].up = 0
    BY <1>1 DEF Grammatical
<1>5. \A i \in 1..Len(t) : t[i].up # 0 => t[i].part \in PartsIn(t[t[i].up].kind)
    BY <1>1 DEF Grammatical
<1>6. \A i \in 1..Len(t) : t[i].part = "cond" <=> IsExpression(t[i])
    BY <1>1 DEF Grammatical
<1>7. QED
    BY <1>1, <1>3, <1>4, <1>5, <1>6

\* The search for the nodes around a node has a result: the least set with it
\* that holds the parents of its members.
LEMMA AroundSolves ==
    ASSUME NEW t, Grammatical(t)
    PROVE  /\ Around(t)[0] = {}
           /\ \A i \in 1..Len(t) : Around(t)[i] = {i} \cup Around(t)[t[i].up]
<1> DEFINE n == Len(t)
           Solves(f) == f = [i \in 0..n |-> IF i = 0 THEN {} ELSE {i} \cup f[t[i].up]]
           Closed(S) == \A x \in S : x # 0 => t[x].up \in S
           Least(i) == {r \in 1..n : \A S \in SUBSET (0..n) : i \in S /\ Closed(S) => r \in S}
           w == [i \in 0..n |-> Least(i)]
<1>1. n \in Nat /\ \A i \in 1..n : t[i].up \in 0..n
    BY NodeFacts
<1> HIDE DEF n
<1>2. Least(0) = {}
    <2>1. {0} \in SUBSET (0..n) /\ Closed({0})
        BY <1>1
    <2>2. \A r \in Least(0) : r \in {0}
        BY <2>1
    <2>3. \A r \in Least(0) : r # 0
        BY <1>1
    <2> HIDE DEF Least
    <2>4. QED
        BY <2>2, <2>3
<1>3. ASSUME NEW i \in 1..n
      PROVE  Least(i) = {i} \cup Least(t[i].up)
    <2> DEFINE up == t[i].up
               R == {0, i} \cup Least(up)
    <2>1. i \in Least(i)
        OBVIOUS
    <2>2. Least(up) \subseteq Least(i)
        <3>1. \A S \in SUBSET (0..n) : i \in S /\ Closed(S) => up \in S
            BY <1>1
        <3>2. QED
            BY <3>1
    <2>3. Closed(R)
        <3>1. up \in R
            <4>1. up = 0 \/ up \in 1..n
                BY <1>1
            <4>2. QED
                BY <4>1
        <3>2. ASSUME NEW r \in Least(up), r # 0
              PROVE  t[r].up \in R
            <4>1. r \in 1..n /\ t[r].up \in 0..n
                BY <1>1
            <4>2. ASSUME NEW S \in SUBSET (0..n), up \in S, Closed(S)
                  PROVE  t[r].up \in S
                <5>1. r \in S
                    BY <4>2
                <5>2. QED
                    BY <3>2, <4>2, <5>1
            <4>3. t[r].up # 0 => t[r].up \in 1..n
                BY <1>1, <4>1
            <4>4. t[r].up # 0 => t[r].up \in Least(up)
                BY <4>2, <4>3
            <4> HIDE DEF Least
            <4>5. QED
                BY <4>4
        <3> HIDE DEF Least
        <3>3. QED
            BY <3>1, <3>2
    <2>4. R \in SUBSET (0..n) /\ i \in R
        BY <1>1
    <2>5. Least(i) \subseteq R
        BY <2>3, <2>4
    <2>6. 0 \notin Least(i)
        BY <1>1
    <2> HIDE DEF Least
    <2>7. QED
        BY <2>1, <2>2, <2>5, <2>6
<1> HIDE DEF Least
<1>4. Solves(w)
    <2>1. \A i \in 1..n : w[t[i].up] = Least(t[i].up)
        BY <1>1
    <2>2. \A i \in 0..n : w[i] = IF i = 0 THEN {} ELSE {i} \cup w[t[i].up]
        BY <1>1, <1>2, <1>3, <2>1
    <2>3. QED
        BY <2>2
<1>5. \E f : Solves(f)
    BY <1>4
<1> DEFINE a == CHOOSE f : Solves(f)
<1> HIDE DEF Solves
<1>6. Solves(a)
    BY <1>5
<1>7. Around(t) = a
    BY DEF Around, Solves, n
<1> HIDE DEF a
<1>8. /\ a[0] = {}
      /\ \A i \in 1..n : a[i] = {i} \cup a[t[i].up]
    <2>1. a = [i \in 0..n |-> IF i = 0 THEN {} ELSE {i} \cup a[t[i].up]]
        BY <1>6 DEF Solves
    <2>2. \A i \in 0..n : a[i] = IF i = 0 THEN {} ELSE {i} \cup a[t[i].up]
        BY <2>1
    <2>3. 0 \in 0..n /\ \A i \in 1..n : i \in 0..n /\ i # 0
        BY <1>1
    <2>4. a[0] = {}
        BY <2>2, <2>3
    <2>5. \A i \in 1..n : a[i] = {i} \cup a[t[i].up]
        BY <2>2, <2>3
    <2>6. QED
        BY <2>4, <2>5
<1>9. QED
    BY <1>7, <1>8 DEF n

\* Around a node are nodes before it, in one chain.
LEMMA AroundChain ==
    ASSUME NEW t, Grammatical(t)
    PROVE  \A i \in 1..Len(t) :
              /\ i \in Around(t)[i] /\ Around(t)[i] \subseteq 1..i
              /\ \A j \in Around(t)[i] : /\ Around(t)[j] \subseteq Around(t)[i]
                                         /\ \A k \in Around(t)[i] : j \in Around(t)[k] \/ k \in Around(t)[j]
<1> DEFINE n == Len(t)
           a == Around(t)
           Good(i) == /\ i \in a[i] /\ a[i] \subseteq 1..i
                      /\ \A j \in a[i] : a[j] \subseteq a[i] /\ \A k \in a[i] : j \in a[k] \/ k \in a[j]
           Bad == {i \in 1..n : ~Good(i)}
<1>1. n \in Nat /\ \A i \in 1..n : t[i].up < i /\ t[i].up \in Nat
    BY NodeFacts
<1>2. a[0] = {} /\ \A i \in 1..n : a[i] = {i} \cup a[t[i].up]
    BY AroundSolves
<1>3. ASSUME NEW i \in 1..n, \A j \in 1..n : j < i => Good(j)
      PROVE  Good(i)
    <2> DEFINE u == t[i].up
    <2>1. a[i] = {i} \cup a[u] /\ u < i /\ u \in Nat
        BY <1>1, <1>2
    <2>2. CASE u = 0
        <3>1. a[i] = {i}
            BY <1>2, <2>1, <2>2
        <3>2. QED
            BY <3>1
    <2>3. CASE u # 0
        <3>1. u \in 1..n /\ Good(u)
            BY <1>1, <1>3, <2>1, <2>3
        <3>2. a[i] \subseteq 1..i /\ i \in a[i]
            BY <2>1, <3>1
        <3>3. \A j \in a[u] : a[j] \subseteq a[i]
            BY <2>1, <3>1
        <3>4. \A j \in a[i] : a[j] \subseteq a[i]
            BY <2>1, <3>3
        <3>5. \A j, k \in a[i] : j \in a[k] \/ k \in a[j]
            <4> SUFFICES ASSUME NEW j \in a[i], NEW k \in a[i] PROVE j \in a[k] \/ k \in a[j]
                OBVIOUS
            <4>1. j = i \/ j \in a[u]
                BY <2>1
            <4>2. k = i \/ k \in a[u]
                BY <2>1
            <4>3. QED
                BY <2>1, <3>1, <4>1, <4>2
        <3>6. QED
            BY <3>2, <3>4, <3>5
    <2>4. QED
        BY <2>2, <2>3
<1> HIDE DEF Good, a, n
<1>4. Bad = {}
    <2> SUFFICES ASSUME Bad # {} PROVE FALSE
        OBVIOUS
    <2>1. Bad \subseteq Nat /\ Bad \subseteq 1..n
        BY <1>1
    <2>a. \A j \in 1..n : j \notin Bad => Good(j)
        OBVIOUS
    <2>b. \A j \in Bad : ~Good(j)
        OBVIOUS
    <2> HIDE DEF Bad
    <2>2. PICK i \in Bad : \A k \in Bad : i <= k
        BY <2>1, LeastElement
    <2>3. \A j \in 1..n : j < i => Good(j)
        BY <1>1, <2>1, <2>a, <2>2
    <2>4. Good(i)
        BY <1>3, <2>1, <2>3
    <2>5. QED
        BY <2>4, <2>b
<1>5. \A i \in 1..n : Good(i)
    BY <1>4
<1>6. QED
    BY <1>5 DEF Good, a, n

\* A node lies below itself, and what lies below a node below another lies below
\* the other. Of two nodes around a third, one lies below the other.
LEMMA BelowFacts ==
    ASSUME NEW t, Grammatical(t), NEW i \in 1..Len(t)
    PROVE  /\ i \in Below(t, i) /\ Below(t, i) \subseteq 1..Len(t)
           /\ \A j \in Below(t, i) : i <= j /\ Below(t, j) \subseteq Below(t, i)
           /\ \A j \in 1..Len(t), k \in Below(t, i) :
                 k \in Below(t, j) => j \in Below(t, i) \/ i \in Below(t, j)
<1> DEFINE n == Len(t)
           a == Around(t)
<1>1. n \in Nat /\ DOMAIN t = 1..n
    BY NodeFacts
<1>2. \A j \in 1..n : Below(t, j) = {k \in 1..n : j \in a[k]}
    BY <1>1 DEF Below
<1>3. \A j \in 1..n : j \in a[j] /\ a[j] \subseteq 1..j
    BY AroundChain
<1>4. \A j \in 1..n : \A k \in a[j] : a[k] \subseteq a[j]
    BY AroundChain
<1>5. \A x \in 1..n : \A j \in a[x] : \A k \in a[x] : j \in a[k] \/ k \in a[j]
    BY AroundChain
<1> HIDE DEF n, a
<1>6. i \in 1..n
    BY DEF n
<1>7. i \in Below(t, i) /\ Below(t, i) \subseteq 1..n
    BY <1>2, <1>3, <1>6
<1>8. ASSUME NEW j \in Below(t, i)
      PROVE  i <= j /\ Below(t, j) \subseteq Below(t, i)
    <2>1. j \in 1..n /\ i \in a[j] /\ i \in 1..j
        BY <1>2, <1>3, <1>6
    <2>2. \A k \in Below(t, j) : k \in 1..n /\ j \in a[k]
        BY <1>2, <2>1
    <2>3. \A k \in Below(t, j) : i \in a[k]
        BY <1>4, <2>1, <2>2
    <2>4. \A k \in Below(t, j) : k \in Below(t, i)
        BY <1>2, <1>6, <2>2, <2>3
    <2>5. Below(t, j) \subseteq Below(t, i)
        BY <2>4
    <2>6. i <= j
        BY <1>1, <2>1
    <2>7. QED
        BY <2>5, <2>6
<1>9. ASSUME NEW j \in 1..n, NEW k \in Below(t, i), k \in Below(t, j)
      PROVE  j \in Below(t, i) \/ i \in Below(t, j)
    <2>1. k \in 1..n /\ i \in a[k] /\ j \in a[k]
        BY <1>2, <1>6, <1>9
    <2>2. i \in a[j] \/ j \in a[i]
        BY <1>5, <2>1
    <2>3. QED
        BY <1>2, <1>6, <2>2
<1>10. QED
    BY <1>7, <1>8, <1>9 DEF n

\* What lies below a node is the node and what lies below its children.
LEMMA BelowChildren ==
    ASSUME NEW t, Grammatical(t), NEW i \in 1..Len(t)
    PROVE  /\ \A c \in Children(t, i) :
                 /\ c \in 1..Len(t) /\ t[c].up = i /\ i < c /\ c # i
                 /\ c \in Below(t, i) /\ Below(t, c) \subseteq Below(t, i) /\ i \notin Below(t, c)
           /\ \A j \in Below(t, i) :
                 j # i => /\ t[j].up \in Below(t, i)
                          /\ \E c \in Children(t, i) : j \in Below(t, c)
<1> DEFINE n == Len(t)
           a == Around(t)
<1>1. /\ n \in Nat /\ DOMAIN t = 1..n
      /\ \A j \in 1..n : t[j].up \in 0..n /\ t[j].up < j /\ t[j].up \in Nat
    BY NodeFacts
<1>2. \A j \in 1..n : Below(t, j) = {k \in 1..n : j \in a[k]}
    BY <1>1 DEF Below
<1>3. a[0] = {} /\ \A j \in 1..n : a[j] = {j} \cup a[t[j].up]
    BY AroundSolves
<1>4. \A j \in 1..n : j \in a[j] /\ a[j] \subseteq 1..j
    BY AroundChain
<1>5. \A j \in 1..n : \A k \in a[j] : a[k] \subseteq a[j]
    BY AroundChain
<1>6. Children(t, i) = {c \in 1..n : t[c].up = i}
    BY <1>1 DEF Children
<1>7. \A j \in Below(t, i) : i <= j /\ Below(t, j) \subseteq Below(t, i)
    BY BelowFacts
<1> HIDE DEF n, a
<1>8. i \in 1..n
    BY DEF n
<1>9. ASSUME NEW c \in Children(t, i)
      PROVE  /\ c \in 1..n /\ t[c].up = i /\ i < c /\ c # i
             /\ c \in Below(t, i) /\ Below(t, c) \subseteq Below(t, i) /\ i \notin Below(t, c)
    <2>1. c \in 1..n /\ t[c].up = i /\ i < c /\ c # i
        BY <1>1, <1>6, <1>8
    <2>2. i \in a[c]
        BY <1>3, <1>4, <1>8, <2>1
    <2>3. c \in Below(t, i)
        BY <1>2, <1>8, <2>1, <2>2
    <2>4. c \notin a[i]
        BY <1>4, <1>8, <2>1
    <2>5. QED
        BY <1>2, <1>7, <2>1, <2>3, <2>4
<1>10. ASSUME NEW j \in Below(t, i), j # i
       PROVE  t[j].up \in Below(t, i) /\ \E c \in Children(t, i) : j \in Below(t, c)
    <2>1. j \in 1..n /\ i \in a[j]
        BY <1>2, <1>8
    <2> DEFINE S == {c \in a[j] : c # i /\ i \in a[c]}
    <2>2. ASSUME NEW c \in S
          PROVE  t[c].up \in 1..n /\ i \in a[t[c].up] /\ t[c].up \in a[j]
        <3>1. c \in 1..n /\ c \in a[j]
            BY <1>1, <1>4, <2>1
        <3>2. i \in a[t[c].up]
            BY <1>3, <3>1
        <3>3. t[c].up \in 1..n
            BY <1>1, <1>3, <3>1, <3>2
        <3>4. t[c].up \in a[c]
            BY <1>3, <1>4, <3>1, <3>3
        <3>5. QED
            BY <1>5, <2>1, <3>1, <3>2, <3>3, <3>4
    <2>3. j \in S /\ S \subseteq Nat
        <3>1. a[j] \subseteq Nat
            BY <1>1, <1>4, <2>1
        <3>2. QED
            BY <1>4, <1>10, <2>1, <3>1
    <2>4. \A c \in S : c \in a[j]
        OBVIOUS
    <2>5. \A c \in a[j] : c # i /\ i \in a[c] => c \in S
        OBVIOUS
    <2> HIDE DEF S
    <2>6. PICK c \in S : \A k \in S : c <= k
        BY <2>3, LeastElement
    <2>7. t[c].up \notin S
        <3>1. c \in 1..n
            BY <1>1, <1>4, <2>1, <2>4
        <3>2. t[c].up < c /\ t[c].up \in Nat
            BY <1>1, <3>1
        <3>3. ~(c <= t[c].up)
            BY <1>1, <3>1, <3>2
        <3>4. QED
            BY <2>6, <3>3
    <2>8. t[c].up = i /\ c \in 1..n /\ c \in a[j]
        BY <1>1, <1>4, <2>1, <2>2, <2>4, <2>5, <2>6, <2>7
    <2>9. c \in Children(t, i) /\ j \in Below(t, c)
        BY <1>2, <1>6, <2>1, <2>8
    <2>10. t[j].up \in Below(t, i)
        BY <1>2, <1>8, <2>2, <2>3
    <2>11. QED
        BY <2>9, <2>10
<1>11. QED
    BY <1>9, <1>10 DEF n

\* Of two children of a node, neither lies below the other.
LEMMA SiblingsApart ==
    ASSUME NEW t, Grammatical(t), NEW i \in 1..Len(t), NEW c \in Children(t, i), NEW d \in Children(t, i), c # d
    PROVE  d \notin Below(t, c)
<1>1. c \in 1..Len(t) /\ d \in 1..Len(t) /\ t[d].up = i /\ i \notin Below(t, c)
    BY BelowChildren
<1>2. d \in Below(t, c) => t[d].up \in Below(t, c)
    BY <1>1, BelowChildren
<1>3. QED
    BY <1>1, <1>2

\* Between an expression and a statement below it is a function literal.
LEMMA LitBetween ==
    ASSUME NEW t, Grammatical(t), NEW e \in 1..Len(t), IsExpression(t[e]),
           NEW s \in Below(t, e), ~IsExpression(t[s])
    PROVE  \E l \in Below(t, e) : t[l].kind = "lit" /\ s \in Below(t, l)
<1> DEFINE n == Len(t)
           S == {x \in Below(t, e) : s \in Below(t, x) /\ ~IsExpression(t[x])}
<1>1. n \in Nat /\ \A j \in 1..n : t[j].up < j /\ t[j].up \in Nat
    BY NodeFacts
<1>2. \A j \in 1..n : t[j].part = "cond" <=> IsExpression(t[j])
    BY NodeFacts
<1>3. \A j \in 1..n : t[j].up # 0 => t[j].part \in PartsIn(t[t[j].up].kind)
    BY NodeFacts
<1>4. Below(t, e) \subseteq 1..n /\ e \in 1..n
    BY BelowFacts
<1>5. S \subseteq Nat /\ s \in S
    <2>1. s \in Below(t, s)
        BY <1>4, BelowFacts
    <2>2. QED
        BY <1>1, <1>4, <2>1
<1>6. \A x \in S : x \in Below(t, e) /\ s \in Below(t, x) /\ ~IsExpression(t[x])
    OBVIOUS
<1>7. \A x \in Below(t, e) : s \in Below(t, x) /\ ~IsExpression(t[x]) => x \in S
    OBVIOUS
<1> HIDE DEF S
<1>8. PICK x \in S : \A k \in S : x <= k
    BY <1>5, LeastElement
<1> DEFINE u == t[x].up
<1>9. x \in 1..n /\ x # e
    BY <1>4, <1>6
<1>10. u \in Below(t, e) /\ u \in 1..n
    BY <1>4, <1>6, <1>9, BelowChildren
<1>11. u \notin S
    <2>1. ~(x <= u)
        BY <1>1, <1>9
    <2>2. QED
        BY <1>8, <2>1
<1>12. s \in Below(t, u)
    <2>1. x \in Children(t, u)
        BY <1>9, NodeFacts DEF Children
    <2>2. Below(t, x) \subseteq Below(t, u)
        BY <1>10, <2>1, BelowChildren
    <2>3. QED
        BY <1>6, <2>2
<1>13. IsExpression(t[u])
    BY <1>7, <1>10, <1>11, <1>12
<1>14. t[x].part \in PartsIn(t[u].kind) /\ t[x].part # "cond"
    <2>1. u # 0
        BY <1>10
    <2>2. QED
        BY <1>2, <1>3, <1>6, <1>9, <2>1
<1>15. t[u].kind = "lit"
    BY <1>13, <1>14 DEF PartsIn, IsExpression, Statements, Decls
<1>16. QED
    BY <1>10, <1>12, <1>15

\* How many of S come before i.
Before(S, i) == {j \in S : j < i}

\* InOrder lists every member of a set of indices, each once.
LEMMA InOrderLists ==
    ASSUME NEW n \in Nat, NEW S, S \subseteq 1..n
    PROVE  /\ InOrder(S) \in Seq(S) /\ Range(InOrder(S)) = S
           /\ DOMAIN InOrder(S) = 1..Cardinality(S) /\ Cardinality(S) \in Nat
           /\ \A k, l \in DOMAIN InOrder(S) : InOrder(S)[k] = InOrder(S)[l] => k = l
<1> DEFINE m == Cardinality(S)
           rank == [i \in S |-> Cardinality(Before(S, i))]
           Pos == 0..(m - 1)
<1>1. IsFiniteSet(S) /\ m \in Nat
    <2>1. IsFiniteSet(1..n)
        BY FS_Interval
    <2>2. S \in SUBSET (1..n)
        OBVIOUS
    <2>3. QED
        BY <2>1, <2>2, FS_Subset, FS_CardinalityType
<1>2. \A i \in S : i \in Nat
    OBVIOUS
<1>3. \A i \in S : Before(S, i) \in SUBSET S /\ Before(S, i) # S /\ i \notin Before(S, i)
    BY <1>2 DEF Before
<1>4. \A i \in S : IsFiniteSet(Before(S, i)) /\ Cardinality(Before(S, i)) \in Nat
    BY <1>1, <1>3, FS_Subset, FS_CardinalityType
<1>5. ASSUME NEW i \in S
      PROVE  Cardinality(Before(S, i)) \in Pos
    <2>1. Cardinality(Before(S, i)) <= m /\ Cardinality(Before(S, i)) # m
        BY <1>1, <1>3, FS_Subset
    <2>2. QED
        BY <1>1, <1>4, <2>1
<1>6. ASSUME NEW i \in S, NEW j \in S, i < j
      PROVE  Cardinality(Before(S, i)) < Cardinality(Before(S, j))
    <2>0. i \in Nat /\ j \in Nat
        BY <1>2
    <2>a. \A x \in S : x < i => x < j
        BY <1>2, <1>6, <2>0
    <2>1. Before(S, i) \in SUBSET Before(S, j) /\ i \in Before(S, j)
        BY <1>6, <2>a DEF Before
    <2>2. Before(S, i) # Before(S, j)
        BY <1>3, <2>1
    <2>3. Cardinality(Before(S, i)) <= Cardinality(Before(S, j))
          /\ Cardinality(Before(S, i)) # Cardinality(Before(S, j))
        BY <1>4, <2>1, <2>2, FS_Subset
    <2>4. QED
        BY <1>4, <2>3
<1>7. rank \in Injection(S, Pos)
    <2>1. rank \in [S -> Pos]
        BY <1>5
    <2>2. ASSUME NEW i \in S, NEW j \in S, rank[i] = rank[j]
          PROVE  i = j
        <3>1. i < j \/ j < i \/ i = j
            BY <1>2
        <3>2. Cardinality(Before(S, i)) = Cardinality(Before(S, j))
            BY <2>2
        <3>3. QED
            BY <1>4, <1>6, <3>1, <3>2
    <2> HIDE DEF rank
    <2>3. QED
        BY <2>1, <2>2 DEF Injection, IsInjective
<1>8. IsFiniteSet(Pos) /\ Cardinality(Pos) = m
    <2> HIDE DEF m, rank
    <2>1. 0 \in Int /\ m - 1 \in Int /\ (IF 0 > m - 1 THEN 0 ELSE m - 1 - 0 + 1) = m
        BY <1>1
    <2>2. QED
        BY <2>1, FS_Interval
<1> HIDE DEF rank, Pos
<1>9. rank \in Surjection(S, Pos)
    BY <1>7, <1>8, FS_Injection
<1>10. \A k \in Pos : \E i \in S : rank[i] = k
    BY <1>9 DEF Surjection
<1>11. \A i, j \in S : rank[i] = rank[j] => i = j
    BY <1>7 DEF Injection, IsInjective
<1>12. \A i \in S : rank[i] = Cardinality({j \in S : j < i})
    BY DEF rank, Before
<1> DEFINE s == InOrder(S)
<1>13. s = [k \in 1..m |-> CHOOSE i \in S : Cardinality({j \in S : j < i}) = k - 1]
    BY DEF InOrder
<1>14. ASSUME NEW k \in 1..m
       PROVE  s[k] \in S /\ rank[s[k]] = k - 1
    <2>1. k - 1 \in Pos
        BY <1>1 DEF Pos
    <2>2. PICK i \in S : Cardinality({j \in S : j < i}) = k - 1
        BY <1>10, <1>12, <2>1
    <2>3. s[k] = CHOOSE i0 \in S : Cardinality({j \in S : j < i0}) = k - 1
        BY <1>13
    <2> HIDE DEF s
    <2>4. s[k] \in S /\ Cardinality({j \in S : j < s[k]}) = k - 1
        BY <2>2, <2>3
    <2>5. QED
        BY <1>12, <2>4
<1>15. DOMAIN s = 1..m
    BY <1>13
<1>16. s \in Seq(S)
    <2>1. s \in [1..m -> S]
        BY <1>13, <1>14
    <2> HIDE DEF s
    <2>2. QED
        BY <1>1, <2>1
<1> HIDE DEF s
<1>17. ASSUME NEW k \in 1..m, NEW l \in 1..m, s[k] = s[l]
       PROVE  k = l
    <2>1. k - 1 = l - 1
        BY <1>14, <1>17
    <2>2. QED
        BY <1>1, <2>1
<1>18. ASSUME NEW i \in S
       PROVE  \E k \in 1..m : s[k] = i
    <2>1. rank[i] \in Pos
        BY <1>7 DEF Injection
    <2>2. rank[i] + 1 \in 1..m /\ (rank[i] + 1) - 1 = rank[i]
        BY <1>1, <2>1 DEF Pos
    <2>3. s[rank[i] + 1] \in S /\ rank[s[rank[i] + 1]] = rank[i]
        BY <1>14, <2>2
    <2>4. QED
        BY <1>11, <2>2, <2>3
<1>19. Range(s) = S
    BY <1>14, <1>15, <1>18 DEF Range
<1>20. QED
    BY <1>1, <1>15, <1>16, <1>17, <1>19 DEF s

\* The results a return statement in the child of a node gives: those of the
\* node when it is a function, else those that one in the node itself gives.
LEMMA ResultsOfChild ==
    ASSUME Grammatical(tree), NEW i \in 1..Len(tree), NEW c \in Children(tree, i)
    PROVE  ResultsAt(c) = IF tree[i].kind \in {"func", "lit"} THEN tree[i].data ELSE ResultsAt(i)
<1> DEFINE a == Around(tree)
           Funcs(j) == {k \in a[j] \ {j} : tree[k].kind \in {"func", "lit"}}
<1>1. /\ Len(tree) \in Nat
      /\ c \in 1..Len(tree) /\ tree[c].up = i /\ c # i
    BY NodeFacts, BelowChildren
<1>2. a[c] = {c} \cup a[i] /\ i \in a[i] /\ a[i] \subseteq 1..i /\ i < c
    BY <1>1, AroundSolves, AroundChain, BelowChildren
<1>3. ResultsAt(c) = tree[CHOOSE k \in Funcs(c) : \A l \in Funcs(c) : l <= k].data
    BY DEF ResultsAt, EnclosingFunc
<1>4. ResultsAt(i) = tree[CHOOSE k \in Funcs(i) : \A l \in Funcs(i) : l <= k].data
    BY DEF ResultsAt, EnclosingFunc
<1>5. c \notin a[i]
    BY <1>1, <1>2
<1>6. Funcs(c) = {k \in a[i] : tree[k].kind \in {"func", "lit"}}
    BY <1>2, <1>5
<1> HIDE DEF a
<1>7. CASE tree[i].kind \in {"func", "lit"}
    <2>1. i \in Funcs(c)
        BY <1>2, <1>6, <1>7
    <2>2. Funcs(c) \subseteq 1..i
        BY <1>2, <1>6
    <2> HIDE DEF Funcs
    <2>3. \A l \in Funcs(c) : l <= i
        BY <1>1, <2>2
    <2>4. ASSUME NEW k \in Funcs(c), \A l \in Funcs(c) : l <= k
          PROVE  k = i
        <3>1. i <= k /\ k <= i /\ k \in 1..i
            BY <2>1, <2>2, <2>3, <2>4
        <3>2. QED
            BY <3>1
    <2>5. (CHOOSE k \in Funcs(c) : \A l \in Funcs(c) : l <= k) = i
        BY <2>1, <2>3, <2>4
    <2>6. QED
        BY <1>3, <1>7, <2>5
<1>8. CASE tree[i].kind \notin {"func", "lit"}
    <2>1. Funcs(c) = Funcs(i)
        BY <1>6, <1>8
    <2> HIDE DEF Funcs
    <2>2. QED
        BY <1>3, <1>4, <1>8, <2>1
<1>9. QED
    BY <1>7, <1>8

-------------------------------------------------------------------------------
(* The walk of a function                                                  *)

\* The task of a node, whoever gives it.
TaskOf(i) == [op |-> IF IsExpression(tree[i]) THEN "lits" ELSE "stmt", at |-> i, results |-> ResultsAt(i)]

\* A branch that is discounted, and the nodes no such branch around them leaves out.
Leaves(d) == tree[d].kind = "if" /\ Discounted(d, ResultsAt(d))
Undropped(f, i) == \A d \in Below(tree, f) :
    Leaves(d) /\ i \in Below(tree, d) /\ i # d => \E j \in Range(Part(tree, d, "init")) : i \in Below(tree, j)
Charged(f) == Below(tree, f) \ Dropped(f)

\* The tasks of a walk are of nodes that count, none below another.
Pending(f) == {TaskOf(i) : i \in {j \in Below(tree, f) : Undropped(f, j)}}
Apart(s) == \A k, l \in DOMAIN s : k # l => s[k].at \notin Below(tree, s[l].at)
Frontier(f, s) == s \in Seq(Pending(f)) /\ Apart(s)

\* What is still to be walked, and what of the function has been.
Todo(s) == UNION {Below(tree, s[k].at) : k \in DOMAIN s}
Walked(f, s) == Charged(f) \ Todo(s)

\* The children that the walk of a node goes on to, and tasks for a set of nodes.
Entered(i) == {c \in Children(tree, i) : Leaves(i) => tree[c].part = "init"}
Lists(s, C) == /\ s \in Seq({TaskOf(c) : c \in C})
               /\ \A k, l \in DOMAIN s : s[k].at = s[l].at => k = l
               /\ \A c \in C : \E k \in DOMAIN s : s[k].at = c

InPart(i, part) == {c \in Children(tree, i) : tree[c].part = part}

\* The nodes in one part of a node, in their order.
LEMMA PartLists ==
    ASSUME Grammatical(tree), NEW i, NEW part
    PROVE  /\ Part(tree, i, part) = InOrder(InPart(i, part)) /\ InPart(i, part) \subseteq 1..Len(tree)
           /\ Range(Part(tree, i, part)) = InPart(i, part)
<1>1. Len(tree) \in Nat /\ DOMAIN tree = 1..Len(tree)
    BY NodeFacts
<1>2. InPart(i, part) = {j \in DOMAIN tree : tree[j].up = i /\ tree[j].part = part}
    BY DEF InPart, Children
<1>3. InPart(i, part) \subseteq 1..Len(tree) /\ Part(tree, i, part) = InOrder(InPart(i, part))
    BY <1>1, <1>2 DEF Part
<1>4. QED
    BY <1>1, <1>3, InOrderLists

\* What is charged: what no discounted branch leaves out, and not such a branch.
LEMMA ChargedFacts ==
    ASSUME Grammatical(tree), NEW f \in 1..Len(tree), NEW x
    PROVE  x \in Charged(f) <=> x \in Below(tree, f) /\ Undropped(f, x) /\ ~Leaves(x)
<1> DEFINE Inits(d) == UNION {Below(tree, j) : j \in Range(Part(tree, d, "init"))}
           Gone == {d \in Below(tree, f) : Leaves(d)}
<1>1. Dropped(f) = UNION {Below(tree, d) \ Inits(d) : d \in Gone}
    BY DEF Dropped, Leaves
<1>2. x \in Dropped(f) <=> \E d \in Gone : x \in Below(tree, d) \ Inits(d)
    BY <1>1
<1>3. \A d : x \in Inits(d) <=> \E j \in Range(Part(tree, d, "init")) : x \in Below(tree, j)
    OBVIOUS
<1>4. x \in Below(tree, f) => x \in 1..Len(tree) /\ x \in Below(tree, x)
    BY BelowFacts
<1>5. ASSUME x \in Below(tree, f)
      PROVE  x \notin Inits(x)
    <2>1. \A j \in Range(Part(tree, x, "init")) : j \in Children(tree, x)
        BY PartLists DEF InPart
    <2>2. \A j \in Children(tree, x) : x \notin Below(tree, j)
        BY <1>4, <1>5, BelowChildren
    <2>3. QED
        BY <1>3, <2>1, <2>2
<1> HIDE DEF Inits
<1>6. ASSUME x \in Below(tree, f)
      PROVE  x \in Dropped(f) <=> Leaves(x) \/ ~Undropped(f, x)
    <2>1. Undropped(f, x) <=> \A d \in Gone : x \in Below(tree, d) /\ x # d => x \in Inits(d)
        BY <1>3 DEF Undropped
    <2>2. Leaves(x) <=> x \in Gone
        BY <1>6
    <2> HIDE DEF Gone
    <2>3. QED
        BY <1>2, <1>4, <1>5, <1>6, <2>1, <2>2
<1>7. QED
    BY <1>6 DEF Charged

\* A child the walk goes on to is not left out either, and below the others
\* nothing is charged.
LEMMA EnteredFacts ==
    ASSUME Grammatical(tree), NEW f \in 1..Len(tree), NEW i \in Below(tree, f), Undropped(f, i)
    PROVE  /\ \A c \in Entered(i) : c \in Below(tree, f) /\ Undropped(f, c)
           /\ \A c \in Children(tree, i) \ Entered(i) : Below(tree, c) \cap Charged(f) = {}
<1>1. i \in 1..Len(tree) /\ Below(tree, i) \subseteq Below(tree, f)
    BY BelowFacts
<1>2. \A c \in Children(tree, i) : c \in 1..Len(tree) /\ tree[c].up = i /\ c # i
                                /\ c \in Below(tree, i) /\ Below(tree, c) \subseteq Below(tree, i)
                                /\ i \notin Below(tree, c)
    BY <1>1, BelowChildren
<1>3. \A d : Range(Part(tree, d, "init")) = InPart(d, "init")
    BY PartLists
<1>4. ASSUME NEW c \in Entered(i)
      PROVE  c \in Below(tree, f) /\ Undropped(f, c)
    <2>1. c \in Children(tree, i) /\ c \in Below(tree, f) /\ c \in 1..Len(tree) /\ c \in Below(tree, i)
        BY <1>1, <1>2 DEF Entered
    <2>2. ASSUME NEW d \in Below(tree, f), Leaves(d), c \in Below(tree, d), c # d
          PROVE  \E j \in InPart(d, "init") : c \in Below(tree, j)
        <3>1. d \in 1..Len(tree)
            BY BelowFacts
        <3>2. i \in Below(tree, d)
            <4>1. tree[c].up \in Below(tree, d)
                BY <2>2, <3>1, BelowChildren
            <4>2. QED
                BY <1>2, <2>1, <4>1
        <3>3. CASE d = i
            <4>1. c \in InPart(d, "init")
                BY <2>1, <2>2, <3>3 DEF Entered, InPart
            <4>2. c \in Below(tree, c)
                BY <2>1, BelowFacts
            <4>3. QED
                BY <4>1, <4>2
        <3>4. CASE d # i
            <4>1. PICK j \in InPart(d, "init") : i \in Below(tree, j)
                BY <1>3, <2>2, <3>2, <3>4 DEF Undropped
            <4>2. j \in 1..Len(tree)
                BY PartLists
            <4>3. c \in Below(tree, j)
                BY <2>1, <4>1, <4>2, BelowFacts
            <4>4. QED
                BY <4>3
        <3>5. QED
            BY <3>3, <3>4
    <2>3. QED
        BY <1>3, <2>1, <2>2 DEF Undropped
<1>5. ASSUME NEW c \in Children(tree, i) \ Entered(i), NEW x \in Below(tree, c), x \in Charged(f)
      PROVE  FALSE
    <2>1. Leaves(i) /\ c \notin InPart(i, "init")
        BY <1>5 DEF Entered, InPart
    <2>2. x \in Below(tree, i) /\ x # i
        BY <1>2, <1>5
    <2>3. Undropped(f, x)
        BY <1>5, ChargedFacts
    <2>4. PICK j \in InPart(i, "init") : x \in Below(tree, j)
        BY <1>3, <2>1, <2>2, <2>3 DEF Undropped
    <2>5. j \in Children(tree, i) /\ j # c
        BY <2>1, <2>4 DEF InPart
    <2>6. j \notin Below(tree, c) /\ c \notin Below(tree, j)
        BY <1>1, <2>5, SiblingsApart
    <2>7. QED
        BY <1>2, <1>5, <2>4, <2>5, <2>6, BelowFacts
<1>6. QED
    BY <1>4, <1>5

\* The tasks in a list are of the nodes it is for.
LEMMA ListedNodes ==
    ASSUME NEW C, NEW s \in Seq({TaskOf(c) : c \in C})
    PROVE  /\ Len(s) \in Nat /\ DOMAIN s = 1..Len(s)
           /\ \A k \in DOMAIN s : s[k].at \in C /\ s[k] = TaskOf(s[k].at)
<1>1. Len(s) \in Nat /\ DOMAIN s = 1..Len(s) /\ \A k \in DOMAIN s : s[k] \in {TaskOf(c) : c \in C}
    BY LenProperties, ElementOfSeq
<1>2. \A c : TaskOf(c).at = c
    BY DEF TaskOf
<1>3. QED
    BY <1>1, <1>2

\* The tasks for a set of nodes that get the same operation and results.
LEMMA ListsInOrder ==
    ASSUME Grammatical(tree), NEW C, C \subseteq 1..Len(tree), NEW op, NEW results,
           \A c \in C : TaskOf(c) = [op |-> op, at |-> c, results |-> results]
    PROVE  Lists(Tasks(op, InOrder(C), results), C)
<1> DEFINE nodes == InOrder(C)
           s == Tasks(op, nodes, results)
<1>1. Len(tree) \in Nat
    BY NodeFacts
<1>2. /\ nodes \in Seq(C) /\ Range(nodes) = C
      /\ \A k, l \in DOMAIN nodes : nodes[k] = nodes[l] => k = l
    BY <1>1, InOrderLists
<1> HIDE DEF nodes
<1>3. Len(nodes) \in Nat /\ DOMAIN nodes = 1..Len(nodes) /\ \A k \in DOMAIN nodes : nodes[k] \in C
    BY <1>2, LenProperties, ElementOfSeq
<1>4. s = [k \in 1..Len(nodes) |-> [op |-> op, at |-> nodes[k], results |-> results]]
    BY <1>3 DEF Tasks
<1>5. \A k \in 1..Len(nodes) : s[k] = TaskOf(nodes[k]) /\ s[k].at = nodes[k]
    BY <1>3, <1>4
<1>6. DOMAIN s = 1..Len(nodes)
    BY <1>4
<1>7. s \in Seq({TaskOf(c) : c \in C})
    <2>1. \A k \in 1..Len(nodes) : s[k] \in {TaskOf(c) : c \in C}
        BY <1>3, <1>5
    <2>2. s = [k \in 1..Len(nodes) |-> s[k]]
        BY <1>4
    <2> HIDE DEF s
    <2>3. s \in [1..Len(nodes) -> {TaskOf(c) : c \in C}]
        BY <2>1, <2>2
    <2>4. QED
        BY <1>3, <2>3, SeqDef
<1> HIDE DEF s
<1>8. \A c \in C : \E k \in DOMAIN s : s[k].at = c
    BY <1>2, <1>3, <1>5, <1>6 DEF Range
<1>9. \A k, l \in DOMAIN s : s[k].at = s[l].at => k = l
    BY <1>2, <1>3, <1>5, <1>6
<1>10. QED
    BY <1>7, <1>8, <1>9 DEF Lists, s, nodes

\* The elements of a concatenation, by their index.
LEMMA Joined ==
    ASSUME NEW S, NEW s \in Seq(S), NEW u \in Seq(S)
    PROVE  /\ s \o u \in Seq(S)
           /\ \A k \in DOMAIN (s \o u) :
                 \/ k \in DOMAIN s /\ (s \o u)[k] = s[k]
                 \/ /\ k \notin DOMAIN s /\ k - Len(s) \in DOMAIN u
                    /\ (s \o u)[k] = u[k - Len(s)]
           /\ \A k \in DOMAIN s : k \in DOMAIN (s \o u) /\ (s \o u)[k] = s[k]
           /\ \A k \in DOMAIN u : k + Len(s) \in DOMAIN (s \o u) /\ (s \o u)[k + Len(s)] = u[k]
<1>1. /\ Len(s) \in Nat /\ DOMAIN s = 1..Len(s) /\ Len(u) \in Nat /\ DOMAIN u = 1..Len(u)
    BY LenProperties
<1>2. /\ s \o u \in Seq(S) /\ Len(s \o u) = Len(s) + Len(u)
      /\ \A k \in 1..Len(s) + Len(u) : (s \o u)[k] = IF k <= Len(s) THEN s[k] ELSE u[k - Len(s)]
    BY ConcatProperties
<1>3. DOMAIN (s \o u) = 1..Len(s) + Len(u)
    BY <1>2, LenProperties
<1>4. \A k \in 1..Len(s) + Len(u) : k <= Len(s) => k \in 1..Len(s)
    BY <1>1
<1>5. \A k \in 1..Len(s) + Len(u) : ~(k <= Len(s)) => k - Len(s) \in 1..Len(u) /\ k \notin 1..Len(s)
    BY <1>1
<1>6. \A k \in 1..Len(s) : k \in 1..Len(s) + Len(u) /\ k <= Len(s)
    BY <1>1
<1>7. \A k \in 1..Len(u) : k + Len(s) \in 1..Len(s) + Len(u) /\ ~(k + Len(s) <= Len(s)) /\ (k + Len(s)) - Len(s) = k
    BY <1>1
<1> DEFINE w == s \o u
<1>8. \A k \in DOMAIN w : \/ k \in DOMAIN s /\ w[k] = s[k]
                          \/ k \notin DOMAIN s /\ k - Len(s) \in DOMAIN u /\ w[k] = u[k - Len(s)]
    <2> HIDE DEF w
    <2>1. QED
        BY <1>1, <1>2, <1>3, <1>4, <1>5 DEF w
<1>9. \A k \in DOMAIN s : k \in DOMAIN w /\ w[k] = s[k]
    BY <1>1, <1>2, <1>3, <1>6
<1>10. \A k \in DOMAIN u : k + Len(s) \in DOMAIN w /\ w[k + Len(s)] = u[k]
    BY <1>1, <1>2, <1>3, <1>7
<1>11. QED
    BY <1>2, <1>8, <1>9, <1>10

\* The tasks for two sets of nodes, one after the other.
LEMMA ListsJoin ==
    ASSUME NEW C, NEW D, NEW s, NEW u, Lists(s, C), Lists(u, D), C \cap D = {}
    PROVE  Lists(s \o u, C \cup D)
<1> DEFINE w == s \o u
           T(E) == {TaskOf(c) : c \in E}
<1>1. s \in Seq(T(C)) /\ u \in Seq(T(D)) /\ T(C) \subseteq T(C \cup D) /\ T(D) \subseteq T(C \cup D)
    BY DEF Lists
<1> HIDE DEF T
<1>2. s \in Seq(T(C \cup D)) /\ u \in Seq(T(C \cup D))
    BY <1>1, SeqMonotonic
<1>3. /\ w \in Seq(T(C \cup D))
      /\ \A k \in DOMAIN w :
            \/ k \in DOMAIN s /\ w[k] = s[k]
            \/ k \notin DOMAIN s /\ k - Len(s) \in DOMAIN u /\ w[k] = u[k - Len(s)]
      /\ \A k \in DOMAIN s : k \in DOMAIN w /\ w[k] = s[k]
      /\ \A k \in DOMAIN u : k + Len(s) \in DOMAIN w /\ w[k + Len(s)] = u[k]
    BY <1>2, Joined
<1>4. /\ \A k \in DOMAIN s : s[k].at \in C
      /\ \A k \in DOMAIN u : u[k].at \in D
    BY <1>1, ListedNodes DEF T
<1>5. /\ Len(s) \in Nat /\ DOMAIN w \subseteq Nat
    BY <1>2, <1>3, LenProperties
<1> HIDE DEF w
<1>6. ASSUME NEW k \in DOMAIN w, NEW l \in DOMAIN w, w[k].at = w[l].at
      PROVE  k = l
    <2>1. \A x \in DOMAIN w : x \notin DOMAIN s => w[x].at \in D
        BY <1>3, <1>4
    <2>2. \A x \in DOMAIN w : x \in DOMAIN s => w[x].at \in C
        BY <1>3, <1>4
    <2>3. k \in DOMAIN s <=> l \in DOMAIN s
        BY <1>6, <2>1, <2>2
    <2>4. CASE k \in DOMAIN s
        BY <1>3, <1>6, <2>3, <2>4 DEF Lists
    <2>5. CASE k \notin DOMAIN s
        <3>0. /\ k - Len(s) \in DOMAIN u /\ w[k] = u[k - Len(s)]
              /\ l - Len(s) \in DOMAIN u /\ w[l] = u[l - Len(s)]
            BY <1>3, <2>3, <2>5
        <3>a. \A x, y \in DOMAIN u : u[x].at = u[y].at => x = y
            BY DEF Lists
        <3>1. k - Len(s) = l - Len(s)
            BY <1>6, <3>0, <3>a
        <3>2. QED
            BY <1>5, <3>1
    <2>6. QED
        BY <2>4, <2>5
<1>7. ASSUME NEW c \in C \cup D
      PROVE  \E k \in DOMAIN w : w[k].at = c
    <2>1. CASE c \in C
        <3>1. PICK k \in DOMAIN s : s[k].at = c
            BY <2>1 DEF Lists
        <3>2. QED
            BY <1>3, <3>1
    <2>2. CASE c \in D
        <3>1. PICK k \in DOMAIN u : u[k].at = c
            BY <2>2 DEF Lists
        <3>2. QED
            BY <1>3, <3>1
    <2>3. QED
        BY <2>1, <2>2
<1>8. QED
    BY <1>3, <1>6, <1>7 DEF Lists, w, T

\* The step of every walk: the first node gives way to the children that the
\* walk enters. It is then walked, if it counts, and nothing else.
LEMMA Advance ==
    ASSUME Grammatical(tree), NEW f \in 1..Len(tree), NEW s, Frontier(f, s), s # <<>>,
           NEW new, Lists(new, Entered(s[1].at))
    PROVE  /\ s[1] = TaskOf(s[1].at) /\ s[1].at \in Below(tree, f) /\ Undropped(f, s[1].at)
           /\ Frontier(f, new \o Tail(s))
           /\ s[1].at \notin Walked(f, s)
           /\ Walked(f, new \o Tail(s)) =
                  Walked(f, s) \cup (IF Leaves(s[1].at) THEN {} ELSE {s[1].at})
<1> DEFINE i == s[1].at
           r == Tail(s)
           w == new \o r
           Nodes == {j \in Below(tree, f) : Undropped(f, j)}
<1>1. Pending(f) = {TaskOf(j) : j \in Nodes}
    BY DEF Pending
<1>2. /\ s \in Seq({TaskOf(j) : j \in Nodes}) /\ Len(s) \in Nat /\ DOMAIN s = 1..Len(s)
      /\ \A k \in DOMAIN s : s[k].at \in Nodes /\ s[k] = TaskOf(s[k].at)
    BY <1>1, ListedNodes DEF Frontier
<1>3. 1 \in DOMAIN s
    BY <1>2, EmptySeq
<1>4. i \in Nodes /\ s[1] = TaskOf(i)
    BY <1>2, <1>3
<1> HIDE DEF i
<1>5. i \in Below(tree, f) /\ Undropped(f, i) /\ i \in 1..Len(tree)
    BY <1>4, BelowFacts
<1>6. \A c \in Entered(i) : c \in Nodes /\ c \in Children(tree, i)
    BY <1>5, EnteredFacts DEF Entered
<1>7. /\ new \in Seq({TaskOf(j) : j \in Entered(i)}) /\ \A k \in DOMAIN new : new[k].at \in Entered(i)
      /\ \A k, l \in DOMAIN new : k # l => new[k].at # new[l].at
    BY ListedNodes DEF Lists, i
<1> HIDE DEF Nodes
<1>8. new \in Seq(Pending(f))
    <2>1. {TaskOf(j) : j \in Entered(i)} \subseteq Pending(f)
        BY <1>1, <1>6
    <2>2. QED
        BY <1>7, <2>1, SeqMonotonic
<1>9. /\ r \in Seq(Pending(f))
      /\ \A k \in DOMAIN r : k + 1 \in DOMAIN s /\ k + 1 # 1 /\ r[k] = s[k + 1]
      /\ \A k \in DOMAIN s : k # 1 => k - 1 \in DOMAIN r /\ r[k - 1] = s[k]
    <2>1. s \in Seq(Pending(f))
        BY <1>1, <1>2
    <2>2. r \in Seq(Pending(f)) /\ Len(r) = Len(s) - 1 /\ \A k \in 1..Len(r) : r[k] = s[k + 1]
        BY <2>1, HeadTailProperties
    <2>3. DOMAIN r = 1..Len(r)
        BY <2>2, LenProperties
    <2> HIDE DEF r
    <2>4. \A k \in 1..Len(r) : k + 1 \in 1..Len(s) /\ k + 1 # 1
        BY <1>2, <2>2
    <2>5. \A k \in 1..Len(s) : k # 1 => k - 1 \in 1..Len(r) /\ (k - 1) + 1 = k
        BY <1>2, <2>2
    <2>6. QED
        BY <1>2, <2>2, <2>3, <2>4, <2>5
<1> HIDE DEF r
<1>10. /\ w \in Seq(Pending(f))
       /\ \A k \in DOMAIN w :
            \/ k \in DOMAIN new /\ w[k] = new[k]
            \/ k \notin DOMAIN new /\ k - Len(new) \in DOMAIN r /\ w[k] = r[k - Len(new)]
       /\ \A k \in DOMAIN new : k \in DOMAIN w /\ w[k] = new[k]
       /\ \A k \in DOMAIN r : k + Len(new) \in DOMAIN w /\ w[k + Len(new)] = r[k]
    BY <1>8, <1>9, Joined
<1>11. Len(new) \in Nat /\ DOMAIN w \subseteq Nat
    BY <1>8, <1>10, LenProperties
<1> HIDE DEF w
\* the nodes of the rest lie neither below i nor around it
<1>12. ASSUME NEW k \in DOMAIN r
       PROVE  /\ r[k].at \in 1..Len(tree) /\ r[k].at \notin Below(tree, i) /\ i \notin Below(tree, r[k].at)
    <2>1. k + 1 \in DOMAIN s /\ k + 1 # 1 /\ r[k] = s[k + 1]
        BY <1>9
    <2>2. s[k + 1].at \in Below(tree, f)
        BY <1>2, <2>1 DEF Nodes
    <2>3. s[k + 1].at \notin Below(tree, s[1].at) /\ s[1].at \notin Below(tree, s[k + 1].at)
        BY <1>3, <2>1 DEF Frontier, Apart
    <2>4. QED
        BY <2>1, <2>2, <2>3, BelowFacts DEF i
<1>13. ASSUME NEW k \in DOMAIN r, NEW x \in Below(tree, i), x \in Below(tree, r[k].at)
       PROVE  FALSE
    BY <1>5, <1>12, <1>13, BelowFacts
<1>14. \A c \in Entered(i) : /\ c \in 1..Len(tree) /\ c \in Below(tree, i) /\ c \in Below(tree, c)
                             /\ Below(tree, c) \subseteq Below(tree, i)
    BY <1>5, <1>6, BelowChildren, BelowFacts
<1>15. ASSUME NEW k \in DOMAIN r, NEW c \in Entered(i)
       PROVE  r[k].at \notin Below(tree, c) /\ c \notin Below(tree, r[k].at)
    BY <1>12, <1>13, <1>14
<1>16. Apart(w)
    <2> SUFFICES ASSUME NEW k \in DOMAIN w, NEW l \in DOMAIN w, k # l
                 PROVE  w[k].at \notin Below(tree, w[l].at)
        BY DEF Apart
    <2>1. CASE k \in DOMAIN new /\ l \in DOMAIN new
        <3>1. w[k] = new[k] /\ w[l] = new[l]
            BY <1>10, <2>1
        <3>2. new[k].at \in Entered(i) /\ new[l].at \in Entered(i) /\ new[k].at # new[l].at
            BY <1>7, <2>1
        <3>3. QED
            BY <1>5, <1>6, <3>1, <3>2, SiblingsApart
    <2>2. CASE k \in DOMAIN new /\ l \notin DOMAIN new
        <3>1. w[k].at \in Entered(i) /\ l - Len(new) \in DOMAIN r /\ w[l] = r[l - Len(new)]
            BY <1>7, <1>10, <2>2
        <3>2. QED
            BY <1>15, <3>1
    <2>3. CASE k \notin DOMAIN new /\ l \in DOMAIN new
        <3>1. w[l].at \in Entered(i) /\ k - Len(new) \in DOMAIN r /\ w[k] = r[k - Len(new)]
            BY <1>7, <1>10, <2>3
        <3>2. QED
            BY <1>15, <3>1
    <2>4. CASE k \notin DOMAIN new /\ l \notin DOMAIN new
        <3> DEFINE kr == k - Len(new)
                   lr == l - Len(new)
        <3>1. /\ kr \in DOMAIN r /\ w[k] = r[kr]
              /\ lr \in DOMAIN r /\ w[l] = r[lr]
            BY <1>10, <2>4
        <3>2. kr # lr
            BY <1>11
        <3>3. kr + 1 \in DOMAIN s /\ r[kr] = s[kr + 1] /\ lr + 1 \in DOMAIN s /\ r[lr] = s[lr + 1]
            BY <1>9, <3>1
        <3>4. kr + 1 # lr + 1
            BY <1>11, <3>2
        <3> HIDE DEF kr, lr
        <3>5. QED
            BY <3>1, <3>3, <3>4 DEF Frontier, Apart
    <2>5. QED
        BY <2>1, <2>2, <2>3, <2>4
<1>17. Todo(s) = Below(tree, i) \cup Todo(r)
    <2>1. ASSUME NEW x
          PROVE  x \in Todo(s) <=> x \in Below(tree, i) \/ x \in Todo(r)
        <3>1. x \in Todo(s) <=> \E k \in DOMAIN s : x \in Below(tree, s[k].at)
            BY DEF Todo
        <3>2. x \in Todo(r) <=> \E k \in DOMAIN r : x \in Below(tree, r[k].at)
            BY DEF Todo
        <3>3. QED
            BY <1>3, <1>9, <3>1, <3>2 DEF i
    <2>2. QED
        BY <2>1
<1>18. ASSUME NEW x
       PROVE  x \in Todo(w) <=> x \in Todo(r) \/ \E c \in Entered(i) : x \in Below(tree, c)
    <2>1. x \in Todo(w) <=> \E k \in DOMAIN w : x \in Below(tree, w[k].at)
        BY DEF Todo
    <2>2. x \in Todo(r) <=> \E k \in DOMAIN r : x \in Below(tree, r[k].at)
        BY DEF Todo
    <2>3. ASSUME NEW c \in Entered(i)
          PROVE  \E k \in DOMAIN w : w[k].at = c
        <3>1. PICK k \in DOMAIN new : new[k].at = c
            BY DEF Lists, i
        <3>2. QED
            BY <1>10, <3>1
    <2>4. \A k \in DOMAIN w : w[k].at \in Entered(i) \/ \E l \in DOMAIN r : w[k] = r[l]
        BY <1>7, <1>10
    <2>5. \A l \in DOMAIN r : \E k \in DOMAIN w : w[k] = r[l]
        BY <1>10
    <2>6. QED
        BY <2>1, <2>2, <2>3, <2>4, <2>5
<1>19. ASSUME NEW x \in Charged(f)
       PROVE  /\ x \in Below(tree, i) => x \notin Todo(r)
              /\ x \in Below(tree, i) /\ (\A c \in Entered(i) : x \notin Below(tree, c)) => x = i
    <2>1. x \in Below(tree, i) => x \notin Todo(r)
        BY <1>13 DEF Todo
    <2>2. ASSUME x \in Below(tree, i), \A c \in Entered(i) : x \notin Below(tree, c), x # i
          PROVE  FALSE
        <3>1. PICK c \in Children(tree, i) : x \in Below(tree, c)
            BY <1>5, <2>2, BelowChildren
        <3>2. c \in Children(tree, i) \ Entered(i)
            BY <2>2, <3>1
        <3>3. Below(tree, c) \cap Charged(f) = {}
            BY <1>5, <3>2, EnteredFacts
        <3>4. QED
            BY <3>1, <3>3
    <2>3. QED
        BY <2>1, <2>2
<1>20. i \in Below(tree, i) /\ \A c \in Entered(i) : i \notin Below(tree, c)
    BY <1>5, <1>6, BelowChildren, BelowFacts
<1>21. i \in Charged(f) <=> ~Leaves(i)
    BY <1>5, ChargedFacts
<1>22. Walked(f, w) = Walked(f, s) \cup (IF Leaves(i) THEN {} ELSE {i})
    <2>1. ASSUME NEW x
          PROVE  x \in Walked(f, w) <=> x \in Walked(f, s) \/ (x = i /\ ~Leaves(i))
        <3>1. i \notin Todo(r)
            BY <1>12 DEF Todo
        <3>2. i \notin Todo(w)
            BY <1>18, <1>20, <3>1
        <3>3. ASSUME x \in Charged(f), x # i
              PROVE  x \in Todo(w) <=> x \in Todo(s)
            <4>1. x \in Todo(s) <=> x \in Below(tree, i) \/ x \in Todo(r)
                BY <1>17
            <4>2. (\E c \in Entered(i) : x \in Below(tree, c)) <=> x \in Below(tree, i)
                BY <1>14, <1>19, <3>3
            <4>3. QED
                BY <1>18, <4>1, <4>2
        <3>4. i \in Todo(s)
            BY <1>17, <1>20
        <3>5. QED
            BY <1>21, <3>2, <3>3, <3>4 DEF Walked
    <2>2. QED
        BY <2>1
<1>23. i \notin Walked(f, s)
    BY <1>17, <1>20 DEF Walked
<1>24. QED
    BY <1>4, <1>5, <1>10, <1>16, <1>22, <1>23 DEF Frontier, i, w, r

\* The three numbers of a set of nodes of a function.
IsBranch(i) == \/ tree[i].kind \in Branching
               \/ tree[i].kind = "clause" /\ Part(tree, i, "cond") # <<>>
BranchesIn(D) == {i \in D : IsBranch(i)}
StatementsIn(D) == {i \in D : tree[i].kind \in Statements}
DecisionsIn(f, D) ==
    {x \in Charged(f) : tree[x].kind = "andor" /\ \E j \in D : tree[j].kind \in {"if", "for"} /\ x \in ConditionOf(j)}
CountsOf(f, D) == [branches |-> Cardinality(BranchesIn(D)),
                   statements |-> Cardinality(StatementsIn(D)),
                   cyclomatic |-> 1 + Cardinality(BranchesIn(D)) + Cardinality(DecisionsIn(f, D))]

\* What the README says of a function is that of all its charged nodes.
LEMMA ReferenceCounts == ASSUME NEW f PROVE Reference(f) = CountsOf(f, Charged(f))
    BY DEF Reference, CountsOf, BranchesIn, StatementsIn, DecisionsIn, IsBranch, Charged

\* The one condition of an if or of a loop with a condition.
LEMMA OneCondition ==
    ASSUME Grammatical(tree), NEW i \in 1..Len(tree), tree[i].kind \in {"if", "for"}, ~IsEndless(i)
    PROVE  \E c \in Children(tree, i) : /\ IsExpression(tree[c]) /\ c \in 1..Len(tree)
                                     /\ Part(tree, i, "cond")[1] = c /\ ConditionOf(i) = Below(tree, c)
<1> DEFINE conds == InPart(i, "cond")
           s == Part(tree, i, "cond")
<1>1. DOMAIN tree = 1..Len(tree) /\ Len(tree) \in Nat
    BY NodeFacts
<1>2. conds = {j \in DOMAIN tree : tree[j].up = i /\ tree[j].part = "cond"}
    BY DEF InPart, Children
<1>3. tree[i].kind = "if" => conds # {}
    BY <1>1, <1>2 DEF Grammatical
<1>4. \A j, k \in conds : j = k
    BY <1>1, <1>2 DEF Grammatical
<1>5. s = InOrder(conds) /\ conds \subseteq 1..Len(tree) /\ Range(s) = conds
    BY PartLists
<1>6. s \in Seq(conds)
    BY <1>1, <1>5, InOrderLists
<1>7. s # <<>> => conds # {}
    <2> HIDE DEF s, conds
    <2>1. s # <<>> => Head(s) \in conds
        BY <1>6, HeadTailProperties
    <2>2. QED
        BY <2>1
<1>8. s = <<>> => conds = {}
    BY <1>5 DEF Range
<1>9. PICK c \in conds : TRUE
    BY <1>3, <1>7 DEF IsEndless
<1>10. conds = {c} /\ s # <<>>
    BY <1>4, <1>8, <1>9
<1>11. s[1] = c
    <2> HIDE DEF s, conds
    <2>1. s[1] \in conds
        BY <1>6, <1>10, HeadTailProperties
    <2>2. QED
        BY <1>10, <2>1
<1>12. ConditionOf(i) = Below(tree, c)
    BY <1>5, <1>10 DEF ConditionOf
<1>13. c \in Children(tree, i) /\ tree[c].part = "cond" /\ c \in 1..Len(tree)
    BY <1>5, <1>9 DEF InPart
<1>14. IsExpression(tree[c])
    BY <1>13, NodeFacts
<1>15. QED
    BY <1>11, <1>12, <1>13, <1>14

\* In ordinary code the condition of an if or for has no statement below it.
LEMMA PlainCondition ==
    ASSUME Grammatical(tree), NEW f \in 1..Len(tree), IsOrdinary(f), NEW i \in Below(tree, f),
           tree[i].kind \in {"if", "for"}, NEW c \in Children(tree, i), IsExpression(tree[c]),
           NEW s \in Below(tree, c)
    PROVE  IsExpression(tree[s])
<1> SUFFICES ASSUME ~IsExpression(tree[s]) PROVE FALSE
    OBVIOUS
<1>1. i \in 1..Len(tree) /\ Below(tree, i) \subseteq Below(tree, f)
    BY BelowFacts
<1>2. c \in 1..Len(tree) /\ tree[c].up = i /\ Below(tree, c) \subseteq Below(tree, i)
    BY <1>1, BelowChildren
<1>3. PICK l \in Below(tree, c) : tree[l].kind = "lit"
    BY <1>2, LitBetween
<1>4. l \in Below(tree, f) /\ c \in Around(tree)[l]
    BY <1>1, <1>2, <1>3 DEF Below
<1>5. tree[c].part = "cond"
    BY <1>2, NodeFacts
<1>6. QED
    BY <1>2, <1>3, <1>4, <1>5 DEF IsOrdinary

\* The conditions of two statements have nothing in common.
LEMMA ConditionsApart ==
    ASSUME Grammatical(tree), NEW f \in 1..Len(tree), IsOrdinary(f),
           NEW i \in Below(tree, f), tree[i].kind \in {"if", "for"},
           NEW j \in Below(tree, f), tree[j].kind \in {"if", "for"}, i # j
    PROVE  ConditionOf(i) \cap ConditionOf(j) = {}
<1>1. \A k \in Below(tree, f) : k \in 1..Len(tree) /\ ~IsEndless(k)
    BY BelowFacts DEF IsOrdinary
<1>2. PICK c \in Children(tree, i) : IsExpression(tree[c]) /\ c \in 1..Len(tree) /\ ConditionOf(i) = Below(tree, c)
    BY <1>1, OneCondition
<1>3. PICK d \in Children(tree, j) : IsExpression(tree[d]) /\ d \in 1..Len(tree) /\ ConditionOf(j) = Below(tree, d)
    BY <1>1, OneCondition
<1>4. ~IsExpression(tree[i]) /\ ~IsExpression(tree[j])
    BY DEF IsExpression, Statements, Branching
<1>5. i \notin Below(tree, d) /\ j \notin Below(tree, c)
    BY <1>2, <1>3, <1>4, PlainCondition
\* one below the other is the parent of the one or below the parent of the other
<1>6. ASSUME NEW u \in 1..Len(tree), NEW v \in 1..Len(tree), NEW x \in Children(tree, u), NEW y \in Children(tree, v),
             y \in Below(tree, x), v \notin Below(tree, x)
      PROVE  y = x
    <2>1. x \in 1..Len(tree) /\ tree[y].up = v
        BY <1>6, BelowChildren
    <2>2. y # x => tree[y].up \in Below(tree, x)
        BY <1>6, <2>1, BelowChildren
    <2>3. QED
        BY <1>6, <2>1, <2>2
<1>7. tree[c].up = i /\ tree[d].up = j
    BY <1>1, <1>2, <1>3, BelowChildren
<1>8. c # d
    BY <1>7
<1>9. d \notin Below(tree, c) /\ c \notin Below(tree, d)
    BY <1>1, <1>2, <1>3, <1>5, <1>6, <1>8
<1>10. QED
    BY <1>2, <1>3, <1>9, BelowFacts

\* Every boolean operator in the condition of a charged statement counts.
LEMMA ConditionCharged ==
    ASSUME Grammatical(tree), NEW f \in 1..Len(tree), IsOrdinary(f),
           NEW i \in Charged(f), tree[i].kind \in {"if", "for"},
           NEW x \in ConditionOf(i), tree[x].kind = "andor"
    PROVE  x \in Charged(f)
<1>1. i \in Below(tree, f) /\ Undropped(f, i) /\ ~Leaves(i)
    BY ChargedFacts
<1>2. i \in 1..Len(tree) /\ ~IsEndless(i) /\ Below(tree, i) \subseteq Below(tree, f)
    BY <1>1, BelowFacts DEF IsOrdinary
<1>3. PICK c \in Children(tree, i) : IsExpression(tree[c]) /\ c \in 1..Len(tree) /\ ConditionOf(i) = Below(tree, c)
    BY <1>2, OneCondition
<1>4. tree[c].up = i /\ Below(tree, c) \subseteq Below(tree, i)
    BY <1>2, <1>3, BelowChildren
<1>5. x \in Below(tree, i) /\ x \in Below(tree, f) /\ ~Leaves(x)
    BY <1>2, <1>3, <1>4 DEF Leaves
<1>6. ASSUME NEW d \in Below(tree, f), Leaves(d), x \in Below(tree, d), x # d
      PROVE  \E j \in Range(Part(tree, d, "init")) : x \in Below(tree, j)
    <2>1. d \in 1..Len(tree) /\ ~IsExpression(tree[d])
        BY <1>6, BelowFacts DEF Leaves, IsExpression, Statements, Branching
    <2>2. d \notin Below(tree, c)
        BY <1>1, <1>3, <2>1, PlainCondition
    <2>3. c \in Below(tree, d) /\ c # d
        BY <1>3, <1>6, <2>1, <2>2, BelowFacts
    <2>4. tree[c].up \in Below(tree, d)
        BY <2>1, <2>3, BelowChildren
    <2>5. i \in Below(tree, d) /\ i # d
        BY <1>1, <1>4, <1>6, <2>4
    <2>6. PICK j \in Range(Part(tree, d, "init")) : i \in Below(tree, j)
        BY <1>1, <1>6, <2>5 DEF Undropped
    <2>7. j \in 1..Len(tree)
        BY <2>6, PartLists
    <2>8. x \in Below(tree, j)
        BY <1>5, <2>6, <2>7, BelowFacts
    <2>9. QED
        BY <2>8
<1>7. QED
    BY <1>5, <1>6, ChargedFacts DEF Undropped

\* The numbers of one more charged node.
LEMMA CountsGrow ==
    ASSUME Grammatical(tree), NEW f \in 1..Len(tree), IsOrdinary(f),
           NEW D, D \subseteq Charged(f), NEW i \in Charged(f), i \notin D
    PROVE  /\ CountsOf(f, D).branches \in Nat /\ CountsOf(f, D).statements \in Nat /\ CountsOf(f, D).cyclomatic \in Nat
           /\ InCondition(i) \in Nat
           /\ CountsOf(f, D \cup {i}) =
                 [branches |-> CountsOf(f, D).branches + (IF IsBranch(i) THEN 1 ELSE 0),
                  statements |-> CountsOf(f, D).statements + (IF tree[i].kind \in Statements THEN 1 ELSE 0),
                  cyclomatic |-> CountsOf(f, D).cyclomatic + ((IF IsBranch(i) THEN 1 ELSE 0) + InCondition(i))]
<1> DEFINE n == Len(tree)
           B == BranchesIn(D)
           S == StatementsIn(D)
           E == DecisionsIn(f, D)
           C == {x \in Charged(f) : tree[x].kind = "andor" /\ tree[i].kind \in {"if", "for"} /\ x \in ConditionOf(i)}
<1>1. IsFiniteSet(1..n) /\ Charged(f) \subseteq 1..n /\ n \in Nat /\ Charged(f) \subseteq Below(tree, f)
    <2>1. n \in Nat
        BY NodeFacts
    <2>2. Below(tree, f) \subseteq 1..n
        BY BelowFacts
    <2>3. IsFiniteSet(1..n)
        BY <2>1, FS_Interval
    <2>4. QED
        BY <2>1, <2>2, <2>3 DEF Charged
<1>2. \A T \in SUBSET (1..n) : IsFiniteSet(T) /\ Cardinality(T) \in Nat
    BY <1>1, FS_Subset, FS_CardinalityType
<1>3. B \in SUBSET (1..n) /\ S \in SUBSET (1..n) /\ E \in SUBSET (1..n) /\ C \in SUBSET (1..n)
    BY <1>1 DEF BranchesIn, StatementsIn, DecisionsIn
<1>4. i \notin B /\ i \notin S
    BY DEF BranchesIn, StatementsIn
<1>5. \A T \in SUBSET (1..n) : i \notin T => Cardinality(T \cup {i}) = Cardinality(T) + 1
    BY <1>2, FS_AddElement
<1>6. Cardinality(BranchesIn(D \cup {i})) = Cardinality(B) + (IF IsBranch(i) THEN 1 ELSE 0)
    <2>1. BranchesIn(D \cup {i}) = IF IsBranch(i) THEN B \cup {i} ELSE B
        BY DEF BranchesIn
    <2> HIDE DEF B
    <2>2. QED
        BY <1>2, <1>3, <1>4, <1>5, <2>1
<1>7. Cardinality(StatementsIn(D \cup {i})) = Cardinality(S) + (IF tree[i].kind \in Statements THEN 1 ELSE 0)
    <2>1. StatementsIn(D \cup {i}) = IF tree[i].kind \in Statements THEN S \cup {i} ELSE S
        BY DEF StatementsIn
    <2> HIDE DEF S
    <2>2. QED
        BY <1>2, <1>3, <1>4, <1>5, <2>1
<1>8. DecisionsIn(f, D \cup {i}) = E \cup C
    BY DEF DecisionsIn
<1>9. E \cap C = {}
    <2> SUFFICES ASSUME NEW x \in E, x \in C PROVE FALSE
        OBVIOUS
    <2>1. tree[i].kind \in {"if", "for"} /\ x \in ConditionOf(i)
        OBVIOUS
    <2>2. PICK j \in D : tree[j].kind \in {"if", "for"} /\ x \in ConditionOf(j)
        BY DEF DecisionsIn
    <2>3. i \in Below(tree, f) /\ j \in Below(tree, f) /\ i # j
        BY <1>1
    <2>4. QED
        BY <2>1, <2>2, <2>3, ConditionsApart
<1>10. Cardinality(C) = InCondition(i)
    <2>1. CASE tree[i].kind \notin {"if", "for"}
        <3>1. C = {} /\ InCondition(i) = 0
            BY <2>1 DEF InCondition
        <3>2. QED
            BY <3>1, FS_EmptySet
    <2>2. CASE tree[i].kind \in {"if", "for"}
        <3>1. i \in 1..n /\ ~IsEndless(i)
            BY <1>1 DEF IsOrdinary
        <3>2. PICK c \in 1..n : Part(tree, i, "cond")[1] = c /\ ConditionOf(i) = Below(tree, c)
            BY <2>2, <3>1, OneCondition
        <3>3. InCondition(i) = Cardinality({j \in Below(tree, c) : tree[j].kind = "andor"})
            BY <2>2, <3>2 DEF InCondition, BooleanComplexity
        <3>4. \A x \in ConditionOf(i) : tree[x].kind = "andor" => x \in Charged(f)
            BY <2>2, ConditionCharged
        <3>5. C = {j \in Below(tree, c) : tree[j].kind = "andor"}
            BY <2>2, <3>2, <3>4
        <3>6. QED
            BY <3>3, <3>5
    <2>3. QED
        BY <2>1, <2>2
<1> HIDE DEF B, S, E, C, n
<1>11. /\ Cardinality(B) \in Nat /\ Cardinality(S) \in Nat /\ Cardinality(E) \in Nat /\ Cardinality(C) \in Nat
       /\ IsFiniteSet(E) /\ IsFiniteSet(C)
    BY <1>2, <1>3
<1>12. Cardinality(E \cup C) = Cardinality(E) + Cardinality(C)
    <2>1. Cardinality(E \cap C) = 0
        BY <1>9, FS_EmptySet
    <2>2. Cardinality(E \cup C) = Cardinality(E) + Cardinality(C) - Cardinality(E \cap C)
        BY <1>11, FS_Union
    <2>3. QED
        BY <1>11, <2>1, <2>2
<1> DEFINE b == Cardinality(B)
           s == Cardinality(S)
           e == Cardinality(E)
           k == InCondition(i)
           g == IF IsBranch(i) THEN 1 ELSE 0
           h == IF tree[i].kind \in Statements THEN 1 ELSE 0
<1>13. CountsOf(f, D) = [branches |-> b, statements |-> s, cyclomatic |-> 1 + b + e]
    BY DEF CountsOf, B, S, E
<1>14. CountsOf(f, D \cup {i}) = [branches |-> b + g, statements |-> s + h, cyclomatic |-> 1 + (b + g) + (e + k)]
    BY <1>6, <1>7, <1>8, <1>10, <1>12 DEF CountsOf
<1>15. b \in Nat /\ s \in Nat /\ e \in Nat /\ k \in Nat /\ g \in Nat
    BY <1>10, <1>11
<1> HIDE DEF b, s, e, k, g, h
<1>16. 1 + (b + g) + (e + k) = (1 + b + e) + (g + k)
    BY <1>15
<1>17. CountsOf(f, D \cup {i}) = [branches |-> CountsOf(f, D).branches + g, statements |-> CountsOf(f, D).statements + h,
                                  cyclomatic |-> CountsOf(f, D).cyclomatic + (g + k)]
    BY <1>13, <1>14, <1>16
<1>18. CountsOf(f, D).branches \in Nat /\ CountsOf(f, D).statements \in Nat /\ CountsOf(f, D).cyclomatic \in Nat
    BY <1>13, <1>15
<1>19. QED
    BY <1>15, <1>17, <1>18 DEF g, h, k

\* The tasks that the walk makes for one part of a node, and for all its children.
LEMMA PartTasks ==
    ASSUME Grammatical(tree), NEW i \in 1..Len(tree), NEW part, NEW results,
           results = IF tree[i].kind \in {"func", "lit"} THEN tree[i].data ELSE ResultsAt(i)
    PROVE  /\ part # "cond" => Lists(Stmts(i, part, results), InPart(i, part))
           /\ Lists(Lits(Part(tree, i, "cond"), results), InPart(i, "cond"))
           /\ (\A c \in Children(tree, i) : tree[c].part = "cond") => Lists(Lits(Kids(tree, i), results), Children(tree, i))
<1>1. \A c \in Children(tree, i) : c \in 1..Len(tree) /\ ResultsAt(c) = results
    BY BelowChildren, ResultsOfChild
<1>2. ASSUME NEW c \in Children(tree, i)
      PROVE  TaskOf(c) = [op |-> IF tree[c].part = "cond" THEN "lits" ELSE "stmt", at |-> c, results |-> results]
    BY <1>1, NodeFacts DEF TaskOf
<1>3. part # "cond" => Lists(Stmts(i, part, results), InPart(i, part))
    <2>1. part # "cond" => \A c \in InPart(i, part) : TaskOf(c) = [op |-> "stmt", at |-> c, results |-> results]
        BY <1>2 DEF InPart
    <2>2. part # "cond" => Lists(Tasks("stmt", InOrder(InPart(i, part)), results), InPart(i, part))
        BY <2>1, PartLists, ListsInOrder
    <2>3. QED
        BY <2>2, PartLists DEF Stmts
<1>4. Lists(Lits(Part(tree, i, "cond"), results), InPart(i, "cond"))
    <2>1. \A c \in InPart(i, "cond") : TaskOf(c) = [op |-> "lits", at |-> c, results |-> results]
        BY <1>2 DEF InPart
    <2>2. Lists(Tasks("lits", InOrder(InPart(i, "cond")), results), InPart(i, "cond"))
        BY <2>1, PartLists, ListsInOrder
    <2>3. QED
        BY <2>2, PartLists DEF Lits
<1>5. ASSUME \A c \in Children(tree, i) : tree[c].part = "cond"
      PROVE  Lists(Lits(Kids(tree, i), results), Children(tree, i))
    <2>1. \A c \in Children(tree, i) : TaskOf(c) = [op |-> "lits", at |-> c, results |-> results]
        BY <1>2, <1>5
    <2>2. Children(tree, i) \subseteq 1..Len(tree)
        BY <1>1
    <2>3. Lists(Tasks("lits", InOrder(Children(tree, i)), results), Children(tree, i))
        BY <2>1, <2>2, ListsInOrder
    <2>4. Kids(tree, i) = InOrder(Children(tree, i))
        BY DEF Kids, Children
    <2>5. QED
        BY <2>3, <2>4 DEF Lits
<1>6. QED
    BY <1>3, <1>4, <1>5

\* The walk of a function, stopped: the counts are those of what was walked.
Counted(f, s, c) == Frontier(f, s) /\ c = CountsOf(f, Walked(f, s))

\* The nodes and the numbers of one step.
LEMMA WalkStepNumbers ==
    ASSUME Grammatical(tree), NEW f \in 1..Len(tree), IsOrdinary(f), NEW s, NEW c, Counted(f, s, c), s # <<>>,
           NEW new, Lists(new, Entered(s[1].at)),
           NEW d, d = IF Leaves(s[1].at) THEN c
                      ELSE LET i == s[1].at
                               g == IF IsBranch(i) THEN 1 ELSE 0
                           IN  [branches |-> c.branches + g,
                                statements |-> c.statements + (IF tree[i].kind \in Statements THEN 1 ELSE 0),
                                cyclomatic |-> c.cyclomatic + (g + InCondition(i))]
    PROVE  Counted(f, new \o Tail(s), d)
<1> DEFINE i == s[1].at
<1>1. /\ i \in Below(tree, f) /\ Undropped(f, i)
      /\ Frontier(f, new \o Tail(s)) /\ i \notin Walked(f, s)
      /\ Walked(f, new \o Tail(s)) = Walked(f, s) \cup (IF Leaves(i) THEN {} ELSE {i})
    BY Advance DEF Counted
<1>2. Walked(f, s) \subseteq Charged(f)
    BY DEF Walked
<1>3. CASE Leaves(i)
    <2>1. Walked(f, new \o Tail(s)) = Walked(f, s)
        BY <1>1, <1>3
    <2>2. QED
        BY <1>1, <1>3, <2>1 DEF Counted
<1>4. CASE ~Leaves(i)
    <2>1. Walked(f, new \o Tail(s)) = Walked(f, s) \cup {i}
        BY <1>1, <1>4
    <2>2. i \in Charged(f)
        BY <1>1, <1>4, ChargedFacts
    <2> DEFINE D == Walked(f, s)
    <2>3. i \notin D /\ D \subseteq Charged(f) /\ c = CountsOf(f, D)
        BY <1>1, <1>2 DEF Counted
    <2> HIDE DEF D
    <2>4. CountsOf(f, D \cup {i}) =
             [branches |-> c.branches + (IF IsBranch(i) THEN 1 ELSE 0),
              statements |-> c.statements + (IF tree[i].kind \in Statements THEN 1 ELSE 0),
              cyclomatic |-> c.cyclomatic + ((IF IsBranch(i) THEN 1 ELSE 0) + InCondition(i))]
        BY <2>2, <2>3, CountsGrow
    <2>5. d = CountsOf(f, D \cup {i})
        BY <1>4, <2>4
    <2>6. QED
        BY <1>1, <2>1, <2>5 DEF Counted, D
<1>5. QED
    BY <1>3, <1>4

\* The counts of a walk are numbers.
LEMMA CountsType ==
    ASSUME Grammatical(tree), NEW f \in 1..Len(tree), NEW s, NEW c, Counted(f, s, c)
    PROVE  /\ c.branches \in Nat /\ c.statements \in Nat /\ c.cyclomatic \in Nat
           /\ c = [branches |-> c.branches, statements |-> c.statements, cyclomatic |-> c.cyclomatic]
<1> DEFINE D == Walked(f, s)
<1>1. Len(tree) \in Nat /\ Below(tree, f) \subseteq 1..Len(tree)
    BY NodeFacts, BelowFacts
<1>2. BranchesIn(D) \in SUBSET (1..Len(tree)) /\ StatementsIn(D) \in SUBSET (1..Len(tree))
      /\ DecisionsIn(f, D) \in SUBSET (1..Len(tree))
    BY <1>1 DEF BranchesIn, StatementsIn, DecisionsIn, Walked, Charged
<1>3. IsFiniteSet(1..Len(tree))
    BY <1>1, FS_Interval
<1>4. Cardinality(BranchesIn(D)) \in Nat /\ Cardinality(StatementsIn(D)) \in Nat /\ Cardinality(DecisionsIn(f, D)) \in Nat
    BY <1>2, <1>3, FS_Subset, FS_CardinalityType
<1>5. c = [branches |-> Cardinality(BranchesIn(D)), statements |-> Cardinality(StatementsIn(D)),
           cyclomatic |-> 1 + Cardinality(BranchesIn(D)) + Cardinality(DecisionsIn(f, D))]
    BY DEF Counted, CountsOf
<1> HIDE DEF D
<1>6. QED
    BY <1>4, <1>5

\* Each step of the walk keeps its numbers those of the nodes walked.
LEMMA MeasureWalks ==
    ASSUME Grammatical(tree), fn \in 1..Len(tree), IsOrdinary(fn), Counted(fn, tasks, counts), Measure
    PROVE  fn' = fn /\ Counted(fn, tasks', counts')
<1> DEFINE t == Head(tasks)
           i == tasks[1].at
           kind == tree[i].kind
<1>1. tasks # <<>> /\ t = tasks[1]
    BY DEF Measure
<1>2. tasks[1] = TaskOf(i) /\ i \in Below(tree, fn)
    <2>1. tasks \in Seq(Pending(fn)) /\ tasks[1] \in Pending(fn)
        BY <1>1, HeadTailProperties DEF Counted, Frontier
    <2>2. QED
        BY <2>1 DEF Pending, TaskOf
<1>3. /\ i \in 1..Len(tree) /\ kind # "label" /\ ~IsEndless(i)
    BY <1>2, BelowFacts DEF IsOrdinary
<1>4. /\ t.at = i /\ t.results = ResultsAt(i)
      /\ t.op = "lits" <=> IsExpression(tree[i])
    BY <1>1, <1>2 DEF TaskOf
<1>5. Discounted(t.at, t.results) <=> Leaves(i)
    BY <1>4 DEF Leaves, Discounted, IsSimpleErrorReturn
<1>6. \A x \in Children(tree, i) : tree[x].part \in PartsIn(kind)
    <2>1. \A x \in Children(tree, i) : x \in 1..Len(tree) /\ tree[x].up = i /\ i # 0
        BY <1>3, BelowChildren, NodeFacts
    <2>2. QED
        BY <2>1, NodeFacts
<1>7. ~Leaves(i) => Entered(i) = Children(tree, i)
    BY DEF Entered
<1>8. \A part : kind \notin {"func", "lit"} /\ part # "cond" =>
                    Lists(Stmts(i, part, t.results), InPart(i, part))
    BY <1>3, <1>4, PartTasks
<1>9. kind \notin {"func", "lit"} => Lists(Lits(Part(tree, i, "cond"), t.results), InPart(i, "cond"))
    BY <1>3, <1>4, PartTasks
<1>10. /\ counts.branches \in Nat /\ counts.statements \in Nat /\ counts.cyclomatic \in Nat
       /\ counts = [branches |-> counts.branches, statements |-> counts.statements, cyclomatic |-> counts.cyclomatic]
    BY CountsType
\* a node that is not counted
<1>11. ASSUME NEW new, Continue(new), UNCHANGED counts, Lists(new, Entered(i)),
              Leaves(i) \/ (~IsBranch(i) /\ kind \notin Statements)
       PROVE  fn' = fn /\ Counted(fn, tasks', counts')
    <2>1. CASE Leaves(i)
        BY <1>1, <1>11, <2>1, WalkStepNumbers DEF Continue
    <2>2. CASE ~Leaves(i)
        <3>1. InCondition(i) = 0
            BY <1>11, <2>2 DEF InCondition, Statements, Branching
        <3>2. counts = [branches |-> counts.branches + 0, statements |-> counts.statements + 0,
                        cyclomatic |-> counts.cyclomatic + (0 + InCondition(i))]
            BY <1>10, <3>1
        <3>3. counts' = IF Leaves(i) THEN counts
                        ELSE LET g == IF IsBranch(i) THEN 1 ELSE 0
                             IN  [branches |-> counts.branches + g,
                                  statements |-> counts.statements + (IF kind \in Statements THEN 1 ELSE 0),
                                  cyclomatic |-> counts.cyclomatic + (g + InCondition(i))]
            BY <1>11, <2>2, <3>2
        <3>4. QED
            BY <1>1, <1>11, <3>3, WalkStepNumbers DEF Continue
    <2>3. QED
        BY <2>1, <2>2
\* a node that is
<1>12. ASSUME NEW new, Continue(new), Lists(new, Entered(i)), ~Leaves(i),
              NEW g, g = IF IsBranch(i) THEN 1 ELSE 0,
              NEW h, h = IF kind \in Statements THEN 1 ELSE 0,
              Charge(g, h, g + InCondition(i))
       PROVE  fn' = fn /\ Counted(fn, tasks', counts')
    <2>1. counts' = IF Leaves(i) THEN counts
                    ELSE LET q == IF IsBranch(i) THEN 1 ELSE 0
                         IN  [branches |-> counts.branches + q,
                              statements |-> counts.statements + (IF kind \in Statements THEN 1 ELSE 0),
                              cyclomatic |-> counts.cyclomatic + (q + InCondition(i))]
        BY <1>12 DEF Charge
    <2>2. QED
        BY <1>1, <1>12, <2>1, WalkStepNumbers DEF Continue
<1> HIDE DEF t, i, kind
<1>13. CASE Discount(t)
    <2>1. Leaves(i) /\ UNCHANGED counts /\ Continue(Stmts(i, "init", t.results))
        BY <1>4, <1>5, <1>13 DEF Discount
    <2>2. Entered(i) = InPart(i, "init") /\ kind \notin {"func", "lit"}
        BY <2>1 DEF Entered, InPart, Leaves, kind
    <2>3. Lists(Stmts(i, "init", t.results), Entered(i))
        BY <1>8, <2>2
    <2>4. QED
        BY <1>11, <2>1, <2>3
<1>14. CASE EnterBlock(t)
    <2>1. kind = "block" /\ UNCHANGED counts /\ Continue(Stmts(i, "body", t.results))
        BY <1>4, <1>14 DEF EnterBlock, kind
    <2>2. ~Leaves(i) /\ ~IsBranch(i) /\ kind \notin Statements
        BY <2>1 DEF Leaves, IsBranch, Statements, Branching, kind
    <2>3. Entered(i) = InPart(i, "body")
        BY <1>6, <1>7, <2>1, <2>2 DEF PartsIn, InPart, Branching
    <2>4. QED
        BY <1>8, <1>11, <2>1, <2>2, <2>3
<1>15. CASE EndlessLoop(t)
    BY <1>3, <1>4, <1>15 DEF EndlessLoop
<1>16. CASE Branch(t)
    <2>1. /\ kind \in Branching /\ ~Leaves(i) /\ Charge(1, 1, 1 + InCondition(i))
          /\ Continue(Lits(Part(tree, i, "cond"), t.results) \o Stmts(i, "init", t.results)
                      \o Stmts(i, "body", t.results) \o Stmts(i, "else", t.results))
        BY <1>4, <1>5, <1>16 DEF Branch, kind
    <2>2. IsBranch(i) /\ kind \in Statements /\ kind \notin {"func", "lit"}
        BY <2>1 DEF IsBranch, Statements, Branching, kind
    <2> DEFINE A == InPart(i, "cond")
               B == InPart(i, "init")
               C == InPart(i, "body")
               D == InPart(i, "else")
    <2>3. PartsIn(kind) = {"init", "cond", "body", "else"}
        BY <2>1 DEF PartsIn, Parts, Branching
    <2>4. ((A \cup B) \cup C) \cup D = Children(tree, i)
        BY <1>6, <2>3 DEF InPart
    <2>5. A \cap B = {} /\ (A \cup B) \cap C = {} /\ ((A \cup B) \cup C) \cap D = {}
        BY DEF InPart
    <2>6. /\ Lists(Lits(Part(tree, i, "cond"), t.results), A) /\ Lists(Stmts(i, "init", t.results), B)
          /\ Lists(Stmts(i, "body", t.results), C) /\ Lists(Stmts(i, "else", t.results), D)
        BY <1>8, <1>9, <2>2
    <2> HIDE DEF A, B, C, D
    <2>7. Lists(Lits(Part(tree, i, "cond"), t.results) \o Stmts(i, "init", t.results), A \cup B)
        BY <2>5, <2>6, ListsJoin
    <2>8. Lists(Lits(Part(tree, i, "cond"), t.results) \o Stmts(i, "init", t.results)
                \o Stmts(i, "body", t.results), (A \cup B) \cup C)
        BY <2>5, <2>6, <2>7, ListsJoin
    <2>9. Lists(Lits(Part(tree, i, "cond"), t.results) \o Stmts(i, "init", t.results)
                \o Stmts(i, "body", t.results) \o Stmts(i, "else", t.results), Entered(i))
        BY <1>7, <2>1, <2>4, <2>5, <2>6, <2>8, ListsJoin
    <2>10. QED
        BY <1>12, <2>1, <2>2, <2>9
<1>17. CASE Clause(t)
    <2>1. /\ kind = "clause"
          /\ IF Part(tree, i, "cond") = <<>> THEN UNCHANGED counts ELSE Charge(1, 0, 1)
          /\ Continue(Lits(Part(tree, i, "cond"), t.results) \o Stmts(i, "body", t.results))
        BY <1>4, <1>17 DEF Clause, kind
    <2>2. ~Leaves(i) /\ kind \notin Statements /\ kind \notin {"func", "lit"}
          /\ (IsBranch(i) <=> Part(tree, i, "cond") # <<>>)
        BY <2>1 DEF Leaves, IsBranch, Statements, Branching, kind
    <2>3. InPart(i, "cond") \cup InPart(i, "body") = Entered(i)
        BY <1>6, <1>7, <2>1, <2>2 DEF PartsIn, InPart, Branching
    <2>4. InPart(i, "cond") \cap InPart(i, "body") = {}
        BY DEF InPart
    <2>5. Lists(Lits(Part(tree, i, "cond"), t.results) \o Stmts(i, "body", t.results), Entered(i))
        BY <1>8, <1>9, <2>2, <2>3, <2>4, ListsJoin
    <2>6. CASE Part(tree, i, "cond") = <<>>
        BY <1>11, <2>1, <2>2, <2>5, <2>6
    <2>7. CASE Part(tree, i, "cond") # <<>>
        <3>1. InCondition(i) = 0
            BY <2>1 DEF InCondition, kind
        <3>2. Charge(1, 0, 1 + InCondition(i))
            BY <2>1, <2>7, <3>1
        <3>3. QED
            BY <1>12, <2>1, <2>2, <2>5, <2>7, <3>2
    <2>8. QED
        BY <2>6, <2>7
<1>18. CASE Plain(t)
    <2>1. kind \in Statements \ Branching /\ Charge(0, 1, 0) /\ Continue(Lits(Kids(tree, i), t.results))
        BY <1>4, <1>18 DEF Plain, kind
    <2>2. kind \in {"plain", "return"}
        BY <1>3, <2>1 DEF Statements, kind
    <2>3. ~Leaves(i) /\ ~IsBranch(i) /\ kind \in Statements /\ kind \notin {"func", "lit"}
        BY <2>2 DEF Leaves, IsBranch, Statements, Branching, kind
    <2>4. \A x \in Children(tree, i) : tree[x].part = "cond"
        BY <1>6, <2>2 DEF PartsIn, Branching
    <2>5. Lists(Lits(Kids(tree, i), t.results), Entered(i))
        BY <1>3, <1>4, <1>7, <2>3, <2>4, PartTasks DEF kind
    <2>6. InCondition(i) = 0
        BY <2>2 DEF InCondition, kind
    <2>7. Charge(0, 1, 0 + InCondition(i))
        BY <2>1, <2>6
    <2>8. QED
        BY <1>12, <2>1, <2>3, <2>5, <2>7
<1>19. CASE t.op = "lits" /\ FuncLits(t)
    <2>1. IsExpression(tree[i]) /\ UNCHANGED counts
          /\ Continue(IF kind = "lit" THEN Stmts(i, "body", tree[i].data) ELSE Lits(Kids(tree, i), t.results))
        BY <1>4, <1>19 DEF FuncLits, kind
    <2>2. ~Leaves(i) /\ ~IsBranch(i) /\ kind \notin Statements /\ kind # "func"
        BY <2>1 DEF Leaves, IsBranch, Statements, Branching, IsExpression, Decls, kind
    <2>3. CASE kind = "lit"
        <3>1. Entered(i) = InPart(i, "body")
            BY <1>6, <1>7, <2>2, <2>3 DEF PartsIn, InPart, Branching
        <3>2. Lists(Stmts(i, "body", tree[i].data), Entered(i))
            BY <1>3, <2>3, <3>1, PartTasks DEF kind
        <3>3. QED
            BY <1>11, <2>1, <2>2, <2>3, <3>2
    <2>4. CASE kind # "lit"
        <3>1. \A x \in Children(tree, i) : tree[x].part = "cond"
            BY <1>6, <2>1, <2>2, <2>4 DEF PartsIn, Branching, Statements, IsExpression, kind
        <3>2. Lists(Lits(Kids(tree, i), t.results), Entered(i))
            BY <1>3, <1>4, <1>7, <2>2, <2>4, <3>1, PartTasks DEF kind
        <3>3. QED
            BY <1>11, <2>1, <2>2, <2>4, <3>2
    <2>5. QED
        BY <2>3, <2>4
<1>20. QED
    BY <1>13, <1>14, <1>15, <1>16, <1>17, <1>18, <1>19 DEF Measure, t

\* A function starts with nothing walked but its own node, which counts nothing.
LEMMA StartCounts ==
    ASSUME Grammatical(tree), NEW f \in FuncDecls(tree), StartFunction(f)
    PROVE  fn' = f /\ Counted(f, tasks', counts') /\ f \in 1..Len(tree)
<1> DEFINE s == <<TaskOf(f)>>
           new == Stmts(f, "body", tree[f].data)
<1>1. f \in 1..Len(tree) /\ Len(tree) \in Nat /\ tree[f].kind = "func"
    BY NodeFacts DEF FuncDecls
<1>2. f \in Below(tree, f) /\ Below(tree, f) \subseteq 1..Len(tree)
    BY <1>1, BelowFacts
<1>3. Undropped(f, f)
    <2>1. ASSUME NEW d \in Below(tree, f), f \in Below(tree, d)
          PROVE  d = f
        <3>1. d \in 1..Len(tree) /\ f <= d /\ d <= f
            BY <1>1, <1>2, <2>1, BelowFacts
        <3>2. QED
            BY <1>1, <3>1
    <2>2. QED
        BY <2>1 DEF Undropped
<1>4. ~Leaves(f) /\ ~IsBranch(f) /\ tree[f].kind \notin Statements
    BY <1>1 DEF Leaves, IsBranch, Statements, Branching
<1>5. Frontier(f, s) /\ s # <<>> /\ s[1].at = f
    <2>1. TaskOf(f) \in Pending(f) /\ TaskOf(f).at = f
        BY <1>2, <1>3 DEF Pending, TaskOf
    <2>2. s \in Seq(Pending(f)) /\ s # <<>> /\ s[1] = TaskOf(f) /\ DOMAIN s = 1..1
        BY <2>1
    <2> HIDE DEF s
    <2>3. \A k, l \in DOMAIN s : k = l
        BY <2>2
    <2>4. QED
        BY <2>1, <2>2, <2>3 DEF Frontier, Apart
<1>6. Lists(new, Entered(f))
    <2>1. \A c \in Children(tree, f) : tree[c].part = "body"
        <3>1. \A c \in Children(tree, f) : c \in 1..Len(tree) /\ tree[c].up = f /\ f # 0
            BY <1>1, BelowChildren
        <3>2. \A c \in Children(tree, f) : tree[c].part \in PartsIn("func")
            BY <1>1, <3>1, NodeFacts
        <3>3. QED
            BY <3>2 DEF PartsIn, Branching
    <2>2. Entered(f) = InPart(f, "body")
        BY <1>4, <2>1 DEF Entered, InPart
    <2>3. QED
        BY <1>1, <2>2, PartTasks
<1>7. new \o Tail(s) = new
    <2>1. Tail(s) = <<>>
        OBVIOUS
    <2>2. new \in Seq({TaskOf(c) : c \in Entered(f)})
        BY <1>6 DEF Lists
    <2> HIDE DEF new, s
    <2>3. QED
        BY <2>1, <2>2, ConcatEmptySeq
<1>8. Frontier(f, new) /\ Walked(f, new) = Walked(f, s) \cup {f}
    <2> HIDE DEF new, s
    <2>1. Frontier(f, new \o Tail(s)) /\ Walked(f, new \o Tail(s)) = Walked(f, s) \cup {f}
        BY <1>1, <1>4, <1>5, <1>6, Advance
    <2>2. QED
        BY <1>7, <2>1
<1>9. Walked(f, s) = {}
    <2>1. 1 \in DOMAIN s /\ s[1].at = f
        BY <1>5
    <2> HIDE DEF s
    <2>2. Below(tree, f) \subseteq Todo(s)
        BY <2>1 DEF Todo
    <2>3. QED
        BY <2>2 DEF Walked, Charged
<1>10. CountsOf(f, {f}) = NoCounts
    <2>1. BranchesIn({f}) = {} /\ StatementsIn({f}) = {} /\ DecisionsIn(f, {f}) = {}
        BY <1>1, <1>4 DEF BranchesIn, StatementsIn, DecisionsIn
    <2>2. Cardinality({}) = 0
        BY FS_EmptySet
    <2>3. QED
        BY <2>1, <2>2 DEF CountsOf, NoCounts
<1>11. fn' = f /\ counts' = NoCounts /\ tasks' = new
    BY DEF StartFunction
<1> HIDE DEF new, s
<1>12. QED
    BY <1>1, <1>8, <1>9, <1>10, <1>11 DEF Counted

\* A walk that has ended has the counts of the whole function.
LEMMA EndCounts ==
    ASSUME NEW f, NEW c, Counted(f, <<>>, c)
    PROVE  c = Reference(f)
<1>1. Todo(<<>>) = {}
    BY DEF Todo
<1>2. Walked(f, <<>>) = Charged(f)
    BY <1>1 DEF Walked
<1>3. QED
    BY <1>2, ReferenceCounts DEF Counted

\* Nothing of this changes while the file does not.
LEMMA TreeFrame ==
    ASSUME UNCHANGED tree
    PROVE  /\ \A f : IsOrdinary(f)' <=> IsOrdinary(f)
           /\ \A f : Reference(f)' = Reference(f)
           /\ \A f, s, c : Counted(f, s, c)' <=> Counted(f, s, c)
<1>1. \A i : Below(tree, i)' = Below(tree, i)
    OBVIOUS
<1>2. \A i, p : Part(tree, i, p)' = Part(tree, i, p)
    OBVIOUS
<1>3. \A i : ResultsAt(i)' = ResultsAt(i) /\ Children(tree, i)' = Children(tree, i) /\ ConditionOf(i)' = ConditionOf(i)
             /\ (IsEndless(i)' <=> IsEndless(i))
    BY <1>1, <1>2 DEF ResultsAt, Children, ConditionOf, IsEndless
<1>4. \A i, r : Discounted(i, r)' <=> Discounted(i, r)
    BY DEF Discounted, IsSimpleErrorReturn
<1>5. \A i : Leaves(i)' <=> Leaves(i)
    BY <1>3, <1>4 DEF Leaves
<1>6. \A f : Dropped(f)' = Dropped(f)
    BY <1>1, <1>2, <1>3, <1>4 DEF Dropped
<1>7. \A f : Charged(f)' = Charged(f)
    BY <1>1, <1>6 DEF Charged
<1>8. \A f, i : Undropped(f, i)' <=> Undropped(f, i)
    BY <1>1, <1>2, <1>5 DEF Undropped
<1>9. \A i : TaskOf(i)' = TaskOf(i)
    BY <1>3 DEF TaskOf, IsExpression
<1>10. \A f : Pending(f)' = Pending(f)
    BY <1>1, <1>8, <1>9 DEF Pending
<1>11. \A f, s : Frontier(f, s)' <=> Frontier(f, s)
    BY <1>1, <1>10 DEF Frontier, Apart
<1>12. \A f, s : Walked(f, s)' = Walked(f, s)
    BY <1>1, <1>7 DEF Walked, Todo
<1>13. \A D : BranchesIn(D)' = BranchesIn(D) /\ StatementsIn(D)' = StatementsIn(D)
    BY <1>2 DEF BranchesIn, StatementsIn, IsBranch
<1>14. \A f, D : DecisionsIn(f, D)' = DecisionsIn(f, D)
    BY <1>3, <1>7 DEF DecisionsIn
<1>15. \A f, D : CountsOf(f, D)' = CountsOf(f, D)
    BY <1>13, <1>14 DEF CountsOf
<1>16. \A f, s, c : Counted(f, s, c)' <=> Counted(f, s, c)
    BY <1>11, <1>12, <1>15 DEF Counted
<1>17. \A f : IsOrdinary(f)' <=> IsOrdinary(f)
    BY <1>1, <1>3 DEF IsOrdinary
<1>18. \A f : Reference(f)' = Reference(f)
    BY <1>1, <1>2, <1>3, <1>6 DEF Reference
<1>19. QED
    BY <1>16, <1>17, <1>18

\* The tree is that of the package the rule looks at, the function one of its
\* declarations, and what is counted is what was walked.
MeasureInv ==
    /\ tree # NoTree => phase = "budget" /\ at <= Len(result) /\ tree = Code(result[at]).file.tree
    /\ fn # 0 => tree # NoTree /\ fn \in Later(result[at], 0)
    /\ fn # 0 /\ IsOrdinary(fn) => Counted(fn, tasks, counts)

\* The file and the function that the walk is in.
LEMMA FileFacts ==
    ASSUME GuardInv, TreeInv, MeasureInv
    PROVE  /\ tree # NoTree => Grammatical(tree) /\ at \in DOMAIN result /\ FuncDecls(tree) \subseteq Nat \ {0}
           /\ fn # 0 => fn \in FuncDecls(tree) /\ fn \in 1..Len(tree)
<1>1. ASSUME tree # NoTree
      PROVE  Grammatical(tree) /\ at \in DOMAIN result /\ FuncDecls(tree) \subseteq Nat \ {0}
    <2>1. PICK q \in Packages : tree = Code(q).file.tree
        BY <1>1 DEF TreeInv
    <2>2. project \in Projects /\ q \in DOMAIN project.imports
        BY DEF GuardInv, LoadInv, Packages, PackageIds, Range
    <2>3. Grammatical(tree)
        BY <2>1, <2>2, FilesAssumption DEF Code
    <2>4. at \in DOMAIN result
        BY <1>1, LenProperties DEF MeasureInv, TreeInv, GuardInv, LoadInv
    <2>5. DOMAIN tree = 1..Len(tree) /\ Len(tree) \in Nat
        BY <2>3, NodeFacts
    <2>6. QED
        BY <2>3, <2>4, <2>5 DEF FuncDecls
<1>2. ASSUME fn # 0
      PROVE  fn \in FuncDecls(tree) /\ fn \in 1..Len(tree)
    <2>1. fn \in FuncDecls(tree) /\ Grammatical(tree)
        BY <1>1, <1>2 DEF MeasureInv, Later
    <2>2. QED
        BY <2>1, NodeFacts DEF FuncDecls
<1>3. QED
    BY <1>1, <1>2

\* The walk stays in its function.
LEMMA MeasureStays == Measure => fn' = fn
    BY DEF Measure, FuncLits, Discount, EnterBlock, EndlessLoop, Branch, Clause, Plain, Continue

\* The counts of a function stay those of its walk.
LEMMA CountedFrame ==
    ASSUME UNCHANGED tree,
           fn' # 0 /\ IsOrdinary(fn') => Counted(fn', tasks', counts')
    PROVE  (fn # 0 /\ IsOrdinary(fn) => Counted(fn, tasks, counts))'
<1> DEFINE P == \A f, s, c : f = fn /\ s = tasks /\ c = counts => (f # 0 /\ IsOrdinary(f) => Counted(f, s, c))
<1>1. P <=> (fn # 0 /\ IsOrdinary(fn) => Counted(fn, tasks, counts))
    OBVIOUS
<1>2. ASSUME NEW f, NEW s, NEW c, f = fn', s = tasks', c = counts', f # 0, IsOrdinary(f)'
      PROVE  Counted(f, s, c)'
    BY <1>2, TreeFrame
<1>3. P'
    BY <1>2
<1>4. QED
    BY <1>3

\* Each step keeps what the walk of a function has counted.
LEMMA MeasureKept == GuardInv /\ TreeInv /\ MeasureInv /\ [GuardNext]_guardVars => MeasureInv'
<1> SUFFICES ASSUME GuardInv, TreeInv, MeasureInv, [GuardNext]_guardVars PROVE MeasureInv'
    OBVIOUS
<1>1. ASSUME tree' = NoTree, fn' = 0
      PROVE  MeasureInv'
    BY <1>1 DEF MeasureInv, NoTree
<1>2. CASE Loading \/ Accept \/ BudgetDone \/ CheckCalls \/ NextField \/ WalkStep \/ NextSignatures \/ Conclude
    <2>1. UNCHANGED <<tree, fn>>
        BY <1>2 DEF Loading, Accept, BudgetDone, CheckCalls, NextField, WalkStep, NextSignatures, Conclude, budgetVars
    <2>2. phase # "budget" \/ at > Len(result)
        BY <1>2 DEF Loading, Accept, BudgetDone, CheckCalls, NextField, WalkStep, NextSignatures, Conclude, AtSignatures
    <2>3. at \in Nat /\ Len(result) \in Nat
        BY LenProperties DEF TreeInv, GuardInv, LoadInv
    <2>4. tree = NoTree /\ fn = 0
        BY <2>2, <2>3 DEF MeasureInv
    <2>5. QED
        BY <1>1, <2>1, <2>4
<1>3. CASE ClosePackage \/ BudgetPanics
    BY <1>1, <1>3 DEF ClosePackage, BudgetPanics
<1>4. ASSUME UNCHANGED <<project, loadVars, at>>
      PROVE  /\ result' = result /\ Code(result[at])' = Code(result[at])
             /\ \A f : Later(result[at], f)' = Later(result[at], f)
    BY <1>4 DEF loadVars, Code, Later
<1>5. CASE OpenPackage
    <2>1. /\ fn = 0 /\ fn' = 0 /\ phase' = "budget" /\ at <= Len(result) /\ UNCHANGED <<project, loadVars, at>>
          /\ tree' = Code(result[at]).file.tree
        BY <1>5 DEF OpenPackage, AtPackage, budgetVars
    <2>2. (tree # NoTree => phase = "budget" /\ at <= Len(result) /\ tree = Code(result[at]).file.tree)'
        BY <1>4, <2>1
    <2>3. QED
        BY <2>1, <2>2 DEF MeasureInv
<1>6. ASSUME UNCHANGED <<project, loadVars, at, tree, phase>>, fn' # 0 => fn' \in Later(result[at], 0) /\ tree # NoTree,
             fn' # 0 /\ IsOrdinary(fn') => Counted(fn', tasks', counts')
      PROVE  MeasureInv'
    <2>1. (tree # NoTree => phase = "budget" /\ at <= Len(result) /\ tree = Code(result[at]).file.tree)'
        BY <1>4, <1>6 DEF MeasureInv, NoTree
    <2>2. (fn # 0 => tree # NoTree /\ fn \in Later(result[at], 0))'
        BY <1>4, <1>6 DEF NoTree
    <2>3. (fn # 0 /\ IsOrdinary(fn) => Counted(fn, tasks, counts))'
        BY <1>6, CountedFrame
    <2>4. QED
        BY <2>1, <2>2, <2>3 DEF MeasureInv
<1>7. CASE NextFunction
    <2>1. /\ tree # NoTree /\ UNCHANGED <<project, loadVars, at, tree, phase>>
          /\ Later(result[at], fn) # {}
          /\ StartFunction(CHOOSE i \in Later(result[at], fn) : \A j \in Later(result[at], fn) : i <= j)
        BY <1>7 DEF NextFunction
    <2>2. Later(result[at], fn) \subseteq Later(result[at], 0) /\ Later(result[at], fn) \subseteq FuncDecls(tree)
        BY <2>1, FileFacts DEF MeasureInv, Later
    <2>3. Later(result[at], fn) \subseteq Nat
        BY <2>1, <2>2, FileFacts
    <2>4. \E i \in Later(result[at], fn) : \A j \in Later(result[at], fn) : i <= j
        BY <2>1, <2>3, LeastElement
    <2>5. PICK i \in Later(result[at], fn) : StartFunction(i)
        BY <2>1, <2>4
    <2>6. fn' = i /\ Counted(i, tasks', counts')
        BY <2>1, <2>2, <2>5, FileFacts, StartCounts
    <2>7. QED
        BY <1>6, <2>1, <2>2, <2>5, <2>6
<1>8. CASE MeasureStep
    <2>1. Measure /\ UNCHANGED <<project, loadVars, at, tree, phase>>
        BY <1>8 DEF MeasureStep
    <2>2. fn' = fn
        BY <2>1, MeasureStays
    <2>3. fn # 0 /\ IsOrdinary(fn) => Counted(fn, tasks', counts')
        BY <2>1, FileFacts, MeasureWalks DEF MeasureInv
    <2>4. QED
        BY <1>6, <2>1, <2>2, <2>3 DEF MeasureInv
<1>9. CASE UNCHANGED guardVars
    <2>1. UNCHANGED <<project, loadVars, at, tree, phase, fn, tasks, counts>>
        BY <1>9 DEF guardVars, budgetVars
    <2>2. QED
        BY <1>6, <2>1 DEF MeasureInv
<1>10. QED
    BY <1>2, <1>3, <1>5, <1>7, <1>8, <1>9 DEF GuardNext

\* At any time the counts are those of what has been walked.
LEMMA MeasureInvAlways == GuardSpec => [](GuardInv /\ TreeInv /\ MeasureInv)
<1>1. GuardInit => MeasureInv
    BY DEF GuardInit, MeasureInv
<1>2. QED
    BY <1>1, TreeInvAlways, MeasureKept, PTL DEF GuardSpec

(* README 801-813, for every file: when a function of ordinary code has been *)
(* measured, its three numbers are those of its text.                        *)
THEOREM MeasuresAreExact == GuardSpec => []MeasureExact
<1>1. MeasureInv => MeasureExact
    BY EndCounts DEF MeasureInv, MeasureExact, Measured
<1>2. QED
    BY <1>1, MeasureInvAlways, PTL

-------------------------------------------------------------------------------
(* The findings of the logic budget                                        *)

\* No package is in the result twice.
OnceInv == \A k, l \in DOMAIN result : result[k] = result[l] => k = l

\* The loader reads each path of a package once.
LEMMA OnceKept == GuardInv /\ OnceInv /\ [GuardNext]_guardVars => OnceInv'
<1> SUFFICES ASSUME GuardInv, OnceInv, [GuardNext]_guardVars PROVE OnceInv'
    OBVIOUS
<1>1. ASSUME UNCHANGED result
      PROVE  OnceInv'
    BY <1>1 DEF OnceInv
<1>2. result' = result \/ Keep
    <2>1. CASE Loading
        BY <2>1 DEF Loading, Load, FailEarly, BeginRoots, SkipForDep, SkipForOwn, Return, VisitDep
    <2>2. CASE ~Loading
        BY <2>2 DEF GuardNext, Accept, OpenPackage, NextFunction, MeasureStep, ClosePackage, BudgetPanics, BudgetDone,
                    CheckCalls, NextField, WalkStep, NextSignatures, Conclude, loadVars, guardVars
    <2>3. QED
        BY <2>1, <2>2
<1>3. CASE Keep
    <2>1. result' = Append(result, Current) /\ AtRoot
        BY <1>3 DEF Keep, Decided
    <2>2. result \in Seq(PackageIds) /\ Len(result) \in Nat /\ DOMAIN result = 1..Len(result)
        BY LenProperties DEF GuardInv, LoadInv
    <2>3. Current \in PackageIds /\ root \in 1..Len(project.roots) /\ Len(project.roots) \in Nat
          /\ DOMAIN project.roots = 1..Len(project.roots)
        BY <2>1, CurrentFacts, ProjectFacts, LenProperties DEF GuardInv, LoadInv
    <2>4. Current \notin Range(result)
        <3> SUFFICES ASSUME Current \in Range(result) PROVE FALSE
            OBVIOUS
        <3>1. PICK i \in Passed : Current = project.roots[i]
            BY DEF GuardInv, LoadInv
        <3>2. i \in DOMAIN project.roots /\ root \in DOMAIN project.roots /\ i # root
            BY <2>3 DEF Passed
        <3>3. \A x, y \in DOMAIN project.roots : project.roots[x] = project.roots[y] => x = y
            BY NamesAssumption DEF GuardInv, LoadInv
        <3>4. QED
            BY <3>1, <3>2, <3>3 DEF Current
    <2>5. \A k \in DOMAIN result : result[k] # Current
        BY <2>4 DEF Range
    <2>6. Len(result') = Len(result) + 1 /\ DOMAIN result' = 1..Len(result) + 1
          /\ (\A k \in 1..Len(result) : result'[k] = result[k]) /\ result'[Len(result) + 1] = Current
        BY <2>1, <2>2, <2>3, AppendProperties, LenProperties
    <2>7. \A k \in DOMAIN result' : k # Len(result) + 1 => k \in DOMAIN result
        BY <2>2, <2>6
    <2>8. ASSUME NEW k \in DOMAIN result', NEW l \in DOMAIN result', result'[k] = result'[l]
          PROVE  k = l
        <3>1. k = Len(result) + 1 \/ (k \in DOMAIN result /\ result'[k] = result[k])
            BY <2>2, <2>6, <2>7
        <3>2. l = Len(result) + 1 \/ (l \in DOMAIN result /\ result'[l] = result[l])
            BY <2>2, <2>6, <2>7
        <3>3. QED
            BY <2>5, <2>6, <2>8, <3>1, <3>2 DEF OnceInv
    <2>9. QED
        BY <2>8 DEF OnceInv
<1>4. QED
    BY <1>1, <1>2, <1>3

\* The findings of a package among all.
Judged(fs, p) == {f.at : f \in {g \in fs : g.rule = "orchestration.logic-budget" /\ g.pkg = p.path}}
AllOrdinary == \A i \in FuncDecls(tree) : IsOrdinary(i)

\* While the budget is looked at, the findings are of the packages before the
\* current one and of its functions before the current one.
JudgeInv ==
    /\ phase = "load" => found = {}
    /\ phase = "budget" => \A g \in found : \E k \in DOMAIN result :
           g.pkg = Code(result[k]).path /\ (k < at \/ (k = at /\ tree # NoTree))
    /\ tree # NoTree /\ AllOrdinary =>
           Judged(found, Code(result[at])) = {i \in Later(result[at], 0) : i < fn /\ Exceeds(Reference(i))}

\* The paths in the result tell its packages apart.
LEMMA PathsApart ==
    ASSUME GuardInv, OnceInv, NEW k \in DOMAIN result, NEW l \in DOMAIN result,
           Code(result[k]).path = Code(result[l]).path
    PROVE  k = l
<1>1. result[k] \in PackageIds /\ result[l] \in PackageIds /\ project \in Projects
    BY ElementOfSeq, LenProperties DEF GuardInv, LoadInv
<1>2. result[k] = result[l]
    BY <1>1, NamesAssumption DEF Code, PackageIds
<1>3. QED
    BY <1>2 DEF OnceInv

\* At the end of a function its verdict joins those of the functions before.
LEMMA JudgedNext ==
    ASSUME GuardInv, TreeInv, MeasureInv, JudgeInv, tree # NoTree, AllOrdinary, tasks = <<>>, fn # 0
    PROVE  Judged(found \cup Flagged, Code(result[at]))
               = {i \in Later(result[at], 0) : i <= fn /\ Exceeds(Reference(i))}
<1> DEFINE p == Code(result[at])
           over == Exceeds(Reference(fn))
<1>1. fn \in FuncDecls(tree) /\ fn \in Nat /\ IsOrdinary(fn) /\ fn \in Later(result[at], 0)
    BY FileFacts DEF AllOrdinary, MeasureInv
<1>2. counts = Reference(fn)
    BY <1>1, EndCounts DEF MeasureInv
<1>3. Flagged = IF over THEN {Finding("orchestration.logic-budget", p.path, fn)} ELSE {}
    BY <1>2 DEF Flagged
<1>4. Judged(Flagged, p) = IF over THEN {fn} ELSE {}
    <2> DEFINE g == Finding("orchestration.logic-budget", p.path, fn)
    <2>1. g.rule = "orchestration.logic-budget" /\ g.pkg = p.path /\ g.at = fn
        BY DEF Finding
    <2> HIDE DEF g, p, over
    <2>2. Judged({g}, p) = {fn}
        BY <2>1 DEF Judged
    <2>3. Judged({}, p) = {}
        BY DEF Judged
    <2>4. QED
        BY <1>3, <2>2, <2>3 DEF g
<1>5. Judged(found \cup Flagged, p) = Judged(found, p) \cup Judged(Flagged, p)
    BY DEF Judged
<1>6. Judged(found, p) = {i \in Later(result[at], 0) : i < fn /\ Exceeds(Reference(i))}
    BY DEF JudgeInv
<1>7. \A i \in Later(result[at], 0) : i \in Nat
    BY FileFacts DEF Later, MeasureInv
<1>8. \A i \in Later(result[at], 0) : i <= fn <=> i < fn \/ i = fn
    BY <1>1, <1>7
<1> HIDE DEF p
<1>9. QED
    BY <1>1, <1>4, <1>5, <1>6, <1>8 DEF p

\* The functions of the current package: those up to one, and those after it.
LEMMA LaterFacts ==
    ASSUME GuardInv, NEW k \in DOMAIN result
    PROVE  /\ \A i \in Later(result[k], 0) : i \in Nat /\ i > 0
           /\ \A i : i \in Later(result[k], 0) <=>
                 i \in FuncDecls(Code(result[k]).file.tree) \ Code(result[k]).file.exempt
           /\ \A f \in Nat : \A i : i \in Later(result[k], f) <=> i \in Later(result[k], 0) /\ i > f
<1> DEFINE t == Code(result[k]).file.tree
<1>1. result[k] \in PackageIds /\ project \in Projects
    BY ElementOfSeq, LenProperties DEF GuardInv, LoadInv
<1>2. Grammatical(t)
    BY <1>1, FilesAssumption DEF Code, PackageIds
<1>3. \A i \in FuncDecls(t) : i \in Nat /\ i > 0
    <2>1. DOMAIN t = 1..Len(t) /\ Len(t) \in Nat
        BY <1>2, NodeFacts
    <2>2. QED
        BY <2>1 DEF FuncDecls
<1>4. \A f, i : i \in Later(result[k], f) <=> i \in FuncDecls(t) \ Code(result[k]).file.exempt /\ i > f
    BY DEF Later
<1> HIDE DEF t
<1>5. \A i : i \in Later(result[k], 0) <=> i \in FuncDecls(t) \ Code(result[k]).file.exempt
    BY <1>3, <1>4
<1>6. QED
    BY <1>3, <1>4, <1>5 DEF t

\* The third part of JudgeInv, read with rigid names.
JudgedIs(fs, p, f) == Judged(fs, p) = {i \in Later(p, 0) : i < f /\ Exceeds(Reference(i))}

\* The verdicts stay while the functions and the place among them do.
LEMMA JudgedFrame ==
    ASSUME UNCHANGED <<project, loadVars, at, tree>>, NEW D,
           AllOrdinary => Judged(found', Code(result[at])) = D,
           AllOrdinary => D = {i \in Later(result[at], 0) : i < fn' /\ Exceeds(Reference(i))}
    PROVE  (AllOrdinary =>
              Judged(found, Code(result[at])) = {i \in Later(result[at], 0) : i < fn /\ Exceeds(Reference(i))})'
<1>1. /\ Code(result[at])' = Code(result[at]) /\ Later(result[at], 0)' = Later(result[at], 0)
      /\ AllOrdinary' <=> AllOrdinary
    <2>1. \A f : IsOrdinary(f)' <=> IsOrdinary(f)
        BY TreeFrame
    <2>2. result' = result
        BY DEF loadVars
    <2>3. QED
        BY <2>1, <2>2 DEF Code, Later, AllOrdinary
<1>2. \A i : Reference(i)' = Reference(i)
    BY TreeFrame
<1>3. \A i : Exceeds(Reference(i))' <=> Exceeds(Reference(i))
    BY <1>2 DEF Exceeds
<1>4. Judged(found, Code(result[at]))' = Judged(found', Code(result[at]))
    BY <1>1 DEF Judged
<1>5. QED
    BY <1>1, <1>3, <1>4

\* Each step keeps the findings those of the functions that have been measured.
LEMMA JudgeKept == GuardInv /\ TreeInv /\ MeasureInv /\ OnceInv /\ JudgeInv /\ [GuardNext]_guardVars => JudgeInv'
<1> SUFFICES ASSUME GuardInv, TreeInv, MeasureInv, OnceInv, JudgeInv, [GuardNext]_guardVars PROVE JudgeInv'
    OBVIOUS
<1>1. at \in Nat /\ Len(result) \in Nat /\ DOMAIN result = 1..Len(result) /\ at # 0
    BY LenProperties DEF TreeInv, GuardInv, LoadInv
<1>2. ASSUME tree' = NoTree, phase' = "load" => found' = {}, phase' # "budget" \/ found' = {}
      PROVE  JudgeInv'
    BY <1>2 DEF JudgeInv, NoTree
<1>3. CASE Loading
    BY <1>2, <1>3 DEF Loading, TreeInv, JudgeInv, NoTree
<1>4. CASE Accept
    BY <1>2, <1>4 DEF Accept, End, TreeInv, JudgeInv, NoTree
<1>5. CASE BudgetDone \/ CheckCalls \/ NextField \/ WalkStep \/ NextSignatures \/ Conclude \/ BudgetPanics
    <2>1. phase' \notin {"load", "budget"} /\ (tree' = NoTree \/ tree' = tree)
        BY <1>5 DEF BudgetDone, CheckCalls, NextField, WalkStep, NextSignatures, Conclude, AtSignatures, End, BudgetPanics
    <2>2. phase # "budget" \/ at > Len(result) \/ tree' = NoTree
        BY <1>5 DEF BudgetDone, CheckCalls, NextField, WalkStep, NextSignatures, Conclude, AtSignatures, BudgetPanics
    <2>3. tree' = NoTree
        BY <1>1, <2>1, <2>2 DEF MeasureInv
    <2>4. QED
        BY <1>2, <2>1, <2>3
<1>6. ASSUME UNCHANGED <<project, loadVars>>
      PROVE  result' = result /\ \A k : Code(result[k])' = Code(result[k])
    BY <1>6 DEF loadVars, Code
<1>7. CASE OpenPackage
    <2>1. /\ fn = 0 /\ fn' = 0 /\ phase = "budget" /\ phase' = "budget" /\ at \in DOMAIN result /\ tree = NoTree
          /\ UNCHANGED <<project, loadVars, at, found>>
          /\ tree' = Code(result[at]).file.tree
        BY <1>1, <1>7 DEF OpenPackage, AtPackage, budgetVars
    <2>2. (phase = "budget" => \A g \in found : \E k \in DOMAIN result :
               g.pkg = Code(result[k]).path /\ (k < at \/ (k = at /\ tree # NoTree)))'
        <3>1. \A g \in found : \E k \in DOMAIN result : g.pkg = Code(result[k]).path /\ k < at
            BY <2>1 DEF JudgeInv
        <3>2. QED
            BY <1>6, <2>1, <3>1
    <2>3. Judged(found, Code(result[at])) = {}
        <3>1. \A g \in found : g.pkg # Code(result[at]).path
            <4> SUFFICES ASSUME NEW g \in found, g.pkg = Code(result[at]).path PROVE FALSE
                OBVIOUS
            <4>1. PICK k \in DOMAIN result : g.pkg = Code(result[k]).path /\ k < at
                BY <2>1 DEF JudgeInv
            <4>2. k = at
                BY <2>1, <4>1, PathsApart
            <4>3. QED
                BY <1>1, <4>1, <4>2
        <3>2. QED
            BY <3>1 DEF Judged
    <2>4. \A i \in Later(result[at], 0) : ~(i < 0)
        BY <2>1, LaterFacts
    <2>5. Code(result[at])' = Code(result[at]) /\ Later(result[at], 0)' = Later(result[at], 0)
          /\ Judged(found, Code(result[at]))' = Judged(found, Code(result[at]))
        BY <1>6, <2>1 DEF Later, Code, Judged
    <2>6. (Judged(found, Code(result[at])) = {i \in Later(result[at], 0) : i < fn /\ Exceeds(Reference(i))})'
        <3>1. {i \in Later(result[at], 0) : i < 0 /\ Exceeds(Reference(i))'} = {}
            BY <2>4
        <3>2. {i \in Later(result[at], 0) : i < fn /\ Exceeds(Reference(i))}' = {}
            BY <2>1, <2>5, <3>1
        <3>3. QED
            BY <2>3, <2>5, <3>2
    <2>7. QED
        BY <2>1, <2>2, <2>6 DEF JudgeInv
<1>8. CASE NextFunction
    <2> DEFINE later == Later(result[at], fn)
    <2>1. /\ tasks = <<>> /\ tree # NoTree /\ UNCHANGED <<project, loadVars, at, tree, phase>>
          /\ phase = "budget" /\ at \in DOMAIN result
          /\ later # {} /\ StartFunction(CHOOSE i \in later : \A j \in later : i <= j)
          /\ found' = IF fn = 0 THEN found ELSE found \cup Flagged
        BY <1>1, <1>8 DEF NextFunction, AtPackage
    <2>2. fn \in Nat
        BY FileFacts
    <2>3. /\ \A i \in Later(result[at], 0) : i \in Nat /\ i > 0
          /\ \A i : i \in later <=> i \in Later(result[at], 0) /\ i > fn
        BY <2>1, <2>2, LaterFacts
    <2>4. later \subseteq Nat
        BY <2>3
    <2> HIDE DEF later
    <2>5. \E i \in later : \A j \in later : i <= j
        BY <2>1, <2>4, LeastElement
    <2>6. fn' \in later /\ \A j \in later : fn' <= j
        BY <2>1, <2>5 DEF StartFunction
    <2>7. \A i \in Later(result[at], 0) : i < fn' <=> i <= fn
        <3> SUFFICES ASSUME NEW i \in Later(result[at], 0) PROVE i < fn' <=> i <= fn
            OBVIOUS
        <3>1. i \in Nat /\ fn' \in Nat /\ fn' > fn
            BY <2>3, <2>4, <2>6
        <3>2. i > fn => fn' <= i
            BY <2>3, <2>6
        <3>3. QED
            BY <2>2, <3>1, <3>2
    <2> DEFINE D == {i \in Later(result[at], 0) : i <= fn /\ Exceeds(Reference(i))}
    <2>8. AllOrdinary => Judged(found', Code(result[at])) = D
        <3>1. CASE fn = 0
            <4>1. AllOrdinary => Judged(found', Code(result[at])) = {i \in Later(result[at], 0) : i < 0 /\ Exceeds(Reference(i))}
                BY <2>1, <3>1 DEF JudgeInv
            <4>2. \A i \in Later(result[at], 0) : ~(i < 0) /\ ~(i <= fn)
                BY <2>3, <3>1
            <4>3. QED
                BY <4>1, <4>2
        <3>2. CASE fn # 0
            BY <2>1, <3>2, JudgedNext
        <3>3. QED
            BY <3>1, <3>2
    <2>9. D = {i \in Later(result[at], 0) : i < fn' /\ Exceeds(Reference(i))}
        BY <2>7
    <2> HIDE DEF D
    <2>10. (AllOrdinary =>
              Judged(found, Code(result[at])) = {i \in Later(result[at], 0) : i < fn /\ Exceeds(Reference(i))})'
        BY <2>1, <2>8, <2>9, JudgedFrame
    <2>11. (phase = "budget" => \A g \in found : \E k \in DOMAIN result :
               g.pkg = Code(result[k]).path /\ (k < at \/ (k = at /\ tree # NoTree)))'
        <3>1. \A g \in found' : \E k \in DOMAIN result :
                  g.pkg = Code(result[k]).path /\ (k < at \/ (k = at /\ tree # NoTree))
            <4>1. \A g \in Flagged : g.pkg = Code(result[at]).path
                BY DEF Flagged, Finding
            <4>2. \A g \in found' : g \in found \/ g \in Flagged
                BY <2>1
            <4>3. QED
                BY <2>1, <4>1, <4>2 DEF JudgeInv
        <3>2. QED
            BY <1>6, <2>1, <3>1
    <2>12. QED
        BY <2>1, <2>10, <2>11 DEF JudgeInv
<1>9. CASE MeasureStep \/ UNCHANGED guardVars
    <2>1. UNCHANGED <<project, loadVars, at, tree, phase, found, fn>>
        BY <1>9, MeasureStays DEF MeasureStep, guardVars, budgetVars
    <2>2. (phase = "budget" => \A g \in found : \E k \in DOMAIN result :
               g.pkg = Code(result[k]).path /\ (k < at \/ (k = at /\ tree # NoTree)))'
        BY <1>6, <2>1 DEF JudgeInv, NoTree
    <2> DEFINE D == Judged(found, Code(result[at]))
    <2>3. tree # NoTree /\ AllOrdinary => D = {i \in Later(result[at], 0) : i < fn' /\ Exceeds(Reference(i))}
        BY <2>1 DEF JudgeInv
    <2>4. Judged(found', Code(result[at])) = D
        BY <2>1
    <2> HIDE DEF D
    <2>5. tree # NoTree => (AllOrdinary =>
              Judged(found, Code(result[at])) = {i \in Later(result[at], 0) : i < fn /\ Exceeds(Reference(i))})'
        BY <2>1, <2>3, <2>4, JudgedFrame
    <2>6. QED
        BY <2>1, <2>2, <2>5 DEF JudgeInv, NoTree
<1>10. CASE ClosePackage
    <2>1. /\ phase = "budget" /\ at \in DOMAIN result /\ tree' = NoTree /\ at' = at + 1 /\ phase' = "budget"
          /\ UNCHANGED <<project, loadVars>> /\ found' = IF fn = 0 THEN found ELSE found \cup Flagged
        BY <1>1, <1>10 DEF ClosePackage, AtPackage
    <2>2. \A g \in found' : \E k \in DOMAIN result : g.pkg = Code(result[k]).path /\ k < at + 1
        <3>1. \A g \in Flagged : g.pkg = Code(result[at]).path
            BY DEF Flagged, Finding
        <3>2. \A g \in found' : g \in found \/ g \in Flagged
            BY <2>1
        <3>3. \A k \in DOMAIN result : k < at \/ k = at => k < at + 1
            BY <1>1
        <3>4. QED
            BY <2>1, <3>1, <3>2, <3>3 DEF JudgeInv
    <2>3. (phase = "budget" => \A g \in found : \E k \in DOMAIN result :
               g.pkg = Code(result[k]).path /\ (k < at \/ (k = at /\ tree # NoTree)))'
        BY <1>6, <2>1, <2>2
    <2>4. QED
        BY <2>1, <2>3 DEF JudgeInv, NoTree
<1>11. QED
    BY <1>3, <1>4, <1>5, <1>7, <1>8, <1>9, <1>10 DEF GuardNext

\* At any time the findings are those of the functions measured so far.
LEMMA JudgeInvAlways == GuardSpec => [](GuardInv /\ TreeInv /\ MeasureInv /\ OnceInv /\ JudgeInv)
<1>1. GuardInit => OnceInv /\ JudgeInv
    BY DEF GuardInit, LoadInit, OnceInv, JudgeInv
<1>2. QED
    BY <1>1, MeasureInvAlways, OnceKept, JudgeKept, PTL DEF GuardSpec

(* However many functions a package declares and packages there are: when a  *)
(* package of ordinary code is closed, its findings are its functions over   *)
(* budget, without those whose names are allowed or ignored.                 *)
THEOREM FunctionsAreJudged == GuardSpec => FunctionsJudged
<1> DEFINE Closes == tree # NoTree /\ tree' = NoTree /\ ~HasPanicked /\ (\A i \in FuncDecls(tree) : IsOrdinary(i))
           Right == JudgedBy(Code(result[at])) =
                        {i \in FuncDecls(tree) \ Code(result[at]).file.exempt : Exceeds(Reference(i))}
           Judges == Closes => Right
<1>1. ASSUME GuardInv, TreeInv, MeasureInv, OnceInv, JudgeInv, [GuardNext]_guardVars, Closes
      PROVE  Right
    <2>1. ClosePackage
        <3>1. phase = "budget" /\ at <= Len(result) /\ tree' # tree
            BY <1>1 DEF MeasureInv
        <3>2. ~(Loading \/ Accept \/ OpenPackage \/ NextFunction \/ MeasureStep \/ BudgetPanics \/ BudgetDone
                \/ CheckCalls \/ NextField \/ WalkStep \/ NextSignatures \/ Conclude \/ UNCHANGED guardVars)
            BY <1>1, <3>1 DEF Loading, Accept, OpenPackage, NextFunction, MeasureStep, BudgetPanics, BudgetDone,
                       CheckCalls, NextField, WalkStep, NextSignatures, Conclude, guardVars, NoTree
        <3>3. QED
            BY <1>1, <3>2 DEF GuardNext
    <2>2. /\ tasks = <<>> /\ fn # 0 /\ Later(result[at], fn) = {} /\ found' = found \cup Flagged
        BY <1>1, <2>1 DEF ClosePackage, AtPackage
    <2>3. AllOrdinary
        BY <1>1 DEF AllOrdinary
    <2>4. Judged(found', Code(result[at])) = {i \in Later(result[at], 0) : i <= fn /\ Exceeds(Reference(i))}
        BY <1>1, <2>2, <2>3, JudgedNext
    <2>5. at \in DOMAIN result /\ fn \in Nat
        BY <1>1, FileFacts
    <2>6. tree = Code(result[at]).file.tree
        BY <1>1 DEF MeasureInv
    <2>7. \A i : i \in Later(result[at], 0) <=> i \in FuncDecls(tree) \ Code(result[at]).file.exempt
        BY <1>1, <2>5, <2>6, LaterFacts
    <2>8. \A i \in Later(result[at], 0) : i <= fn
        <3>1. \A i \in Later(result[at], 0) : i \in Nat /\ ~(i > fn)
            BY <1>1, <2>2, <2>5, LaterFacts
        <3>2. QED
            BY <2>5, <3>1
    <2>9. JudgedBy(Code(result[at])) = Judged(found', Code(result[at]))
        BY DEF JudgedBy, Judged
    <2>10. QED
        BY <2>4, <2>7, <2>8, <2>9
<1>2. GuardInv /\ TreeInv /\ MeasureInv /\ OnceInv /\ JudgeInv /\ [GuardNext]_guardVars => [Judges]_guardVars
    BY <1>1
<1>3. QED
    BY <1>2, JudgeInvAlways, PTL DEF GuardSpec, FunctionsJudged
===============================================================================
