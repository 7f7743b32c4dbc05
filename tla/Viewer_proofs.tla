---- MODULE Viewer_proofs ----
(***************************************************************************)
(* The viewer's invariants, proved for every project and every sequence of *)
(* keys.  The tree is closed under prefixes from the first package on, a   *)
(* node is a leaf exactly when it is a package, and its colour is the one  *)
(* of the walk of the index; a filter is judged by what its recursion      *)
(* computes on such a tree (FoundExact).                                   *)
(***************************************************************************)
EXTENDS Viewer, SequenceTheorems, NatLemmas

\* A tree holds what is above each of its nodes, and has a depth.
IsTree == /\ DOMAIN tree \subseteq Seq(Segment)
          /\ \A n \in DOMAIN tree : \A k \in 0..Len(n) : SubSeq(n, 1, k) \in DOMAIN tree
Deep == \E d \in Nat : \A n \in DOMAIN tree : Len(n) <= d

\* Packages that left pending are nodes, and nodes are judged for good.
Added == Infos(input.pkgs) \ pending \subseteq DOMAIN tree
LeavesRight == \A n \in DOMAIN tree : tree[n].leaf <=> n \in Infos(input.pkgs)
ColoursRight == \A n \in DOMAIN tree \ {Root} : tree[n].severity = Severity(n)
PanelRight == panel.shown => panel = Update(panel.node)
Phases == /\ input \in Inputs
          /\ pc = "build" => ~panel.shown
          /\ pc # "build" => pending = {}
          /\ query # NoQuery => pc = "waiting"

IInv == /\ TypeOK /\ IsTree /\ Deep /\ Added /\ LeavesRight /\ ColoursRight
        /\ PanelRight /\ Phases /\ SearchOwnsKeys /\ FilterReveals

-------------------------------------------------------------------------------
\* Below on paths: reflexive, transitive, and the same as being a prefix.
LEMMA BelowItself ==
  ASSUME NEW n \in Seq(Segment)
  PROVE  Below(n, n)
BY SubSeqFull, LenProperties DEF Below

LEMMA PrefixType ==
  ASSUME NEW n \in Seq(Segment), NEW k \in 0..Len(n)
  PROVE  /\ SubSeq(n, 1, k) \in Seq(Segment)
         /\ Len(SubSeq(n, 1, k)) = k
         /\ \A i \in 1..k : SubSeq(n, 1, k)[i] = n[i]
<1>1. Len(n) \in Nat /\ DOMAIN n = 1..Len(n) /\ n \in [1..Len(n) -> Segment]
  BY LenProperties
<1>2. k \in Nat /\ \A i \in 1..k : n[i] \in Segment
  BY <1>1
<1>3. /\ SubSeq(n, 1, k) \in Seq(Segment)
      /\ Len(SubSeq(n, 1, k)) = IF 1 <= k THEN k - 1 + 1 ELSE 0
      /\ \A i \in 1..k - 1 + 1 : SubSeq(n, 1, k)[i] = n[1 + i - 1]
  BY <1>2, SubSeqProperties
<1>4. QED
  BY <1>2, <1>3

\* Two paths of the same elements are the same path.
LEMMA BelowByElements ==
  ASSUME NEW n \in Seq(Segment), NEW m \in Seq(Segment)
  PROVE  Below(n, m) <=> /\ Len(n) <= Len(m)
                         /\ \A i \in 1..Len(n) : n[i] = m[i]
<1>1. Len(n) \in Nat /\ Len(m) \in Nat
  BY LenProperties
<1>2. CASE Len(n) <= Len(m)
  <2>1. Len(n) \in 0..Len(m)
    BY <1>1, <1>2
  <2>2. /\ SubSeq(m, 1, Len(n)) \in Seq(Segment)
        /\ Len(SubSeq(m, 1, Len(n))) = Len(n)
        /\ \A i \in 1..Len(n) : SubSeq(m, 1, Len(n))[i] = m[i]
    BY <2>1, PrefixType
  <2>3. ASSUME SubSeq(m, 1, Len(n)) = n
        PROVE  \A i \in 1..Len(n) : n[i] = m[i]
    BY <2>2, <2>3
  <2>4. ASSUME \A i \in 1..Len(n) : n[i] = m[i]
        PROVE  SubSeq(m, 1, Len(n)) = n
    BY <2>2, <2>4, SeqEqual
  <2>5. QED
    BY <1>2, <2>3, <2>4 DEF Below
<1>3. CASE ~(Len(n) <= Len(m))
  BY <1>3 DEF Below
<1>4. QED
  BY <1>2, <1>3

LEMMA BelowTransitive ==
  ASSUME NEW n \in Seq(Segment), NEW m \in Seq(Segment), NEW p \in Seq(Segment),
         Below(n, m), Below(m, p)
  PROVE  Below(n, p)
<1>1. Len(n) \in Nat /\ Len(m) \in Nat /\ Len(p) \in Nat
  BY LenProperties
<1>2. /\ Len(n) <= Len(m) /\ \A i \in 1..Len(n) : n[i] = m[i]
      /\ Len(m) <= Len(p) /\ \A i \in 1..Len(m) : m[i] = p[i]
  BY BelowByElements
<1>3. Len(n) <= Len(p) /\ \A i \in 1..Len(n) : n[i] = p[i]
  BY <1>1, <1>2
<1>4. QED
  BY <1>3, BelowByElements

\* The root is above every path.
LEMMA RootAbove ==
  ASSUME NEW n \in Seq(Segment)
  PROVE  Below(Root, n)
<1>1. Root \in Seq(Segment) /\ Len(Root) = 0
  BY EmptySeq DEF Root
<1>2. Len(n) \in Nat
  BY LenProperties
<1>3. Len(Root) <= Len(n) /\ \A i \in 1..Len(Root) : Root[i] = n[i]
  BY <1>1, <1>2
<1>4. QED
  BY <1>1, <1>3, BelowByElements

\* Children are nodes one element longer, and every node below a node is the
\* node or is below one of its children.
LEMMA ChildAbove ==
  ASSUME IsTree, NEW n \in DOMAIN tree, NEW m \in DOMAIN tree, Below(n, m), m # n
  PROVE  \E c \in Children(n) : Below(c, m)
<1>1. n \in Seq(Segment) /\ m \in Seq(Segment) /\ Len(n) \in Nat /\ Len(m) \in Nat
  BY LenProperties DEF IsTree
<1>2. Len(n) <= Len(m) /\ \A i \in 1..Len(n) : n[i] = m[i]
  BY <1>1, BelowByElements
<1>3. Len(n) # Len(m)
  BY <1>1, <1>2, SeqEqual
<1>4. Len(n) + 1 \in 0..Len(m)
  BY <1>1, <1>2, <1>3
<1> DEFINE c == SubSeq(m, 1, Len(n) + 1)
<1>5. c \in DOMAIN tree
  BY <1>4 DEF IsTree
<1>6. /\ c \in Seq(Segment) /\ Len(c) = Len(n) + 1
      /\ \A i \in 1..Len(n) + 1 : c[i] = m[i]
  BY <1>1, <1>4, PrefixType
<1> HIDE DEF c
<1>7. Below(n, c)
  <2>1. Len(n) <= Len(c) /\ \A i \in 1..Len(n) : n[i] = c[i]
    BY <1>1, <1>2, <1>6
  <2>2. QED
    BY <2>1, <1>1, <1>6, BelowByElements
<1>8. Below(c, m)
  <2>1. Len(c) <= Len(m) /\ \A i \in 1..Len(c) : c[i] = m[i]
    BY <1>1, <1>4, <1>6
  <2>2. QED
    BY <2>1, <1>1, <1>6, BelowByElements
<1>9. QED
  BY <1>5, <1>6, <1>7, <1>8 DEF Children

\* What filterNode looks for: a match at a node or below it.
MatchBelow(n, q) == \E m \in DOMAIN tree : Below(n, m) /\ Matches(m, q)

\* There is a match at or below a node exactly when the node matches or there is
\* one at or below a child.
LEMMA MatchBelowSplits ==
  ASSUME IsTree, NEW q, NEW p \in DOMAIN tree
  PROVE  MatchBelow(p, q) <=> (Matches(p, q) \/ \E m \in Children(p) : MatchBelow(m, q))
<1>1. p \in Seq(Segment)
  BY DEF IsTree
<1>2. ASSUME MatchBelow(p, q)
      PROVE  Matches(p, q) \/ \E m \in Children(p) : MatchBelow(m, q)
  <2>1. PICK m \in DOMAIN tree : Below(p, m) /\ Matches(m, q)
    BY <1>2 DEF MatchBelow
  <2>2. CASE m = p
    BY <2>1, <2>2
  <2>3. CASE m # p
    BY <2>1, <2>3, ChildAbove DEF MatchBelow
  <2>4. QED
    BY <2>2, <2>3
<1>3. ASSUME Matches(p, q)
      PROVE  MatchBelow(p, q)
  BY <1>1, <1>3, BelowItself DEF MatchBelow
<1>4. ASSUME NEW m \in Children(p), MatchBelow(m, q)
      PROVE  MatchBelow(p, q)
  <2>1. PICK x \in DOMAIN tree : Below(m, x) /\ Matches(x, q)
    BY <1>4 DEF MatchBelow
  <2>2. m \in DOMAIN tree /\ Below(p, m)
    BY DEF Children
  <2>3. Below(p, x)
    BY <1>1, <2>1, <2>2, BelowTransitive DEF IsTree
  <2>4. QED
    BY <2>1, <2>3 DEF MatchBelow
<1>5. QED
  BY <1>2, <1>3, <1>4

\* filterNode's recursion has a solution, so its result satisfies its equation:
\* MatchBelow solves it.
LEMMA FoundSolves ==
  ASSUME IsTree, NEW q
  PROVE  Found(q) = [p \in DOMAIN tree |-> Matches(p, q) \/ \E m \in Children(p) : Found(q)[m]]
<1> DEFINE Solves(f) == f = [p \in DOMAIN tree |-> Matches(p, q) \/ \E m \in Children(p) : f[m]]
           w == [p \in DOMAIN tree |-> MatchBelow(p, q)]
<1>1. ASSUME NEW p \in DOMAIN tree
      PROVE  MatchBelow(p, q) = (Matches(p, q) \/ \E m \in Children(p) : w[m])
  <2>1. \A m \in Children(p) : w[m] = MatchBelow(m, q)
    BY DEF Children
  <2> HIDE DEF w
  <2>2. (\E m \in Children(p) : w[m]) <=> (\E m \in Children(p) : MatchBelow(m, q))
    BY <2>1, Zenon
  <2>3. MatchBelow(p, q) <=> (Matches(p, q) \/ \E m \in Children(p) : w[m])
    BY MatchBelowSplits, <2>2, Zenon
  <2>4. MatchBelow(p, q) \in BOOLEAN
    BY DEF MatchBelow
  <2>5. QED
    BY <2>3, <2>4
<1>2. Solves(w)
  BY <1>1, Zenon
<1>3. \E f : Solves(f)
  BY <1>2
<1>4. Found(q) = CHOOSE f : Solves(f)
  BY DEF Found
<1> HIDE DEF Solves
<1>5. Solves(Found(q))
  BY <1>3, <1>4
<1>6. QED
  BY <1>5 DEF Solves

\* It finds a node exactly when the node or one below it matches: a deepest node
\* on which the two disagreed would have children on which they agree.
LEMMA FoundExact ==
  ASSUME IsTree, Deep, NEW q, NEW n \in DOMAIN tree
  PROVE  /\ Found(q)[n] \in BOOLEAN
         /\ Found(q)[n] <=> MatchBelow(n, q)
<1> DEFINE f == Found(q)
           W(p) == MatchBelow(p, q)
<1>1. \A p \in DOMAIN tree : f[p] = (Matches(p, q) \/ \E m \in Children(p) : f[m])
  BY FoundSolves
<1>2. \A p \in DOMAIN tree : f[p] <=> (Matches(p, q) \/ \E m \in Children(p) : f[m])
  BY <1>1
<1>3. f[n] \in BOOLEAN
  BY <1>1
<1>4. \A p \in DOMAIN tree : W(p) <=> (Matches(p, q) \/ \E m \in Children(p) : W(m))
  BY MatchBelowSplits
<1>5. \A p \in DOMAIN tree : Children(p) \subseteq DOMAIN tree /\ \A m \in Children(p) : Len(m) = Len(p) + 1
  BY DEF Children
<1> HIDE DEF f, W
<1>6. \A p \in DOMAIN tree : f[p] <=> W(p)
  <2> DEFINE Bad == {p \in DOMAIN tree : ~(f[p] <=> W(p))}
             Free == {d \in Nat : \A p \in Bad : Len(p) <= d}
  <2>1. SUFFICES ASSUME Bad # {} PROVE FALSE
    OBVIOUS
  <2>2. \A p \in DOMAIN tree : Len(p) \in Nat
    BY LenProperties DEF IsTree
  <2>3. Free # {} /\ Free \subseteq Nat
    BY DEF Deep
  <2>4. PICK d \in Free : \A k \in Free : d <= k
    BY <2>3, LeastElement
  <2>5. d \in Nat /\ \A p \in Bad : Len(p) <= d
    BY <2>4
  <2>6. PICK p \in Bad : Len(p) = d
    <3>1. SUFFICES ASSUME \A p \in Bad : Len(p) # d PROVE FALSE
      OBVIOUS
    <3>2. \A p \in Bad : Len(p) <= d - 1 /\ d - 1 \in Nat
      BY <2>2, <2>5, <3>1
    <3>3. d - 1 \in Free
      BY <3>2, <2>1
    <3> HIDE DEF Free
    <3>4. d <= d - 1
      BY <3>3, <2>4
    <3>5. QED
      BY <3>4, <2>5
  <2>7. \A m \in Children(p) : f[m] <=> W(m)
    <3> SUFFICES ASSUME NEW m \in Children(p), ~(f[m] <=> W(m)) PROVE FALSE
      OBVIOUS
    <3>1. m \in Bad /\ Len(m) = d + 1
      BY <1>5, <2>6
    <3>2. QED
      BY <3>1, <2>5
  <2>8. p \in DOMAIN tree /\ ~(f[p] <=> W(p))
    BY <2>6
  <2>9. QED
    BY <1>2, <1>4, <2>7, <2>8
<1>7. QED
  BY <1>3, <1>6 DEF f, W

-------------------------------------------------------------------------------
\* A package has a path under the module, never the module's own.
LEMMA InfosType ==
  ASSUME NEW i \in Inputs, NEW p \in Infos(i.pkgs)
  PROVE  p \in Seq(Segment) /\ p # Root
<1>1. PICK x \in i.pkgs : p = Rel(x) /\ Below(Module, x) /\ x # Module
  BY DEF Infos
<1>2. Module \in Seq(Segment) /\ x \in Seq(Segment)
  BY InputsAssumption
<1>3. Len(Module) \in Nat /\ Len(x) \in Nat /\ x \in [1..Len(x) -> Segment]
  BY <1>2, LenProperties
<1>4. Len(Module) <= Len(x) /\ \A k \in 1..Len(Module) : Module[k] = x[k]
  BY <1>1, <1>2, BelowByElements
<1>5. Len(Module) # Len(x)
  BY <1>1, <1>2, <1>3, <1>4, SeqEqual
<1>6. \A k \in Len(Module) + 1..Len(x) : x[k] \in Segment
  BY <1>3
<1>7. /\ p \in Seq(Segment)
      /\ Len(p) = IF Len(Module) + 1 <= Len(x) THEN Len(x) - (Len(Module) + 1) + 1 ELSE 0
  BY <1>1, <1>3, <1>6, SubSeqProperties DEF Rel
<1>8. Len(p) # 0
  <2>1. Len(Module) + 1 <= Len(x)
    BY <1>3, <1>4, <1>5
  <2>2. Len(p) = Len(x) - (Len(Module) + 1) + 1
    BY <1>7, <2>1
  <2>3. QED
    BY <1>3, <2>1, <2>2
<1>9. QED
  BY <1>7, <1>8, EmptySeq DEF Root

\* The keys a package adds are the prefixes of its path that are no nodes yet.
LEMMA NewKeysType ==
  ASSUME NEW p \in Seq(Segment), NEW key \in NewKeys(p)
  PROVE  /\ key \in Seq(Segment) /\ key \notin DOMAIN tree
         /\ key # Root /\ Below(key, p) /\ Len(key) <= Len(p)
         /\ \A k \in 1..Len(key) : SubSeq(key, 1, k) \in DOMAIN tree \cup NewKeys(p)
<1>1. PICK n \in 1..Len(p) : key = SubSeq(p, 1, n)
  BY DEF NewKeys
<1>2. Len(p) \in Nat /\ n \in 0..Len(p)
  BY LenProperties
<1>3. key \in Seq(Segment) /\ Len(key) = n /\ \A i \in 1..n : key[i] = p[i]
  BY <1>1, <1>2, PrefixType
<1>4. key # Root
  BY <1>2, <1>3, EmptySeq DEF Root
<1>5. Below(key, p)
  BY <1>2, <1>3, BelowByElements
<1>6. ASSUME NEW k \in 1..Len(key)
      PROVE  SubSeq(key, 1, k) \in DOMAIN tree \cup NewKeys(p)
  <2>1. k \in 0..Len(key) /\ k \in 0..Len(p) /\ k \in 1..Len(p)
    BY <1>2, <1>3
  <2>2. SubSeq(key, 1, k) = SubSeq(p, 1, k)
    <3>1. /\ SubSeq(key, 1, k) \in Seq(Segment) /\ Len(SubSeq(key, 1, k)) = k
          /\ \A i \in 1..k : SubSeq(key, 1, k)[i] = key[i]
      BY <1>3, <2>1, PrefixType
    <3>2. /\ SubSeq(p, 1, k) \in Seq(Segment) /\ Len(SubSeq(p, 1, k)) = k
          /\ \A i \in 1..k : SubSeq(p, 1, k)[i] = p[i]
      BY <2>1, PrefixType
    <3>3. \A i \in 1..k : key[i] = p[i]
      BY <1>2, <1>3
    <3>4. \A i \in 1..k : SubSeq(key, 1, k)[i] = SubSeq(p, 1, k)[i]
      BY <3>1, <3>2, <3>3
    <3> HIDE <1>1
    <3>5. QED
      BY <3>1, <3>2, <3>4, SeqEqual
  <2>3. QED
    BY <2>1, <2>2 DEF NewKeys
<1>7. QED
  BY <1>2, <1>3, <1>4, <1>5, <1>6 DEF NewKeys

\* A walk of the index is green exactly when it meets no violation.
LEMMA GreenWalks ==
  ASSUME TypeOK, Phases, NEW n
  PROVE  /\ Severity(n) \in {"none", "warning", "error"}
         /\ Severity(n) = "none" <=> WalkPath(n) = {}
         /\ At(n) \subseteq WalkPath(n) /\ WalkPath(n) \subseteq input.viols
<1>1. At(n) \subseteq WalkPath(n) /\ WalkPath(n) \subseteq input.viols
  BY DEF At, WalkPath
<1>2. \A v \in WalkPath(n) : v.severity \in {"warning", "error"}
  BY <1>1, InputsAssumption DEF Phases
<1>3. QED
  BY <1>1, <1>2 DEF Severity, Worst

-------------------------------------------------------------------------------
\* The state Run starts from: nothing but the root.
LEMMA InitInvariant == Init => IInv
<1> SUFFICES ASSUME Init PROVE IInv
  OBVIOUS
<1>1. DOMAIN tree = {Root} /\ tree[Root] = [leaf |-> FALSE, severity |-> "none", expanded |-> TRUE]
  BY DEF Init
<1>2. Root \in Seq(Segment) /\ Len(Root) = 0
  BY EmptySeq DEF Root
<1>3. TypeOK
  BY <1>1 DEF Init, TypeOK
<1>4. IsTree
  <2>1. SubSeq(Root, 1, 0) = Root
    BY SubSeqEmpty DEF Root
  <2>2. QED
    BY <1>1, <1>2, <2>1 DEF IsTree
<1>5. Deep
  BY <1>1, <1>2 DEF Deep
<1>6. Added
  BY DEF Init, Added
<1>7. LeavesRight
  BY <1>1, InfosType DEF Init, LeavesRight
<1>8. ColoursRight
  BY <1>1 DEF ColoursRight
<1>9. PanelRight /\ Phases /\ SearchOwnsKeys /\ FilterReveals
  BY DEF Init, PanelRight, Phases, SearchOwnsKeys, FilterReveals
<1>10. QED
  BY <1>3, <1>4, <1>5, <1>6, <1>7, <1>8, <1>9 DEF IInv

\* BuildTree adds a package and the nodes above it. Because a package comes
\* before those below it, a node made for a package below is no package.
LEMMA AddPackageInvariant ==
  ASSUME IInv, NEW p \in pending, AddPackage(p)
  PROVE  IInv'
<1> USE DEF IInv
<1>1. p \in Infos(input.pkgs) /\ p \in Seq(Segment) /\ p # Root /\ Len(p) \in Nat
  BY InfosType, LenProperties DEF TypeOK, Phases
<1>2. /\ DOMAIN tree' = DOMAIN tree \cup NewKeys(p)
      /\ \A n \in DOMAIN tree : tree'[n] = tree[n]
      /\ \A n \in NewKeys(p) : tree'[n] = NewNode(n, p)
  BY DEF AddPackage, NewKeys
<1>3. \A n \in NewKeys(p) :
         /\ n \in Seq(Segment) /\ n \notin DOMAIN tree
         /\ n # Root /\ Below(n, p) /\ Len(n) <= Len(p)
         /\ \A k \in 1..Len(n) : SubSeq(n, 1, k) \in DOMAIN tree'
  BY <1>1, <1>2, NewKeysType
<1>4. /\ UNCHANGED <<input, pc, current, panel, search>> /\ pending' = pending \ {p} /\ pc = "build"
      /\ focus' = focus /\ searchVisible' = searchVisible /\ detailFocused' = detailFocused
      /\ query' = query
  BY DEF AddPackage, search
<1>5. TypeOK'
  <2>1. \A n \in NewKeys(p) : NewNode(n, p) \in [leaf : BOOLEAN, expanded : BOOLEAN,
                                                 severity : {"none", "warning", "error"}]
    <3> TAKE n \in NewKeys(p)
    <3>1. Severity(n) \in {"none", "warning", "error"}
      BY GreenWalks
    <3>2. (n = p) \in BOOLEAN /\ (Len(n) <= 2) \in BOOLEAN
      OBVIOUS
    <3>3. QED
      BY <3>1, <3>2 DEF NewNode
  <2>2. \A n \in DOMAIN tree' : tree'[n] \in [leaf : BOOLEAN, expanded : BOOLEAN,
                                              severity : {"none", "warning", "error"}]
    BY <1>2, <2>1 DEF TypeOK
  <2>3. QED
    BY <1>2, <1>4, <2>2 DEF TypeOK
<1>6. IsTree'
  <2>1. DOMAIN tree' \subseteq Seq(Segment)
    BY <1>2, <1>3 DEF IsTree
  <2>2. ASSUME NEW n \in DOMAIN tree, NEW k \in 0..Len(n)
        PROVE  SubSeq(n, 1, k) \in DOMAIN tree'
    BY <1>2 DEF IsTree
  <2>3. ASSUME NEW n \in NewKeys(p), NEW k \in 0..Len(n)
        PROVE  SubSeq(n, 1, k) \in DOMAIN tree'
    <3>1. CASE k = 0
      <4>1. SubSeq(n, 1, k) = Root
        BY <3>1, SubSeqEmpty DEF Root
      <4>2. QED
        BY <4>1, <1>2 DEF TypeOK
    <3>2. CASE k # 0
      <4>1. Len(n) \in Nat
        BY <1>3, LenProperties
      <4>2. k \in 1..Len(n)
        BY <3>2, <4>1
      <4>3. QED
        BY <4>2, <1>3
    <3>3. QED
      BY <3>1, <3>2
  <2>4. QED
    BY <2>1, <2>2, <2>3, <1>2 DEF IsTree
<1>7. Deep'
  <2>1. PICK d \in Nat : \A n \in DOMAIN tree : Len(n) <= d
    BY DEF Deep
  <2>2. \A n \in DOMAIN tree' : Len(n) \in Nat
    BY <1>6, LenProperties DEF IsTree
  <2>3. PICK e \in Nat : d <= e /\ Len(p) <= e
    <3>1. CASE d <= Len(p)
      BY <1>1, <3>1
    <3>2. CASE ~(d <= Len(p))
      BY <1>1, <3>2
    <3>3. QED
      BY <3>1, <3>2
  <2>4. \A n \in DOMAIN tree : Len(n) <= e
    BY <1>2, <2>1, <2>2, <2>3
  <2>5. \A n \in NewKeys(p) : Len(n) <= e
    BY <1>1, <1>2, <1>3, <2>2, <2>3
  <2>6. QED
    BY <1>2, <2>4, <2>5 DEF Deep
<1>8. p \in DOMAIN tree'
  <2>1. Len(p) \in 1..Len(p)
    <3>1. Len(p) # 0
      BY <1>1, EmptySeq DEF Root
    <3>2. QED
      BY <1>1, <3>1
  <2>2. SubSeq(p, 1, Len(p)) = p
    BY <1>1, BelowItself DEF Below
  <2>3. QED
    BY <2>1, <2>2, <1>2 DEF NewKeys
<1>9. Added'
  BY <1>2, <1>4, <1>8 DEF Added
<1>10. LeavesRight'
  <2>1. ASSUME NEW n \in NewKeys(p)
        PROVE  n = p <=> n \in Infos(input.pkgs)
    <3>1. ASSUME n \in Infos(input.pkgs), n # p
          PROVE  FALSE
      <4>1. n \in pending
        BY <1>3, <3>1 DEF Added
      <4>2. n = p
        BY <1>3, <4>1 DEF AddPackage, InOrder
      <4>3. QED
        BY <3>1, <4>2
    <3>2. QED
      BY <1>1, <3>1
  <2>2. \A n \in NewKeys(p) : tree'[n].leaf = (n = p)
    BY <1>2 DEF NewNode
  <2>3. QED
    BY <1>2, <1>4, <2>1, <2>2 DEF LeavesRight
<1>11. ColoursRight'
  <2>1. \A n : Severity(n)' = Severity(n)
    BY <1>4 DEF Severity, WalkPath, At
  <2>2. \A n \in NewKeys(p) : tree'[n].severity = Severity(n)
    BY <1>2 DEF NewNode
  <2>3. QED
    BY <1>2, <2>1, <2>2 DEF ColoursRight
<1>12. PanelRight' /\ Phases' /\ SearchOwnsKeys' /\ FilterReveals'
  BY <1>4 DEF PanelRight, Phases, SearchOwnsKeys, FilterReveals
<1>13. QED
  BY <1>5, <1>6, <1>7, <1>9, <1>10, <1>11, <1>12

\* The handlers of the event loop rebuild nothing: the nodes, whether they are
\* packages and their colours stay as BuildTree left them.
SameNodes == /\ DOMAIN tree' = DOMAIN tree
             /\ \A n \in DOMAIN tree : /\ tree'[n].leaf = tree[n].leaf
                                       /\ tree'[n].severity = tree[n].severity
                                       /\ tree'[n].expanded \in BOOLEAN
                                       /\ tree'[n] \in [leaf : BOOLEAN, expanded : BOOLEAN,
                                                        severity : {"none", "warning", "error"}]
             /\ UNCHANGED <<input, pending>> /\ pc # "build"

LEMMA SameNodesKeep ==
  ASSUME IInv, SameNodes
  PROVE  /\ IsTree' /\ Deep' /\ Added' /\ LeavesRight' /\ ColoursRight'
         /\ \A n \in DOMAIN tree : Update(n)' = Update(n)
         /\ \A n \in DOMAIN tree' : tree'[n] \in [leaf : BOOLEAN, expanded : BOOLEAN,
                                                  severity : {"none", "warning", "error"}]
<1> USE DEF IInv, SameNodes
<1>1. IsTree'
  BY DEF IsTree
<1>2. Deep'
  BY DEF Deep
<1>3. Added'
  BY DEF Added
<1>4. LeavesRight'
  BY DEF LeavesRight
<1>5. \A n : Severity(n)' = Severity(n)
  BY DEF Severity, WalkPath, At
<1>6. ColoursRight'
  BY <1>5 DEF ColoursRight
<1>7. \A n \in DOMAIN tree : Update(n)' = Update(n)
  BY DEF Update, RenderLeaf, RenderGroup, WalkPath, At
<1>8. QED
  BY <1>1, <1>2, <1>3, <1>4, <1>6, <1>7

\* What the panel shows stays right while the nodes and the panel stay.
LEMMA PanelKeeps ==
  ASSUME IInv, SameNodes, UNCHANGED panel
  PROVE  PanelRight'
<1>1. panel.node \in DOMAIN tree /\ PanelRight
  BY DEF IInv, TypeOK
<1>2. tree'[panel.node].leaf = tree[panel.node].leaf /\ UNCHANGED input
  BY <1>1 DEF SameNodes
<1>3. QED
  BY <1>1, <1>2 DEF PanelRight, Update, RenderLeaf, RenderGroup, WalkPath, At

\* A step that leaves the tree alone.
LEMMA SameTree ==
  ASSUME IInv, UNCHANGED <<input, pending, tree>>, pc # "build"
  PROVE  SameNodes
BY DEF IInv, TypeOK, SameNodes

LEMMA BuiltInvariant ==
  ASSUME IInv, Built
  PROVE  IInv'
<1> USE DEF IInv
<1>1. /\ UNCHANGED <<input, pending, tree, current, panel>> /\ pending = {} /\ pc' = "select" /\ pc = "build"
      /\ focus' = focus /\ searchVisible' = searchVisible /\ detailFocused' = detailFocused
      /\ query' = query
  BY DEF Built, search
<1>2. TypeOK' /\ IsTree' /\ Deep' /\ Added' /\ LeavesRight'
  BY <1>1 DEF TypeOK, IsTree, Deep, Added, LeavesRight
<1>3. \A n : Severity(n)' = Severity(n)
  BY <1>1 DEF Severity, WalkPath, At
<1>4. ColoursRight'
  BY <1>1, <1>3 DEF ColoursRight
<1>5. PanelRight' /\ Phases' /\ SearchOwnsKeys' /\ FilterReveals'
  BY <1>1 DEF PanelRight, Phases, SearchOwnsKeys, FilterReveals
<1>6. QED
  BY <1>2, <1>4, <1>5

\* Tab, /, Enter, q and Ctrl-C move the focus or stop; the tree, the cursor and
\* the panel stay, and no query is set while the event loop serves keys.
LEMMA FocusInvariant ==
  ASSUME IInv, Tab \/ Stop \/ OpenSearch \/ Accept
  PROVE  IInv'
<1> USE DEF IInv
<1>1. /\ UNCHANGED <<input, pending, tree, current, panel, query>> /\ pc = "select"
      /\ pc' \in {"select", "stopped"}
      /\ focus' \in {"tree", "detail", "search"} /\ searchVisible' \in BOOLEAN
      /\ detailFocused' \in BOOLEAN /\ SearchOwnsKeys'
  <2>1. CASE Tab
    BY <2>1 DEF Tab, TypeOK, SearchOwnsKeys
  <2>2. CASE Stop
    BY <2>2 DEF Stop, search, TypeOK, SearchOwnsKeys
  <2>3. CASE OpenSearch
    BY <2>3 DEF OpenSearch, TypeOK, SearchOwnsKeys
  <2>4. CASE Accept
    BY <2>4 DEF Accept, CloseSearch, TypeOK, SearchOwnsKeys
  <2>5. QED
    BY <2>1, <2>2, <2>3, <2>4
<1>2. SameNodes
  BY <1>1, SameTree
<1>3. IsTree' /\ Deep' /\ Added' /\ LeavesRight' /\ ColoursRight'
  BY <1>2, SameNodesKeep
<1>4. TypeOK'
  BY <1>1 DEF TypeOK
<1>5. PanelRight'
  BY <1>1, <1>2, PanelKeeps
<1>6. query = NoQuery
  BY <1>1 DEF Phases
<1>7. Phases' /\ FilterReveals'
  BY <1>1, <1>6 DEF Phases, FilterReveals
<1>8. QED
  BY <1>1, <1>3, <1>4, <1>5, <1>7

\* The cursor moves and the panel shows the node it reaches.
LEMMA MoveInvariant ==
  ASSUME IInv, NEW n \in DOMAIN tree, Move(n)
  PROVE  IInv'
<1> USE DEF IInv
<1>1. /\ UNCHANGED <<input, pc, pending, tree, focus, searchVisible, detailFocused, query>>
      /\ pc = "select" /\ current' = n /\ panel' = Update(n)
  BY DEF Move, search
<1>2. SameNodes
  BY <1>1, SameTree
<1>3. IsTree' /\ Deep' /\ Added' /\ LeavesRight' /\ ColoursRight' /\ Update(n)' = Update(n)
  BY <1>2, SameNodesKeep
<1>4. panel'.node = n /\ panel'.shown /\ panel'.listed \subseteq input.viols
  <2>1. WalkPath(n) \subseteq input.viols /\ At(n) \subseteq input.viols
    BY GreenWalks
  <2>2. QED
    BY <1>1, <2>1 DEF Update, RenderLeaf, RenderGroup
<1>5. TypeOK'
  BY <1>1, <1>4 DEF TypeOK
<1>6. PanelRight'
  BY <1>1, <1>3, <1>4 DEF PanelRight
<1>7. Phases' /\ SearchOwnsKeys' /\ FilterReveals'
  BY <1>1 DEF Phases, SearchOwnsKeys, FilterReveals
<1>8. QED
  BY <1>3, <1>5, <1>6, <1>7

\* Enter on a node opens or closes it.
LEMMA ToggleInvariant ==
  ASSUME IInv, Toggle
  PROVE  IInv'
<1> USE DEF IInv
<1>1. /\ UNCHANGED <<input, pc, pending, current, panel, focus, searchVisible, detailFocused, query>>
      /\ pc = "select" /\ tree' = [tree EXCEPT ![current].expanded = ~@]
  BY DEF Toggle, search
<1>2. SameNodes
  BY <1>1 DEF SameNodes, TypeOK
<1>3. IsTree' /\ Deep' /\ Added' /\ LeavesRight' /\ ColoursRight'
  BY <1>2, SameNodesKeep
<1>4. TypeOK'
  BY <1>1, <1>2, SameNodesKeep DEF TypeOK, SameNodes
<1>5. PanelRight'
  BY <1>1, <1>2, PanelKeeps
<1>6. query = NoQuery
  BY <1>1 DEF Phases
<1>7. Phases' /\ SearchOwnsKeys' /\ FilterReveals'
  BY <1>1, <1>6 DEF Phases, SearchOwnsKeys, FilterReveals
<1>8. QED
  BY <1>3, <1>4, <1>5, <1>7

\* A filter decides which nodes are expanded, and nothing else.
LEMMA FilterKeeps ==
  ASSUME IInv, NEW q, tree' = Filtered(q), UNCHANGED <<input, pending>>, pc # "build"
  PROVE  /\ SameNodes
         /\ ~q.empty => \A n \in DOMAIN tree : tree'[n].expanded = Found(q)[n]
<1> USE DEF IInv
<1>1. /\ DOMAIN tree' = DOMAIN tree
      /\ \A n \in DOMAIN tree :
            tree'[n] = [tree[n] EXCEPT !.expanded = IF q.empty THEN TRUE ELSE Found(q)[n]]
  BY DEF Filtered
<1>2. \A n \in DOMAIN tree : Found(q)[n] \in BOOLEAN
  BY FoundExact
<1>3. \A n \in DOMAIN tree : tree[n] \in [leaf : BOOLEAN, expanded : BOOLEAN,
                                          severity : {"none", "warning", "error"}]
  BY DEF TypeOK
<1>4. \A n \in DOMAIN tree :
         /\ tree'[n].leaf = tree[n].leaf /\ tree'[n].severity = tree[n].severity
         /\ tree'[n].expanded = IF q.empty THEN TRUE ELSE Found(q)[n]
         /\ tree'[n].expanded \in BOOLEAN
         /\ tree'[n] \in [leaf : BOOLEAN, expanded : BOOLEAN, severity : {"none", "warning", "error"}]
  <2> SUFFICES ASSUME NEW n \in DOMAIN tree
               PROVE  LET t == tree'[n] IN
                      /\ t.leaf = tree[n].leaf /\ t.severity = tree[n].severity
                      /\ t.expanded = IF q.empty THEN TRUE ELSE Found(q)[n]
                      /\ t.expanded \in BOOLEAN
                      /\ t \in [leaf : BOOLEAN, expanded : BOOLEAN, severity : {"none", "warning", "error"}]
    OBVIOUS
  <2> DEFINE e == IF q.empty THEN TRUE ELSE Found(q)[n]
             t == tree'[n]
             old == tree[n]
  <2>1. e \in BOOLEAN
    BY <1>2
  <2>2. t = [old EXCEPT !.expanded = e]
    BY <1>1
  <2>3. old \in [leaf : BOOLEAN, expanded : BOOLEAN, severity : {"none", "warning", "error"}]
    BY <1>3
  <2> HIDE DEF e, t, old
  <2>4. /\ t.leaf = old.leaf /\ t.severity = old.severity /\ t.expanded = e
        /\ t \in [leaf : BOOLEAN, expanded : BOOLEAN, severity : {"none", "warning", "error"}]
    BY <2>1, <2>2, <2>3
  <2>5. QED
    BY <2>1, <2>4 DEF e, t, old
<1>5. QED
  BY <1>1, <1>4 DEF SameNodes

\* A key typed into the search field filters: a match is below expanded nodes
\* only, and what is expanded has a match at or below it.
LEMMA TypeInvariant ==
  ASSUME IInv, NEW q \in Queries, Type(q)
  PROVE  IInv'
<1> USE DEF IInv
<1>1. /\ UNCHANGED <<input, pending, current, panel, focus, searchVisible, detailFocused>>
      /\ pc = "select" /\ pc' = "waiting" /\ query' = q /\ tree' = Filtered(q) /\ ~q.empty
  BY DEF Type, FilterTree, Draw, Queries
<1>2. SameNodes /\ \A n \in DOMAIN tree : tree'[n].expanded = Found(q)[n]
  BY <1>1, FilterKeeps
<1>3. IsTree' /\ Deep' /\ Added' /\ LeavesRight' /\ ColoursRight'
  BY <1>2, SameNodesKeep
<1>4. TypeOK'
  BY <1>1, <1>2, SameNodesKeep DEF TypeOK, SameNodes
<1>5. PanelRight'
  BY <1>1, <1>2, PanelKeeps
<1>6. Phases' /\ SearchOwnsKeys'
  BY <1>1 DEF Phases, SearchOwnsKeys
<1>7. ASSUME NEW n \in DOMAIN tree, Matches(n, q), NEW m \in DOMAIN tree, Below(m, n)
      PROVE  tree'[m].expanded
  BY <1>2, <1>7, FoundExact DEF MatchBelow
<1>8. ASSUME NEW n \in DOMAIN tree, tree'[n].expanded
      PROVE  \E m \in DOMAIN tree : Below(n, m) /\ Matches(m, q)
  BY <1>2, <1>8, FoundExact DEF MatchBelow
<1>9. FilterReveals'
  BY <1>1, <1>2, <1>7, <1>8 DEF FilterReveals, Shown, SameNodes
<1>10. QED
  BY <1>3, <1>4, <1>5, <1>6, <1>9

\* Escape closes the field and expands everything.
LEMMA CancelInvariant ==
  ASSUME IInv, Cancel
  PROVE  IInv'
<1> USE DEF IInv
<1>1. /\ UNCHANGED <<input, pending, current, panel, detailFocused>> /\ pc = "select" /\ pc' = "waiting"
      /\ query' = NoQuery /\ tree' = Filtered(NoQuery)
      /\ searchVisible' = FALSE /\ focus' = "tree"
  BY DEF Cancel, CloseSearch, FilterTree, Draw
<1>2. SameNodes
  BY <1>1, FilterKeeps
<1>3. IsTree' /\ Deep' /\ Added' /\ LeavesRight' /\ ColoursRight'
  BY <1>2, SameNodesKeep
<1>4. TypeOK'
  BY <1>1, <1>2, SameNodesKeep DEF TypeOK, SameNodes
<1>5. PanelRight'
  BY <1>1, <1>2, PanelKeeps
<1>6. Phases' /\ SearchOwnsKeys' /\ FilterReveals'
  BY <1>1 DEF Phases, SearchOwnsKeys, FilterReveals
<1>7. QED
  BY <1>3, <1>4, <1>5, <1>6

-------------------------------------------------------------------------------
LEMMA StepInvariant == IInv /\ [Next]_vars => IInv'
<1> SUFFICES ASSUME IInv, [Next]_vars PROVE IInv'
  OBVIOUS
<1>1. ASSUME NEW p \in pending, AddPackage(p) PROVE IInv'
  BY <1>1, AddPackageInvariant
<1>2. CASE Built
  BY <1>2, BuiltInvariant
<1>3. CASE Tab \/ Stop \/ OpenSearch \/ Accept
  BY <1>3, FocusInvariant
<1>4. CASE Toggle
  BY <1>4, ToggleInvariant
<1>5. CASE Cancel
  BY <1>5, CancelInvariant
<1>6. ASSUME NEW n \in DOMAIN tree, Move(n) PROVE IInv'
  BY <1>6, MoveInvariant
<1>7. ASSUME NEW q \in Queries, Type(q) PROVE IInv'
  BY <1>7, TypeInvariant
<1>8. CASE UNCHANGED vars
  <2>1. UNCHANGED <<input, pc, pending, tree, current, panel, focus, searchVisible, detailFocused, query>>
    BY <1>8 DEF vars
  <2>2. TypeOK' /\ IsTree' /\ Deep' /\ Added' /\ LeavesRight' /\ ColoursRight'
    BY <2>1 DEF IInv, TypeOK, IsTree, Deep, Added, LeavesRight, ColoursRight,
                Severity, WalkPath, At
  <2>3. PanelRight' /\ Phases' /\ SearchOwnsKeys'
    BY <2>1 DEF IInv, PanelRight, Phases, SearchOwnsKeys, Update, RenderLeaf, RenderGroup,
                WalkPath, At
  <2>4. FilterReveals'
    BY <2>1 DEF IInv, FilterReveals, Shown
  <2>5. QED
    BY <2>2, <2>3, <2>4 DEF IInv
<1>9. QED
  BY <1>1, <1>2, <1>3, <1>4, <1>5, <1>6, <1>7, <1>8 DEF Next

LEMMA InvariantHolds == Spec => []IInv
BY InitInvariant, StepInvariant, PTL DEF Spec

\* Types of the viewer's state; the cursor and the panel stay on nodes that the
\* tree has, whatever the filter does to it.
THEOREM ViewerTypeOK == Spec => []TypeOK
<1>1. IInv => TypeOK
  BY DEF IInv
<1>2. QED
  BY <1>1, InvariantHolds, PTL

\* The search field is visible exactly while it has the focus, so the capture
\* function of Run gives every key to the right handler.
THEOREM SearchAlwaysOwnsKeys == Spec => []SearchOwnsKeys
<1>1. IInv => SearchOwnsKeys
  BY DEF IInv
<1>2. QED
  BY <1>1, InvariantHolds, PTL

\* For any packages, in any order that lists a path before the paths below it,
\* BuildTree makes exactly the packages leaves and loses none.
THEOREM PackagesAreAlwaysLeaves == Spec => []PackagesAreLeaves
<1>1. IInv => PackagesAreLeaves
  BY DEF IInv, Phases, Added, LeavesRight, PackagesAreLeaves
<1>2. QED
  BY <1>1, InvariantHolds, PTL

\* The colour computed when the tree is built agrees with what the panel lists
\* when the cursor arrives.
THEOREM GreenIsAlwaysClean == Spec => []GreenIsClean
<1>1. ASSUME IInv, panel.shown, panel.node # Root
      PROVE  /\ tree[panel.node].severity = "none" => panel.listed = {}
             /\ ~tree[panel.node].leaf /\ panel.listed = {} => tree[panel.node].severity = "none"
  <2> DEFINE n == panel.node
  <2>1. n \in DOMAIN tree \ {Root} /\ TypeOK /\ Phases
    BY <1>1 DEF IInv, TypeOK
  <2>2. tree[n].severity = Severity(n)
    BY <1>1, <2>1 DEF IInv, ColoursRight
  <2>3. panel.listed = IF tree[n].leaf THEN At(n) ELSE WalkPath(n)
    BY <1>1 DEF IInv, PanelRight, Update, RenderLeaf, RenderGroup
  <2>4. (Severity(n) = "none" <=> WalkPath(n) = {}) /\ At(n) \subseteq WalkPath(n)
    BY <2>1, GreenWalks
  <2> HIDE DEF n
  <2>5. /\ tree[n].severity = "none" => panel.listed = {}
        /\ ~tree[n].leaf /\ panel.listed = {} => tree[n].severity = "none"
    BY <2>2, <2>3, <2>4
  <2>6. QED
    BY <2>5 DEF n
<1>2. IInv => GreenIsClean
  BY <1>1 DEF GreenIsClean
<1>3. QED
  BY <1>2, InvariantHolds, PTL

\* After any query on any tree every match can be seen, and no node is left
\* expanded around no match.
THEOREM FilterAlwaysReveals == Spec => []FilterReveals
<1>1. IInv => FilterReveals
  BY DEF IInv
<1>2. QED
  BY <1>1, InvariantHolds, PTL

====
