--------------------------- MODULE BlastRadius_proofs ---------------------------
(***************************************************************************)
(* For every project: the search of BlastRadius counts each package's full *)
(* reverse-reachable set, and what the threshold lets through is few, hot, *)
(* and closed under imports.  The viewer's search, one round for each      *)
(* distance, has seen that set after as many rounds as there are packages. *)
(***************************************************************************)
EXTENDS Metrics, NatLemmas

-------------------------------------------------------------------------------
(* The sorted sequence of a function with natural values *)

AtMost(td, v) == {p \in DOMAIN td : td[p] <= v}
LessThanV(td, v) == {p \in DOMAIN td : td[p] < v}

\* A nonempty set that holds whatever is below one of its elements is what its
\* topmost element is above.
LEMMA TopOfDownset ==
    ASSUME NEW D, IsFiniteSet(D), NEW td \in [D -> Nat], NEW U, U \subseteq D, U # {},
           \A p \in U, q \in D : td[q] <= td[p] => q \in U
    PROVE  \E p \in U : U = AtMost(td, td[p])
<1> DEFINE rank(p) == Cardinality(AtMost(td, td[p]))
           n == Cardinality(D)
<1>1. n \in Nat /\ \A S : S \subseteq D => IsFiniteSet(S) /\ Cardinality(S) \in Nat /\ Cardinality(S) <= n
    BY FS_Subset, FS_CardinalityType
<1>2. ASSUME NEW p \in D
      PROVE  rank(p) \in 1..n
    <2>1. AtMost(td, td[p]) \subseteq D /\ p \in AtMost(td, td[p])
        BY DEF AtMost
    <2>2. Cardinality(AtMost(td, td[p])) # 0
        BY <1>1, <2>1, FS_EmptySet
    <2> QED BY <1>1, <2>1, <2>2
<1>3. PICK r \in {rank(p) : p \in U} : \A s \in {rank(p) : p \in U} : s <= r
    <2>1. {rank(p) : p \in U} \subseteq 1..n
        BY <1>2
    <2>2. {rank(p) : p \in U} # {}
        OBVIOUS
    <2> HIDE DEF rank, n
    <2> QED BY <1>1, <2>1, <2>2, GreatestElement
<1>4. PICK p \in U : r = rank(p)
    BY <1>3
<1>5. AtMost(td, td[p]) \subseteq U
    BY <1>4 DEF AtMost
<1>6. ASSUME NEW q \in U, q \notin AtMost(td, td[p])
      PROVE  FALSE
    <2>1. td[p] \in Nat /\ td[q] \in Nat /\ td[q] > td[p] /\ q \in D
        BY <1>4, <1>6 DEF AtMost
    <2>2. AtMost(td, td[p]) \subseteq AtMost(td, td[q]) /\ q \in AtMost(td, td[q])
        BY <2>1 DEF AtMost
    <2>3. AtMost(td, td[q]) \subseteq D /\ IsFiniteSet(AtMost(td, td[q]))
        BY <1>1 DEF AtMost
    <2>4. Cardinality(AtMost(td, td[p])) < Cardinality(AtMost(td, td[q]))
        <3>1. AtMost(td, td[p]) # AtMost(td, td[q])
            BY <1>6, <2>2
        <3> QED BY <1>1, <2>2, <2>3, <3>1, FS_Subset
    <2>5. rank(q) <= rank(p)
        BY <1>3, <1>4
    <2>6. rank(p) \in Nat /\ rank(q) \in Nat
        BY <1>2, <1>4, <2>1
    <2> QED BY <2>4, <2>5, <2>6
<1> QED BY <1>4, <1>5, <1>6

\* Every rank has its value.
LEMMA RankHasValue ==
    ASSUME NEW D, IsFiniteSet(D), NEW td \in [D -> Nat], NEW i \in 1..Cardinality(D)
    PROVE  \E v \in {td[p] : p \in D} :
               Cardinality(LessThanV(td, v)) < i /\ Cardinality(AtMost(td, v)) >= i
<1> DEFINE n == Cardinality(D)
           A == {v \in {td[p] : p \in D} : Cardinality(AtMost(td, v)) >= i}
<1>1. n \in Nat /\ i \in Nat /\ i > 0 /\ i <= n
    BY FS_CardinalityType
<1>2. A # {}
    <2>1. D # {}
        BY <1>1, FS_EmptySet
    <2>2. PICK p \in D : D = AtMost(td, td[p])
        BY <2>1, TopOfDownset
    <2> QED BY <1>1, <2>2
<1>3. PICK v \in A : \A w \in A : v <= w
    <2>1. A \subseteq Nat
        OBVIOUS
    <2> HIDE DEF A
    <2> QED BY <1>2, <2>1, LeastElement
<1>4. v \in Nat
    OBVIOUS
<1>5. Cardinality(LessThanV(td, v)) < i
    <2>1. CASE LessThanV(td, v) = {}
        BY <1>1, <2>1, FS_EmptySet
    <2>2. CASE LessThanV(td, v) # {}
        <3>1. PICK p \in LessThanV(td, v) : LessThanV(td, v) = AtMost(td, td[p])
            <4>1. LessThanV(td, v) \subseteq D
                BY DEF LessThanV
            <4>2. \A p \in LessThanV(td, v), q \in D : td[q] <= td[p] => q \in LessThanV(td, v)
                BY <1>4 DEF LessThanV
            <4> QED BY <2>2, <4>1, <4>2, TopOfDownset
        <3>2. td[p] \in Nat /\ td[p] < v /\ p \in D
            BY <3>1 DEF LessThanV
        <3>3. td[p] \notin A
            BY <1>3, <1>4, <3>2
        <3>4. ~(Cardinality(AtMost(td, td[p])) >= i)
            BY <3>2, <3>3
        <3>5. Cardinality(AtMost(td, td[p])) \in Nat
            <4>1. AtMost(td, td[p]) \subseteq D
                BY DEF AtMost
            <4> QED BY <4>1, FS_Subset, FS_CardinalityType
        <3> QED BY <1>1, <3>1, <3>4, <3>5
    <2> QED BY <2>1, <2>2
<1> QED BY <1>3, <1>5

\* The sorted values, their ranks and their order.
LEMMA SortedFacts ==
    ASSUME NEW D, IsFiniteSet(D), NEW td \in [D -> Nat]
    PROVE  /\ Cardinality(D) \in Nat
           /\ Sorted(td) \in [1..Cardinality(D) -> Nat]
           /\ \A i \in 1..Cardinality(D) :
                  /\ Sorted(td)[i] \in {td[p] : p \in D}
                  /\ Cardinality(AtMost(td, Sorted(td)[i])) >= i
           /\ \A i, j \in 1..Cardinality(D) : i <= j => Sorted(td)[i] <= Sorted(td)[j]
<1> DEFINE n == Cardinality(D)
           s == Sorted(td)
<1>1. n \in Nat
    BY FS_CardinalityType
<1>2. DOMAIN s = 1..n
    BY DEF Sorted
<1>3. ASSUME NEW i \in 1..n
      PROVE  /\ s[i] \in {td[p] : p \in D}
             /\ Cardinality(LessThanV(td, s[i])) < i
             /\ Cardinality(AtMost(td, s[i])) >= i
    <2>1. s[i] = CHOOSE v \in {td[p] : p \in D} :
                     Cardinality(LessThanV(td, v)) < i /\ Cardinality(AtMost(td, v)) >= i
        BY DEF Sorted, LessThanV, AtMost
    <2> QED BY <2>1, RankHasValue
<1>4. ASSUME NEW v
      PROVE  /\ Cardinality(AtMost(td, v)) \in Nat
             /\ Cardinality(LessThanV(td, v)) \in Nat
             /\ IsFiniteSet(LessThanV(td, v))
    <2>1. AtMost(td, v) \subseteq D /\ LessThanV(td, v) \subseteq D
        BY DEF AtMost, LessThanV
    <2> QED BY <2>1, FS_Subset, FS_CardinalityType
<1>5. s \in [1..n -> Nat]
    <2>1. \A i \in 1..n : s[i] \in Nat
        BY <1>3
    <2> DEFINE value(i) == CHOOSE v \in {td[p] : p \in DOMAIN td} :
                               /\ Cardinality({p \in DOMAIN td : td[p] < v}) < i
                               /\ Cardinality({p \in DOMAIN td : td[p] <= v}) >= i
    <2>2. s = [i \in 1..Cardinality(DOMAIN td) |-> value(i)]
        BY DEF Sorted
    <2>3. s = [i \in 1..n |-> value(i)]
        BY <2>2
    <2> HIDE DEF s, n, value
    <2> QED BY <2>1, <2>3
<1>6. ASSUME NEW i \in 1..n, NEW j \in 1..n, i <= j, ~(s[i] <= s[j])
      PROVE  FALSE
    <2>1. s[i] \in Nat /\ s[j] \in Nat /\ s[j] < s[i]
        BY <1>5, <1>6
    <2>2. AtMost(td, s[j]) \subseteq LessThanV(td, s[i])
        <3>1. \A p \in D : td[p] \in Nat
            OBVIOUS
        <3> HIDE DEF s
        <3> QED BY <2>1, <3>1 DEF AtMost, LessThanV
    <2>3. Cardinality(AtMost(td, s[j])) <= Cardinality(LessThanV(td, s[i]))
        BY <1>4, <2>2, FS_Subset
    <2>4. Cardinality(LessThanV(td, s[i])) < i /\ Cardinality(AtMost(td, s[j])) >= j
        BY <1>3
    <2> HIDE DEF s
    <2> QED BY <1>1, <1>4, <1>6, <2>3, <2>4
<1> QED BY <1>1, <1>3, <1>5, <1>6

\* An interpolated value lies between its neighbours.
LEMMA Between ==
    ASSUME NEW a \in Nat, NEW b \in Nat, a <= b, NEW d \in 0..3
    PROVE  /\ a * (4 - d) + b * d \in Nat
           /\ 4 * a <= a * (4 - d) + b * d
           /\ a * (4 - d) + b * d <= 4 * b
<1>1. CASE d = 0
    <2>1. a * (4 - d) + b * d = 4 * a
        BY <1>1
    <2> QED BY <2>1
<1>2. CASE d = 1
    <2>1. a * (4 - d) + b * d = 3 * a + b
        BY <1>2
    <2> QED BY <2>1
<1>3. CASE d = 2
    <2>1. a * (4 - d) + b * d = 2 * a + 2 * b
        BY <1>3
    <2> QED BY <2>1
<1>4. CASE d = 3
    <2>1. a * (4 - d) + b * d = a + 3 * b
        BY <1>4
    <2> QED BY <2>1
<1> QED BY <1>1, <1>2, <1>3, <1>4

\* The upper quartile is not below the value of its rank nor below the lower
\* quartile.
LEMMA QuartileFacts ==
    ASSUME NEW n \in Nat, n >= MinPackages, NEW s \in [1..n -> Nat],
           \A i, j \in 1..n : i <= j => s[i] <= s[j]
    PROVE  /\ Quartile(s, 1) \in Nat /\ Quartile(s, 3) \in Nat
           /\ Quartile(s, 1) <= Quartile(s, 3)
           /\ \E f \in Nat : /\ f + 1 \in 1..n /\ 4 * f >= 3 * (n - 1) - 3
                             /\ Quartile(s, 3) >= 4 * s[f + 1]
<1>1. Cardinality(DOMAIN s) = n
    BY FS_Interval
<1> DEFINE f1 == (n - 1) \div 4
           d1 == (n - 1) % 4
           f3 == (3 * (n - 1)) \div 4
           d3 == (3 * (n - 1)) % 4
<1>2. n - 1 \in Nat /\ 3 * (n - 1) \in Nat /\ n >= 5
    BY DEF MinPackages
<1>3. f1 \in Nat /\ d1 \in 0..3 /\ n - 1 = 4 * f1 + d1
    BY <1>2
<1>4. f3 \in Nat /\ d3 \in 0..3 /\ 3 * (n - 1) = 4 * f3 + d3
    BY <1>2
<1> HIDE DEF f1, d1, f3, d3
<1>5. f1 + 2 <= f3 + 1 /\ f3 + 1 <= n /\ f1 + 1 < n
    BY <1>2, <1>3, <1>4
<1>6. Quartile(s, 1) = s[f1 + 1] * (4 - d1) + s[f1 + 2] * d1
    <2>1. 1 * (n - 1) = n - 1 /\ ~(f1 + 1 >= n)
        BY <1>2, <1>3, <1>5
    <2> QED BY <1>1, <2>1 DEF Quartile, f1, d1
<1>7. Quartile(s, 3) = IF f3 + 1 >= n THEN 4 * s[f3 + 1] ELSE s[f3 + 1] * (4 - d3) + s[f3 + 2] * d3
    BY <1>1, <1>2, <1>4 DEF Quartile, f3, d3
<1>8. /\ s[f1 + 1] \in Nat /\ s[f1 + 2] \in Nat /\ s[f3 + 1] \in Nat
      /\ s[f1 + 1] <= s[f1 + 2] /\ s[f1 + 2] <= s[f3 + 1]
    BY <1>2, <1>3, <1>4, <1>5
<1>9. Quartile(s, 1) \in Nat /\ Quartile(s, 1) <= 4 * s[f3 + 1]
    <2>1. Quartile(s, 1) \in Nat /\ Quartile(s, 1) <= 4 * s[f1 + 2]
        BY <1>3, <1>6, <1>8, Between
    <2> QED BY <1>8, <2>1
<1>10. Quartile(s, 3) \in Nat /\ Quartile(s, 3) >= 4 * s[f3 + 1]
    <2>1. CASE f3 + 1 >= n
        BY <1>7, <1>8, <2>1
    <2>2. CASE ~(f3 + 1 >= n)
        <3>1. s[f3 + 2] \in Nat /\ s[f3 + 1] <= s[f3 + 2]
            BY <1>2, <1>4, <2>2
        <3>2. Quartile(s, 3) = s[f3 + 1] * (4 - d3) + s[f3 + 2] * d3
            BY <1>7, <2>2
        <3>3. /\ s[f3 + 1] * (4 - d3) + s[f3 + 2] * d3 \in Nat
              /\ 4 * s[f3 + 1] <= s[f3 + 1] * (4 - d3) + s[f3 + 2] * d3
            BY <1>4, <1>8, <3>1, Between
        <3> QED BY <1>8, <3>2, <3>3
    <2> QED BY <2>1, <2>2
<1>11. f3 + 1 \in 1..n /\ 4 * f3 >= 3 * (n - 1) - 3
    BY <1>2, <1>4, <1>5
<1> QED BY <1>4, <1>8, <1>9, <1>10, <1>11

\* What a threshold is above, when there is one.
LEMMA ThresholdFacts ==
    ASSUME NEW n \in Nat, n >= MinPackages, NEW s \in [1..n -> Nat],
           \A i, j \in 1..n : i <= j => s[i] <= s[j], Threshold(s) # NoThreshold
    PROVE  /\ Threshold(s) \in Nat /\ Threshold(s) >= 2 * Quartile(s, 3)
           /\ \/ Threshold(s) >= 16
              \/ s[n] >= 3 /\ 4 * s[n] > Quartile(s, 3) /\ Threshold(s) = 2 * Quartile(s, 3)
<1>1. Cardinality(DOMAIN s) = n
    BY FS_Interval
<1>2. n \in 1..n /\ s[n] \in Nat
    BY DEF MinPackages
<1>3. Quartile(s, 1) \in Nat /\ Quartile(s, 3) \in Nat /\ Quartile(s, 1) <= Quartile(s, 3)
    BY QuartileFacts
<1> DEFINE q3 == Quartile(s, 3)
           iqr == q3 - Quartile(s, 1)
<1>4. Threshold(s) = IF iqr = 0
                     THEN IF 4 * s[n] <= q3 \/ s[n] < 3 THEN NoThreshold ELSE 2 * q3
                     ELSE IF 2 * q3 + 3 * iqr < 16 THEN 16 ELSE 2 * q3 + 3 * iqr
    BY <1>1 DEF Threshold
<1>5. iqr \in Nat /\ q3 \in Nat
    BY <1>3
<1> HIDE DEF q3, iqr
<1>6. CASE iqr = 0
    <2>1. ~(4 * s[n] <= q3) /\ ~(s[n] < 3) /\ Threshold(s) = 2 * q3
        BY <1>4, <1>6
    <2> QED BY <1>2, <1>5, <2>1 DEF q3
<1>7. CASE iqr # 0
    <2>1. Threshold(s) = IF 2 * q3 + 3 * iqr < 16 THEN 16 ELSE 2 * q3 + 3 * iqr
        BY <1>4, <1>7
    <2> QED BY <1>5, <2>1 DEF q3
<1> QED BY <1>6, <1>7

\* The outliers are few, hot, and closed upwards.
LEMMA OutlierFacts ==
    ASSUME NEW D, IsFiniteSet(D), NEW td \in [D -> Nat], Cardinality(D) >= MinPackages
    PROVE  /\ Outliers(td) \subseteq D
           /\ \A p \in Outliers(td), q \in D : td[p] <= td[q] => q \in Outliers(td)
           /\ Outliers(td) # {} => \E p \in Outliers(td) : td[p] >= 3
           /\ 4 * Cardinality(Outliers(td)) <= Cardinality(D) + 2
<1> DEFINE n == Cardinality(D)
           s == Sorted(td)
           t == Threshold(s)
<1>1. /\ n \in Nat /\ s \in [1..n -> Nat]
      /\ \A i \in 1..n : s[i] \in {td[p] : p \in D} /\ Cardinality(AtMost(td, s[i])) >= i
      /\ \A i, j \in 1..n : i <= j => s[i] <= s[j]
    BY SortedFacts
<1>2. Outliers(td) = IF t = NoThreshold THEN {} ELSE {p \in D : 8 * td[p] > t}
    BY DEF Outliers
<1>3. n >= MinPackages
    OBVIOUS
<1> HIDE DEF n, s, t
<1>4. CASE t = NoThreshold
    <2>1. Outliers(td) = {} /\ Cardinality({}) = 0
        BY <1>2, <1>4, FS_EmptySet
    <2> QED BY <1>1, <2>1 DEF n
<1>5. CASE t # NoThreshold
    <2>1. Outliers(td) = {p \in D : 8 * td[p] > t}
        BY <1>2, <1>5
    <2>2. /\ t \in Nat /\ t >= 2 * Quartile(s, 3)
          /\ t >= 16 \/ (s[n] >= 3 /\ 4 * s[n] > Quartile(s, 3) /\ t = 2 * Quartile(s, 3))
        BY <1>1, <1>3, <1>5, ThresholdFacts DEF t
    <2>3. Quartile(s, 3) \in Nat
        BY <1>1, <1>3, QuartileFacts
    <2>4. PICK f \in Nat : f + 1 \in 1..n /\ 4 * f >= 3 * (n - 1) - 3 /\ Quartile(s, 3) >= 4 * s[f + 1]
        BY <1>1, <1>3, QuartileFacts
    <2>5. \A p \in Outliers(td), q \in D : td[p] <= td[q] => q \in Outliers(td)
        BY <2>1, <2>2
    <2>6. Outliers(td) # {} => \E p \in Outliers(td) : td[p] >= 3
        <3>1. CASE t >= 16
            BY <2>1, <2>2, <3>1
        <3>2. CASE s[n] >= 3 /\ 4 * s[n] > Quartile(s, 3) /\ t = 2 * Quartile(s, 3)
            <4>1. n \in 1..n
                BY <1>1, <1>3 DEF MinPackages
            <4>2. PICK p \in D : td[p] = s[n]
                BY <1>1, <4>1
            <4>3. 8 * td[p] > t
                BY <2>2, <2>3, <3>2, <4>2
            <4> QED BY <2>1, <3>2, <4>2, <4>3
        <3> QED BY <2>2, <3>1, <3>2
    <2>7. Outliers(td) \cap AtMost(td, s[f + 1]) = {}
        <3> SUFFICES ASSUME NEW p \in Outliers(td), p \in AtMost(td, s[f + 1])
                     PROVE  FALSE
            OBVIOUS
        <3>1. p \in D /\ td[p] \in Nat /\ 8 * td[p] > t /\ td[p] <= s[f + 1]
            BY <2>1 DEF AtMost
        <3>2. s[f + 1] \in Nat
            BY <1>1, <2>4
        <3> QED BY <2>2, <2>3, <2>4, <3>1, <3>2
    <2>8. Outliers(td) \subseteq D /\ AtMost(td, s[f + 1]) \subseteq D
        BY <2>1 DEF AtMost
    <2>9. Cardinality(Outliers(td)) + Cardinality(AtMost(td, s[f + 1])) <= n
        <3>1. IsFiniteSet(Outliers(td)) /\ IsFiniteSet(AtMost(td, s[f + 1]))
            BY <2>8, FS_Subset
        <3>2. Cardinality(Outliers(td) \cup AtMost(td, s[f + 1]))
                = Cardinality(Outliers(td)) + Cardinality(AtMost(td, s[f + 1]))
                  - Cardinality(Outliers(td) \cap AtMost(td, s[f + 1]))
            BY <3>1, FS_Union
        <3>3. Cardinality(Outliers(td) \cap AtMost(td, s[f + 1])) = 0
            BY <2>7, FS_EmptySet
        <3>4. Cardinality(Outliers(td) \cup AtMost(td, s[f + 1])) <= n
            BY <2>8, FS_Subset DEF n
        <3>5. Cardinality(Outliers(td)) \in Nat /\ Cardinality(AtMost(td, s[f + 1])) \in Nat
            BY <3>1, FS_CardinalityType
        <3> QED BY <3>2, <3>3, <3>4, <3>5
    <2>10. Cardinality(AtMost(td, s[f + 1])) >= f + 1
        BY <1>1, <2>4
    <2>11. Cardinality(Outliers(td)) \in Nat /\ Cardinality(AtMost(td, s[f + 1])) \in Nat
        BY <2>8, FS_Subset, FS_CardinalityType
    <2>12. 4 * Cardinality(Outliers(td)) <= n + 2
        BY <1>1, <2>4, <2>9, <2>10, <2>11
    <2> QED BY <2>5, <2>6, <2>8, <2>12 DEF n
<1> QED BY <1>4, <1>5

-------------------------------------------------------------------------------
(* The search *)

\* The packages of a context are finitely many.
LEMMA InternalFinite ==
    ASSUME input \in Inputs
    PROVE  Internal \subseteq Path /\ IsFiniteSet(Internal)
           /\ \A S : S \subseteq Internal => IsFiniteSet(S) /\ Cardinality(S) \in Nat
<1>1. Internal \subseteq Path /\ IsFiniteSet(Internal)
    BY InputsAssumption, FS_Subset DEF Internal
<1> QED BY <1>1, FS_Subset, FS_CardinalityType

\* What holds of the reverse-reachable sets.
LEMMA ReachingFacts ==
    ASSUME NEW p \in Internal
    PROVE  /\ p \in Reaching(p) /\ Reaching(p) \subseteq Internal
           /\ \A q \in Reaching(p) : Reverse(q) \subseteq Reaching(p)
           /\ \A S \in SUBSET Internal : p \in S /\ Closed(S) => Reaching(p) \subseteq S
<1>1. \A q : Reverse(q) \subseteq Internal
    BY DEF Reverse
<1>2. ASSUME NEW q \in Reaching(p), NEW r \in Reverse(q)
      PROVE  r \in Reaching(p)
    <2>1. r \in Internal
        BY <1>1
    <2>2. ASSUME NEW S \in SUBSET Internal, p \in S, Closed(S)
          PROVE  r \in S
        <3>1. q \in S
            BY <2>2 DEF Reaching
        <3> QED BY <2>2, <3>1 DEF Closed
    <2> QED BY <2>1, <2>2 DEF Reaching
<1> QED BY <1>2 DEF Reaching

\* The context never changes, nor does what is read off it.
LEMMA SameGraph ==
    ASSUME UNCHANGED input
    PROVE  /\ Internal' = Internal
           /\ \A p : Reverse(p)' = Reverse(p)
           /\ \A p : Reaching(p)' = Reaching(p)
<1>1. Internal' = Internal
    BY DEF Internal
<1>2. \A p : Reverse(p)' = Reverse(p)
    BY <1>1 DEF Reverse
<1>3. \A S : Closed(S)' <=> Closed(S)
    BY <1>2 DEF Closed
<1> QED BY <1>1, <1>2, <1>3 DEF Reaching

\* The invariant holds initially.
LEMMA InitInvariant == Init => IInv
<1> SUFFICES ASSUME Init PROVE IInv
    OBVIOUS
<1>1. DOMAIN metrics = {} /\ metrics = [p \in DOMAIN metrics |-> metrics[p]]
    BY DEF Init
<1> QED BY <1>1 DEF Init, IInv, TypeOK, SearchSound, Collected, Exact, Reported

\* Each step keeps the invariant.
LEMMA NextInvariant == IInv /\ [Next]_vars => IInv'
<1> SUFFICES ASSUME IInv, [Next]_vars PROVE IInv'
    OBVIOUS
<1>1. /\ input \in Inputs /\ TypeOK /\ SearchSound /\ Collected /\ Exact /\ Reported
      /\ metrics = [p \in DOMAIN metrics |-> metrics[p]]
    BY DEF IInv
<1>2. /\ IsFiniteSet(Internal)
      /\ \A S : S \subseteq Internal => IsFiniteSet(S) /\ Cardinality(S) \in Nat
      /\ Internal \subseteq Path
    BY <1>1, InternalFinite
<1>3. input' = input
    BY DEF Next, vars, Refuse, Skip, Return, Begin, Search, Expand, Record, Judge
<1>4. /\ Internal' = Internal /\ \A p : Reverse(p)' = Reverse(p)
      /\ \A p : Reaching(p)' = Reaching(p)
    BY <1>3, SameGraph
<1>5. CASE Refuse \/ Skip
    <2>1. /\ pc = "start" /\ pc' = "done"
          /\ warning' \in {"none", "meta.no-matching-packages", "meta.layout-not-supported"}
          /\ UNCHANGED <<todo, pkg, visited, queue, metrics, report>>
        BY <1>5 DEF Refuse, Skip, Return
    <2>2. DOMAIN metrics = {}
        BY <1>1, <2>1 DEF Collected
    <2>3. TypeOK'
        BY <1>1, <1>4, <2>1 DEF TypeOK
    <2>4. SearchSound' /\ Collected' /\ Exact' /\ Reported'
        BY <1>1, <1>4, <2>1, <2>2 DEF SearchSound, Collected, Exact, Reported
    <2> QED BY <1>1, <1>3, <2>1, <2>3, <2>4 DEF IInv
<1>6. CASE Begin
    <2>1. /\ pc = "start" /\ pc' = "collect" /\ todo' = Internal
          /\ Cardinality(Internal) >= MinPackages
          /\ UNCHANGED <<pkg, visited, queue, metrics, report, warning>>
        BY <1>6 DEF Begin
    <2>2. DOMAIN metrics = {}
        BY <1>1, <2>1 DEF Collected
    <2>3. TypeOK'
        BY <1>1, <1>4, <2>1 DEF TypeOK
    <2>4. SearchSound' /\ Collected' /\ Exact' /\ Reported'
        BY <1>1, <1>4, <2>1, <2>2 DEF SearchSound, Collected, Exact, Reported
    <2> QED BY <1>1, <1>3, <2>1, <2>3, <2>4 DEF IInv
<1>7. ASSUME NEW p \in todo, Search(p)
      PROVE  IInv'
    <2>1. /\ pc = "collect" /\ pc' = "search" /\ pkg' = p /\ visited' = {p} /\ queue' = {p}
          /\ UNCHANGED <<todo, metrics, report, warning>>
        BY <1>7 DEF Search
    <2>2. p \in Internal /\ p \in Path
        BY <1>1, <1>2 DEF TypeOK
    <2>3. TypeOK'
        BY <1>1, <1>4, <2>1, <2>2 DEF TypeOK
    <2>4. SearchSound'
        <3>1. p \in Reaching(p)
            BY <2>2, ReachingFacts
        <3> QED BY <1>4, <2>1, <3>1 DEF SearchSound
    <2>5. Collected' /\ Exact' /\ Reported'
        BY <1>1, <1>4, <2>1 DEF Collected, Exact, Reported
    <2> QED BY <1>1, <1>3, <2>1, <2>3, <2>4, <2>5 DEF IInv
<1>8. ASSUME NEW cur \in queue, Expand(cur)
      PROVE  IInv'
    <2>1. /\ pc = "search" /\ visited' = visited \cup Reverse(cur)
          /\ queue' = (queue \ {cur}) \cup (Reverse(cur) \ visited)
          /\ UNCHANGED <<pc, todo, pkg, metrics, report, warning>>
        BY <1>8 DEF Expand
    <2>2. /\ pkg \in todo /\ pkg \in visited /\ visited \subseteq Reaching(pkg)
          /\ \A q \in visited \ queue : Reverse(q) \subseteq visited
          /\ queue \subseteq visited /\ todo \subseteq Internal
        BY <1>1, <2>1 DEF SearchSound, TypeOK
    <2>3. Reverse(cur) \subseteq Internal
        BY DEF Reverse
    <2>4. TypeOK'
        BY <1>1, <1>4, <2>1, <2>3 DEF TypeOK
    <2>5. Reverse(cur) \subseteq Reaching(pkg)
        BY <2>2, ReachingFacts
    <2>6. \A q \in visited' \ queue' : Reverse(q) \subseteq visited'
        BY <2>1, <2>2
    <2>7. SearchSound'
        BY <1>4, <2>1, <2>2, <2>5, <2>6 DEF SearchSound
    <2>8. Collected' /\ Exact' /\ Reported'
        BY <1>1, <1>4, <2>1 DEF Collected, Exact, Reported
    <2> QED BY <1>1, <1>3, <2>1, <2>4, <2>7, <2>8 DEF IInv
<1>9. CASE Record
    <2>1. /\ pc = "search" /\ queue = {} /\ pc' = "collect" /\ todo' = todo \ {pkg}
          /\ metrics' = [p \in DOMAIN metrics \cup {pkg} |->
                            IF p = pkg THEN Cardinality(visited) - 1 ELSE metrics[p]]
          /\ UNCHANGED <<pkg, visited, queue, report, warning>>
        BY <1>9 DEF Record, Count
    <2>2. /\ pkg \in todo /\ pkg \in visited /\ visited \subseteq Reaching(pkg)
          /\ \A q \in visited : Reverse(q) \subseteq visited
          /\ visited \subseteq Internal /\ todo \subseteq Internal /\ pkg \in Internal
        BY <1>1, <2>1 DEF SearchSound, TypeOK
    <2>3. visited = Reaching(pkg)
        <3>1. Closed(visited)
            BY <2>2 DEF Closed
        <3> QED BY <2>2, <3>1, ReachingFacts
    <2>4. Cardinality(visited) - 1 \in Nat
        <3>1. Cardinality(visited) \in Nat /\ Cardinality(visited) # 0
            BY <1>2, <2>2, FS_EmptySet
        <3> QED BY <3>1
    <2>5. /\ DOMAIN metrics' = DOMAIN metrics \cup {pkg}
          /\ \A p \in DOMAIN metrics' : metrics'[p] = IF p = pkg THEN Cardinality(visited) - 1 ELSE metrics[p]
          /\ metrics' = [p \in DOMAIN metrics' |-> metrics'[p]]
        BY <2>1
    <2>6. TypeOK'
        BY <1>1, <1>4, <2>1, <2>2, <2>4, <2>5 DEF TypeOK
    <2>7. Exact'
        BY <1>1, <1>4, <2>3, <2>5 DEF Exact
    <2>8. Collected'
        BY <1>1, <1>4, <2>1, <2>2, <2>5 DEF Collected
    <2>9. SearchSound' /\ Reported'
        BY <1>1, <2>1 DEF SearchSound, Reported
    <2> QED BY <1>1, <1>3, <2>5, <2>6, <2>7, <2>8, <2>9 DEF IInv
<1>10. CASE Judge
    <2>1. /\ pc = "collect" /\ todo = {} /\ pc' = "done" /\ report' = Outliers(metrics)
          /\ UNCHANGED <<todo, pkg, visited, queue, metrics, warning>>
        BY <1>10 DEF Judge
    <2>2. DOMAIN metrics = Internal /\ Cardinality(Internal) >= MinPackages
        BY <1>1, <2>1 DEF Collected
    <2>3. metrics \in [Internal -> Nat]
        BY <1>1, <2>2 DEF TypeOK
    <2>4. Outliers(metrics) \subseteq Internal
        BY <1>2, <2>2, <2>3, OutlierFacts
    <2>5. Internal # {}
        BY <2>2, FS_EmptySet DEF MinPackages
    <2>6. TypeOK'
        BY <1>1, <1>4, <2>1, <2>4 DEF TypeOK
    <2>7. SearchSound' /\ Collected' /\ Exact'
        BY <1>1, <1>4, <2>1, <2>2 DEF SearchSound, Collected, Exact
    <2>8. Reported'
        BY <2>1, <2>2, <2>5 DEF Reported
    <2> QED BY <1>1, <1>3, <2>1, <2>6, <2>7, <2>8 DEF IInv
<1>11. CASE UNCHANGED vars
    <2>1. UNCHANGED vars /\ Outliers(metrics)' = Outliers(metrics)
        BY <1>11 DEF vars, Outliers
    <2>2. TypeOK' /\ SearchSound' /\ Collected' /\ Exact' /\ Reported'
        BY <1>1, <1>4, <2>1 DEF vars, TypeOK, SearchSound, Collected, Exact, Reported
    <2> QED BY <1>1, <2>1, <2>2 DEF vars, IInv
<1> QED BY <1>5, <1>6, <1>7, <1>8, <1>9, <1>10, <1>11 DEF Next

\* The inductive invariant of the search.
THEOREM BlastRadiusInvariant == Spec => []IInv
BY InitInvariant, NextInvariant, PTL DEF Spec

\* Type correctness, for every project.
THEOREM BlastRadiusTypeCorrect == Spec => []TypeOK
<1>1. IInv => TypeOK
    BY DEF IInv
<1> QED BY <1>1, BlastRadiusInvariant, PTL

\* Whatever the order of packages and importers, each package is counted the
\* full set of those that reach it by imports.
THEOREM DependentsAreExact == Spec => []DependentsExact
<1>1. IInv => DependentsExact
    BY DEF IInv, Exact, DependentsExact
<1> QED BY <1>1, BlastRadiusInvariant, PTL

\* What the invariant says of a finished judgement.
LEMMA Judged ==
    ASSUME IInv, pc = "done", DOMAIN metrics # {}
    PROVE  /\ metrics \in [Internal -> Nat] /\ IsFiniteSet(Internal)
           /\ Cardinality(Internal) >= MinPackages /\ report = Outliers(metrics)
           /\ \A p \in Internal : metrics[p] = Cardinality(Reaching(p)) - 1
<1>1. DOMAIN metrics = Internal /\ Cardinality(Internal) >= MinPackages /\ report = Outliers(metrics)
    BY DEF IInv, Collected, Reported
<1>2. metrics \in [Internal -> Nat]
    BY <1>1 DEF IInv, TypeOK
<1> QED BY <1>1, <1>2, InternalFinite DEF IInv, Exact

\* At most a quarter of the packages, rounded up, is ever reported.
THEOREM HotspotsStayFew == Spec => []HotspotsAreFew
<1>1. IInv => HotspotsAreFew
    BY Judged, OutlierFacts DEF HotspotsAreFew
<1> QED BY <1>1, BlastRadiusInvariant, PTL

\* Nothing is reported unless a package with three dependents is.
THEOREM HotspotsStayHot == Spec => []HotspotsAreHot
<1>1. IInv => HotspotsAreHot
    BY Judged, OutlierFacts DEF HotspotsAreHot
<1> QED BY <1>1, BlastRadiusInvariant, PTL

\* The packages a hotspot imports are hotspots.
THEOREM HotspotsAreClosed == Spec => []HotspotsImportHotspots
<1>1. ASSUME IInv, pc = "done", DOMAIN metrics # {},
             NEW p \in report, NEW q \in input.imports[p] \cap Internal
      PROVE  q \in report
    <2>1. /\ metrics \in [Internal -> Nat] /\ IsFiniteSet(Internal)
          /\ Cardinality(Internal) >= MinPackages /\ report = Outliers(metrics)
          /\ \A r \in Internal : metrics[r] = Cardinality(Reaching(r)) - 1
        BY <1>1, Judged
    <2>2. p \in Internal
        BY <2>1, OutlierFacts
    <2>3. p \in Reverse(q)
        BY <2>2 DEF Reverse
    <2>4. Reaching(p) \subseteq Reaching(q) /\ Reaching(q) \subseteq Internal
        <3>1. q \in Reaching(q) /\ Reaching(q) \subseteq Internal /\ Closed(Reaching(q))
            BY ReachingFacts DEF Closed
        <3>2. p \in Reaching(q)
            BY <2>3, <3>1 DEF Closed
        <3> QED BY <2>2, <3>1, <3>2, ReachingFacts
    <2>5. Cardinality(Reaching(p)) <= Cardinality(Reaching(q))
          /\ Cardinality(Reaching(p)) \in Nat /\ Cardinality(Reaching(q)) \in Nat
        BY <2>1, <2>4, FS_Subset, FS_CardinalityType
    <2>6. metrics[p] <= metrics[q]
        BY <2>1, <2>2, <2>5
    <2> QED BY <2>1, <2>2, <2>6, OutlierFacts
<1>2. IInv => HotspotsImportHotspots
    BY <1>1 DEF HotspotsImportHotspots
<1> QED BY <1>2, BlastRadiusInvariant, PTL
-------------------------------------------------------------------------------
(* The numbers of the viewer *)

\* The rounds of the viewer's search, as in TransitiveDependents.
Rounds(in, p) ==
    CHOOSE seen : seen = [n \in 0..Cardinality(internalPkgs(in)) |->
                             IF n = 0 THEN {p}
                             ELSE seen[n - 1] \cup UNION {reverse(in, q) : q \in seen[n - 1]}]

ShownClosed(in, S) == \A q \in S : reverse(in, q) \subseteq S

\* The recursive function exists; each round adds the importers of the last.
LEMMA RoundsFacts ==
    ASSUME NEW in, NEW p \in in.shown, Cardinality(in.shown) \in Nat
    PROVE  LET seen == Rounds(in, p) IN
           /\ seen[0] = {p}
           /\ \A n \in 1..Cardinality(in.shown) :
                  seen[n] = seen[n - 1] \cup UNION {reverse(in, q) : q \in seen[n - 1]}
           /\ TransitiveDependents(in, p) = Cardinality(seen[Cardinality(in.shown)]) - 1
<1> DEFINE last == Cardinality(in.shown)
           S == SUBSET in.shown
           wider == [s \in S |-> s \cup UNION {reverse(in, q) : q \in s}]
           step == [n \in 1..last |-> wider]
           start == {p}
<1>1. \A q : reverse(in, q) \subseteq in.shown
    BY DEF reverse, internalPkgs
<1>2. wider \in [S -> S]
    BY <1>1
<1>3. start \in S /\ last \in Nat
    OBVIOUS
<1>4. step \in [1..last -> [S -> S]]
    <2> HIDE DEF wider, S, last
    <2> QED BY <1>2
<1>5. PICK f : Recurses(S, start, last, step, f)
    <2> HIDE DEF step, S, last, start
    <2> QED BY <1>3, <1>4, RecursionExists
<1>6. f \in [0..last -> S] /\ f[0] = start /\ \A n \in 1..last : f[n] = step[n][f[n - 1]]
    BY <1>5 DEF Recurses
<1>7. ASSUME NEW n \in 0..last
      PROVE  f[n] = IF n = 0 THEN {p} ELSE f[n - 1] \cup UNION {reverse(in, q) : q \in f[n - 1]}
    <2>1. CASE n = 0
        BY <1>6, <2>1
    <2>2. CASE n # 0
        <3>1. n \in 1..last /\ n - 1 \in 0..last
            BY <1>3, <2>2
        <3>2. f[n - 1] \in S /\ f[n] = step[n][f[n - 1]]
            BY <1>6, <3>1
        <3>3. step[n] = wider
            BY <3>1
        <3>4. wider[f[n - 1]] = f[n - 1] \cup UNION {reverse(in, q) : q \in f[n - 1]}
            BY <3>2
        <3> HIDE DEF wider, step, last, S
        <3> QED BY <2>2, <3>2, <3>3, <3>4
    <2> QED BY <2>1, <2>2
<1>8. f = [n \in 0..last |-> IF n = 0 THEN {p}
                             ELSE f[n - 1] \cup UNION {reverse(in, q) : q \in f[n - 1]}]
    <2> HIDE DEF S, last
    <2>1. f = [n \in 0..last |-> f[n]]
        BY <1>6
    <2> QED BY <1>7, <2>1
<1> DEFINE seen == Rounds(in, p)
<1>9. seen = [n \in 0..last |-> IF n = 0 THEN {p}
                                ELSE seen[n - 1] \cup UNION {reverse(in, q) : q \in seen[n - 1]}]
    BY <1>8 DEF Rounds, internalPkgs
<1>10. TransitiveDependents(in, p) = Cardinality(seen[last]) - 1
    BY DEF TransitiveDependents, Rounds, internalPkgs
<1> HIDE DEF seen, last
<1>11. seen[0] = {p}
    BY <1>3, <1>9
<1>12. ASSUME NEW n \in 1..last
       PROVE  seen[n] = seen[n - 1] \cup UNION {reverse(in, q) : q \in seen[n - 1]}
    <2>1. n \in 0..last /\ n # 0
        BY <1>3
    <2> QED BY <1>9, <2>1
<1> QED BY <1>10, <1>11, <1>12 DEF seen, last

\* A round that adds nothing ends the search, so every other one adds a
\* package: there is none left to add after the last.
LEMMA RoundsAreExact ==
    ASSUME NEW in, IsFiniteSet(in.shown), NEW p \in in.shown,
           NEW R \in SUBSET in.shown, p \in R, ShownClosed(in, R),
           \A S \in SUBSET in.shown : p \in S /\ ShownClosed(in, S) => R \subseteq S
    PROVE  TransitiveDependents(in, p) = Cardinality(R) - 1
<1> DEFINE last == Cardinality(in.shown)
           seen == Rounds(in, p)
           Good(n) == /\ seen[n] \subseteq R /\ p \in seen[n]
                      /\ ShownClosed(in, seen[n]) \/ Cardinality(seen[n]) >= n + 1
           Bad == {n \in Nat : n <= last /\ ~Good(n)}
<1>1. last \in Nat
    BY FS_CardinalityType
<1>2. /\ seen[0] = {p}
      /\ \A n \in 1..last : seen[n] = seen[n - 1] \cup UNION {reverse(in, q) : q \in seen[n - 1]}
      /\ TransitiveDependents(in, p) = Cardinality(seen[last]) - 1
    BY <1>1, RoundsFacts
<1> HIDE DEF seen, last
<1>3. ASSUME Bad # {}
      PROVE  FALSE
    <2>1. PICK n \in Bad : \A k \in Bad : n <= k
        <3>1. Bad \subseteq Nat
            OBVIOUS
        <3> HIDE DEF Bad
        <3> QED BY <1>3, <3>1, LeastElement
    <2>2. n \in Nat /\ n <= last /\ ~Good(n)
        BY <2>1
    <2>3. n # 0
        <3>1. Cardinality({p}) = 1
            BY FS_Singleton
        <3>2. Good(0)
            BY <1>2, <3>1
        <3> HIDE DEF Good
        <3> QED BY <2>2, <3>2
    <2>4. n - 1 \in Nat /\ n - 1 <= last /\ ~(n <= n - 1) /\ n \in 1..last
        BY <1>1, <2>2, <2>3
    <2>5. n - 1 \notin Bad
        <3> HIDE DEF Bad
        <3> QED BY <2>1, <2>4
    <2>6. Good(n - 1)
        <3> HIDE DEF Good
        <3> QED BY <2>4, <2>5
    <2> DEFINE before == seen[n - 1]
               after == seen[n]
    <2>7. after = before \cup UNION {reverse(in, q) : q \in before}
        BY <1>2, <2>4
    <2>8. before \subseteq R /\ p \in before
          /\ (ShownClosed(in, before) \/ Cardinality(before) >= (n - 1) + 1)
        BY <2>6
    <2> HIDE DEF before, after, Bad, Good
    <2>9. after \subseteq R /\ p \in after /\ before \subseteq after
        BY <2>7, <2>8 DEF ShownClosed
    <2>10. IsFiniteSet(after) /\ Cardinality(after) \in Nat /\ Cardinality(before) \in Nat
           /\ Cardinality(before) <= Cardinality(after)
           /\ (Cardinality(after) = Cardinality(before) => after = before)
        <3>1. IsFiniteSet(R) /\ IsFiniteSet(after)
            BY <2>9, FS_Subset
        <3> QED BY <2>9, <3>1, FS_Subset, FS_CardinalityType
    <2>11. ShownClosed(in, after) \/ Cardinality(after) >= n + 1
        <3>1. CASE ShownClosed(in, before)
            <4>1. after = before
                BY <2>7, <3>1 DEF ShownClosed
            <4> QED BY <3>1, <4>1
        <3>2. CASE ~ShownClosed(in, before)
            <4>1. after # before
                BY <2>7, <3>2 DEF ShownClosed
            <4>2. Cardinality(before) >= (n - 1) + 1
                BY <2>8, <3>2
            <4> QED BY <2>4, <2>10, <4>1, <4>2
        <3> QED BY <3>1, <3>2
    <2> QED BY <2>2, <2>9, <2>11 DEF Good, before, after
<1>4. last \notin Bad
    <2> HIDE DEF Bad
    <2> QED BY <1>3
<1>5. Good(last)
    <2> HIDE DEF Good
    <2> QED BY <1>1, <1>4
<1> DEFINE found == seen[last]
<1>6. found \subseteq R /\ p \in found /\ (ShownClosed(in, found) \/ Cardinality(found) >= last + 1)
    BY <1>5
<1> HIDE DEF found, Bad, Good
<1>7. Cardinality(found) <= last /\ Cardinality(found) \in Nat
    <2>1. found \in SUBSET in.shown
        BY <1>6
    <2> QED BY <2>1, FS_Subset, FS_CardinalityType DEF last
<1>8. ShownClosed(in, found)
    BY <1>1, <1>6, <1>7
<1>9. found = R
    BY <1>6, <1>8
<1> QED BY <1>2, <1>9 DEF found

(* The rule never counts more dependents than the viewer shows, and the    *)
(* same number when no package is excluded, for every project.             *)
THEOREM ViewerAlwaysAgrees == Spec => []ViewerAgrees
<1>1. ASSUME IInv, pc = "done", input.shown = input.under, NEW p \in DOMAIN metrics
      PROVE  /\ metrics[p] <= TransitiveDependents(input, p)
             /\ input.excluded = {} => metrics[p] = TransitiveDependents(input, p)
    <2> DEFINE around == {S \in SUBSET input.shown : p \in S /\ ShownClosed(input, S)}
               R == {q \in input.shown : \A S \in around : q \in S}
    <2>1. p \in Internal /\ metrics[p] = Cardinality(Reaching(p)) - 1 /\ input \in Inputs
        BY <1>1 DEF IInv, TypeOK, Exact
    <2>2. IsFiniteSet(input.shown) /\ Internal = input.shown \ input.excluded /\ p \in input.shown
          /\ input.under \subseteq DOMAIN input.imports
        BY <1>1, <2>1, InputsAssumption DEF Internal
    <2>3. \A q : reverse(input, q) = {r \in input.shown : q \in input.imports[r] /\ q \in input.shown}
        BY DEF reverse, forward, internalPkgs
    <2>4. R \in SUBSET input.shown /\ p \in R
          /\ \A S \in SUBSET input.shown : p \in S /\ ShownClosed(input, S) => R \subseteq S
        BY <2>2
    <2>5. ShownClosed(input, R)
        <3> SUFFICES ASSUME NEW q \in R, NEW r \in reverse(input, q), NEW S \in around PROVE r \in S
            BY <2>3 DEF ShownClosed
        <3> QED BY DEF ShownClosed
    <2>6. TransitiveDependents(input, p) = Cardinality(R) - 1
        <3> HIDE DEF R
        <3> QED BY <2>2, <2>4, <2>5, RoundsAreExact
    <2> HIDE DEF R, around
    <2>7. Reaching(p) \subseteq R
        <3> DEFINE T == R \cap Internal
        <3>1. T \in SUBSET Internal /\ p \in T
            BY <2>1, <2>4
        <3>2. Closed(T)
            <4> SUFFICES ASSUME NEW q \in T, NEW r \in Reverse(q) PROVE r \in T
                BY DEF Closed
            <4>1. r \in Internal /\ q \in input.imports[r] /\ q \in Internal /\ q \in R
                BY DEF Reverse
            <4>2. r \in reverse(input, q)
                BY <2>2, <2>3, <4>1
            <4>3. r \in R
                BY <2>5, <4>1, <4>2 DEF ShownClosed
            <4> QED BY <4>1, <4>3
        <3> HIDE DEF T
        <3>3. Reaching(p) \subseteq T
            BY <2>1, <3>1, <3>2, ReachingFacts
        <3> QED BY <3>3 DEF T
    <2>8. IsFiniteSet(R) /\ Cardinality(R) \in Nat /\ Cardinality(Reaching(p)) \in Nat
          /\ Cardinality(Reaching(p)) <= Cardinality(R)
        <3>1. IsFiniteSet(R)
            BY <2>2, <2>4, FS_Subset
        <3>2. IsFiniteSet(Reaching(p)) /\ Cardinality(Reaching(p)) <= Cardinality(R)
            BY <2>7, <3>1, FS_Subset
        <3> QED BY <3>1, <3>2, FS_CardinalityType
    <2>9. metrics[p] <= TransitiveDependents(input, p)
        BY <2>1, <2>6, <2>8
    <2>10. ASSUME input.excluded = {}
           PROVE  metrics[p] = TransitiveDependents(input, p)
        <3>1. Internal = input.shown
            BY <2>2, <2>10
        <3>2. p \in Reaching(p) /\ Reaching(p) \subseteq input.shown
              /\ \A q \in Reaching(p) : Reverse(q) \subseteq Reaching(p)
            BY <2>1, <3>1, ReachingFacts
        <3>3. \A q \in Reaching(p) : reverse(input, q) \subseteq Reverse(q)
            BY <2>3, <3>1 DEF Reverse
        <3>4. ShownClosed(input, Reaching(p))
            BY <3>2, <3>3 DEF ShownClosed
        <3>5. R \subseteq Reaching(p)
            BY <2>4, <3>2, <3>4
        <3>6. R = Reaching(p)
            BY <2>7, <3>5
        <3> QED BY <2>1, <2>6, <3>6
    <2> QED BY <2>9, <2>10
<1>2. IInv => ViewerAgrees
    BY <1>1 DEF ViewerAgrees
<1> QED BY <1>2, BlastRadiusInvariant, PTL
===============================================================================
