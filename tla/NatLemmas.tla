------------------------------- MODULE NatLemmas -------------------------------
(***************************************************************************)
(* Facts about natural numbers that the proofs of several components rest  *)
(* on: least counterexamples, which take the place of induction, and that  *)
(* a recursive function exists, so that its equation may be used.          *)
(***************************************************************************)
EXTENDS Naturals, WellFoundedInduction, FiniteSetTheorems, TLAPS

\* The order of the naturals, as a relation.
LessThan == {p \in Nat \X Nat : p[1] < p[2]}

\* There is no infinite descent in the naturals.
LEMMA LessThanWellFounded == IsWellFoundedOn(LessThan, Nat)
<1>1. LessThan = OpToRel(<, Nat)
  BY DEF LessThan, OpToRel
<1>2. QED
  BY <1>1, NatLessThanWellFounded

\* A nonempty set of naturals has a least element.
LEMMA LeastElement ==
  ASSUME NEW S, S \subseteq Nat, S # {}
  PROVE  \E m \in S : \A k \in S : m <= k
<1>1. PICK m \in S : \A k \in S : <<k, m>> \notin LessThan
  BY LessThanWellFounded, WFMin
<1>2. ASSUME NEW k \in S
      PROVE  m <= k
  <2>1. m \in Nat /\ k \in Nat
    OBVIOUS
  <2>2. <<k, m>> \notin {p \in Nat \X Nat : p[1] < p[2]}
    BY <1>1 DEF LessThan
  <2>3. ~(k < m)
    BY <2>1, <2>2
  <2>4. QED
    BY <2>1, <2>3
<1>3. QED
  BY <1>2

\* A nonempty set of indices of a sequence has a greatest element.
LEMMA GreatestElement ==
  ASSUME NEW n \in Nat, NEW S, S \subseteq 1..n, S # {}
  PROVE  \E m \in S : \A k \in S : k <= m
<1> DEFINE D == {n - i : i \in S}
<1>1. D \subseteq Nat /\ D # {}
  <2>1. \A i \in S : n - i \in Nat
    OBVIOUS
  <2>2. \E i \in S : TRUE
    OBVIOUS
  <2>3. QED
    BY <2>1, <2>2
<1>2. PICK d \in D : \A k \in D : d <= k
  BY <1>1, LeastElement
<1>3. PICK m \in S : d = n - m
  BY <1>2
<1>4. \A k \in S : k <= m
  <2> TAKE k \in S
  <2>1. n - m <= n - k
    BY <1>2, <1>3
  <2>2. QED
    BY <2>1
<1>5. QED
  BY <1>4

\* f is given at zero and, at each number, in terms of the number before.
Recurses(S, base, last, step, f) ==
  /\ f \in [0..last -> S]
  /\ f[0] = base
  /\ \A n \in 1..last : f[n] = step[n][f[n - 1]]

\* The equation of such a recursive function has a solution.
LEMMA RecursionExists ==
  ASSUME NEW S, NEW base \in S, NEW last \in Nat, NEW step \in [1..last -> [S -> S]]
  PROVE  \E f : Recurses(S, base, last, step, f)
<1> DEFINE Solves(m, f) == /\ f \in [0..m -> S]
                           /\ f[0] = base
                           /\ \A n \in 1..m : f[n] = step[n][f[n - 1]]
           Bad == {m \in Nat : m <= last /\ ~\E f : Solves(m, f)}
<1>1. ASSUME Bad # {}
      PROVE  FALSE
  <2>1. PICK m \in Bad : \A k \in Bad : m <= k
    <3>1. Bad \subseteq Nat
      OBVIOUS
    <3> HIDE DEF Bad
    <3>2. QED
      BY <1>1, <3>1, LeastElement
  <2>2. m \in Nat /\ m <= last /\ ~\E f : Solves(m, f)
    OBVIOUS
  <2>3. m # 0
    <3>1. Solves(0, [n \in 0..0 |-> base])
      OBVIOUS
    <3> HIDE DEF Solves
    <3>2. QED
      BY <2>2, <3>1
  <2>4. m - 1 \in Nat /\ m - 1 <= last /\ ~(m <= m - 1)
    BY <2>2, <2>3
  <2>5. PICK g : Solves(m - 1, g)
    <3>1. m - 1 \notin Bad
      <4> HIDE DEF Bad
      <4> QED BY <2>1, <2>4
    <3> HIDE DEF Solves
    <3>2. QED
      BY <2>4, <3>1
  <2> DEFINE f == [n \in 0..m |-> IF n = m THEN step[m][g[m - 1]] ELSE g[n]]
  <2>6. m \in 1..last /\ m - 1 \in 0..(m - 1) /\ g[m - 1] \in S /\ step[m] \in [S -> S]
    BY <2>2, <2>3, <2>4, <2>5
  <2>7. step[m][g[m - 1]] \in S
    BY <2>6
  <2>8. \A n \in 0..m : n # m => n \in 0..(m - 1)
    BY <2>2
  <2>9. f \in [0..m -> S]
    BY <2>5, <2>7, <2>8
  <2>10. f[0] = base
    BY <2>2, <2>3, <2>5
  <2>11. ASSUME NEW n \in 1..m
         PROVE  f[n] = step[n][f[n - 1]]
    <3>1. n \in 0..m /\ n - 1 \in 0..m /\ n - 1 # m
      BY <2>2
    <3>2. f[n - 1] = g[n - 1]
      BY <3>1
    <3>3. CASE n = m
      <4>1. f[n] = step[m][g[m - 1]]
        BY <3>1, <3>3
      <4> HIDE DEF f
      <4>2. QED
        BY <3>2, <3>3, <4>1
    <3>4. CASE n # m
      <4>1. n \in 1..(m - 1)
        BY <2>2, <3>4
      <4>2. f[n] = g[n] /\ g[n] = step[n][g[n - 1]]
        BY <2>5, <3>1, <3>4, <4>1
      <4> HIDE DEF f
      <4>3. QED
        BY <3>2, <4>2
    <3>5. QED
      BY <3>3, <3>4
  <2>12. Solves(m, f)
    <3> HIDE DEF f
    <3>1. QED
      BY <2>9, <2>10, <2>11
  <2> HIDE DEF f, Solves
  <2>13. QED
    BY <2>2, <2>12
<1>2. PICK f : Solves(last, f)
  <2>1. last \notin Bad
    <3> HIDE DEF Bad
    <3>1. QED
      BY <1>1
  <2> HIDE DEF Solves
  <2>2. QED
    BY <2>1
<1>3. QED
  BY <1>2 DEF Recurses
===============================================================================
