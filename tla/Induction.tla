------------------------------- MODULE Induction -------------------------------
(***************************************************************************)
(* Induction over the naturals, as facts about sets, and what recursive    *)
(* functions and folds of the model come to: what is accumulated along a   *)
(* sequence, one element at a time.                                        *)
(*                                                                         *)
(* A definition f[i \in 0..n] == ... chooses some f that satisfies the     *)
(* equation.  That there is one (RecursionExists) and that no other does   *)
(* (SameRecursion) both need the induction principle, which is stated for  *)
(* the set of numbers a fact holds of.                                     *)
(***************************************************************************)
EXTENDS Integers, FiniteSetTheorems, WellFoundedInduction, TLAPS

\* A set of naturals that is not empty has a least element: the intervals
\* below its elements are finite sets, among which inclusion is well-founded.
LEMMA LeastElement ==
  ASSUME NEW T \in SUBSET Nat, T # {}
  PROVE  \E m \in T : \A k \in T : m <= k
<1>. DEFINE initials == {1..n : n \in T}
<1>1. IsWellFoundedOn(StrictSubsetOrdering(Nat), FiniteSubsetsOf(Nat))
  BY FS_StrictSubsetOrderingWellFounded
<1>2. initials \in SUBSET FiniteSubsetsOf(Nat)
  BY FS_Interval DEF FiniteSubsetsOf
<1>3. initials # {}
  OBVIOUS
<1>4. PICK s \in initials : \A r \in initials : ~(<<r, s>> \in StrictSubsetOrdering(Nat))
  <2>. HIDE DEF initials
  <2>. QED BY <1>1, <1>2, <1>3, WFMin
<1>5. PICK m \in T : s = 1..m
  OBVIOUS
<1>6. ASSUME NEW k \in T, k < m PROVE FALSE
  <2>1. 1..k \in initials /\ 1..k \subseteq 1..m /\ m \notin 1..k /\ m \in 1..m
    BY <1>6
  <2>2. <<1..k, 1..m>> \in StrictSubsetOrdering(Nat)
    BY <2>1 DEF StrictSubsetOrdering
  <2>. QED BY <1>4, <1>5, <2>1, <2>2
<1>. QED BY <1>6

\* Induction: a set that has zero and the successor of each of its elements
\* has every natural number.
LEMMA NatSetInduction ==
  ASSUME NEW S \in SUBSET Nat, 0 \in S, \A n \in S : n + 1 \in S
  PROVE  S = Nat
<1>. SUFFICES ASSUME S # Nat PROVE FALSE
  OBVIOUS
<1>1. PICK m \in Nat \ S : \A k \in Nat \ S : m <= k
  BY LeastElement
<1>2. m - 1 \in S
  BY <1>1
<1>. QED BY <1>1, <1>2

\* Induction up to a bound.
LEMMA IntervalInduction ==
  ASSUME NEW n \in Nat, NEW S, 0 \in S, \A i \in 0..(n - 1) : i \in S => i + 1 \in S
  PROVE  0..n \subseteq S
<1>. DEFINE T == {i \in Nat : i <= n => i \in S}
<1>1. T = Nat
  <2>1. 0 \in T
    OBVIOUS
  <2>2. ASSUME NEW i \in T PROVE i + 1 \in T
    OBVIOUS
  <2>. HIDE DEF T
  <2>3. T \in SUBSET Nat
    BY DEF T
  <2>. QED BY <2>1, <2>2, <2>3, NatSetInduction
<1>. QED BY <1>1

\* Two functions that start alike and go on alike are alike.
GoOnAlike(f, g, n) == \A i \in 1..n : f[i - 1] = g[i - 1] => f[i] = g[i]
SameUpTo(f, g, n)  == \A i \in 0..n : f[i] = g[i]

LEMMA SameRecursion ==
  ASSUME NEW n \in Nat, NEW f, NEW g, f[0] = g[0], GoOnAlike(f, g, n)
  PROVE  SameUpTo(f, g, n)
<1>. USE DEF GoOnAlike, SameUpTo
<1>. DEFINE S == {i \in 0..n : f[i] = g[i]}
<1>1. 0 \in S
  OBVIOUS
<1>2. \A i \in 0..(n - 1) : i \in S => i + 1 \in S
  <2>. SUFFICES ASSUME NEW i \in 0..(n - 1), i \in S PROVE i + 1 \in S
    OBVIOUS
  <2>1. i + 1 \in 1..n /\ (i + 1) - 1 = i
    OBVIOUS
  <2>. QED BY <2>1
<1>3. 0..n \subseteq S
  <2>. HIDE DEF S
  <2>. QED BY <1>1, <1>2, IntervalInduction
<1>. QED BY <1>3

\* f starts at start, and goes on with the functions step[1], step[2], ...
\* as long as it stays in D.
Follows(f, n, D, start, step) ==
  f[0] = start /\ \A i \in 1..n : f[i - 1] \in D => f[i] = step[i][f[i - 1]]

Solves(f, n, D, start, step) == f \in [0..n -> D] /\ Follows(f, n, D, start, step)

\* If these functions are functions of D, there is such an f.
LEMMA RecursionExists ==
  ASSUME NEW n \in Nat, NEW D, NEW start \in D, NEW step \in [1..n -> [D -> D]]
  PROVE  \E f : Solves(f, n, D, start, step)
<1>. DEFINE Runs(k, f) == /\ f \in [0..k -> D] /\ f[0] = start
                          /\ \A i \in 1..k : f[i] = step[i][f[i - 1]]
            S == {k \in 0..n : \E f : Runs(k, f)}
<1>1. 0 \in S
  <2>1. Runs(0, [i \in 0..0 |-> start])
    OBVIOUS
  <2>. HIDE DEF Runs
  <2>. QED BY <2>1
<1>2. \A k \in 0..(n - 1) : k \in S => k + 1 \in S
  <2>. SUFFICES ASSUME NEW k \in 0..(n - 1), k \in S PROVE k + 1 \in S
    OBVIOUS
  <2>1. PICK f : Runs(k, f)
    OBVIOUS
  <2>. DEFINE last == step[k + 1][f[k]]
              g    == [i \in 0..(k + 1) |-> IF i = k + 1 THEN last ELSE f[i]]
  <2>2. last \in D
    <3>1. k + 1 \in 1..n /\ f[k] \in D
      BY <2>1
    <3>. QED BY <3>1
  <2>. HIDE DEF last
  <2>3. g \in [0..(k + 1) -> D] /\ g[0] = start
    BY <2>1, <2>2
  <2>4. ASSUME NEW i \in 1..(k + 1) PROVE g[i] = step[i][g[i - 1]]
    <3>1. CASE i = k + 1
      <4>1. g[i] = last /\ g[i - 1] = f[k]
        BY <3>1
      <4>. QED BY <3>1, <4>1 DEF last
    <3>2. CASE i # k + 1
      <4>1. i \in 1..k /\ i - 1 \in 0..k
        BY <3>2
      <4>. QED BY <2>1, <3>2, <4>1
    <3>. QED BY <3>1, <3>2
  <2>5. Runs(k + 1, g)
    <3>. HIDE DEF g
    <3>. QED BY <2>3, <2>4
  <2>. HIDE DEF Runs, g
  <2>. QED BY <2>5
<1>3. n \in S
  <2>. HIDE DEF S
  <2>1. 0..n \subseteq S
    BY <1>1, <1>2, IntervalInduction
  <2>. QED BY <2>1
<1>. QED BY <1>3 DEF Follows, Solves

\* It has one only, whatever else the other one may be.
LEMMA RecursionUnique ==
  ASSUME NEW n \in Nat, NEW D, NEW start, NEW step,
         NEW f, Solves(f, n, D, start, step), NEW g, Follows(g, n, D, start, step)
  PROVE  \A i \in 0..n : f[i] = g[i]
<1>1. f[0] = g[0]
  BY DEF Follows, Solves
<1>2. ASSUME NEW i \in 1..n, f[i - 1] = g[i - 1] PROVE f[i] = g[i]
  <2>1. f[i - 1] \in D
    BY DEF Solves
  <2>. QED BY <1>2, <2>1 DEF Follows, Solves
<1>. QED BY <1>1, <1>2, SameRecursion DEF GoOnAlike, SameUpTo

-----------------------------------------------------------------------------

\* A share of a number is an integer, whatever the sign of the dividend; the
\* base fee divides by a product of positive numbers.
LEMMA ShareType ==
  ASSUME NEW a \in Int, NEW b \in Nat \ {0}, NEW c \in Nat \ {0}
  PROVE  a \div (b * c) \in Int
<1>1. b * c \in Nat \ {0}
  OBVIOUS
<1>2. \A d \in Nat \ {0} : a \div d \in Int
  OBVIOUS
<1>. QED BY <1>1, <1>2
-----------------------------------------------------------------------------
(* The folds of the community modules *)

Greatest(s) == CHOOSE x \in s : \A y \in s : x >= y

\* iter folds the functions step[1], step[2], ... over the subsets of 1..n,
\* from their least element on.
Folds(iter, n, D, start, step) ==
  /\ iter \in [SUBSET (1..n) -> D]
  /\ iter[{}] = start
  /\ \A s \in SUBSET (1..n) :
       s # {} => iter[s] = step[Greatest(s)][iter[s \ {Greatest(s)}]]

LEMMA GreatestIs ==
  ASSUME NEW n \in Nat, NEW s \in SUBSET (1..n), s # {}
  PROVE  Greatest(s) \in s /\ \A y \in s : Greatest(s) >= y
<1>. DEFINE T == {n - x : x \in s}
<1>1. T \in SUBSET Nat /\ T # {}
  <2>1. \A x \in s : x \in 1..n /\ n - x \in Nat
    OBVIOUS
  <2>. QED BY <2>1
<1>2. PICK m \in T : \A k \in T : m <= k
  <2>. HIDE DEF T
  <2>. QED BY <1>1, LeastElement
<1>3. PICK x \in s : m = n - x
  OBVIOUS
<1>4. \A y \in s : x >= y
  <2>. SUFFICES ASSUME NEW y \in s PROVE x >= y
    OBVIOUS
  <2>1. n - x <= n - y /\ x \in 1..n /\ y \in 1..n
    BY <1>2, <1>3
  <2>. QED BY <2>1
<1>. QED BY <1>4 DEF Greatest

LEMMA FoldExists ==
  ASSUME NEW n \in Nat, NEW D, NEW start \in D, NEW step \in [1..n -> [D -> D]]
  PROVE  \E iter : Folds(iter, n, D, start, step)
<1>. DEFINE S == {k \in 0..n : \E g : Folds(g, k, D, start, step)}
<1>1. 0 \in S
  <2>. DEFINE g == [s \in SUBSET (1..0) |-> start]
  <2>1. g \in [SUBSET (1..0) -> D] /\ g[{}] = start
    OBVIOUS
  <2>2. \A s \in SUBSET (1..0) : s = {}
    OBVIOUS
  <2>. HIDE DEF g
  <2>3. Folds(g, 0, D, start, step)
    BY <2>1, <2>2 DEF Folds
  <2>. QED BY <2>3
<1>2. \A k \in 0..(n - 1) : k \in S => k + 1 \in S
  <2>. SUFFICES ASSUME NEW k \in 0..(n - 1), k \in S PROVE k + 1 \in S
    OBVIOUS
  <2>1. PICK g : Folds(g, k, D, start, step)
    OBVIOUS
  <2>. DEFINE top == k + 1
              h   == [s \in SUBSET (1..top) |->
                        IF top \in s THEN step[top][g[s \ {top}]] ELSE g[s]]
  <2>2. /\ top \in 1..n /\ top \in Nat /\ top - 1 = k /\ k \in Nat
        /\ \A s \in SUBSET (1..top) : s \ {top} \in SUBSET (1..k)
        /\ \A s \in SUBSET (1..top) : top \notin s => s \in SUBSET (1..k)
        /\ \A s \in SUBSET (1..k) : s \in SUBSET (1..top) /\ top \notin s
    OBVIOUS
  <2>3. h \in [SUBSET (1..top) -> D] /\ h[{}] = start
    <3>. HIDE DEF top
    <3>1. \A s \in SUBSET (1..top) :
            (IF top \in s THEN step[top][g[s \ {top}]] ELSE g[s]) \in D
      BY <2>1, <2>2 DEF Folds
    <3>. QED BY <2>1, <3>1 DEF Folds
  <2>4. ASSUME NEW s \in SUBSET (1..top), s # {}
        PROVE  h[s] = step[Greatest(s)][h[s \ {Greatest(s)}]]
    <3>1. Greatest(s) \in s /\ \A y \in s : Greatest(s) >= y
      <4>. HIDE DEF top
      <4>. QED BY <2>2, <2>4, GreatestIs
    <3>2. CASE top \in s
      <4>1. Greatest(s) = top
        <5>1. Greatest(s) \in 1..top /\ Greatest(s) >= top
          BY <3>1, <3>2
        <5>. QED BY <5>1
      <4>2. h[s \ {top}] = g[s \ {top}] /\ h[s] = step[top][g[s \ {top}]]
        <5>. HIDE DEF top
        <5>. QED BY <2>2, <3>2
      <4>. QED BY <4>1, <4>2
    <3>3. CASE top \notin s
      <4>1. s \in SUBSET (1..k) /\ s \ {Greatest(s)} \in SUBSET (1..k)
        BY <2>2, <3>3
      <4>2. h[s] = g[s] /\ h[s \ {Greatest(s)}] = g[s \ {Greatest(s)}]
        <5>. HIDE DEF top
        <5>. QED BY <2>2, <4>1
      <4>. QED BY <2>1, <2>4, <4>1, <4>2 DEF Folds
    <3>. QED BY <3>2, <3>3
  <2>5. Folds(h, top, D, start, step)
    <3>. HIDE DEF h, top
    <3>. QED BY <2>3, <2>4 DEF Folds
  <2>. QED BY <2>5
<1>3. n \in S
  <2>. HIDE DEF S
  <2>1. 0..n \subseteq S
    BY <1>1, <1>2, IntervalInduction
  <2>. QED BY <2>1
<1>. QED BY <1>3

\* Over an interval, a fold takes its numbers one after the other.
LEMMA FoldFollows ==
  ASSUME NEW n \in Nat, NEW D, NEW start, NEW step,
         NEW iter, Folds(iter, n, D, start, step), NEW i \in 1..n
  PROVE  iter[1..i] = step[i][iter[1..(i - 1)]]
<1>1. 1..i \in SUBSET (1..n) /\ 1..i # {} /\ i \in 1..i /\ (1..i) \ {i} = 1..(i - 1)
  OBVIOUS
<1>2. Greatest(1..i) = i
  <2>1. Greatest(1..i) \in 1..i /\ \A y \in 1..i : Greatest(1..i) >= y
    BY <1>1, GreatestIs
  <2>. QED BY <2>1
<1>. QED BY <1>1, <1>2 DEF Folds

\* Over any numbers, it takes the greatest last, and stays in D.
TakesGreatest(iter, s, n, D, step) ==
  /\ Greatest(s) \in 1..n /\ s \ {Greatest(s)} \in SUBSET (1..n)
  /\ iter[s \ {Greatest(s)}] \in D
  /\ iter[s] = step[Greatest(s)][iter[s \ {Greatest(s)}]]

LEMMA FoldStep ==
  ASSUME NEW n \in Nat, NEW D, NEW start, NEW step,
         NEW iter, Folds(iter, n, D, start, step), NEW s \in SUBSET (1..n), s # {}
  PROVE  TakesGreatest(iter, s, n, D, step)
<1>1. Greatest(s) \in 1..n
  BY GreatestIs
<1>2. s \ {Greatest(s)} \in SUBSET (1..n)
  OBVIOUS
<1>. QED BY <1>1, <1>2 DEF Folds, TakesGreatest

\* An interval, taken from its last number on.
LEMMA IntervalUnfolds ==
  ASSUME NEW n \in Nat, NEW i \in 1..n
  PROVE  /\ Greatest(1..i) = i
         /\ 1..i \in SUBSET (1..n) /\ 1..i # {} /\ (1..i) \ {i} = 1..(i - 1)
         /\ i \in 0..n /\ i - 1 \in 0..n
<1>1. i \in 1..i /\ 1..i \in SUBSET (1..n) /\ (1..i) \ {i} = 1..(i - 1)
      /\ i \in 0..n /\ i - 1 \in 0..n
  OBVIOUS
<1>2. 1..i # {}
  BY <1>1
<1>3. Greatest(1..i) \in 1..i /\ \A y \in 1..i : Greatest(1..i) >= y
  BY <1>1, <1>2, GreatestIs
<1>4. Greatest(1..i) = i
  BY <1>1, <1>3
<1>. QED  BY <1>1, <1>2, <1>4

=============================================================================
