---------------------------- MODULE NumberLemmas ----------------------------
(***************************************************************************)
(* Facts about natural numbers: induction as a fact about sets of numbers, *)
(* the functions it defines, and what rounding down leaves.  The components*)
(* fold lists with functions that call themselves at the index before, and *)
(* convert between shares and assets by division.                          *)
(***************************************************************************)
EXTENDS Integers, WellFoundedInduction, TLAPS

LEMMA LeastNumber ==
  ASSUME NEW T \in SUBSET Nat, T # {}
  PROVE  \E x \in T : \A y \in T : x <= y
<1> DEFINE R == {ss \in Nat \X Nat : ss[1] < ss[2]}
<1>1. IsWellFoundedOn(R, Nat)
  BY NatLessThanWellFounded DEF OpToRel
<1>2. \E x \in T : \A y \in T : ~ (<<y, x>> \in R)
  BY <1>1, WFMin
<1>3. \A x, y \in Nat : ~(<<y, x>> \in R) => x <= y
  OBVIOUS
<1> QED
  BY <1>2, <1>3

LEMMA GreatestNumber ==
  ASSUME NEW n \in Nat, NEW T \in SUBSET (0 .. n), T # {}
  PROVE  \E x \in T : \A y \in T : y <= x
<1> DEFINE D == {n - y : y \in T}
<1>1. D \in SUBSET Nat /\ D # {}
  <2>1. \A y \in T : n - y \in Nat
    OBVIOUS
  <2> QED
    BY <2>1, Zenon
<1>2. PICK d \in D : \A e \in D : d <= e
  BY <1>1, LeastNumber
<1>3. PICK x \in T : d = n - x
  BY <1>2
<1>4. \A y \in T : y <= x
  <2> SUFFICES ASSUME NEW y \in T PROVE y <= x
    OBVIOUS
  <2>1. n - x <= n - y
    BY <1>2, <1>3
  <2>2. x \in Int /\ y \in Int
    OBVIOUS
  <2> HIDE DEF D
  <2> QED
    BY <2>1, <2>2
<1> QED
  BY <1>4, Zenon

(* A set of the numbers up to n that holds 0 and with each number the next  *)
(* holds them all.                                                          *)
LEMMA SegmentInduction ==
  ASSUME NEW n \in Nat, NEW S, 0 \in S, \A i \in 0 .. n : i < n /\ i \in S => i + 1 \in S
  PROVE  0 .. n \subseteq S
<1> SUFFICES ASSUME (0 .. n) \ S # {} PROVE FALSE
  OBVIOUS
<1>1. PICK x \in (0 .. n) \ S : \A y \in (0 .. n) \ S : x <= y
  <2>1. (0 .. n) \ S \in SUBSET Nat
    OBVIOUS
  <2> QED
    BY <2>1, LeastNumber
<1>2. x \in 0 .. n /\ x # 0 /\ x - 1 \in 0 .. n /\ x - 1 < n
  BY <1>1
<1>3. x - 1 \in S
  BY <1>1, <1>2
<1>4. (x - 1) + 1 \in S
  BY <1>2, <1>3
<1> QED
  BY <1>1, <1>2, <1>4

(* What a step on S, taken n times from a start in S, may pass through: a   *)
(* function on 0 .. n.                                                      *)
Runs(n, S, start, step) ==
  {g \in [0 .. n -> S] : g[0] = start /\ \A i \in 1 .. n : g[i] = step[<<i, g[i - 1]>>]}
StaysIn(n, S, step) == \A i \in 1 .. n, x \in S : step[<<i, x>>] \in S

LEMMA SegmentRecursion ==
  ASSUME NEW n \in Nat, NEW S, NEW start \in S, NEW step, StaysIn(n, S, step)
  PROVE  Runs(n, S, start, step) # {}
<1> DEFINE Reached == {m \in 0 .. n : Runs(m, S, start, step) # {}}
<1> USE DEF Runs, StaysIn
<1>1. 0 \in Reached
  <2>1. [i \in 0 .. 0 |-> start] \in Runs(0, S, start, step)
    OBVIOUS
  <2> QED
    BY <2>1
<1>2. ASSUME NEW m \in 0 .. n, m < n, m \in Reached
      PROVE  m + 1 \in Reached
  <2>1. PICK g \in Runs(m, S, start, step) : TRUE
    BY <1>2
  <2> DEFINE h == [i \in 0 .. m + 1 |-> IF i <= m THEN g[i] ELSE step[<<m + 1, g[m]>>]]
  <2>2. m \in Nat /\ m + 1 \in 1 .. n /\ g \in [0 .. m -> S] /\ g[m] \in S /\ g[0] = start
    BY <1>2, <2>1
  <2>3. step[<<m + 1, g[m]>>] \in S
    BY <2>2
  <2>4. h \in [0 .. m + 1 -> S]
    BY <2>2, <2>3
  <2>5. h[0] = start
    BY <2>2
  <2>6. ASSUME NEW i \in 1 .. m + 1 PROVE h[i] = step[<<i, h[i - 1]>>]
    <3>1. h[i - 1] = g[i - 1] /\ i - 1 \in 0 .. m
      BY <2>2
    <3>2. CASE i <= m
      <4>1. i \in 1 .. m /\ h[i] = g[i]
        BY <2>2, <3>2
      <4> HIDE DEF h
      <4> QED
        BY <2>1, <3>1, <4>1
    <3>3. CASE i = m + 1
      <4>1. h[i] = step[<<m + 1, g[m]>>] /\ h[i - 1] = g[m]
        BY <2>2, <3>3
      <4> HIDE DEF h
      <4> QED
        BY <3>3, <4>1
    <3> QED
      BY <2>2, <3>2, <3>3
  <2> HIDE DEF h
  <2>7. h \in Runs(m + 1, S, start, step)
    BY <2>4, <2>5, <2>6
  <2> QED
    BY <2>2, <2>7
<1>3. n \in Reached
  <2> HIDE DEF Reached
  <2>1. 0 .. n \subseteq Reached
    BY <1>1, <1>2, SegmentInduction
  <2> QED
    BY <2>1
<1> QED
  BY <1>3

-----------------------------------------------------------------------------
(* Products and quotients.                                                  *)

LEMMA Monotone ==
  ASSUME NEW a \in Int, NEW b \in Int, NEW c \in Nat, a <= b
  PROVE  a * c \in Int /\ b * c \in Int /\ a * c <= b * c
OBVIOUS

LEMMA ProductSign ==
  ASSUME NEW a \in Int, NEW c \in Nat \ {0}, a * c >= 0
  PROVE  a >= 0
OBVIOUS

LEMMA DivBounds ==
  ASSUME NEW n \in Nat, NEW d \in Nat \ {0}
  PROVE  n \div d \in Nat /\ (n \div d) * d <= n /\ n < (n \div d) * d + d
OBVIOUS

LEMMA DivBelow ==
  ASSUME NEW n \in Nat, NEW d \in Nat \ {0}, NEW k \in Nat, n < k * d
  PROVE  n \div d < k
<1> DEFINE q == n \div d
<1>1. q \in Nat /\ q * d <= n
  BY DivBounds
<1> HIDE DEF q
<1>2. q * d < k * d
  BY <1>1
<1>3. q >= k => k * d <= q * d
  BY <1>1, Monotone
<1>4. q < k
  BY <1>1, <1>2, <1>3
<1> QED
  BY <1>4 DEF q

LEMMA DivAbove ==
  ASSUME NEW n \in Nat, NEW d \in Nat \ {0}, NEW k \in Int, k * d <= n
  PROVE  k <= n \div d
<1> DEFINE q == n \div d
<1>1. q \in Nat /\ n < q * d + d
  BY DivBounds
<1> HIDE DEF q
<1>2. k * d < (q + 1) * d
  BY <1>1
<1>3. q + 1 <= k => (q + 1) * d <= k * d
  BY <1>1, Monotone
<1>4. k <= q
  BY <1>1, <1>2, <1>3
<1> QED
  BY <1>4 DEF q
=============================================================================
