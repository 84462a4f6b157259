---------------------------- MODULE LeastNumber ----------------------------
(***************************************************************************)
(* Induction without an induction rule: a set of natural numbers that is   *)
(* not empty has a least element, so a statement that fails for some       *)
(* number has a first number for which it fails.  The proofs about lists   *)
(* and about recursive functions rest on it.  And division, which has one  *)
(* quotient.                                                               *)
(***************************************************************************)
EXTENDS Integers, WellFoundedInduction, TLAPS

LEMMA LessIsWellFounded == IsWellFoundedOn({p \in Nat \X Nat : p[1] < p[2]}, Nat)
  BY NatLessThanWellFounded DEF OpToRel

LEMMA LeastElement ==
    ASSUME NEW T, T \subseteq Nat, T # {}
    PROVE  \E n \in T : \A m \in T : n <= m
<1> DEFINE R == {p \in Nat \X Nat : p[1] < p[2]}
<1>1. PICK n \in T : \A m \in T : <<m, n>> \notin R
  <2> HIDE DEF R
  <2>1. IsWellFoundedOn(R, Nat)
    BY LessIsWellFounded DEF R
  <2>2. QED
    BY <2>1, WFMin, Zenon
<1>2. ASSUME NEW m \in T PROVE n <= m
  <2>1. m \in Nat /\ n \in Nat
    BY Zenon
  <2>2. ~(m < n)
    <3>1. <<m, n>> \notin R
      BY <1>1
    <3>2. QED
      BY <2>1, <3>1
  <2>3. QED
    BY <2>1, <2>2
<1>3. QED
  BY <1>2

\* What holds of 0, and of n + 1 whenever it holds of n, has no counterexample.
LEMMA Induction ==
    ASSUME NEW T, 0 \in T, \A n \in Nat : n \in T => n + 1 \in T
    PROVE  Nat \subseteq T
<1> SUFFICES ASSUME NEW k \in Nat, k \notin T PROVE FALSE
  OBVIOUS
<1> DEFINE C == {n \in Nat : n \notin T}
<1>1. C \subseteq Nat /\ C # {}
  OBVIOUS
<1>2. PICK n \in C : \A m \in C : n <= m
  <2> HIDE DEF C
  <2>1. QED
    BY <1>1, LeastElement
<1>3. n \in Nat /\ n # 0
  OBVIOUS
<1>4. n - 1 \in Nat /\ ~(n <= n - 1) /\ (n - 1) + 1 = n
  BY <1>3
<1>5. n - 1 \in T
  BY <1>2, <1>4
<1>6. QED
  BY <1>4, <1>5

\* The same within a bound.
LEMMA InductionUpTo ==
    ASSUME NEW N \in Nat, NEW T, 0 \in T,
           \A n \in Nat : n < N /\ n \in T => n + 1 \in T
    PROVE  \A n \in 0..N : n \in T
<1> DEFINE S == {n \in Nat : n <= N => n \in T}
<1>1. 0 \in S
  OBVIOUS
<1>2. \A n \in Nat : n \in S => n + 1 \in S
  OBVIOUS
<1>3. Nat \subseteq S
  <2> HIDE DEF S
  <2>1. QED
    BY <1>1, <1>2, Induction
<1>4. QED
  BY <1>3

-----------------------------------------------------------------------------
\* Division leaves less than the divisor.
LEMMA Division ==
    ASSUME NEW c \in Nat, NEW b \in Nat, b >= 1
    PROVE  c \div b \in Nat /\ (c \div b) * b <= c /\ c < (c \div b) * b + b
           /\ c % b = c - (c \div b) * b
  OBVIOUS

\* Multiples of b are b apart.
LEMMA Multiples ==
    ASSUME NEW i \in Nat, NEW j \in Nat, NEW b \in Nat, i < j
    PROVE  i * b + b <= j * b /\ i * b \in Nat /\ j * b \in Nat
<1>1. PICK d \in Nat : j = i + 1 + d
  <2>1. j - i - 1 \in Nat /\ j = i + 1 + (j - i - 1)
    OBVIOUS
  <2> QED BY <2>1
<1>2. j * b = i * b + b + d * b /\ d * b \in Nat /\ i * b \in Nat
  BY <1>1
<1> QED BY <1>2

\* A number lies behind one multiple of b only by no more than b.
LEMMA OneQuotient ==
    ASSUME NEW i \in Nat, NEW j \in Nat, NEW b \in Nat, NEW n \in Nat,
           i * b < n, n <= i * b + b, j * b < n, n <= j * b + b
    PROVE  i = j
<1>0. i * b \in Nat /\ j * b \in Nat
  OBVIOUS
<1>1. CASE i < j
  <2>1. i * b + b <= j * b
    BY <1>1, Multiples
  <2> QED BY <1>0, <2>1
<1>2. CASE j < i
  <2>1. j * b + b <= i * b
    BY <1>2, Multiples
  <2> QED BY <1>0, <2>1
<1> QED BY <1>1, <1>2
============================================================================
