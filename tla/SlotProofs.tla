------------------------------- MODULE SlotProofs -------------------------------
(***************************************************************************)
(* Arithmetic.  A slot of N node kinds, two directions and E edge kinds (or   *)
(* P property kinds) has one number, and a number has one slot.  And what     *)
(* holds of 0 and is handed on by each number holds of all.                  *)
(***************************************************************************)
EXTENDS Integers, WellFoundedInduction, TLAPS

\* A set of numbers that is not empty has a least one ...
LEMMA LeastOf ==
  ASSUME NEW S, S \subseteq Nat, S # {}
  PROVE  \E x \in S : \A y \in S : x <= y
<1>1. PICK x \in S : \A y \in S : ~ (<<y, x>> \in OpToRel(<, Nat))
  BY NatLessThanWellFounded, WFMin
<1>2. ASSUME NEW y \in S PROVE x <= y
  <2>1. x \in Nat /\ y \in Nat /\ <<y, x>> \in Nat \X Nat
    OBVIOUS
  <2>2. ~ (y < x)
    BY <1>1, <2>1 DEF OpToRel
  <2> QED BY <2>1, <2>2
<1> QED BY <1>2

\* ... so what holds of 0 and is handed on by every number holds of all.
LEMMA FromZero ==
  ASSUME NEW S, 0 \in S, \A n \in Nat : n \in S => n + 1 \in S
  PROVE  Nat \subseteq S
<1> SUFFICES ASSUME ~ (Nat \subseteq S) PROVE FALSE
  OBVIOUS
<1>1. PICK x \in Nat \ S : \A y \in Nat \ S : x <= y
  BY LeastOf
<1>2. x # 0 /\ x - 1 \in Nat /\ x - 1 + 1 = x
  OBVIOUS
<1>3. x - 1 \in S
  BY <1>1, <1>2
<1> QED BY <1>2, <1>3

\* Multiples of m keep their distance.
LEMMA Above ==
  ASSUME NEW m \in Nat, NEW p \in Nat, NEW q \in Nat, p < q
  PROVE  m * p \in Nat /\ m * q \in Nat /\ m * p + m <= m * q
<1>1. PICK k \in Nat : q = p + 1 + k
  <2>1. q - p - 1 \in Nat /\ q = p + 1 + (q - p - 1)
    OBVIOUS
  <2> QED
    BY <2>1
<1>2. m * q = m * p + m + m * k /\ m * k \in Nat /\ m * p \in Nat /\ m * q \in Nat
  BY <1>1
<1> QED
  BY <1>2

\* A number has one quotient and one remainder.
LEMMA Unique ==
  ASSUME NEW m \in Nat, NEW p \in Nat, NEW q \in Nat,
         NEW r \in 0 .. m - 1, NEW s \in 0 .. m - 1, r + m * p = s + m * q
  PROVE  p = q /\ r = s
<1>1. m * p \in Nat /\ m * q \in Nat
  OBVIOUS
<1>2. ~ (p < q)
  BY <1>1, Above
<1>3. ~ (q < p)
  BY <1>1, Above
<1>4. p = q
  BY <1>2, <1>3
<1> QED
  BY <1>1, <1>4

\* Those the operators give.
LEMMA Divided ==
  ASSUME NEW m \in Nat, NEW x \in Nat, 0 < m
  PROVE  x \div m \in Nat /\ x % m \in 0 .. m - 1 /\ x = (x % m) + m * (x \div m)
  OBVIOUS

\* And they are what a sum of a remainder and a multiple is made of.
LEMMA Quotient ==
  ASSUME NEW m \in Nat, NEW q \in Nat, NEW r \in 0 .. m - 1
  PROVE  (r + m * q) \div m = q /\ (r + m * q) % m = r
<1> DEFINE x == r + m * q
<1>1. x \in Nat /\ 0 < m
  OBVIOUS
<1>2. x \div m \in Nat /\ x % m \in 0 .. m - 1 /\ x = (x % m) + m * (x \div m)
  BY <1>1, Divided
<1>3. \A a, b \in Nat : \A c, d \in 0 .. m - 1 : c + m * a = d + m * b => a = b /\ c = d
  BY Unique
<1> QED
  BY <1>2, <1>3

\* The coordinates of an edge slot, and the slot of coordinates.
LEMMA EdgeSlotCoordinates ==
  ASSUME NEW N \in Nat, NEW E \in Nat, NEW n \in 0 .. N - 1, NEW d \in {0, 1}, NEW e \in 0 .. E - 1
  PROVE  /\ n + N * (d + 2 * e) \in 0 .. 2 * N * E - 1
         /\ (n + N * (d + 2 * e)) % N = n
         /\ ((n + N * (d + 2 * e)) \div N) % 2 = d
         /\ (n + N * (d + 2 * e)) \div (2 * N) = e
<1> DEFINE q == d + 2 * e
           s == n + N * q
<1>1. q \in Nat /\ q < 2 * E /\ 2 * E \in Nat /\ d \in 0 .. 2 - 1 /\ e \in Nat /\ 2 \in Nat
  OBVIOUS
<1>2. s \div N = q /\ s % N = n
  BY <1>1, Quotient
<1>3. q % 2 = d
  BY <1>1, Quotient
<1>4. n + N * d \in 0 .. (2 * N) - 1 /\ 2 * N \in Nat
  <2>1. CASE d = 0
    BY <2>1
  <2>2. CASE d = 1
    BY <2>2
  <2> QED
    BY <2>1, <2>2
<1>5. s = (n + N * d) + (2 * N) * e
  BY <1>1
<1>6. s \div (2 * N) = e
  <2>1. ((n + N * d) + (2 * N) * e) \div (2 * N) = e
    BY <1>1, <1>4, Quotient
  <2> QED
    BY <1>5, <2>1
<1>7. s \in 0 .. 2 * N * E - 1
  <2>1. N * q \in Nat /\ N * q + N <= N * (2 * E)
    BY <1>1, Above
  <2>2. N * (2 * E) = 2 * N * E
    OBVIOUS
  <2> QED
    BY <2>1, <2>2
<1> QED
  BY <1>2, <1>3, <1>6, <1>7

\* Every number in range is that of an edge slot.
LEMMA EdgeSlotReached ==
  ASSUME NEW N \in Nat, NEW E \in Nat, NEW s \in 0 .. 2 * N * E - 1
  PROVE  \E n \in 0 .. N - 1, d \in {0, 1}, e \in 0 .. E - 1 : s = n + N * (d + 2 * e)
<1> DEFINE q == s \div N
           n == s % N
           d == q % 2
           e == q \div 2
<1>1. s \in Nat /\ 2 * E \in Nat /\ s < N * (2 * E) /\ N * (2 * E) \in Nat
  OBVIOUS
<1>2. 0 < N
  BY <1>1
<1>3. q \in Nat /\ n \in 0 .. N - 1 /\ s = n + N * q
  BY <1>1, <1>2, Divided
<1> HIDE DEF q, n
<1>4. e \in Nat /\ d \in 0 .. 2 - 1 /\ q = d + 2 * e
  BY <1>3, Divided
<1>5. q < 2 * E
  <2>1. N * q \in Nat /\ N * q <= s
    BY <1>3
  <2>2. ~ (2 * E < q)
    BY <1>1, <1>3, <2>1, Above
  <2>3. q # 2 * E
    BY <1>1, <2>1
  <2> QED
    BY <1>1, <1>3, <2>2, <2>3
<1> HIDE DEF d, e
<1>6. d \in {0, 1} /\ e \in 0 .. E - 1
  BY <1>4, <1>5
<1> QED
  BY <1>3, <1>4, <1>6

\* The coordinates of a property slot.
LEMMA PropertySlotCoordinates ==
  ASSUME NEW N \in Nat, NEW P \in Nat, NEW n \in 0 .. N - 1, NEW p \in 0 .. P - 1
  PROVE  n + N * p \in 0 .. N * P - 1 /\ (n + N * p) \div N = p /\ (n + N * p) % N = n
<1>1. (n + N * p) \div N = p /\ (n + N * p) % N = n
  BY Quotient
<1>2. N * p \in Nat /\ N * p + N <= N * P
  BY Above
<1> QED
  BY <1>1, <1>2

\* Every number in range is that of a property slot.
LEMMA PropertySlotReached ==
  ASSUME NEW N \in Nat, NEW P \in Nat, NEW s \in 0 .. N * P - 1
  PROVE  \E n \in 0 .. N - 1, p \in 0 .. P - 1 : s = n + N * p
<1> DEFINE p == s \div N
           n == s % N
<1>1. s \in Nat /\ s < N * P /\ N * P \in Nat
  OBVIOUS
<1>2. 0 < N
  <2>1. CASE N = 0
    <3>1. N * P = 0
      BY <2>1
    <3> QED
      BY <1>1, <3>1
  <2> QED
    BY <2>1
<1>3. p \in Nat /\ n \in 0 .. N - 1 /\ s = n + N * p
  BY <1>1, <1>2, Divided
<1> HIDE DEF p, n
<1>4. p < P
  <2>1. N * p \in Nat /\ N * p <= s
    BY <1>3
  <2>2. ~ (P < p)
    BY <1>1, <1>3, <2>1, Above
  <2>3. p # P
    BY <1>1, <2>1
  <2> QED
    BY <1>3, <2>2, <2>3
<1>5. p \in 0 .. P - 1
  BY <1>3, <1>4
<1> QED
  BY <1>3, <1>5
================================================================================
