----------------------------- MODULE StagingProofs -----------------------------
(***************************************************************************)
(* What the operators that rebuild a storage slot return, for every slot     *)
(* and everything a diff may ask of it.                                      *)
(***************************************************************************)
EXTENDS Staging, SlotProofs, SequenceTheorems, FiniteSetTheorems, WellFoundedInduction, TLAPS

\* A function on 1 .. n is a sequence of length n.
ListOf(S, n) == [1 .. n -> S]
\* A function on 1 .. n is a sequence of n items.
LEMMA ListIsSeq ==
  ASSUME NEW S, NEW n \in Nat, NEW f \in ListOf(S, n)
  PROVE  f \in Seq(S) /\ Len(f) = n /\ DOMAIN f = 1 .. n
<1> USE DEF ListOf
<1>1. f \in Seq(S)
  BY SeqDef
<1>2. Len(f) \in Nat /\ DOMAIN f = 1 .. Len(f)
  BY <1>1, LenProperties
<1> QED BY <1>1, <1>2

(***************************************************************************)
(* Positions, counted in order                                             *)
(***************************************************************************)
\* A set of numbers that is not empty has a least one.
LEMMA LowestIsLeast ==
  ASSUME NEW S, S \subseteq Nat, S # {}
  PROVE  Lowest(S) \in S /\ \A y \in S : Lowest(S) <= y
<1>1. PICK x \in S : \A y \in S : ~ (<<y, x>> \in OpToRel(<, Nat))
  BY NatLessThanWellFounded, WFMin
<1>2. ASSUME NEW y \in S PROVE x <= y
  <2>1. x \in Nat /\ y \in Nat /\ <<y, x>> \in Nat \X Nat
    OBVIOUS
  <2>2. ~ (y < x)
    BY <1>1, <2>1 DEF OpToRel
  <2> QED BY <2>1, <2>2
<1> QED BY <1>2 DEF Lowest

\* P are positions in a sequence of length n.
Within(P, n) == P \subseteq 1 .. n

\* Positions in a sequence are finitely many, no more than it is long.
LEMMA PositionsFinite ==
  ASSUME NEW n \in Nat, NEW P, Within(P, n)
  PROVE  IsFiniteSet(P) /\ Cardinality(P) \in 0 .. n
<1> DEFINE S == 1 .. n
<1>1. IsFiniteSet(S) /\ Cardinality(S) = n
  BY FS_Interval
<1>2. P \in SUBSET S
  BY DEF Within
<1> HIDE DEF S
<1>3. IsFiniteSet(P) /\ Cardinality(P) <= n
  BY <1>1, <1>2, FS_Subset
<1> QED BY <1>3, FS_CardinalityType

\* Those up to i among them.
UpTo(P, i) == {y \in P : y <= i}

\* The positions up to i + 1 are those up to i and, when it is one, i + 1.
LEMMA RankGrows ==
  ASSUME NEW n \in Nat, NEW P, Within(P, n), NEW i \in Nat
  PROVE  /\ Cardinality(P) \in 0 .. n
         /\ Rank(P, 0) = 0 /\ Rank(P, i) \in 0 .. Cardinality(P)
         /\ Rank(P, i + 1) = Rank(P, i) + (IF i + 1 \in P THEN 1 ELSE 0)
         /\ n <= i => Rank(P, i) = Cardinality(P)
<1>1. IsFiniteSet(P) /\ Cardinality(P) \in 0 .. n
  BY PositionsFinite
<1>2. \A x \in P : x \in Nat /\ 1 <= x /\ x <= n
  BY DEF Within
<1>3. /\ UpTo(P, 0) = {} /\ i + 1 \notin UpTo(P, i)
      /\ n <= i => UpTo(P, i) = P
      /\ UpTo(P, i + 1) = IF i + 1 \in P THEN UpTo(P, i) \cup {i + 1} ELSE UpTo(P, i)
  BY <1>2 DEF UpTo
<1>4. UpTo(P, i) \in SUBSET P
  BY DEF UpTo
<1>5. /\ IsFiniteSet(UpTo(P, i)) /\ Cardinality(UpTo(P, i)) \in Nat
      /\ Cardinality(UpTo(P, i)) <= Cardinality(P)
  BY <1>1, <1>4, FS_Subset, FS_CardinalityType
<1>6. Cardinality(UpTo(P, i) \cup {i + 1}) = Cardinality(UpTo(P, i)) + 1
  BY <1>3, <1>5, FS_AddElement
<1>7. \A m : Rank(P, m) = Cardinality(UpTo(P, m))
  BY DEF Rank, UpTo
<1> QED BY <1>1, <1>3, <1>5, <1>6, <1>7, FS_EmptySet

\* No position up to i is missing among those up to j, which has one more itself.
LEMMA RankOrders ==
  ASSUME NEW n \in Nat, NEW P, Within(P, n), NEW i \in Nat, NEW j \in Nat, i <= j
  PROVE  /\ Rank(P, i) <= Rank(P, j)
         /\ i < j /\ j \in P => Rank(P, i) < Rank(P, j)
<1>1. \A x \in P : x \in Nat
  BY DEF Within
<1>2. UpTo(P, i) \in SUBSET UpTo(P, j) /\ UpTo(P, j) \in SUBSET P
  BY <1>1 DEF UpTo
<1>3. i < j /\ j \in P => UpTo(P, i) # UpTo(P, j)
  BY DEF UpTo
<1>4. IsFiniteSet(UpTo(P, i)) /\ IsFiniteSet(UpTo(P, j))
  BY <1>2, PositionsFinite, FS_Subset
<1>5. Cardinality(UpTo(P, i)) \in Nat /\ Cardinality(UpTo(P, j)) \in Nat
  BY <1>4, FS_CardinalityType
<1>6. Rank(P, i) = Cardinality(UpTo(P, i)) /\ Rank(P, j) = Cardinality(UpTo(P, j))
  BY DEF Rank, UpTo
<1> QED BY <1>2, <1>3, <1>4, <1>5, <1>6, FS_Subset

\* The k-th position exists.
LEMMA NthFound ==
  ASSUME NEW n \in Nat, NEW P, Within(P, n), NEW k \in 1 .. Cardinality(P)
  PROVE  Nth(P, k) \in P /\ Rank(P, Nth(P, k)) = k
<1> DEFINE F == {i \in Nat : k <= Rank(P, i)}
<1>1. n \in F
  BY RankGrows
<1>2. Lowest(F) \in F /\ \A y \in F : Lowest(F) <= y
  BY <1>1, LowestIsLeast
<1>3. PICK m \in F : \A y \in F : m <= y
  BY <1>2
<1>4. m # 0
  BY <1>3, RankGrows
<1>5. m - 1 \in Nat /\ m - 1 \notin F
  BY <1>3, <1>4
<1>6. Rank(P, m - 1) \in Nat /\ Rank(P, m - 1) < k /\ k <= Rank(P, m) /\ k \in Nat
  BY <1>3, <1>5, RankGrows
<1>7. Rank(P, (m - 1) + 1) = Rank(P, m - 1) + (IF (m - 1) + 1 \in P THEN 1 ELSE 0)
  BY <1>5, RankGrows
<1>8. (m - 1) + 1 = m
  BY <1>3
<1>9. m \in P /\ Rank(P, m) = k
  BY <1>6, <1>7, <1>8
<1> QED BY <1>9 DEF Nth

\* ... and is the only one with that rank.
LEMMA NthOfRank ==
  ASSUME NEW n \in Nat, NEW P, Within(P, n), NEW x \in P
  PROVE  Rank(P, x) \in 1 .. Cardinality(P) /\ Nth(P, Rank(P, x)) = x
<1>1. x \in Nat /\ x - 1 \in Nat /\ (x - 1) + 1 = x
  BY DEF Within
<1>2. Rank(P, x) = Rank(P, x - 1) + 1 /\ Rank(P, x - 1) \in Nat
  BY <1>1, RankGrows
<1>3. Rank(P, x) \in 1 .. Cardinality(P)
  <2>1. Rank(P, x) \in 0 .. Cardinality(P) /\ Cardinality(P) \in Nat
    BY <1>1, RankGrows
  <2> QED BY <1>2, <2>1
<1>4. Nth(P, Rank(P, x)) \in P /\ Rank(P, Nth(P, Rank(P, x))) = Rank(P, x)
  BY <1>3, NthFound
<1>5. ASSUME NEW y \in P, Rank(P, y) = Rank(P, x) PROVE y = x
  <2>1. y \in Nat /\ Rank(P, x) \in Nat
    BY <1>3 DEF Within
  <2>2. ~ (x < y) /\ ~ (y < x)
    BY <1>1, <1>5, <2>1, RankOrders
  <2> QED BY <1>1, <2>1, <2>2
<1> QED BY <1>3, <1>4, <1>5

\* Keep returns the items at the positions asked for, all of them and no other.
LEMMA KeepItems ==
  ASSUME NEW S, NEW s \in Seq(S), NEW P, Within(P, Len(s))
  PROVE  /\ Keep(s, P) \in Seq(S) /\ Len(Keep(s, P)) = Cardinality(P)
         /\ \A k \in 1 .. Cardinality(P) : Nth(P, k) \in P /\ Keep(s, P)[k] = s[Nth(P, k)]
         /\ \A x \in P : Rank(P, x) \in 1 .. Cardinality(P) /\ Keep(s, P)[Rank(P, x)] = s[x]
<1>1. Len(s) \in Nat /\ s \in [1 .. Len(s) -> S] /\ Cardinality(P) \in Nat
  BY LenProperties, RankGrows
<1>2. \A k \in 1 .. Cardinality(P) : Nth(P, k) \in P
  BY <1>1, NthFound
<1>3. \A x \in P : Rank(P, x) \in 1 .. Cardinality(P) /\ Nth(P, Rank(P, x)) = x
  BY <1>1, NthOfRank
<1>4. Keep(s, P) = [k \in 1 .. Cardinality(P) |-> s[Nth(P, k)]]
  BY DEF Keep
<1>5. Keep(s, P) \in ListOf(S, Cardinality(P))
  BY <1>1, <1>2, <1>4 DEF Within, ListOf
<1>6. Keep(s, P) \in Seq(S) /\ Len(Keep(s, P)) = Cardinality(P)
  BY <1>1, <1>5, ListIsSeq
<1> QED BY <1>2, <1>3, <1>4, <1>6

(***************************************************************************)
(* Runs, one after the other                                               *)
(***************************************************************************)
\* The places of the items of one run, and of the first i runs.
Block(runs, j) == {<<j, k>> : k \in DOMAIN runs[j]}
Blocks(runs, i) == UNION {Block(runs, j) : j \in 1 .. i}

\* A run contributes as many items as it is long.
LEMMA BlockCount ==
  ASSUME NEW S, NEW runs, NEW j, runs[j] \in Seq(S)
  PROVE  IsFiniteSet(Block(runs, j)) /\ Cardinality(Block(runs, j)) = Len(runs[j])
<1> DEFINE D == DOMAIN runs[j]
           f == [k \in D |-> <<j, k>>]
<1>1. D = 1 .. Len(runs[j]) /\ Len(runs[j]) \in Nat
  BY LenProperties
<1>2. IsFiniteSet(D) /\ Cardinality(D) = Len(runs[j])
  BY <1>1, FS_Interval
<1>3. f \in Bijection(D, Block(runs, j))
  <2>1. f \in [D -> Block(runs, j)] /\ \A t \in Block(runs, j) : \E k \in D : f[k] = t
    BY DEF Block
  <2>2. \A a, b \in D : f[a] = f[b] => a = b
    OBVIOUS
  <2> HIDE DEF D, f
  <2> QED BY <2>1, <2>2, Zenon DEF Bijection, Injection, IsInjective, Surjection
<1> HIDE DEF D, f
<1>4. ExistsBijection(D, Block(runs, j))
  BY <1>3 DEF ExistsBijection
<1> QED BY <1>2, <1>4, FS_Bijection

\* The items of the first i runs are finitely many, and run i + 1 adds its own.
LEMMA CumulativeGrows ==
  ASSUME NEW S, NEW runs \in Seq(Seq(S)), NEW i \in Nat, i <= Len(runs)
  PROVE  /\ Cumulative(runs, 0) = 0 /\ Cumulative(runs, i) \in Nat
         /\ i < Len(runs) =>
              /\ runs[i + 1] \in Seq(S) /\ Len(runs[i + 1]) \in Nat
              /\ Cumulative(runs, i + 1) = Cumulative(runs, i) + Len(runs[i + 1])
<1>1. \A m : Cumulative(runs, m) = Cardinality(Blocks(runs, m))
  BY DEF Cumulative, Blocks, Block
<1>2. Len(runs) \in Nat /\ \A j \in 1 .. Len(runs) : runs[j] \in Seq(S)
  BY LenProperties, ElementOfSeq
<1>3. Blocks(runs, 0) = {}
  BY DEF Blocks
<1>4. IsFiniteSet(Blocks(runs, i))
  <2> DEFINE T == {Block(runs, j) : j \in 1 .. i}
             f == [j \in 1 .. i |-> Block(runs, j)]
  <2>1. \A b \in T : IsFiniteSet(b)
    BY <1>2, BlockCount
  <2>2. f \in Surjection(1 .. i, T)
    BY DEF Surjection
  <2>3. IsFiniteSet(1 .. i)
    BY FS_Interval
  <2>4. Blocks(runs, i) = UNION T
    BY DEF Blocks
  <2> HIDE DEF T, f
  <2> QED BY <2>1, <2>2, <2>3, <2>4, FS_Surjection, FS_UNION
<1>5. Cardinality(Blocks(runs, i)) \in Nat
  BY <1>4, FS_CardinalityType
<1>6. ASSUME i < Len(runs)
      PROVE  /\ runs[i + 1] \in Seq(S) /\ Len(runs[i + 1]) \in Nat
             /\ Cardinality(Blocks(runs, i + 1)) = Cardinality(Blocks(runs, i)) + Len(runs[i + 1])
  <2>1. runs[i + 1] \in Seq(S) /\ Len(runs[i + 1]) \in Nat
    BY <1>2, <1>6, LenProperties
  <2>2. Blocks(runs, i + 1) = Blocks(runs, i) \cup Block(runs, i + 1)
    BY DEF Blocks
  <2>3. Blocks(runs, i) \cap Block(runs, i + 1) = {}
    BY DEF Blocks, Block
  <2>4. IsFiniteSet(Block(runs, i + 1)) /\ Cardinality(Block(runs, i + 1)) = Len(runs[i + 1])
    BY <2>1, BlockCount
  <2>5. Cardinality(Blocks(runs, i) \cup Block(runs, i + 1))
          = Cardinality(Blocks(runs, i)) + Cardinality(Block(runs, i + 1))
            - Cardinality(Blocks(runs, i) \cap Block(runs, i + 1))
    BY <1>4, <2>4, FS_Union
  <2>6. Cardinality(Blocks(runs, i) \cap Block(runs, i + 1)) = 0
    BY <2>3, FS_EmptySet, Zenon
  <2>7. Cardinality(Blocks(runs, i + 1))
          = Cardinality(Blocks(runs, i)) + Cardinality(Block(runs, i + 1))
            - Cardinality(Blocks(runs, i) \cap Block(runs, i + 1))
    BY <2>2, <2>5, Zenon
  <2> QED BY <1>5, <2>1, <2>4, <2>6, <2>7
<1> QED BY <1>1, <1>3, <1>5, <1>6, FS_EmptySet

\* Earlier runs end no later.
LEMMA CumulativeOrders ==
  ASSUME NEW S, NEW runs \in Seq(Seq(S)), NEW i \in Nat, NEW j \in Nat, i <= j, j <= Len(runs)
  PROVE  /\ Cumulative(runs, i) \in Nat /\ Cumulative(runs, j) \in Nat
         /\ Cumulative(runs, i) <= Cumulative(runs, j)
<1> DEFINE F == {m \in Nat : i <= m /\ m <= Len(runs) /\ ~ (Cumulative(runs, i) <= Cumulative(runs, m))}
<1>1. Len(runs) \in Nat /\ i <= Len(runs)
  BY LenProperties
<1>2. \A m \in Nat : m <= Len(runs) => Cumulative(runs, m) \in Nat
  BY CumulativeGrows
<1>3. ASSUME F # {} PROVE FALSE
  <2>1. PICK m \in Nat : m \in F /\ \A y \in F : m <= y
    <3>1. F \subseteq Nat
      OBVIOUS
    <3> HIDE DEF F
    <3> QED BY <1>3, <3>1, LowestIsLeast
  <2>2. i <= m /\ m <= Len(runs) /\ ~ (Cumulative(runs, i) <= Cumulative(runs, m))
    BY <2>1
  <2>3. m # i
    BY <1>1, <1>2, <2>2
  <2>4. m - 1 \in Nat /\ i <= m - 1 /\ m - 1 < Len(runs) /\ m - 1 \notin F
    BY <1>1, <2>1, <2>2, <2>3
  <2>5. Cumulative(runs, i) <= Cumulative(runs, m - 1)
    BY <1>1, <2>4
  <2>6. /\ Cumulative(runs, (m - 1) + 1) = Cumulative(runs, m - 1) + Len(runs[(m - 1) + 1])
        /\ Len(runs[(m - 1) + 1]) \in Nat
    BY <1>1, <2>4, CumulativeGrows
  <2>7. (m - 1) + 1 = m /\ Cumulative(runs, i) \in Nat /\ Cumulative(runs, m - 1) \in Nat
    BY <1>1, <1>2, <2>1, <2>4
  <2> HIDE DEF F
  <2> QED BY <2>2, <2>5, <2>6, <2>7
<1> QED BY <1>1, <1>2, <1>3

\* Concat returns the items of all runs: item k of run j is behind those of the runs
\* before it, and every item is one of those.
LEMMA ConcatItems ==
  ASSUME NEW S, NEW runs \in Seq(Seq(S))
  PROVE  /\ Concat(runs) \in Seq(S) /\ Len(Concat(runs)) = Cumulative(runs, Len(runs))
         /\ \A j \in 1 .. Len(runs) : \A k \in 1 .. Len(runs[j]) :
              /\ Cumulative(runs, j - 1) + k \in 1 .. Cumulative(runs, Len(runs))
              /\ Concat(runs)[Cumulative(runs, j - 1) + k] = runs[j][k]
         /\ \A p \in 1 .. Cumulative(runs, Len(runs)) :
              \E j \in 1 .. Len(runs) : \E k \in 1 .. Len(runs[j]) : Concat(runs)[p] = runs[j][k]
<1> DEFINE n == Len(runs)
           C(i) == Cumulative(runs, i)
           In_(p, j) == C(j - 1) < p /\ p <= C(j)
           J(p) == CHOOSE j \in DOMAIN runs : In_(p, j)
<1>1. n \in Nat /\ DOMAIN runs = 1 .. n
  BY LenProperties
<1>2. C(0) = 0 /\ \A i \in 0 .. n : C(i) \in Nat
  BY <1>1, CumulativeGrows
<1>3. \A j \in 1 .. n : runs[j] \in Seq(S) /\ Len(runs[j]) \in Nat /\ C(j) = C(j - 1) + Len(runs[j])
  <2> TAKE j \in 1 .. n
  <2>1. j - 1 \in Nat /\ j - 1 < n /\ j - 1 <= n /\ (j - 1) + 1 = j
    BY <1>1
  <2>2. /\ runs[(j - 1) + 1] \in Seq(S) /\ Len(runs[(j - 1) + 1]) \in Nat
        /\ Cumulative(runs, (j - 1) + 1) = Cumulative(runs, j - 1) + Len(runs[(j - 1) + 1])
    BY <1>1, <2>1, CumulativeGrows
  <2> QED BY <2>1, <2>2
<1>4. \A i, j \in 0 .. n : i <= j => C(i) <= C(j)
  BY <1>1, CumulativeOrders
<1>5. ASSUME NEW p \in 1 .. C(n) PROVE \E j \in 1 .. n : In_(p, j)
  <2> DEFINE F == {i \in Nat : i <= n /\ p <= C(i)}
  <2>1. F \subseteq Nat /\ n \in F /\ 0 \notin F /\ F # {}
    BY <1>1, <1>2
  <2>2. PICK m \in Nat : m \in F /\ \A y \in F : m <= y
    <3> HIDE DEF F
    <3> QED BY <2>1, LowestIsLeast
  <2>3. m \in 1 .. n /\ p <= C(m) /\ m - 1 \in 0 .. n /\ m - 1 \notin F
    BY <1>1, <2>1, <2>2
  <2>4. C(m - 1) < p
    BY <1>2, <2>3
  <2> QED BY <2>3, <2>4
<1>6. ASSUME NEW p \in Nat, NEW i \in 1 .. n, NEW j \in 1 .. n, In_(p, i), In_(p, j) PROVE i = j
  <2>1. ASSUME NEW a \in 1 .. n, NEW b \in 1 .. n, In_(p, a), In_(p, b) PROVE ~ (a < b)
    <3>1. a \in 0 .. n /\ b - 1 \in 0 .. n /\ a - 1 \in 0 .. n
      BY <1>1
    <3>2. a < b => C(a) <= C(b - 1)
      BY <1>1, <1>4, <3>1
    <3>3. C(a) \in Nat /\ C(b - 1) \in Nat
      BY <1>2, <3>1
    <3>4. p <= C(a) /\ C(b - 1) < p
      BY <2>1
    <3> QED BY <3>2, <3>3, <3>4
  <2> QED BY <1>1, <1>6, <2>1
<1>7. \A p \in 1 .. C(n) : J(p) \in 1 .. n /\ In_(p, J(p))
  BY <1>1, <1>5
<1>8. \A p \in 1 .. C(n) : p - C(J(p) - 1) \in 1 .. Len(runs[J(p)])
  <2> TAKE p \in 1 .. C(n)
  <2>1. J(p) \in 1 .. n /\ C(J(p) - 1) < p /\ p <= C(J(p))
    BY <1>7
  <2> HIDE DEF J
  <2>2. J(p) - 1 \in 0 .. n /\ C(J(p) - 1) \in Nat
    BY <1>1, <1>2, <2>1
  <2>3. C(J(p)) = C(J(p) - 1) + Len(runs[J(p)]) /\ Len(runs[J(p)]) \in Nat
    BY <1>3, <2>1
  <2> QED BY <2>1, <2>2, <2>3
<1>9. Concat(runs) = [p \in 1 .. C(n) |-> runs[J(p)][p - C(J(p) - 1)]]
  BY DEF Concat
<1>10. \A p \in 1 .. C(n) : runs[J(p)][p - C(J(p) - 1)] \in S
  BY <1>3, <1>7, <1>8, ElementOfSeq
<1>11. Concat(runs) \in Seq(S) /\ Len(Concat(runs)) = C(n)
  <2>1. Concat(runs) \in ListOf(S, C(n))
    BY <1>9, <1>10 DEF ListOf
  <2>2. C(n) \in Nat
    BY <1>1, <1>2
  <2> QED BY <2>1, <2>2, ListIsSeq
<1>12. ASSUME NEW j \in 1 .. n, NEW k \in 1 .. Len(runs[j])
       PROVE  C(j - 1) + k \in 1 .. C(n) /\ Concat(runs)[C(j - 1) + k] = runs[j][k]
  <2>1. j - 1 \in 0 .. n /\ j \in 0 .. n /\ n \in 0 .. n
    BY <1>1
  <2>2. C(j - 1) \in Nat /\ C(j) \in Nat /\ C(n) \in Nat
    BY <1>2, <2>1
  <2>3. C(j) <= C(n) /\ C(j) = C(j - 1) + Len(runs[j]) /\ Len(runs[j]) \in Nat
    BY <1>1, <1>3, <1>4, <2>1
  <2>4. C(j - 1) + k \in 1 .. C(n) /\ In_(C(j - 1) + k, j) /\ (C(j - 1) + k) - C(j - 1) = k
    BY <2>2, <2>3
  <2>5. J(C(j - 1) + k) = j
    BY <1>6, <1>7, <2>4
  <2> QED BY <1>9, <2>4, <2>5
<1> QED BY <1>7, <1>8, <1>9, <1>11, <1>12

\* Where runs end depends on their lengths alone.
AsLong(runs, others) ==
  Len(runs) = Len(others) /\ \A j \in 1 .. Len(runs) : Len(runs[j]) = Len(others[j])
\* Runs as long as others end where those do.
LEMMA SameLengths ==
  ASSUME NEW S, NEW T, NEW runs \in Seq(Seq(S)), NEW others \in Seq(Seq(T)), AsLong(runs, others),
         NEW i \in Nat, i <= Len(runs)
  PROVE  Cumulative(runs, i) = Cumulative(others, i)
<1>1. \A j \in 1 .. i : Block(runs, j) = Block(others, j)
  <2> TAKE j \in 1 .. i
  <2>1. Len(runs) \in Nat /\ Len(others) \in Nat
    BY LenProperties
  <2>2. runs[j] \in Seq(S) /\ others[j] \in Seq(T) /\ Len(runs[j]) = Len(others[j])
    BY <2>1, ElementOfSeq DEF AsLong
  <2>3. DOMAIN runs[j] = DOMAIN others[j]
    BY <2>2, LenProperties
  <2> QED BY <2>3 DEF Block
<1>2. Blocks(runs, i) = Blocks(others, i)
  BY <1>1 DEF Blocks
<1>3. Cumulative(runs, i) = Cardinality(Blocks(runs, i)) /\ Cumulative(others, i) = Cardinality(Blocks(others, i))
  BY DEF Cumulative, Blocks, Block
<1> QED BY <1>2, <1>3, Zenon

(***************************************************************************)
(* Texts and handles                                                       *)
(***************************************************************************)
\* A value of type String is a text, and TextsOf leaves out no text of its values.
LEMMA TextsOfItems ==
  ASSUME NEW props \in Seq(PropertyValue)
  PROVE  /\ TextsOf(props) \in Seq(Texts)
         /\ \A i \in 1 .. Len(props) : props[i].typ = "String" =>
              \E k \in 1 .. Len(TextsOf(props)) : TextsOf(props)[k] = props[i].key[1]
<1> DEFINE P == {i \in DOMAIN props : props[i].typ = "String"}
<1>1. Len(props) \in Nat /\ DOMAIN props = 1 .. Len(props) /\ Within(P, Len(props))
  BY LenProperties DEF Within
<1>2. \A i \in P : props[i].key[1] \in Texts
  <2> TAKE i \in P
  <2>1. props[i] \in PropertyValue /\ props[i].typ = "String"
    BY <1>1, ElementOfSeq
  <2> QED BY <2>1 DEF PropertyValue
<1>3. TextsOf(props) = [k \in 1 .. Cardinality(P) |-> props[Nth(P, k)].key[1]]
  BY DEF TextsOf
<1> HIDE DEF P
<1>4. Cardinality(P) \in Nat
  BY <1>1, PositionsFinite
<1>5. TextsOf(props) \in ListOf(Texts, Cardinality(P))
  BY <1>1, <1>2, <1>3, NthFound DEF ListOf
<1>6. TextsOf(props) \in Seq(Texts) /\ Len(TextsOf(props)) = Cardinality(P)
  BY <1>4, <1>5, ListIsSeq
<1>7. ASSUME NEW i \in P
      PROVE  Rank(P, i) \in 1 .. Cardinality(P) /\ TextsOf(props)[Rank(P, i)] = props[i].key[1]
  BY <1>1, <1>3, NthOfRank
<1>8. \A i \in 1 .. Len(props) : props[i].typ = "String" => i \in P
  BY <1>1 DEF P
<1> QED BY <1>6, <1>7, <1>8

\* Interning keeps the pool as it is, in front, and every text ends up in it.
LEMMA InternedItems ==
  ASSUME NEW S, NEW pool \in Seq(S), NEW texts \in Seq(S)
  PROVE  /\ Interned(pool, texts) \in Seq(S)
         /\ Len(pool) \in Nat /\ Len(Interned(pool, texts)) \in Nat
         /\ Len(pool) <= Len(Interned(pool, texts))
         /\ \A i \in 1 .. Len(pool) : Interned(pool, texts)[i] = pool[i]
         /\ \A i \in 1 .. Len(texts) :
              \E h \in 1 .. Len(Interned(pool, texts)) : Interned(pool, texts)[h] = texts[i]
<1> DEFINE P == {i \in DOMAIN texts : /\ texts[i] \notin Range(pool)
                                      /\ \A j \in 1 .. i - 1 : texts[j] # texts[i]}
           new == Keep(texts, P)
           all == Interned(pool, texts)
<1>1. Len(texts) \in Nat /\ DOMAIN texts = 1 .. Len(texts) /\ Within(P, Len(texts))
  BY LenProperties DEF Within
<1>2. Len(pool) \in Nat /\ DOMAIN pool = 1 .. Len(pool)
  BY LenProperties
<1>3. all = pool \o new
  BY DEF Interned
<1>4. ASSUME NEW i \in 1 .. Len(texts), texts[i] \notin Range(pool)
      PROVE  \E m \in P : texts[m] = texts[i]
  <2> DEFINE F == {j \in 1 .. Len(texts) : texts[j] = texts[i]}
  <2>1. F \subseteq Nat /\ F # {}
    BY <1>1
  <2>2. PICK m \in Nat : m \in F /\ \A y \in F : m <= y
    <3> HIDE DEF F
    <3> QED BY <2>1, LowestIsLeast
  <2>3. \A j \in 1 .. m - 1 : j \notin F
    <3> HIDE DEF F
    <3> QED BY <2>2
  <2>4. m \in 1 .. Len(texts) /\ texts[m] = texts[i]
    BY <2>2
  <2>5. \A j \in 1 .. m - 1 : texts[j] # texts[m]
    BY <1>1, <2>3, <2>4
  <2> QED BY <1>1, <1>4, <2>4, <2>5
<1>5. /\ new \in Seq(S) /\ Len(new) = Cardinality(P) /\ Cardinality(P) \in Nat
      /\ \A x \in P : Rank(P, x) \in 1 .. Cardinality(P) /\ new[Rank(P, x)] = texts[x]
  <2> HIDE DEF P
  <2> QED BY <1>1, KeepItems, PositionsFinite
<1> HIDE DEF P, new, all
<1>6. /\ all \in Seq(S) /\ Len(all) = Len(pool) + Len(new)
      /\ \A i \in 1 .. Len(pool) + Len(new) :
           all[i] = IF i <= Len(pool) THEN pool[i] ELSE new[i - Len(pool)]
  BY <1>3, <1>5, ConcatProperties
<1>7. Len(new) \in Nat
  BY <1>5
<1>8. \A k \in 1 .. Len(new) : Len(pool) + k \in 1 .. Len(all) /\ all[Len(pool) + k] = new[k]
  <2> TAKE k \in 1 .. Len(new)
  <2>1. Len(pool) + k \in 1 .. Len(pool) + Len(new) /\ ~ (Len(pool) + k <= Len(pool))
        /\ (Len(pool) + k) - Len(pool) = k
    BY <1>2, <1>7
  <2> QED BY <1>6, <2>1
<1>9. \A i \in 1 .. Len(pool) : i \in 1 .. Len(all) /\ all[i] = pool[i]
  BY <1>2, <1>6, <1>7
<1>10. ASSUME NEW i \in 1 .. Len(texts) PROVE \E h \in 1 .. Len(all) : all[h] = texts[i]
  <2>1. CASE texts[i] \in Range(pool)
    <3>1. PICK h \in DOMAIN pool : pool[h] = texts[i]
      BY <2>1 DEF Range
    <3> QED BY <1>2, <1>9, <3>1
  <2>2. CASE texts[i] \notin Range(pool)
    <3>1. PICK m \in P : texts[m] = texts[i]
      BY <1>4, <2>2
    <3>2. Rank(P, m) \in 1 .. Len(new) /\ new[Rank(P, m)] = texts[i]
      BY <1>5, <3>1
    <3> QED BY <1>8, <3>2
  <2> QED BY <2>1, <2>2
<1>11. Len(all) \in Nat /\ Len(pool) <= Len(all)
  BY <1>2, <1>6, <1>7
<1> QED BY <1>2, <1>6, <1>9, <1>10, <1>11 DEF all

\* A value is stored under a key of its type; a text that is in the pool, under its handle.
InPool(prop, pool) == prop.typ = "String" => \E h \in 1 .. Len(pool) : pool[h] = prop.key[1]
\* Its handle is one of the pool's.
LEMMA StoredKey ==
  ASSUME NEW S, NEW pool \in Seq(S), NEW prop \in PropertyValue, InPool(prop, pool)
  PROVE  /\ Stored(prop, pool).typ = prop.typ /\ Stored(prop, pool).key \in Key
         /\ prop.typ # "String" => Stored(prop, pool).key = prop.key
         /\ prop.typ = "String" =>
              /\ Stored(prop, pool).key[1] \in Nat
              /\ Stored(prop, pool).key[1] < Len(pool)
<1>1. CASE prop.typ # "String"
  BY <1>1 DEF Stored, PropertyValue
<1>2. CASE prop.typ = "String"
  <2> DEFINE id == StringId(pool, prop.key[1])
  <2>1. Len(pool) \in Nat /\ DOMAIN pool = 1 .. Len(pool)
    BY LenProperties
  <2>2. \E h \in DOMAIN pool : pool[h] = prop.key[1]
    BY <1>2, <2>1 DEF InPool
  <2>3. id + 1 \in DOMAIN pool
    BY <2>1, <2>2 DEF StringId
  <2>4. id \in Nat /\ id < Len(pool)
    <3>1. PICK h \in 1 .. Len(pool) : id = h - 1
      BY <2>1, <2>2 DEF StringId
    <3> HIDE DEF id
    <3> QED BY <2>1, <3>1
  <2>5. Stored(prop, pool) = [typ |-> "String", key |-> <<id>>]
    BY <1>2 DEF Stored
  <2> HIDE DEF id
  <2>6. <<id>> \in Key
    BY <2>4 DEF Key
  <2> QED BY <1>2, <2>4, <2>5, <2>6
<1> QED BY <1>1, <1>2

(***************************************************************************)
(* What makes a slot sound                                                 *)
(***************************************************************************)
\* The offsets of a slot of n nodes: none at all, or where each node's run starts and
\* the last one ends, from 0 up and never down.
Shaped(offsets, n) ==
  offsets # <<>> =>
    /\ Len(offsets) = n + 1 /\ offsets[1] = 0
    /\ \A i \in 1 .. n : offsets[i] <= offsets[i + 1]

PropertySlotSound(slot, n, typ) ==
  /\ slot \in PropertyStorageSlot /\ slot.values.typ = typ
  /\ Shaped(slot.offsets, n) /\ LastOffset(slot.offsets) = Len(slot.values.items)

\* Edges without value have no items to count.
EdgeSlotSound(slot, n, typ) ==
  /\ slot \in EdgeStorageSlot /\ slot.values.typ = typ
  /\ Shaped(slot.offsets, n) /\ LastOffset(slot.offsets) = Len(slot.neighbors)
  /\ typ # "None" => Len(slot.values.items) = Len(slot.neighbors)

\* A later node's run starts no earlier, and every run ends before the last offset.
LEMMA OffsetsOrdered ==
  ASSUME NEW n \in Nat, NEW offsets \in Seq(0 .. MaxOffset), Shaped(offsets, n), offsets # <<>>,
         NEW i \in 1 .. n + 1, NEW j \in 1 .. n + 1, i <= j
  PROVE  /\ offsets[i] \in 0 .. MaxOffset /\ offsets[j] \in 0 .. MaxOffset
         /\ offsets[i] <= offsets[j] /\ offsets[j] <= LastOffset(offsets)
         /\ LastOffset(offsets) \in 0 .. MaxOffset
<1>1. \A m \in 1 .. n + 1 : offsets[m] \in 0 .. MaxOffset
  BY ElementOfSeq DEF Shaped
<1>2. ASSUME NEW a \in 1 .. n + 1, NEW b \in 1 .. n + 1, a <= b PROVE offsets[a] <= offsets[b]
  <2> DEFINE F == {m \in 1 .. n + 1 : a <= m /\ ~ (offsets[a] <= offsets[m])}
  <2>1. ASSUME F # {} PROVE FALSE
    <3>1. F \subseteq Nat
      OBVIOUS
    <3>2. PICK m \in Nat : m \in F /\ \A y \in F : m <= y
      <4> HIDE DEF F
      <4> QED BY <2>1, <3>1, LowestIsLeast
    <3>3. m \in 1 .. n + 1 /\ a <= m /\ ~ (offsets[a] <= offsets[m])
      BY <3>2
    <3>4. m # a
      BY <1>1, <3>3, StorageAssumption
    <3>5. m - 1 \in 1 .. n /\ m - 1 \in 1 .. n + 1 /\ a <= m - 1 /\ m - 1 \notin F /\ (m - 1) + 1 = m
      BY <3>2, <3>3, <3>4
    <3>6. offsets[a] <= offsets[m - 1] /\ offsets[m - 1] <= offsets[m]
      BY <3>5 DEF Shaped
    <3>7. offsets[a] \in Int /\ offsets[m - 1] \in Int /\ offsets[m] \in Int
      BY <1>1, <3>3, <3>5, StorageAssumption
    <3> HIDE DEF F
    <3> QED BY <3>3, <3>6, <3>7
  <2> QED BY <1>2, <2>1
<1>3. LastOffset(offsets) = offsets[n + 1] /\ n + 1 \in 1 .. n + 1
  BY DEF LastOffset, Shaped
<1> QED BY <1>1, <1>2, <1>3

\* A run of a sound slot lies within its arrays.
LEMMA RunWithin ==
  ASSUME NEW n \in Nat, NEW slot, slot.offsets \in Seq(0 .. MaxOffset), Shaped(slot.offsets, n),
         NEW seq \in Nat, HasOffset(slot, seq)
  PROVE  /\ slot.offsets # <<>> /\ seq < n
         /\ Start(slot, seq) \in Nat /\ End(slot, seq) \in Nat /\ LastOffset(slot.offsets) \in Nat
         /\ Start(slot, seq) <= End(slot, seq) /\ End(slot, seq) <= LastOffset(slot.offsets)
<1>1. slot.offsets # <<>>
  BY EmptySeq DEF HasOffset
<1>2. Len(slot.offsets) = n + 1 /\ seq + 1 \in 1 .. n + 1 /\ seq + 2 \in 1 .. n + 1 /\ seq < n
  BY <1>1 DEF Shaped, HasOffset
<1>3. /\ slot.offsets[seq + 1] \in 0 .. MaxOffset /\ slot.offsets[seq + 2] \in 0 .. MaxOffset
      /\ slot.offsets[seq + 1] <= slot.offsets[seq + 2]
      /\ slot.offsets[seq + 2] <= LastOffset(slot.offsets)
      /\ LastOffset(slot.offsets) \in 0 .. MaxOffset
  BY <1>1, <1>2, OffsetsOrdered
<1> QED BY <1>1, <1>2, <1>3, StorageAssumption DEF Start, End

(***************************************************************************)
(* prepare_property_updates                                                *)
(***************************************************************************)
\* Updates of nodes among the first n, each to a list of values.
UpdatesTyped(updates, n) ==
  \A seq \in DOMAIN updates : seq \in 0 .. n - 1 /\ updates[seq] \in Seq(PropertyValue)

\* The runs whose lengths UpdateError adds up.
Kept(slot) == [typ |-> slot.values.typ]
CheckedRuns(slot, updates) ==
  [i \in 1 .. Len(slot.offsets) - 1 |->
     IF i - 1 \in DOMAIN updates THEN updates[i - 1] ELSE Repeat(Kept(slot), Degree(slot, i - 1))]

\* Updates that pass have offsets to change; each value is of the slot's type, and no
\* run ends past the largest offset.
LEMMA UpdatePasses ==
  ASSUME NEW slot, NEW updates, UpdateError(slot, updates) = Ok, DOMAIN updates # {},
         slot.offsets \in Seq(0 .. MaxOffset)
  PROVE  /\ slot.offsets # <<>>
         /\ \A i \in 1 .. Len(CheckedRuns(slot, updates)) :
              /\ AllOfType(CheckedRuns(slot, updates)[i], slot.values.typ)
              /\ ~ (0 + Cumulative(CheckedRuns(slot, updates), i) > MaxOffset)
<1> DEFINE runs == CheckedRuns(slot, updates)
           E(i) == BatchError(slot.values.typ, 0, runs, i)
           F == {i \in 1 .. Len(runs) : E(i) # Ok}
<1>1. slot.offsets # <<>>
  BY DEF UpdateError, Ok
<1>2. UpdateError(slot, updates) = FirstError(Len(runs), LAMBDA i : BatchError(slot.values.typ, 0, runs, i))
  BY <1>1 DEF UpdateError, CheckedRuns, Kept
<1>3. FirstError(Len(runs), LAMBDA i : BatchError(slot.values.typ, 0, runs, i))
        = IF F = {} THEN Ok ELSE E(Lowest(F))
  BY DEF FirstError
<1>4. F \subseteq Nat
  OBVIOUS
<1>5. F = {}
  <2>1. ASSUME F # {} PROVE Lowest(F) \in F
    <3> HIDE DEF F
    <3> QED BY <1>4, <2>1, LowestIsLeast
  <2> QED BY <1>2, <1>3, <2>1
<1>6. \A i \in 1 .. Len(runs) : E(i) = Ok
  BY <1>5
<1>7. \A i \in 1 .. Len(runs) : AllOfType(runs[i], slot.values.typ) /\ ~ (0 + Cumulative(runs, i) > MaxOffset)
  BY <1>6 DEF BatchError, Ok
<1> QED BY <1>1, <1>7

\* Every text among values is in the pool.
AllInPool(props, pool) == \A k \in 1 .. Len(props) : InPool(props[k], pool)

\* Values whose texts are in the pool are stored one for one.
LEMMA KeysOfItems ==
  ASSUME NEW S, NEW pool \in Seq(S), NEW props \in Seq(PropertyValue), AllInPool(props, pool)
  PROVE  /\ KeysOf(props, pool) \in Seq(Key) /\ Len(KeysOf(props, pool)) = Len(props)
         /\ \A k \in 1 .. Len(props) : KeysOf(props, pool)[k] = Stored(props[k], pool).key
<1>1. Len(props) \in Nat /\ DOMAIN props = 1 .. Len(props)
  BY LenProperties
<1>2. KeysOf(props, pool) = [k \in 1 .. Len(props) |-> Stored(props[k], pool).key]
  BY <1>1 DEF KeysOf
<1>3. \A k \in 1 .. Len(props) : Stored(props[k], pool).key \in Key
  BY <1>1, ElementOfSeq, StoredKey DEF AllInPool
<1>4. KeysOf(props, pool) \in ListOf(Key, Len(props))
  BY <1>2, <1>3 DEF ListOf
<1> QED BY <1>1, <1>2, <1>4, ListIsSeq

\* The runs UpdatedSlot writes.
WrittenRuns(slot, updates, pool) ==
  [i \in 1 .. Len(slot.offsets) - 1 |->
     IF i - 1 \in DOMAIN updates
       THEN KeysOf(updates[i - 1], pool)
       ELSE SubSeq(slot.values.items, Start(slot, i - 1) + 1, End(slot, i - 1))]

\* They are as long as those UpdateError checks, and hold what the slot held or the
\* updates bring.
RunsFit(slot, updates, pool, n) ==
  /\ WrittenRuns(slot, updates, pool) \in Seq(Seq(Key))
  /\ Len(WrittenRuns(slot, updates, pool)) = n
  /\ CheckedRuns(slot, updates) \in Seq(Seq(PropertyValue \cup {Kept(slot)}))
  /\ Len(CheckedRuns(slot, updates)) = n
  /\ \A i \in 1 .. n :
       /\ Len(WrittenRuns(slot, updates, pool)[i]) = Len(CheckedRuns(slot, updates)[i])
       /\ \A k \in 1 .. Len(WrittenRuns(slot, updates, pool)[i]) :
            \/ \E q \in 1 .. Len(slot.values.items) :
                 WrittenRuns(slot, updates, pool)[i][k] = slot.values.items[q]
            \/ /\ i - 1 \in DOMAIN updates /\ k \in 1 .. Len(updates[i - 1])
               /\ WrittenRuns(slot, updates, pool)[i][k] = Stored(updates[i - 1][k], pool).key
\* Runs are written as long as they were checked to be, of stored keys and of new ones.
LEMMA RunsWritten ==
  ASSUME NEW S, NEW pool \in Seq(S), NEW n \in Nat, NEW typ, NEW slot,
         PropertySlotSound(slot, n, typ), slot.offsets # <<>>,
         NEW updates, UpdatesTyped(updates, n),
         \A seq \in DOMAIN updates : AllInPool(updates[seq], pool)
  PROVE  RunsFit(slot, updates, pool, n)
<1> DEFINE written == WrittenRuns(slot, updates, pool)
           checked == CheckedRuns(slot, updates)
           items == slot.values.items
           V == PropertyValue \cup {Kept(slot)}
<1>1. /\ slot.offsets \in Seq(0 .. MaxOffset) /\ Shaped(slot.offsets, n)
      /\ items \in Seq(Key) /\ Len(items) \in Nat
      /\ Len(slot.offsets) = n + 1 /\ LastOffset(slot.offsets) = Len(items)
  <2>1. slot.values.items \in Seq(Key)
    BY DEF PropertySlotSound, PropertyStorageSlot, StorageArray
  <2> QED BY <2>1, LenProperties DEF PropertySlotSound, PropertyStorageSlot, Shaped
<1>2. ASSUME NEW i \in 1 .. n
      PROVE  /\ written[i] \in Seq(Key) /\ checked[i] \in Seq(V)
             /\ Len(written[i]) = Len(checked[i])
             /\ \A k \in 1 .. Len(written[i]) :
                  \/ \E q \in 1 .. Len(items) : written[i][k] = items[q]
                  \/ i - 1 \in DOMAIN updates /\ k \in 1 .. Len(updates[i - 1])
                     /\ written[i][k] = Stored(updates[i - 1][k], pool).key
  <2>1. CASE i - 1 \in DOMAIN updates
    <3>1. written[i] = KeysOf(updates[i - 1], pool) /\ checked[i] = updates[i - 1]
      BY <1>1, <2>1 DEF WrittenRuns, CheckedRuns
    <3>2. updates[i - 1] \in Seq(PropertyValue) /\ AllInPool(updates[i - 1], pool)
      BY <2>1 DEF UpdatesTyped
    <3>3. updates[i - 1] \in Seq(V)
      BY <3>2, SeqMonotonic
    <3> QED BY <2>1, <3>1, <3>2, <3>3, KeysOfItems
  <2>2. CASE i - 1 \notin DOMAIN updates
    <3> DEFINE from == Start(slot, i - 1)
               to == End(slot, i - 1)
    <3>1. written[i] = SubSeq(items, from + 1, to) /\ checked[i] = Repeat(Kept(slot), Degree(slot, i - 1))
      <4>1. i \in 1 .. Len(slot.offsets) - 1
        BY <1>1
      <4>2. written[i] = SubSeq(items, from + 1, to)
        BY <2>2, <4>1, Zenon DEF WrittenRuns
      <4>3. checked[i] = Repeat(Kept(slot), Degree(slot, i - 1))
        BY <2>2, <4>1, Zenon DEF CheckedRuns
      <4> QED BY <4>2, <4>3
    <3>2. i - 1 \in Nat /\ HasOffset(slot, i - 1)
      BY <1>1 DEF HasOffset
    <3>3. from \in Nat /\ to \in Nat /\ from <= to /\ to <= Len(items)
      BY <1>1, <3>2, RunWithin
    <3>4. Degree(slot, i - 1) = to - from /\ to - from \in Nat
      BY <3>3 DEF Degree
    <3> HIDE DEF from, to
    <3>5. Repeat(Kept(slot), to - from) \in ListOf(V, to - from)
      BY DEF Repeat, ListOf
    <3>6. checked[i] \in Seq(V) /\ Len(checked[i]) = to - from
      BY <3>1, <3>4, <3>5, ListIsSeq
    <3>7. \A q \in from + 1 .. to : q \in 1 .. Len(items) /\ items[q] \in Key
      BY <1>1, <3>3, ElementOfSeq
    <3>8. /\ SubSeq(items, from + 1, to) \in Seq(Key)
          /\ Len(SubSeq(items, from + 1, to)) = IF from + 1 <= to THEN to - (from + 1) + 1 ELSE 0
          /\ \A k \in 1 .. to - (from + 1) + 1 :
               SubSeq(items, from + 1, to)[k] = items[from + 1 + k - 1]
      <4>1. from + 1 \in Int /\ to \in Int
        BY <3>3
      <4> QED BY <3>7, <4>1, SubSeqProperties
    <3>9. Len(written[i]) = to - from
      BY <3>1, <3>3, <3>8
    <3>10. \A k \in 1 .. to - from : \E q \in 1 .. Len(items) : written[i][k] = items[q]
      <4> TAKE k \in 1 .. to - from
      <4>1. k \in 1 .. to - (from + 1) + 1 /\ from + 1 + k - 1 \in from + 1 .. to
        BY <3>3
      <4> QED BY <3>1, <3>7, <3>8, <4>1
    <3> QED BY <3>1, <3>6, <3>8, <3>9, <3>10
  <2> QED BY <2>1, <2>2
<1>3. written \in ListOf(Seq(Key), n) /\ checked \in ListOf(Seq(V), n)
  <2>1. DOMAIN written = 1 .. n /\ DOMAIN checked = 1 .. n
    BY <1>1 DEF WrittenRuns, CheckedRuns
  <2>2. written = [i \in 1 .. n |-> written[i]] /\ checked = [i \in 1 .. n |-> checked[i]]
    BY <2>1 DEF WrittenRuns, CheckedRuns
  <2> HIDE DEF written, checked, V
  <2> QED BY <1>2, <2>2 DEF ListOf
<1>4. written \in Seq(Seq(Key)) /\ Len(written) = n /\ checked \in Seq(Seq(V)) /\ Len(checked) = n
  <2> HIDE DEF written, checked, V
  <2> QED BY <1>3, ListIsSeq
<1> QED BY <1>2, <1>4, Zenon DEF RunsFit

\* A slot whose updates pass is sound again once they are written, and holds what it
\* held or what the updates bring.
LEMMA UpdatedSlotSound ==
  ASSUME NEW S, NEW pool \in Seq(S), NEW n \in Nat, NEW typ, NEW slot, PropertySlotSound(slot, n, typ),
         NEW updates, UpdatesTyped(updates, n), DOMAIN updates # {}, UpdateError(slot, updates) = Ok,
         \A seq \in DOMAIN updates : AllInPool(updates[seq], pool)
  PROVE  LET updated == UpdatedSlot(slot, updates, pool)
         IN  /\ PropertySlotSound(updated, n, typ) /\ updated.offsets # <<>>
             /\ \A p \in 1 .. Len(updated.values.items) :
                  \/ \E q \in 1 .. Len(slot.values.items) :
                       updated.values.items[p] = slot.values.items[q]
                  \/ \E seq \in DOMAIN updates : \E k \in 1 .. Len(updates[seq]) :
                       /\ updates[seq][k].typ = typ
                       /\ updated.values.items[p] = Stored(updates[seq][k], pool).key
<1> DEFINE updated == UpdatedSlot(slot, updates, pool)
           written == WrittenRuns(slot, updates, pool)
           checked == CheckedRuns(slot, updates)
           V == PropertyValue \cup {Kept(slot)}
           C(i) == Cumulative(written, i)
           offsets == [i \in 1 .. n + 1 |-> C(i - 1)]
           items == Concat(written)
<1>1. /\ slot.offsets \in Seq(0 .. MaxOffset) /\ Shaped(slot.offsets, n)
      /\ slot.values \in StorageArray /\ slot.values.typ = typ
  BY DEF PropertySlotSound, PropertyStorageSlot
<1>2. /\ slot.offsets # <<>>
      /\ \A i \in 1 .. Len(checked) : AllOfType(checked[i], typ) /\ ~ (0 + Cumulative(checked, i) > MaxOffset)
  BY <1>1, UpdatePasses
<1>3. /\ written \in Seq(Seq(Key)) /\ Len(written) = n
      /\ checked \in Seq(Seq(V)) /\ Len(checked) = n
      /\ \A i \in 1 .. n :
           /\ Len(written[i]) = Len(checked[i])
           /\ \A k \in 1 .. Len(written[i]) :
                \/ \E q \in 1 .. Len(slot.values.items) : written[i][k] = slot.values.items[q]
                \/ i - 1 \in DOMAIN updates /\ k \in 1 .. Len(updates[i - 1])
                   /\ written[i][k] = Stored(updates[i - 1][k], pool).key
  <2>1. RunsFit(slot, updates, pool, n)
    BY <1>2, RunsWritten
  <2> QED BY <2>1, Zenon DEF RunsFit
<1>4. Len(slot.offsets) = n + 1
  BY <1>1, <1>2 DEF Shaped
<1>5. updated = [offsets |-> offsets, values |-> [slot.values EXCEPT !.items = items]]
  <2>1. updated = [offsets |-> [i \in 1 .. Len(slot.offsets) |-> Cumulative(written, i - 1)],
                   values |-> [slot.values EXCEPT !.items = Concat(written)]]
    BY DEF UpdatedSlot, WrittenRuns
  <2> QED BY <1>4, <2>1
<1> HIDE DEF written, checked, V
<1>6. C(0) = 0 /\ \A i \in 0 .. n : C(i) \in 0 .. MaxOffset
  <2>1. C(0) = 0
    BY <1>3, CumulativeGrows
  <2>2. ASSUME NEW i \in 1 .. n PROVE C(i) \in 0 .. MaxOffset
    <3>1. AsLong(written, checked) /\ i \in Nat /\ i <= Len(written)
      BY <1>3 DEF AsLong
    <3>2. C(i) = Cumulative(checked, i)
      <4> HIDE DEF C
      <4>1. Cumulative(written, i) = Cumulative(checked, i)
        <5>1. written \in Seq(Seq(Key)) /\ checked \in Seq(Seq(V))
          BY <1>3
        <5> QED BY <3>1, <5>1, SameLengths
      <4> QED BY <4>1 DEF C
    <3>3. C(i) \in Nat
      BY <1>3, <3>1, CumulativeGrows
    <3>4. ~ (0 + Cumulative(checked, i) > MaxOffset)
      BY <1>2, <1>3
    <3> QED BY <3>2, <3>4, <3>3, StorageAssumption
  <2> QED BY <2>1, <2>2, StorageAssumption
<1>7. \A i \in 1 .. n : C(i - 1) <= C(i)
  <2> TAKE i \in 1 .. n
  <2>1. i - 1 \in Nat /\ i \in Nat /\ i - 1 <= i /\ i <= n
    OBVIOUS
  <2> QED BY <1>3, <2>1, CumulativeOrders
<1>8. offsets \in Seq(0 .. MaxOffset) /\ Len(offsets) = n + 1
  <2>1. offsets \in ListOf(0 .. MaxOffset, n + 1)
    BY <1>6 DEF ListOf
  <2>2. n + 1 \in Nat
    OBVIOUS
  <2> QED BY <2>1, <2>2, ListIsSeq
<1>9. /\ items \in Seq(Key) /\ Len(items) = C(n)
      /\ \A p \in 1 .. C(n) : \E j \in 1 .. n : \E k \in 1 .. Len(written[j]) : items[p] = written[j][k]
  <2>1. /\ items \in Seq(Key) /\ Len(items) = Cumulative(written, Len(written))
        /\ \A p \in 1 .. Cumulative(written, Len(written)) :
             \E j \in 1 .. Len(written) : \E k \in 1 .. Len(written[j]) : items[p] = written[j][k]
    BY <1>3, ConcatItems
  <2> QED BY <1>3, <2>1
<1>10. offsets # <<>> /\ offsets[1] = 0 /\ LastOffset(offsets) = Len(items)
       /\ \A i \in 1 .. n : offsets[i] <= offsets[i + 1]
  <2>1. offsets # <<>>
    BY <1>8, EmptySeq
  <2>2. LastOffset(offsets) = offsets[n + 1]
    <3> HIDE DEF offsets
    <3> QED BY <1>8, <2>1 DEF LastOffset
  <2>3. offsets[1] = C(0) /\ offsets[n + 1] = C(n) /\ \A i \in 1 .. n : offsets[i] = C(i - 1) /\ offsets[i + 1] = C(i)
    OBVIOUS
  <2> HIDE DEF offsets
  <2> QED BY <1>6, <1>7, <1>9, <2>1, <2>2, <2>3
<1> HIDE DEF offsets, items
<1>11. PropertySlotSound(updated, n, typ) /\ updated.offsets # <<>> /\ updated.values.items = items
  <2>1. [slot.values EXCEPT !.items = items] \in StorageArray
        /\ [slot.values EXCEPT !.items = items].typ = typ
        /\ [slot.values EXCEPT !.items = items].items = items
    BY <1>1, <1>9 DEF StorageArray
  <2>2. Shaped(offsets, n)
    BY <1>8, <1>10 DEF Shaped
  <2> HIDE DEF updated
  <2> QED BY <1>5, <1>8, <1>10, <2>1, <2>2 DEF PropertySlotSound, PropertyStorageSlot
<1>12. ASSUME NEW p \in 1 .. Len(items)
       PROVE  \/ \E q \in 1 .. Len(slot.values.items) : items[p] = slot.values.items[q]
              \/ \E seq \in DOMAIN updates : \E k \in 1 .. Len(updates[seq]) :
                   updates[seq][k].typ = typ /\ items[p] = Stored(updates[seq][k], pool).key
  <2>1. PICK j \in 1 .. n : \E k \in 1 .. Len(written[j]) : items[p] = written[j][k]
    BY <1>9
  <2>2. PICK k \in 1 .. Len(written[j]) : items[p] = written[j][k]
    BY <2>1
  <2>3. CASE \E q \in 1 .. Len(slot.values.items) : written[j][k] = slot.values.items[q]
    BY <2>2, <2>3
  <2>4. CASE j - 1 \in DOMAIN updates /\ k \in 1 .. Len(updates[j - 1])
             /\ written[j][k] = Stored(updates[j - 1][k], pool).key
    <3>1. checked[j] = updates[j - 1]
      BY <1>4, <2>4 DEF checked, CheckedRuns
    <3>2. AllOfType(updates[j - 1], typ)
      BY <1>2, <1>3, <3>1
    <3>3. DOMAIN updates[j - 1] = 1 .. Len(updates[j - 1])
      BY <2>4, LenProperties DEF UpdatesTyped
    <3>4. updates[j - 1][k].typ = typ
      BY <2>4, <3>2, <3>3 DEF AllOfType
    <3> QED BY <2>2, <2>4, <3>4
  <2> QED BY <1>3, <2>3, <2>4
<1> QED BY <1>11, <1>12

(***************************************************************************)
(* prepare_new_node_properties                                             *)
(***************************************************************************)
\* A list of length n whose items satisfy what its indices say.
LEMMA RepeatIsList ==
  ASSUME NEW S, NEW x \in S, NEW n \in Nat
  PROVE  Repeat(x, n) \in Seq(S) /\ Len(Repeat(x, n)) = n /\ \A i \in 1 .. n : Repeat(x, n)[i] = x
<1>1. Repeat(x, n) = [i \in 1 .. n |-> x]
  BY DEF Repeat
<1>2. Repeat(x, n) \in ListOf(S, n)
  BY <1>1 DEF ListOf
<1> QED BY <1>1, <1>2, ListIsSeq

\* Lists of values that pass are of the slot's type and end no later than the largest
\* offset.
LEMMA AppendPasses ==
  ASSUME NEW typ, NEW offsets, NEW lists \in Seq(Seq(PropertyValue)),
         AppendError(typ, offsets, lists) = Ok
  PROVE  \A i \in 1 .. Len(lists) :
           AllOfType(lists[i], typ) /\ ~ (LastOffset(offsets) + Cumulative(lists, i) > MaxOffset)
<1> DEFINE E(i) == BatchError(typ, LastOffset(offsets), lists, i)
           F == {i \in 1 .. Len(lists) : E(i) # Ok}
<1>1. AppendError(typ, offsets, lists)
        = FirstError(Len(lists), LAMBDA i : BatchError(typ, LastOffset(offsets), lists, i))
  BY DEF AppendError
<1>2. FirstError(Len(lists), LAMBDA i : BatchError(typ, LastOffset(offsets), lists, i))
        = IF F = {} THEN Ok ELSE E(Lowest(F))
  BY DEF FirstError
<1>3. F \subseteq Nat
  OBVIOUS
<1>4. F = {}
  <2>1. ASSUME F # {} PROVE Lowest(F) \in F
    <3> HIDE DEF F
    <3> QED BY <1>3, <2>1, LowestIsLeast
  <2> QED BY <1>1, <1>2, <2>1
<1>5. \A i \in 1 .. Len(lists) : E(i) = Ok
  BY <1>4
<1> QED BY <1>5 DEF BatchError, Ok

\* The offsets new nodes' runs are counted from: the slot's own, or those of n nodes
\* without values.
Grounded(offsets, n) == IF offsets = <<>> THEN Repeat(0, n + 1) ELSE offsets

\* Those are offsets of n nodes that end where the slot's values do.
LEMMA GroundedShaped ==
  ASSUME NEW n \in Nat, NEW offsets \in Seq(0 .. MaxOffset), Shaped(offsets, n)
  PROVE  /\ Grounded(offsets, n) \in Seq(0 .. MaxOffset) /\ Shaped(Grounded(offsets, n), n)
         /\ Len(Grounded(offsets, n)) = n + 1 /\ Grounded(offsets, n) # <<>>
         /\ Grounded(offsets, n)[n + 1] = LastOffset(offsets)
         /\ LastOffset(Grounded(offsets, n)) = LastOffset(offsets)
<1>1. CASE offsets = <<>>
  <2>1. 0 \in 0 .. MaxOffset /\ n + 1 \in Nat
    BY StorageAssumption
  <2>2. /\ Grounded(offsets, n) \in Seq(0 .. MaxOffset) /\ Len(Grounded(offsets, n)) = n + 1
        /\ \A i \in 1 .. n + 1 : Grounded(offsets, n)[i] = 0
    BY <1>1, <2>1, RepeatIsList DEF Grounded
  <2>3. Grounded(offsets, n) # <<>>
    BY <2>1, <2>2, EmptySeq
  <2> QED BY <1>1, <2>2, <2>3 DEF Shaped, LastOffset
<1>2. CASE offsets # <<>>
  BY <1>2 DEF Grounded, Shaped, LastOffset
<1> QED BY <1>1, <1>2

\* Offsets of m more nodes behind those of n.
Continues(body, last, m) ==
  \A i \in 1 .. m : (IF i = 1 THEN last ELSE body[i - 1]) <= body[i]
\* Offsets that continue others are the offsets of all the nodes together.
LEMMA ShapeExtended ==
  ASSUME NEW n \in Nat, NEW m \in Nat, NEW base \in Seq(0 .. MaxOffset), NEW body \in Seq(0 .. MaxOffset),
         Shaped(base, n), Len(base) = n + 1, Len(body) = m, Continues(body, base[n + 1], m)
  PROVE  /\ base \o body \in Seq(0 .. MaxOffset) /\ Shaped(base \o body, n + m)
         /\ base \o body # <<>> /\ Len(base \o body) = n + m + 1
         /\ LastOffset(base \o body) = IF m = 0 THEN base[n + 1] ELSE body[m]
<1> DEFINE all == base \o body
<1>1. /\ all \in Seq(0 .. MaxOffset) /\ Len(all) = n + m + 1
      /\ \A i \in 1 .. n + m + 1 : all[i] = IF i <= n + 1 THEN base[i] ELSE body[i - (n + 1)]
  <2>1. /\ all \in Seq(0 .. MaxOffset) /\ Len(all) = Len(base) + Len(body)
        /\ \A i \in 1 .. Len(base) + Len(body) : all[i] = IF i <= Len(base) THEN base[i] ELSE body[i - Len(base)]
    BY ConcatProperties
  <2>2. Len(base) + Len(body) = n + m + 1
    OBVIOUS
  <2> HIDE DEF all
  <2> QED BY <2>1, <2>2
<1>2. base # <<>> /\ base[1] = 0 /\ \A i \in 1 .. n : base[i] <= base[i + 1]
  <2>1. base # <<>>
    BY EmptySeq
  <2> QED BY <2>1 DEF Shaped
<1> HIDE DEF all
<1>3. all # <<>>
  BY <1>1, EmptySeq
<1>4. all[1] = 0
  BY <1>1, <1>2
<1>5. ASSUME NEW i \in 1 .. n + m PROVE all[i] <= all[i + 1]
  <2>1. i \in 1 .. n + m + 1 /\ i + 1 \in 1 .. n + m + 1
    OBVIOUS
  <2>2. CASE i <= n
    <3>1. all[i] = base[i] /\ all[i + 1] = base[i + 1]
      BY <1>1, <2>1, <2>2
    <3> QED BY <1>2, <2>2, <3>1
  <2>3. CASE i = n + 1
    <3>1. all[i] = base[n + 1] /\ all[i + 1] = body[1] /\ 1 \in 1 .. m
      BY <1>1, <2>1, <2>3
    <3> QED BY <3>1 DEF Continues
  <2>4. CASE n + 1 < i
    <3> DEFINE k == i - n
    <3>1. k \in 1 .. m /\ k # 1 /\ i - (n + 1) = k - 1 /\ (i + 1) - (n + 1) = k
      BY <2>4
    <3>2. all[i] = body[k - 1] /\ all[i + 1] = body[k]
      BY <1>1, <2>1, <2>4, <3>1
    <3> HIDE DEF k
    <3> QED BY <3>1, <3>2 DEF Continues
  <2> QED BY <2>2, <2>3, <2>4
<1>6. LastOffset(all) = IF m = 0 THEN base[n + 1] ELSE body[m]
  <2>1. LastOffset(all) = all[n + m + 1] /\ n + m + 1 \in 1 .. n + m + 1
    BY <1>1, <1>3 DEF LastOffset
  <2>2. (n + m + 1) - (n + 1) = m /\ (n + m + 1 <= n + 1 <=> m = 0) /\ (m = 0 => n + m + 1 = n + 1)
    OBVIOUS
  <2> QED BY <1>1, <2>1, <2>2
<1> QED BY <1>1, <1>3, <1>4, <1>5, <1>6 DEF all, Shaped

\* Items are those there were or values of lists, of the slot's type, as the pool stores them.
TakesValues(items, old, lists, typ, pool) ==
  \A p \in 1 .. Len(items) :
    \/ \E q \in 1 .. Len(old) : items[p] = old[q]
    \/ \E i \in 1 .. Len(lists) : \E k \in 1 .. Len(lists[i]) :
         lists[i][k].typ = typ /\ items[p] = Stored(lists[i][k], pool).key

\* A slot whose new values pass is sound for the larger number of nodes once they are
\* appended, and holds what it held or what the new nodes bring.
LEMMA AppendedSound ==
  ASSUME NEW S, NEW pool \in Seq(S), NEW n \in Nat, NEW typ, NEW slot, PropertySlotSound(slot, n, typ),
         NEW lists \in Seq(Seq(PropertyValue)), AppendError(typ, slot.offsets, lists) = Ok,
         \A i \in 1 .. Len(lists) : AllInPool(lists[i], pool)
  PROVE  LET appended == Appended(slot, PropertySlotAppend(typ, slot.offsets, lists, n, pool))
         IN  /\ PropertySlotSound(appended, n + Len(lists), typ)
             /\ TakesValues(appended.values.items, slot.values.items, lists, typ, pool)
<1> DEFINE m == Len(lists)
           append == PropertySlotAppend(typ, slot.offsets, lists, n, pool)
           appended == Appended(slot, append)
           C(i) == Cumulative(lists, i)
           last == LastOffset(slot.offsets)
           base == Grounded(slot.offsets, n)
           body == [i \in 1 .. m |-> last + C(i)]
           flat == Concat(lists)
           keys == KeysOf(flat, pool)
           old == slot.values.items
           items == old \o keys
<1>1. /\ slot.offsets \in Seq(0 .. MaxOffset) /\ Shaped(slot.offsets, n)
      /\ slot.values \in StorageArray /\ slot.values.typ = typ
      /\ old \in Seq(Key) /\ last = Len(old) /\ Len(old) \in Nat
  <2>1. slot.values \in StorageArray
    BY DEF PropertySlotSound, PropertyStorageSlot
  <2>2. old \in Seq(Key)
    BY <2>1 DEF StorageArray
  <2> QED BY <2>1, <2>2, LenProperties DEF PropertySlotSound, PropertyStorageSlot
<1>2. m \in Nat /\ DOMAIN lists = 1 .. m /\ \A i \in 1 .. m : lists[i] \in Seq(PropertyValue)
  BY LenProperties, ElementOfSeq
<1>3. \A i \in 1 .. m : AllOfType(lists[i], typ) /\ ~ (last + C(i) > MaxOffset)
  BY AppendPasses
<1>4. C(0) = 0 /\ \A i \in 0 .. m : C(i) \in Nat
  BY <1>2, CumulativeGrows
<1>5. \A i \in 1 .. m : C(i - 1) <= C(i)
  <2> TAKE i \in 1 .. m
  <2>1. i - 1 \in Nat /\ i \in Nat /\ i - 1 <= i /\ i <= m
    BY <1>2
  <2> QED BY <2>1, CumulativeOrders
<1>6. /\ base \in Seq(0 .. MaxOffset) /\ Shaped(base, n) /\ Len(base) = n + 1
      /\ base[n + 1] = last
  BY <1>1, GroundedShaped
<1>7. /\ flat \in Seq(PropertyValue) /\ Len(flat) = C(m)
      /\ \A p \in 1 .. C(m) : \E i \in 1 .. m : \E k \in 1 .. Len(lists[i]) : flat[p] = lists[i][k]
  BY ConcatItems
<1>8. AllInPool(flat, pool)
  BY <1>7 DEF AllInPool
<1>9. keys \in Seq(Key) /\ Len(keys) = C(m) /\ \A k \in 1 .. C(m) : keys[k] = Stored(flat[k], pool).key
  <2> HIDE DEF flat
  <2> QED BY <1>7, <1>8, KeysOfItems
<1>10. /\ appended.offsets = base \o body
       /\ appended.values = [slot.values EXCEPT !.items = items]
  <2>1. append.values_batch.items = keys
    BY DEF PropertySlotAppend
  <2>2. append.offsets_tail = (IF slot.offsets = <<>> THEN Repeat(0, n + 1) ELSE <<>>) \o body
    BY <1>2 DEF PropertySlotAppend
  <2>3. appended = [offsets |-> slot.offsets \o append.offsets_tail,
                    values |-> [slot.values EXCEPT !.items = @ \o append.values_batch.items]]
    BY DEF Appended
  <2> HIDE DEF append, appended, keys, body
  <2>4. appended.offsets = slot.offsets \o append.offsets_tail
        /\ appended.values = [slot.values EXCEPT !.items = old \o append.values_batch.items]
    BY <2>3
  <2>5. slot.offsets \o append.offsets_tail = base \o body
    <3>1. body \in Seq(Int)
      <4>1. \A i \in 1 .. m : last + C(i) \in Int
        <5> TAKE i \in 1 .. m
        <5>1. PICK from \in Nat : from = last
          BY <1>1
        <5>2. PICK count \in Nat : count = C(i)
          BY <1>4
        <5> QED BY <5>1, <5>2
      <4>2. body \in ListOf(Int, m)
        BY <4>1 DEF body, ListOf
      <4> QED BY <1>2, <4>2, ListIsSeq
    <3>2. slot.offsets \in Seq(Int) /\ base \in Seq(Int)
      BY <1>1, <1>6, SeqMonotonic, StorageAssumption
    <3>3. CASE slot.offsets = <<>>
      <4>1. append.offsets_tail = base \o body /\ base \o body \in Seq(Int)
        BY <2>2, <3>1, <3>2, <3>3, ConcatProperties DEF Grounded
      <4> QED BY <3>3, <4>1, ConcatEmptySeq
    <3>4. CASE slot.offsets # <<>>
      <4>1. append.offsets_tail = <<>> \o body
        BY <2>2, <3>4
      <4>2. append.offsets_tail = body
        BY <3>1, <4>1, ConcatEmptySeq
      <4> QED BY <3>4, <4>2 DEF Grounded
    <3> QED BY <3>3, <3>4
  <2> QED BY <2>1, <2>4, <2>5
<1> HIDE DEF appended, append, flat, keys, base
<1>11. body \in Seq(0 .. MaxOffset) /\ Len(body) = m /\ Continues(body, last, m)
       /\ last + C(m) = IF m = 0 THEN last ELSE body[m]
  <2>1. \A i \in 1 .. m : last + C(i) \in 0 .. MaxOffset
    <3> TAKE i \in 1 .. m
    <3>1. i \in 0 .. m
      BY <1>2
    <3>2. C(i) \in Nat /\ last \in Nat /\ ~ (last + C(i) > MaxOffset)
      BY <1>1, <1>3, <1>4, <3>1
    <3> HIDE DEF C, last
    <3> QED BY <3>2, StorageAssumption
  <2>2. body \in ListOf(0 .. MaxOffset, m)
    BY <2>1 DEF ListOf
  <2>3. \A i \in 1 .. m : (IF i = 1 THEN last ELSE body[i - 1]) <= body[i]
    <3> TAKE i \in 1 .. m
    <3>1. body[i] = last + C(i) /\ (IF i = 1 THEN last ELSE body[i - 1]) = last + C(i - 1)
      <4>1. i # 1 => i - 1 \in 1 .. m
        BY <1>2
      <4>2. i # 1 => body[i - 1] = last + C(i - 1)
        BY <4>1
      <4> HIDE DEF C, last
      <4> QED BY <1>1, <1>2, <1>4, <4>2 DEF C, last
    <3>2. C(i - 1) \in Nat /\ C(i) \in Nat /\ C(i - 1) <= C(i)
      BY <1>2, <1>4, <1>5
    <3> HIDE DEF C, last, body
    <3> QED BY <1>1, <3>1, <3>2
  <2>4. m # 0 => body[m] = last + C(m)
    BY <1>2
  <2>5. last + C(m) = IF m = 0 THEN last ELSE body[m]
    <3> HIDE DEF C, last, body, m
    <3> QED BY <1>1, <1>4, <2>4
  <2> QED BY <1>2, <2>2, <2>3, <2>5, ListIsSeq DEF Continues
<1> HIDE DEF body
<1>12. /\ items \in Seq(Key) /\ Len(items) = Len(old) + C(m)
       /\ \A p \in 1 .. Len(old) + C(m) : items[p] = IF p <= Len(old) THEN old[p] ELSE keys[p - Len(old)]
  <2> HIDE DEF old, C, m
  <2>1. /\ items \in Seq(Key) /\ Len(items) = Len(old) + Len(keys)
        /\ \A p \in 1 .. Len(old) + Len(keys) :
             items[p] = IF p <= Len(old) THEN old[p] ELSE keys[p - Len(old)]
    BY <1>1, <1>9, ConcatProperties
  <2>2. Len(keys) = C(m)
    BY <1>9
  <2> HIDE DEF items
  <2> QED BY <2>1, <2>2
<1> HIDE DEF items, old, C, last, m
<1>13. PropertySlotSound(appended, n + m, typ)
  <2>1. /\ base \o body \in Seq(0 .. MaxOffset) /\ Shaped(base \o body, n + m)
        /\ LastOffset(base \o body) = last + C(m)
    BY <1>2, <1>6, <1>11, ShapeExtended
  <2>2. appended.values \in StorageArray /\ appended.values.typ = typ /\ appended.values.items = items
    BY <1>1, <1>10, <1>12 DEF StorageArray
  <2>3. appended = [offsets |-> appended.offsets, values |-> appended.values]
    BY DEF appended, Appended
  <2> QED BY <1>1, <1>10, <1>12, <2>1, <2>2, <2>3 DEF PropertySlotSound, PropertyStorageSlot
<1>14. ASSUME NEW p \in 1 .. Len(items)
       PROVE  \/ \E q \in 1 .. Len(old) : items[p] = old[q]
              \/ \E i \in 1 .. m : \E k \in 1 .. Len(lists[i]) :
                   lists[i][k].typ = typ /\ items[p] = Stored(lists[i][k], pool).key
  <2>1. CASE p <= Len(old)
    <3>1. p \in 1 .. Len(old) /\ items[p] = old[p]
      BY <1>1, <1>2, <1>4, <1>12, <2>1
    <3> QED BY <3>1
  <2>2. CASE ~ (p <= Len(old))
    <3>1. C(m) \in Nat
      BY <1>2, <1>4
    <3>2. p - Len(old) \in 1 .. C(m) /\ items[p] = keys[p - Len(old)]
      BY <1>1, <1>12, <2>2, <3>1
    <3>3. items[p] = Stored(flat[p - Len(old)], pool).key
      BY <1>9, <3>2
    <3>4. PICK i \in 1 .. m : \E k \in 1 .. Len(lists[i]) : flat[p - Len(old)] = lists[i][k]
      BY <1>7, <3>2
    <3>5. PICK k \in 1 .. Len(lists[i]) : flat[p - Len(old)] = lists[i][k]
      BY <3>4
    <3>6. DOMAIN lists[i] = 1 .. Len(lists[i])
      BY <1>2, LenProperties
    <3>7. lists[i][k].typ = typ
      BY <1>3, <3>6 DEF AllOfType
    <3> QED BY <3>3, <3>5, <3>7
  <2> QED BY <2>1, <2>2
<1>15. appended.values.items = items
  BY <1>1, <1>10 DEF StorageArray
<1> QED BY <1>13, <1>14, <1>15 DEF TakesValues, appended, append, old, m

(***************************************************************************)
(* prepare_new_edges                                                       *)
(***************************************************************************)
\* The offsets new half-edges are counted from: the slot's own, the last repeated for
\* each new node, or those of nodes without edges.
Grown(offsets, len) == IF offsets = <<>> THEN Repeat(0, len) ELSE Resized(offsets, len)

\* A slot grown by m nodes without half-edges keeps where its runs end.
LEMMA GrownShaped ==
  ASSUME NEW n \in Nat, NEW m \in Nat, NEW offsets \in Seq(0 .. MaxOffset), Shaped(offsets, n)
  PROVE  /\ Grown(offsets, n + m + 1) \in Seq(0 .. MaxOffset)
         /\ Shaped(Grown(offsets, n + m + 1), n + m)
         /\ Grown(offsets, n + m + 1) # <<>> /\ Len(Grown(offsets, n + m + 1)) = n + m + 1
         /\ LastOffset(Grown(offsets, n + m + 1)) = LastOffset(offsets)
<1> DEFINE len == n + m + 1
<1>1. CASE offsets = <<>>
  <2>1. n + m \in Nat /\ 0 \in 0 .. MaxOffset
    BY StorageAssumption
  <2>2. Grown(offsets, len) = Grounded(offsets, n + m)
    BY <1>1 DEF Grown, Grounded
  <2>3. Shaped(offsets, n + m)
    BY <1>1 DEF Shaped
  <2> HIDE DEF len
  <2> QED BY <2>1, <2>2, <2>3, GroundedShaped DEF len
<1>2. CASE offsets # <<>>
  <2> DEFINE last == LastOffset(offsets)
             body == Repeat(last, m)
  <2>1. Len(offsets) = n + 1 /\ last = offsets[n + 1] /\ last \in 0 .. MaxOffset
    <3>1. Len(offsets) = n + 1 /\ last = offsets[n + 1] /\ n + 1 \in 1 .. Len(offsets)
      BY <1>2 DEF Shaped, LastOffset
    <3> QED BY <3>1, ElementOfSeq
  <2>2. body \in Seq(0 .. MaxOffset) /\ Len(body) = m /\ \A i \in 1 .. m : body[i] = last
    <3> HIDE DEF last
    <3> QED BY <2>1, RepeatIsList
  <2>3. Continues(body, offsets[n + 1], m)
    <3> HIDE DEF body, last
    <3>1. ASSUME NEW i \in 1 .. m PROVE (IF i = 1 THEN offsets[n + 1] ELSE body[i - 1]) <= body[i]
      <4>1. i # 1 => i - 1 \in 1 .. m
        OBVIOUS
      <4>2. (IF i = 1 THEN offsets[n + 1] ELSE body[i - 1]) = last
        BY <2>1, <2>2, <4>1
      <4> QED BY <2>1, <2>2, <4>2, StorageAssumption
    <3> QED BY <3>1 DEF Continues
  <2>4. offsets \o body \in Seq(0 .. MaxOffset)
    BY <2>2, ConcatProperties
  <2>5. Grown(offsets, len) = offsets \o body
    <3> HIDE DEF body
    <3>1. CASE m = 0
      <4>1. body = <<>>
        BY <2>2, <3>1, EmptySeq
      <4>2. offsets \o body = offsets
        BY <4>1, ConcatEmptySeq
      <4>3. Resized(offsets, len) = SubSeq(offsets, 1, Len(offsets))
        BY <2>1, <3>1 DEF Resized
      <4>4. SubSeq(offsets, 1, Len(offsets)) = offsets
        BY SubSeqFull
      <4> QED BY <1>2, <4>2, <4>3, <4>4 DEF Grown
    <3>2. CASE m # 0
      <4>1. ~ (Len(offsets) >= len) /\ len - Len(offsets) = m
        BY <2>1, <3>2
      <4> QED BY <1>2, <4>1 DEF Grown, Resized, body
    <3> QED BY <3>1, <3>2
  <2>6. /\ Shaped(offsets \o body, n + m) /\ offsets \o body # <<>> /\ Len(offsets \o body) = len
        /\ LastOffset(offsets \o body) = IF m = 0 THEN offsets[n + 1] ELSE body[m]
    <3> HIDE DEF body, last
    <3> QED BY <2>1, <2>2, <2>3, ShapeExtended
  <2>7. (IF m = 0 THEN offsets[n + 1] ELSE body[m]) = last
    <3> HIDE DEF body, last
    <3> QED BY <2>1, <2>2
  <2> HIDE DEF body, last, len
  <2> QED BY <2>4, <2>5, <2>6, <2>7 DEF len, last
<1> QED BY <1>1, <1>2

\* Things with places of their own between a and b are no more than there are places.
LEMMA PlacesFit ==
  ASSUME NEW P, NEW f, NEW a \in Int, NEW b \in Int,
         \A x \in P : f[x] \in a .. b, \A x, y \in P : f[x] = f[y] => x = y
  PROVE  /\ IsFiniteSet(P) /\ Cardinality(P) \in Nat
         /\ Cardinality(P) <= IF a > b THEN 0 ELSE b - a + 1
<1> DEFINE g == [x \in P |-> f[x]]
           T == a .. b
<1>1. IsFiniteSet(T) /\ Cardinality(T) = IF a > b THEN 0 ELSE b - a + 1
  BY FS_Interval
<1>2. g \in [P -> T] /\ \A x, y \in P : g[x] = g[y] => x = y
  OBVIOUS
<1> HIDE DEF g, T
<1>3. g \in Injection(P, T)
  BY <1>2, Zenon DEF Injection, IsInjective
<1> QED BY <1>1, <1>3, FS_Injection, FS_CardinalityType

\* Each new item has a place of its own among all of them.
Placed(at, h, top) ==
  /\ DOMAIN at = 1 .. h
  /\ \A j \in 1 .. h : at[j] \in 1 .. top
  /\ \A i, j \in 1 .. h : at[i] = at[j] => i = j

\* The new items placed before p.
Before(at, h, p) == {j \in 1 .. h : at[j] < p}

\* A place that no new item has is left to an old one.
LEMMA OldPlaces ==
  ASSUME NEW n \in Nat, NEW h \in Nat, NEW at, Placed(at, h, n + h),
         NEW p \in 1 .. n + h, \A j \in 1 .. h : at[j] # p
  PROVE  p - Cardinality(Before(at, h, p)) \in 1 .. n
<1> DEFINE P == Before(at, h, p)
           Q == {j \in 1 .. h : p < at[j]}
           all == 1 .. h
<1>1. /\ \A j \in all : at[j] \in Int /\ 1 <= at[j] /\ at[j] <= n + h
      /\ \A i, j \in all : at[i] = at[j] => i = j
  BY DEF Placed
<1>2. (\A j \in P : at[j] \in 1 .. p - 1) /\ (\A j \in Q : at[j] \in p + 1 .. n + h)
  BY <1>1 DEF Before
<1>3. P \cup Q = all /\ P \cap Q = {} /\ P \subseteq all /\ Q \subseteq all
  BY <1>1 DEF Before
<1>4. IsFiniteSet(all) /\ Cardinality(all) = h
  BY FS_Interval
<1> HIDE DEF P, Q, all
<1>5. /\ IsFiniteSet(P) /\ Cardinality(P) \in Nat
      /\ Cardinality(P) <= IF 1 > p - 1 THEN 0 ELSE (p - 1) - 1 + 1
  <2>1. 1 \in Int /\ p - 1 \in Int /\ \A i, j \in P : at[i] = at[j] => i = j
    BY <1>1, <1>3
  <2> QED BY <1>2, <2>1, PlacesFit
<1>6. /\ IsFiniteSet(Q) /\ Cardinality(Q) \in Nat
      /\ Cardinality(Q) <= IF p + 1 > n + h THEN 0 ELSE (n + h) - (p + 1) + 1
  <2>1. p + 1 \in Int /\ n + h \in Int /\ \A i, j \in Q : at[i] = at[j] => i = j
    BY <1>1, <1>3
  <2> QED BY <1>2, <2>1, PlacesFit
<1>7. Cardinality(P \cup Q) = Cardinality(P) + Cardinality(Q) - Cardinality(P \cap Q)
  BY <1>5, <1>6, FS_Union
<1>8. Cardinality(P \cup Q) = h
  BY <1>3, <1>4, Zenon
<1>9. Cardinality(P \cap Q) = 0
  BY <1>3, FS_EmptySet, Zenon
<1>10. h = Cardinality(P) + Cardinality(Q)
  BY <1>5, <1>6, <1>7, <1>8, <1>9
<1> QED BY <1>5, <1>6, <1>10 DEF P

\* A sequence of as many items as two others, each an item of one of them.
Mixes(all, old, new, S) ==
  /\ all \in Seq(S) /\ Len(all) = Len(old) + Len(new)
  /\ \A p \in 1 .. Len(old) + Len(new) :
       \/ \E q \in 1 .. Len(old) : all[p] = old[q]
       \/ \E j \in 1 .. Len(new) : all[p] = new[j]

\* Merging two sequences keeps what each holds and adds nothing.
LEMMA MergeItems ==
  ASSUME NEW S, NEW old \in Seq(S), NEW new \in Seq(S), NEW at,
         Placed(at, Len(new), Len(old) + Len(new))
  PROVE  Mixes(Merge(old, at, new), old, new, S)
<1> DEFINE n == Len(old)
           h == Len(new)
           M == Merge(old, at, new)
           J(p) == CHOOSE j \in 1 .. h : at[j] = p
           B(p) == Cardinality(Before(at, h, p))
           V(p) == IF \E j \in 1 .. h : at[j] = p THEN new[J(p)] ELSE old[p - B(p)]
<1>1. n \in Nat /\ h \in Nat /\ DOMAIN new = 1 .. h
  BY LenProperties
<1>2. M = [p \in 1 .. n + h |-> V(p)]
  BY <1>1 DEF Merge, Before
<1>3. ASSUME NEW p \in 1 .. n + h
      PROVE  \/ \E q \in 1 .. n : V(p) = old[q]
             \/ \E j \in 1 .. h : V(p) = new[j]
  <2>1. CASE \E j \in 1 .. h : at[j] = p
    <3>1. J(p) \in 1 .. h
      BY <2>1
    <3>2. V(p) = new[J(p)]
      BY <2>1
    <3> QED BY <3>1, <3>2
  <2>2. CASE ~ \E j \in 1 .. h : at[j] = p
    <3>1. p - B(p) \in 1 .. n
      BY <1>1, <2>2, OldPlaces
    <3>2. V(p) = old[p - B(p)]
      BY <2>2
    <3> QED BY <3>1, <3>2
  <2> QED BY <2>1, <2>2
<1> HIDE DEF V
<1>4. \A p \in 1 .. n + h : V(p) \in S
  BY <1>1, <1>3, ElementOfSeq
<1>5. M \in ListOf(S, n + h)
  <2> HIDE DEF M
  <2> QED BY <1>2, <1>4 DEF ListOf
<1>6. n + h \in Nat
  BY <1>1
<1>7. M \in Seq(S) /\ Len(M) = n + h
  <2> HIDE DEF M, n, h
  <2> QED BY <1>5, <1>6, ListIsSeq
<1>8. \A p \in 1 .. n + h : M[p] = V(p)
  <2> HIDE DEF M
  <2> QED BY <1>2
<1> QED BY <1>3, <1>7, <1>8 DEF Mixes

\* Half-edges of nodes among the first n.
HalvesFit(halves, n) ==
  /\ halves \in Seq([seq : Nat, neighbor : RawNodeId, property : SUBSET StoredProperty])
  /\ \A j \in 1 .. Len(halves) : halves[j].seq < n

\* What it takes for new halves to fit a slot of n nodes.
LEMMA HalvesAre ==
  ASSUME NEW n \in Nat, NEW halves, HalvesFit(halves, n)
  PROVE  /\ Len(halves) \in Nat /\ DOMAIN halves = 1 .. Len(halves)
         /\ \A j \in 1 .. Len(halves) :
              /\ halves[j].seq \in Nat /\ halves[j].seq < n
              /\ halves[j].neighbor \in RawNodeId /\ halves[j].property \subseteq StoredProperty
<1>1. /\ Len(halves) \in Nat /\ DOMAIN halves = 1 .. Len(halves)
      /\ \A j \in 1 .. Len(halves) :
           halves[j] \in [seq : Nat, neighbor : RawNodeId, property : SUBSET StoredProperty]
  BY LenProperties, ElementOfSeq DEF HalvesFit
<1> QED BY <1>1 DEF HalvesFit

\* The halves a stable sort by node puts no later than half j, and those before it.
NoLater(halves, j) ==
  {i \in DOMAIN halves : \/ halves[i].seq < halves[j].seq
                         \/ halves[i].seq = halves[j].seq /\ i <= j}
Sooner(halves, i, j) ==
  \/ halves[i].seq < halves[j].seq
  \/ halves[i].seq = halves[j].seq /\ i < j

\* Halves are ranked by their node, those of one node as they were queued.
LEMMA SortedRankOrders ==
  ASSUME NEW n \in Nat, NEW halves, HalvesFit(halves, n), NEW j \in 1 .. Len(halves)
  PROVE  /\ SortedRank(halves, j) \in 1 .. Len(halves)
         /\ Cardinality({i \in 1 .. Len(halves) : Sooner(halves, i, j)}) = SortedRank(halves, j) - 1
         /\ \A i \in 1 .. Len(halves) :
              Sooner(halves, i, j) => SortedRank(halves, i) < SortedRank(halves, j)
<1> DEFINE h == Len(halves)
           P(i) == NoLater(halves, i)
           Q == {i \in 1 .. Len(halves) : Sooner(halves, i, j)}
<1>1. h \in Nat /\ DOMAIN halves = 1 .. h /\ \A i \in 1 .. h : halves[i].seq \in Nat
  BY HalvesAre
<1>2. \A i : SortedRank(halves, i) = Cardinality(P(i))
  BY DEF SortedRank, NoLater
<1>3. \A i \in 1 .. h : Within(P(i), h) /\ i \in P(i)
  BY <1>1 DEF NoLater, Within
<1>4. \A i \in 1 .. h : IsFiniteSet(P(i)) /\ Cardinality(P(i)) \in 0 .. h
  BY <1>1, <1>3, PositionsFinite
<1>5. P(j) \ {j} = Q /\ j \in P(j)
  BY <1>1 DEF NoLater, Sooner
<1>6. Cardinality(P(j) \ {j}) = Cardinality(P(j)) - 1
  BY <1>3, <1>4, FS_RemoveElement
<1>7. Cardinality(Q) = SortedRank(halves, j) - 1
  BY <1>2, <1>5, <1>6, Zenon
<1>8. SortedRank(halves, j) \in 1 .. h
  <2>1. Cardinality(P(j)) # 0
    <3>1. P(j) # {}
      BY <1>5
    <3> HIDE DEF P
    <3> QED BY <1>4, <3>1, FS_EmptySet
  <2> QED BY <1>2, <1>4, <2>1
<1>9. ASSUME NEW i \in 1 .. h, Sooner(halves, i, j) PROVE SortedRank(halves, i) < SortedRank(halves, j)
  <2>1. P(i) \in SUBSET P(j) /\ P(i) # P(j)
    <3>1. j \notin P(i) /\ \A m \in P(i) : m \in P(j)
      BY <1>1, <1>9 DEF NoLater, Sooner
    <3> QED BY <1>3, <3>1
  <2> HIDE DEF P
  <2>2. Cardinality(P(i)) <= Cardinality(P(j)) /\ Cardinality(P(i)) # Cardinality(P(j))
    BY <1>4, <2>1, FS_Subset
  <2> QED BY <1>2, <1>4, <2>2
<1> QED BY <1>7, <1>8, <1>9

\* Where EdgeSlotInsert places half j.
PlaceOf(offsets, halves, j) == offsets[halves[j].seq + 2] + SortedRank(halves, j)

\* Each half has a place of its own, behind as many of the old half-edges as its node
\* and those before it have.
LEMMA HalvesPlaced ==
  ASSUME NEW n \in Nat, NEW offsets \in Seq(0 .. MaxOffset), Shaped(offsets, n), offsets # <<>>,
         NEW halves, HalvesFit(halves, n), NEW at, DOMAIN at = 1 .. Len(halves),
         \A j \in 1 .. Len(halves) : at[j] = PlaceOf(offsets, halves, j)
  PROVE  /\ Placed(at, Len(halves), LastOffset(offsets) + Len(halves))
         /\ \A j \in 1 .. Len(halves) :
              at[j] - 1 - Cardinality({i \in DOMAIN at : at[i] < at[j]}) \in 0 .. LastOffset(offsets)
<1> DEFINE h == Len(halves)
           last == LastOffset(offsets)
           O(j) == offsets[halves[j].seq + 2]
           R(j) == SortedRank(halves, j)
<1>1. h \in Nat /\ \A j \in 1 .. h : halves[j].seq \in Nat /\ halves[j].seq < n
  BY HalvesAre
<1>2. \A j \in 1 .. h : O(j) \in Nat /\ O(j) <= last /\ last \in Nat
  <2> TAKE j \in 1 .. h
  <2>1. halves[j].seq + 2 \in 1 .. n + 1 /\ halves[j].seq + 2 <= halves[j].seq + 2
    BY <1>1
  <2>2. O(j) \in 0 .. MaxOffset /\ O(j) <= last /\ last \in 0 .. MaxOffset
    BY <2>1, OffsetsOrdered
  <2> QED BY <2>2, StorageAssumption
<1>3. ASSUME NEW i \in 1 .. h, NEW j \in 1 .. h, halves[i].seq <= halves[j].seq PROVE O(i) <= O(j)
  <2>1. halves[i].seq + 2 \in 1 .. n + 1 /\ halves[j].seq + 2 \in 1 .. n + 1
        /\ halves[i].seq + 2 <= halves[j].seq + 2
    BY <1>1, <1>3
  <2> QED BY <2>1, OffsetsOrdered
<1>4. \A j \in 1 .. h : R(j) \in 1 .. h /\ at[j] = O(j) + R(j)
  BY SortedRankOrders DEF PlaceOf
<1>5. ASSUME NEW i \in 1 .. h, NEW j \in 1 .. h, Sooner(halves, i, j) PROVE at[i] < at[j]
  <2>1. R(i) < R(j)
    BY <1>5, SortedRankOrders
  <2>2. O(i) <= O(j)
    BY <1>1, <1>3, <1>5 DEF Sooner
  <2>3. R(i) \in 1 .. h /\ R(j) \in 1 .. h /\ at[i] = O(i) + R(i) /\ at[j] = O(j) + R(j)
    BY <1>4
  <2>4. O(i) \in Nat /\ O(j) \in Nat
    BY <1>2
  <2> HIDE DEF O, R
  <2> QED BY <1>1, <2>1, <2>2, <2>3, <2>4
<1>6. \A i, j \in 1 .. h : at[i] \in Nat /\ (i # j => Sooner(halves, i, j) \/ Sooner(halves, j, i))
  <2>1. \A i \in 1 .. h : at[i] \in Nat
    <3> TAKE i \in 1 .. h
    <3>1. O(i) \in Nat /\ R(i) \in 1 .. h
      BY <1>2, <1>4
    <3> HIDE DEF O, R
    <3> QED BY <1>1, <1>4, <3>1
  <2> QED BY <1>1, <2>1 DEF Sooner
<1>7. \A i, j \in 1 .. h : (at[i] = at[j] => i = j) /\ (at[i] < at[j] <=> Sooner(halves, i, j))
  <2> TAKE i, j \in 1 .. h
  <2>1. at[i] \in Nat /\ at[j] \in Nat
    BY <1>6
  <2>2. ~ Sooner(halves, i, i)
    BY <1>1 DEF Sooner
  <2> QED BY <1>5, <1>6, <2>1, <2>2
<1>8. \A j \in 1 .. h : at[j] \in 1 .. last + h
  <2> TAKE j \in 1 .. h
  <2>1. O(j) \in Nat /\ O(j) <= last /\ last \in Nat /\ R(j) \in 1 .. h /\ at[j] = O(j) + R(j)
    BY <1>2, <1>4
  <2> HIDE DEF O, R, last
  <2> QED BY <1>1, <2>1
<1>9. ASSUME NEW j \in 1 .. h
      PROVE  at[j] - 1 - Cardinality({i \in DOMAIN at : at[i] < at[j]}) \in 0 .. last
  <2>1. {i \in DOMAIN at : at[i] < at[j]} = {i \in 1 .. h : Sooner(halves, i, j)}
    BY <1>7
  <2>2. Cardinality({i \in 1 .. h : Sooner(halves, i, j)}) = R(j) - 1
    BY SortedRankOrders
  <2>3. Cardinality({i \in DOMAIN at : at[i] < at[j]}) = R(j) - 1
    BY <2>1, <2>2, Zenon
  <2>4. O(j) \in Nat /\ O(j) <= last /\ last \in Nat /\ R(j) \in Nat /\ at[j] = O(j) + R(j)
    BY <1>1, <1>2, <1>4
  <2> HIDE DEF O, R, last
  <2> QED BY <2>3, <2>4
<1> QED BY <1>7, <1>8, <1>9 DEF Placed

\* The halves of the nodes before node x.
HalvesBefore(halves, x) == {j \in DOMAIN halves : halves[j].seq < x}

\* The offsets after the merge: each moved up by the halves of the nodes before.
NoneOver(offsets, halves) ==
  \A i \in DOMAIN offsets : ~ (InsertedOffset(offsets, halves, i) > MaxOffset)
MovedUp(offsets, halves) == [i \in DOMAIN offsets |-> InsertedOffset(offsets, halves, i)]
\* Offsets moved up by the halves that come before them still rise.
LEMMA InsertedOffsetsShaped ==
  ASSUME NEW n \in Nat, NEW offsets \in Seq(0 .. MaxOffset), Shaped(offsets, n), offsets # <<>>,
         NEW halves, HalvesFit(halves, n),
         NoneOver(offsets, halves),
         NEW inserted, inserted = MovedUp(offsets, halves)
  PROVE  /\ inserted \in Seq(0 .. MaxOffset) /\ Shaped(inserted, n) /\ inserted # <<>>
         /\ LastOffset(inserted) = LastOffset(offsets) + Len(halves)
<1> DEFINE h == Len(halves)
           B(i) == Cardinality(HalvesBefore(halves, i - 1))
<1>1. h \in Nat /\ DOMAIN halves = 1 .. h /\ \A j \in 1 .. h : halves[j].seq \in Nat /\ halves[j].seq < n
  BY HalvesAre
<1>2. /\ Len(offsets) = n + 1 /\ DOMAIN offsets = 1 .. n + 1 /\ n + 1 \in Nat
      /\ offsets[1] = 0 /\ LastOffset(offsets) = offsets[n + 1]
      /\ \A i \in 1 .. n + 1 : offsets[i] \in Nat
      /\ \A i \in 1 .. n : offsets[i] <= offsets[i + 1]
  <2>1. Len(offsets) = n + 1 /\ DOMAIN offsets = 1 .. n + 1
    BY LenProperties DEF Shaped
  <2> QED BY <2>1, ElementOfSeq, StorageAssumption DEF Shaped, LastOffset
<1>3. \A i \in Nat : Within(HalvesBefore(halves, i), h)
  BY <1>1 DEF Within, HalvesBefore
<1>4. \A i \in 1 .. n + 1 : B(i) \in 0 .. h
  <2> TAKE i \in 1 .. n + 1
  <2>1. i - 1 \in Nat
    OBVIOUS
  <2> QED BY <1>1, <1>3, <2>1, PositionsFinite
<1>5. B(1) = 0 /\ B(n + 1) = h
  <2>1. HalvesBefore(halves, 1 - 1) = {}
    BY <1>1 DEF HalvesBefore
  <2>2. HalvesBefore(halves, (n + 1) - 1) = 1 .. h
    BY <1>1 DEF HalvesBefore
  <2>3. Cardinality(1 .. h) = h
    <3> HIDE DEF h
    <3> QED BY <1>1, FS_Interval
  <2>4. B(1) = 0
    BY <2>1, FS_EmptySet, Zenon
  <2>5. B(n + 1) = h
    BY <2>2, <2>3, Zenon
  <2> QED BY <2>4, <2>5
<1>6. ASSUME NEW i \in 1 .. n PROVE B(i) <= B(i + 1)
  <2>1. HalvesBefore(halves, i - 1) \in SUBSET HalvesBefore(halves, (i + 1) - 1)
    BY <1>1 DEF HalvesBefore
  <2>2. (i + 1) - 1 \in Nat
    OBVIOUS
  <2>3. IsFiniteSet(HalvesBefore(halves, (i + 1) - 1))
    BY <1>1, <1>3, <2>2, PositionsFinite
  <2> QED BY <2>1, <2>3, FS_Subset
<1>7. \A i \in 1 .. n + 1 : InsertedOffset(offsets, halves, i) = offsets[i] + B(i)
  BY DEF InsertedOffset, HalvesBefore
<1>8. inserted = [i \in 1 .. n + 1 |-> offsets[i] + B(i)]
  BY <1>2, <1>7 DEF MovedUp
<1> HIDE DEF B
<1>9. \A i \in 1 .. n + 1 : offsets[i] + B(i) \in 0 .. MaxOffset
  <2> TAKE i \in 1 .. n + 1
  <2>1. offsets[i] \in Nat /\ B(i) \in 0 .. h /\ ~ (InsertedOffset(offsets, halves, i) > MaxOffset)
    BY <1>2, <1>4 DEF NoneOver
  <2> QED BY <1>1, <1>7, <2>1, StorageAssumption
<1>10. inserted \in Seq(0 .. MaxOffset) /\ Len(inserted) = n + 1
  <2>1. inserted \in ListOf(0 .. MaxOffset, n + 1)
    BY <1>8, <1>9 DEF ListOf
  <2> QED BY <1>2, <2>1, ListIsSeq
<1>11. inserted # <<>>
  BY <1>10, EmptySeq
<1>12. LastOffset(inserted) = inserted[n + 1] /\ inserted[n + 1] = offsets[n + 1] + B(n + 1)
  <2>1. n + 1 \in 1 .. n + 1
    OBVIOUS
  <2>2. LastOffset(inserted) = inserted[n + 1]
    BY <1>10, <1>11 DEF LastOffset
  <2> QED BY <1>8, <2>1, <2>2
<1>13. inserted[1] = 0
  <2>1. 1 \in 1 .. n + 1
    OBVIOUS
  <2>2. inserted[1] = offsets[1] + B(1)
    BY <1>8, <2>1
  <2> QED BY <1>2, <1>5, <2>2
<1>14. ASSUME NEW i \in 1 .. n PROVE inserted[i] <= inserted[i + 1]
  <2>1. i \in 1 .. n + 1 /\ i + 1 \in 1 .. n + 1
    OBVIOUS
  <2>2. inserted[i] = offsets[i] + B(i) /\ inserted[i + 1] = offsets[i + 1] + B(i + 1)
    BY <1>8, <2>1
  <2>3. offsets[i] \in Nat /\ offsets[i + 1] \in Nat /\ B(i) \in Nat /\ B(i + 1) \in Nat
    BY <1>1, <1>2, <1>4, <2>1
  <2> QED BY <1>2, <1>6, <2>2, <2>3
<1> QED BY <1>2, <1>5, <1>10, <1>11, <1>12, <1>13, <1>14 DEF Shaped

\* A half-edge of a slot whose edges carry a value brings one.
LEMMA HalvesCarry ==
  ASSUME NEW n \in Nat, NEW halves, HalvesFit(halves, n), NEW typ, typ # "None",
         HalfTypeError(typ, halves) = Ok, NEW j \in 1 .. Len(halves)
  PROVE  /\ Answer(halves[j].property) \in halves[j].property
         /\ Answer(halves[j].property).typ = typ /\ Answer(halves[j].property).key \in Key
<1>1. DOMAIN halves = 1 .. Len(halves) /\ halves[j].property \subseteq StoredProperty
  BY HalvesAre
<1>2. {p.typ : p \in halves[j].property} = {typ}
  BY <1>1 DEF HalfTypeError, Ok
<1>3. Answer(halves[j].property) \in halves[j].property
  BY <1>2 DEF Answer
<1>4. Answer(halves[j].property) \in StoredProperty
  BY <1>1, <1>3
<1>5. Answer(halves[j].property).typ \in {p.typ : p \in halves[j].property}
  BY <1>3
<1> QED BY <1>2, <1>3, <1>4, <1>5 DEF StoredProperty

\* The last run ends where the array does.
EndsWith(offsets, array) == LastOffset(offsets) = Len(array)

\* A slot of edges of that type with as many values as neighbors.
Paired(slot, typ) ==
  /\ slot \in EdgeStorageSlot /\ slot.values.typ = typ
  /\ typ # "None" => Len(slot.values.items) = Len(slot.neighbors)

\* A slot holds what it held or what the half-edges bring.
TakesHalves(merged, slot, halves, typ) ==
  /\ \A p \in 1 .. Len(merged.neighbors) :
       \/ \E q \in 1 .. Len(slot.neighbors) : merged.neighbors[p] = slot.neighbors[q]
       \/ \E j \in 1 .. Len(halves) : merged.neighbors[p] = halves[j].neighbor
  /\ typ # "None" => \A p \in 1 .. Len(merged.values.items) :
       \/ \E q \in 1 .. Len(slot.values.items) : merged.values.items[p] = slot.values.items[q]
       \/ \E j \in 1 .. Len(halves) : \E v \in halves[j].property :
            v.typ = typ /\ merged.values.items[p] = v.key
MergedWell(slot, insert, halves, n, typ) ==
  /\ BatchesFit(slot, insert) /\ EdgeSlotSound(merge_edge_batches(slot, insert), n, typ)
  /\ TakesHalves(merge_edge_batches(slot, insert), slot, halves, typ)

\* A slot whose new half-edges pass takes them without an error and is sound for the
\* larger number of nodes.
LEMMA InsertedSound ==
  ASSUME NEW n \in Nat, NEW typ, NEW slot, Paired(slot, typ),
         NEW offsets \in Seq(0 .. MaxOffset), Shaped(offsets, n), offsets # <<>>,
         EndsWith(offsets, slot.neighbors),
         NEW halves, HalvesFit(halves, n), InsertError(typ, offsets, halves) = Ok
  PROVE  MergedWell(slot, EdgeSlotInsert(typ, offsets, halves), halves, n, typ)
<1> DEFINE insert == EdgeSlotInsert(typ, offsets, halves)
           merged == merge_edge_batches(slot, insert)
           h == Len(halves)
           at == insert.at
           new == [j \in 1 .. h |-> halves[j].neighbor]
           keys == [j \in 1 .. h |-> Answer(halves[j].property).key]
           old == slot.neighbors
           items == slot.values.items
           total == Len(old) + h
<1>1. /\ h \in Nat /\ DOMAIN halves = 1 .. h
      /\ \A j \in 1 .. h : halves[j].neighbor \in RawNodeId
  BY HalvesAre
<1>2. /\ old \in Seq(RawNodeId) /\ Len(old) \in Nat
      /\ slot.values \in StorageArray /\ items \in Seq(Key) /\ slot.values.typ = typ
      /\ typ # "None" => Len(items) = Len(old)
  <2>1. slot.neighbors \in Seq(RawNodeId) /\ slot.values \in StorageArray
    BY DEF Paired, EdgeStorageSlot
  <2> QED BY <2>1, LenProperties DEF Paired, StorageArray
<1>3. /\ HalfTypeError(typ, halves) = Ok
      /\ \A i \in DOMAIN offsets : ~ (InsertedOffset(offsets, halves, i) > MaxOffset)
  BY DEF InsertError, Ok
<1>4. /\ insert.neighbors = new /\ insert.items = IF typ = "None" THEN <<>> ELSE keys
      /\ at = [j \in 1 .. h |-> PlaceOf(offsets, halves, j)]
      /\ insert.offsets = MovedUp(offsets, halves)
  BY <1>1 DEF EdgeSlotInsert, PlaceOf, MovedUp
<1>5. merged = [offsets |-> insert.offsets, neighbors |-> Merge(old, at, insert.neighbors),
                values |-> IF typ = "None" THEN slot.values
                           ELSE [slot.values EXCEPT !.items = Merge(items, at, insert.items)]]
  BY <1>2 DEF merge_edge_batches
<1> HIDE DEF insert, merged
<1>6. /\ Placed(at, h, total)
      /\ \A j \in 1 .. h : at[j] - 1 - Cardinality({i \in DOMAIN at : at[i] < at[j]}) \in 0 .. Len(old)
      /\ DOMAIN at = 1 .. h
  <2>1. DOMAIN at = 1 .. h /\ \A j \in 1 .. h : at[j] = PlaceOf(offsets, halves, j)
    BY <1>4
  <2> HIDE DEF at
  <2>2. /\ Placed(at, h, LastOffset(offsets) + h)
        /\ \A j \in 1 .. h :
             at[j] - 1 - Cardinality({i \in DOMAIN at : at[i] < at[j]}) \in 0 .. LastOffset(offsets)
    BY <2>1, HalvesPlaced
  <2> QED BY <2>1, <2>2 DEF EndsWith
<1>7. BatchesFit(slot, insert)
  <2>1. IsInjective(at)
    BY <1>6 DEF Placed, IsInjective
  <2> QED BY <1>2, <1>6, <2>1 DEF BatchesFit
<1>8. new \in Seq(RawNodeId) /\ Len(new) = h
  <2>1. new \in ListOf(RawNodeId, h)
    BY <1>1 DEF ListOf
  <2> QED BY <1>1, <2>1, ListIsSeq
<1> HIDE DEF at
<1>9. /\ merged.neighbors \in Seq(RawNodeId) /\ Len(merged.neighbors) = total
      /\ \A p \in 1 .. total :
           \/ \E q \in 1 .. Len(old) : merged.neighbors[p] = old[q]
           \/ \E j \in 1 .. h : merged.neighbors[p] = halves[j].neighbor
  <2>1. merged.neighbors = Merge(old, at, new)
    BY <1>4, <1>5
  <2>2. Placed(at, Len(new), Len(old) + Len(new))
    BY <1>6, <1>8
  <2>3. \A j \in 1 .. h : new[j] = halves[j].neighbor
    OBVIOUS
  <2> HIDE DEF new, old
  <2>4. Mixes(Merge(old, at, new), old, new, RawNodeId)
    BY <1>2, <1>8, <2>2, MergeItems
  <2> QED BY <1>8, <2>1, <2>3, <2>4 DEF Mixes
<1>10. ASSUME typ # "None"
       PROVE  /\ merged.values \in StorageArray /\ merged.values.typ = typ
              /\ Len(merged.values.items) = total
              /\ \A p \in 1 .. total :
                   \/ \E q \in 1 .. Len(items) : merged.values.items[p] = items[q]
                   \/ \E j \in 1 .. h : \E v \in halves[j].property :
                        v.typ = typ /\ merged.values.items[p] = v.key
  <2>1. keys \in Seq(Key) /\ Len(keys) = h
    <3>1. keys \in ListOf(Key, h)
      BY <1>3, <1>10, HalvesCarry DEF ListOf
    <3> QED BY <1>1, <3>1, ListIsSeq
  <2>2. \A j \in 1 .. h : \E v \in halves[j].property : v.typ = typ /\ keys[j] = v.key
    BY <1>3, <1>10, HalvesCarry
  <2>3. Placed(at, Len(keys), Len(items) + Len(keys))
    BY <1>2, <1>6, <1>10, <2>1
  <2> HIDE DEF keys, old, items
  <2>4. Mixes(Merge(items, at, keys), items, keys, Key)
    BY <1>2, <2>1, <2>3, MergeItems
  <2>5. merged.values = [slot.values EXCEPT !.items = Merge(items, at, keys)]
    BY <1>4, <1>5, <1>10
  <2>6. merged.values \in StorageArray /\ merged.values.typ = typ /\ merged.values.items = Merge(items, at, keys)
    BY <1>2, <2>4, <2>5 DEF StorageArray, Mixes
  <2>7. Len(items) + Len(keys) = total
    BY <1>2, <1>10, <2>1 DEF items, old
  <2>8. ASSUME NEW p \in 1 .. total
        PROVE  \/ \E q \in 1 .. Len(items) : merged.values.items[p] = items[q]
               \/ \E j \in 1 .. h : merged.values.items[p] = keys[j]
    <3> HIDE DEF total, h
    <3> QED BY <2>1, <2>4, <2>6, <2>7 DEF Mixes
  <2>9. Len(merged.values.items) = total
    BY <2>4, <2>6, <2>7 DEF Mixes
  <2> HIDE DEF total, h
  <2> QED BY <2>2, <2>6, <2>8, <2>9
<1>11. /\ insert.offsets \in Seq(0 .. MaxOffset) /\ Shaped(insert.offsets, n)
       /\ LastOffset(insert.offsets) = total
  <2>1. NoneOver(offsets, halves)
    BY <1>3 DEF NoneOver
  <2>2. insert.offsets = MovedUp(offsets, halves)
    BY <1>4
  <2>3. /\ insert.offsets \in Seq(0 .. MaxOffset) /\ Shaped(insert.offsets, n)
        /\ LastOffset(insert.offsets) = LastOffset(offsets) + Len(halves)
    <3> HIDE DEF h, at, new, keys, old, items, total
    <3> QED BY <2>1, <2>2, InsertedOffsetsShaped
  <2> QED BY <2>3 DEF EndsWith
<1>12. EdgeSlotSound(merged, n, typ)
  <2>1. merged.offsets = insert.offsets
        /\ merged = [offsets |-> merged.offsets, neighbors |-> merged.neighbors, values |-> merged.values]
    BY <1>5
  <2>2. merged.values \in StorageArray /\ merged.values.typ = typ
    BY <1>2, <1>5, <1>10
  <2> HIDE DEF total, old, h
  <2> QED BY <1>9, <1>10, <1>11, <2>1, <2>2 DEF EdgeSlotSound, EdgeStorageSlot
<1> HIDE DEF old, items, total, h
<1>13. TakesHalves(merged, slot, halves, typ)
  BY <1>9, <1>10 DEF TakesHalves, old, items, h
<1> QED BY <1>7, <1>12, <1>13, Zenon DEF MergedWell, insert, merged

(***************************************************************************)
(* prepare_edge_removals                                                   *)
(***************************************************************************)
\* The place of a half-edge that is taken out, in the slot's arrays.
RemovedAt(slot, r) == Start(slot, r[1]) + r[2] + 1

\* Positions that name half-edges of the slot.
RemovalsFit(slot, removals) ==
  /\ removals \subseteq Nat \X Nat
  /\ \A r \in removals : HasOffset(slot, r[1]) /\ r[2] < Degree(slot, r[1])

\* Each is in its node's run, and no two are the same half-edge.
LEMMA RemovalsPlaced ==
  ASSUME NEW n \in Nat, NEW slot, slot.offsets \in Seq(0 .. MaxOffset), Shaped(slot.offsets, n),
         NEW removals, RemovalsFit(slot, removals)
  PROVE  /\ \A r \in removals :
              /\ r[1] \in Nat /\ r[1] < n /\ RemovedAt(slot, r) \in Nat
              /\ slot.offsets[r[1] + 1] < RemovedAt(slot, r)
              /\ RemovedAt(slot, r) <= slot.offsets[r[1] + 2]
              /\ slot.offsets[r[1] + 1] \in Nat /\ slot.offsets[r[1] + 2] \in Nat
         /\ \A r, q \in removals : RemovedAt(slot, r) = RemovedAt(slot, q) => r = q
<1> DEFINE O(i) == slot.offsets[i]
<1>1. ASSUME NEW r \in removals
      PROVE  /\ r[1] \in Nat /\ r[2] \in Nat /\ r[1] < n /\ r = <<r[1], r[2]>>
             /\ slot.offsets # <<>>
             /\ O(r[1] + 1) \in Nat /\ O(r[1] + 2) \in Nat
             /\ r[2] < O(r[1] + 2) - O(r[1] + 1)
             /\ RemovedAt(slot, r) = O(r[1] + 1) + r[2] + 1
  <2>1. r \in Nat \X Nat /\ HasOffset(slot, r[1]) /\ r[2] < Degree(slot, r[1])
    BY DEF RemovalsFit
  <2>2. r[1] \in Nat /\ r[2] \in Nat /\ r = <<r[1], r[2]>>
    BY <2>1
  <2>3. slot.offsets # <<>> /\ r[1] < n /\ Start(slot, r[1]) \in Nat /\ End(slot, r[1]) \in Nat
    BY <2>1, <2>2, RunWithin
  <2> QED BY <2>1, <2>2, <2>3 DEF Start, End, Degree, RemovedAt
<1>2. ASSUME NEW r \in removals, NEW q \in removals, r[1] < q[1]
      PROVE  RemovedAt(slot, r) < RemovedAt(slot, q)
  <2>1. r[1] + 2 \in 1 .. n + 1 /\ q[1] + 1 \in 1 .. n + 1 /\ r[1] + 2 <= q[1] + 1
    BY <1>1, <1>2
  <2>2. O(r[1] + 2) <= O(q[1] + 1)
    BY <1>1, <2>1, OffsetsOrdered
  <2>3. /\ O(r[1] + 1) \in Nat /\ O(r[1] + 2) \in Nat /\ r[2] \in Nat
        /\ r[2] < O(r[1] + 2) - O(r[1] + 1) /\ RemovedAt(slot, r) = O(r[1] + 1) + r[2] + 1
    BY <1>1
  <2>4. O(q[1] + 1) \in Nat /\ q[2] \in Nat /\ RemovedAt(slot, q) = O(q[1] + 1) + q[2] + 1
    BY <1>1
  <2> HIDE DEF O
  <2> QED BY <2>2, <2>3, <2>4
<1>3. ASSUME NEW r \in removals, NEW q \in removals, RemovedAt(slot, r) = RemovedAt(slot, q)
      PROVE  r = q
  <2>1. /\ r[1] \in Nat /\ q[1] \in Nat /\ r[2] \in Nat /\ q[2] \in Nat
        /\ r = <<r[1], r[2]>> /\ q = <<q[1], q[2]>>
        /\ RemovedAt(slot, r) = O(r[1] + 1) + r[2] + 1 /\ RemovedAt(slot, q) = O(q[1] + 1) + q[2] + 1
        /\ O(r[1] + 1) \in Nat /\ O(q[1] + 1) \in Nat
    BY <1>1
  <2> HIDE DEF O
  <2>2. RemovedAt(slot, r) \in Nat
    BY <2>1
  <2>3. r[1] = q[1]
    <3>1. ~ (r[1] < q[1]) /\ ~ (q[1] < r[1])
      BY <1>2, <1>3, <2>2
    <3> QED BY <2>1, <3>1
  <2>4. r[2] = q[2]
    <3>1. O(r[1] + 1) = O(q[1] + 1)
      BY <2>3
    <3>2. /\ RemovedAt(slot, r) = O(r[1] + 1) + r[2] + 1 /\ RemovedAt(slot, q) = O(r[1] + 1) + q[2] + 1
          /\ O(r[1] + 1) \in Nat /\ r[2] \in Nat /\ q[2] \in Nat
      BY <2>1, <3>1
    <3> DEFINE a == r[2]
               b == q[2]
               x == O(r[1] + 1)
    <3>3. x + a + 1 = x + b + 1 /\ x \in Nat /\ a \in Nat /\ b \in Nat
      BY <1>3, <3>2
    <3>4. a = b
      <4> HIDE DEF a, b, x
      <4> QED BY <3>3
    <3> QED BY <3>4
  <2> QED BY <2>1, <2>3, <2>4
<1>4. ASSUME NEW r \in removals
      PROVE  /\ r[1] \in Nat /\ r[1] < n /\ RemovedAt(slot, r) \in Nat
             /\ O(r[1] + 1) < RemovedAt(slot, r) /\ RemovedAt(slot, r) <= O(r[1] + 2)
             /\ O(r[1] + 1) \in Nat /\ O(r[1] + 2) \in Nat
  <2>1. /\ r[1] \in Nat /\ r[2] \in Nat /\ r[1] < n
        /\ O(r[1] + 1) \in Nat /\ O(r[1] + 2) \in Nat
        /\ r[2] < O(r[1] + 2) - O(r[1] + 1) /\ RemovedAt(slot, r) = O(r[1] + 1) + r[2] + 1
    BY <1>1
  <2> HIDE DEF O
  <2> QED BY <2>1
<1> QED BY <1>3, <1>4

\* The removals of the nodes before node x, and how many there are.
RemovalsBefore(removals, x) == {r \in removals : r[1] < x}

\* No run loses more halves than it has, so no offset is moved below the one before.
LEMMA RemovalsCounted ==
  ASSUME NEW n \in Nat, NEW slot, slot.offsets \in Seq(0 .. MaxOffset), Shaped(slot.offsets, n),
         slot.offsets # <<>>, NEW removals, RemovalsFit(slot, removals)
  PROVE  /\ IsFiniteSet(removals) /\ Cardinality(removals) \in Nat
         /\ RemovalsBefore(removals, 0) = {} /\ RemovalsBefore(removals, n) = removals
         /\ \A i \in 1 .. n + 1 :
              /\ Cardinality(RemovalsBefore(removals, i - 1)) \in Nat
              /\ Cardinality(RemovalsBefore(removals, i - 1)) <= slot.offsets[i]
         /\ \A i \in 1 .. n :
              Cardinality(RemovalsBefore(removals, i)) - Cardinality(RemovalsBefore(removals, i - 1))
                <= slot.offsets[i + 1] - slot.offsets[i]
<1> DEFINE B(i) == RemovalsBefore(removals, i - 1)
           f == [r \in removals |-> RemovedAt(slot, r)]
           O(i) == slot.offsets[i]
<1>1. /\ \A r \in removals : /\ r[1] \in Nat /\ r[1] < n /\ f[r] \in Nat
                             /\ O(r[1] + 1) < f[r] /\ f[r] <= O(r[1] + 2)
                             /\ O(r[1] + 1) \in Nat /\ O(r[1] + 2) \in Nat
      /\ \A r, q \in removals : f[r] = f[q] => r = q
  BY RemovalsPlaced
<1>2. \A i \in 1 .. n + 1 : O(i) \in Nat
  <2> TAKE i \in 1 .. n + 1
  <2>1. i <= i
    OBVIOUS
  <2> QED BY <2>1, OffsetsOrdered, StorageAssumption
<1> HIDE DEF f
<1>3. ASSUME NEW i \in 1 .. n + 1
      PROVE  IsFiniteSet(B(i)) /\ Cardinality(B(i)) \in Nat /\ Cardinality(B(i)) <= O(i)
  <2>1. \A r \in B(i) : f[r] \in 1 .. O(i)
    <3> TAKE r \in B(i)
    <3>1. r \in removals /\ r[1] < i - 1
      BY DEF RemovalsBefore
    <3>2. r[1] + 2 \in 1 .. n + 1 /\ r[1] + 2 <= i
      BY <1>1, <3>1
    <3>3. O(r[1] + 2) <= O(i)
      BY <3>2, OffsetsOrdered
    <3>4. f[r] \in Nat /\ O(r[1] + 1) < f[r] /\ f[r] <= O(r[1] + 2)
          /\ O(r[1] + 1) \in Nat /\ O(r[1] + 2) \in Nat /\ O(i) \in Nat
      BY <1>1, <1>2, <3>1
    <3> HIDE DEF O
    <3> QED BY <3>3, <3>4
  <2>2. \A r, q \in B(i) : f[r] = f[q] => r = q
    BY <1>1 DEF RemovalsBefore
  <2>3. 1 \in Int /\ O(i) \in Int /\ O(i) \in Nat
    BY <1>2
  <2> HIDE DEF B, O
  <2>4. /\ IsFiniteSet(B(i)) /\ Cardinality(B(i)) \in Nat
        /\ Cardinality(B(i)) <= IF 1 > O(i) THEN 0 ELSE O(i) - 1 + 1
    BY <2>1, <2>2, <2>3, PlacesFit
  <2> QED BY <2>3, <2>4
<1>4. RemovalsBefore(removals, 0) = {} /\ RemovalsBefore(removals, n) = removals
  BY <1>1 DEF RemovalsBefore
<1>5. IsFiniteSet(removals) /\ Cardinality(removals) \in Nat
  <2>1. n + 1 \in 1 .. n + 1 /\ (n + 1) - 1 = n
    OBVIOUS
  <2>2. B(n + 1) = removals
    BY <1>4, <2>1
  <2> HIDE DEF B
  <2>3. IsFiniteSet(B(n + 1)) /\ Cardinality(B(n + 1)) \in Nat
    BY <1>3, <2>1
  <2> QED BY <2>2, <2>3
<1>6. ASSUME NEW i \in 1 .. n
      PROVE  Cardinality(RemovalsBefore(removals, i)) - Cardinality(RemovalsBefore(removals, i - 1))
               <= O(i + 1) - O(i)
  <2> DEFINE own == {r \in removals : r[1] = i - 1}
  <2>1. i \in 1 .. n + 1 /\ i + 1 \in 1 .. n + 1 /\ (i + 1) - 1 = i
    OBVIOUS
  <2>2. RemovalsBefore(removals, i) = B(i) \cup own /\ B(i) \cap own = {}
    BY <1>1 DEF RemovalsBefore
  <2>3. O(i) \in Nat /\ O(i + 1) \in Nat /\ O(i) <= O(i + 1)
    BY <1>2, <2>1 DEF Shaped
  <2>4. \A r \in own : f[r] \in O(i) + 1 .. O(i + 1)
    <3> TAKE r \in own
    <3>1. r \in removals /\ r[1] + 1 = i /\ r[1] + 2 = i + 1
      BY <1>1
    <3>2. f[r] \in Nat /\ O(i) < f[r] /\ f[r] <= O(i + 1)
      BY <1>1, <3>1
    <3> HIDE DEF O
    <3> QED BY <2>3, <3>2
  <2>5. \A r, q \in own : f[r] = f[q] => r = q
    BY <1>1
  <2> HIDE DEF own, O
  <2>6. /\ IsFiniteSet(own) /\ Cardinality(own) \in Nat
        /\ Cardinality(own) <= IF O(i) + 1 > O(i + 1) THEN 0 ELSE O(i + 1) - (O(i) + 1) + 1
    <3>1. O(i) + 1 \in Int /\ O(i + 1) \in Int
      BY <2>3
    <3> QED BY <2>4, <2>5, <3>1, PlacesFit
  <2>7. IsFiniteSet(B(i)) /\ Cardinality(B(i)) \in Nat
    BY <1>3, <2>1
  <2> HIDE DEF B
  <2>8. Cardinality(B(i) \cup own) = Cardinality(B(i)) + Cardinality(own) - Cardinality(B(i) \cap own)
    BY <2>6, <2>7, FS_Union
  <2>9. Cardinality(B(i) \cap own) = 0
    BY <2>2, FS_EmptySet, Zenon
  <2>10. Cardinality(RemovalsBefore(removals, i)) = Cardinality(B(i) \cup own)
    BY <2>2, Zenon
  <2>11. Cardinality(RemovalsBefore(removals, i)) - Cardinality(B(i)) <= O(i + 1) - O(i)
    BY <2>3, <2>6, <2>7, <2>8, <2>9, <2>10
  <2> QED BY <2>11 DEF B
<1> QED BY <1>3, <1>4, <1>5, <1>6

\* The positions left once the removed ones are taken out.
LEMMA LeftAfterRemovals ==
  ASSUME NEW n \in Nat, NEW slot, slot.offsets \in Seq(0 .. MaxOffset), Shaped(slot.offsets, n),
         slot.offsets # <<>>, NEW removals, RemovalsFit(slot, removals)
  PROVE  LET left == (1 .. LastOffset(slot.offsets)) \ {RemovedAt(slot, r) : r \in removals}
         IN  /\ Within(left, LastOffset(slot.offsets))
             /\ Cardinality(left) = LastOffset(slot.offsets) - Cardinality(removals)
<1> DEFINE f == [r \in removals |-> RemovedAt(slot, r)]
           L == LastOffset(slot.offsets)
           all == 1 .. L
           removed == {RemovedAt(slot, r) : r \in removals}
           left == all \ removed
<1>1. IsFiniteSet(removals) /\ Cardinality(removals) \in Nat
  BY RemovalsCounted
<1>2. L \in Nat
  <2>1. n + 1 \in 1 .. n + 1 /\ n + 1 <= n + 1
    OBVIOUS
  <2>2. L \in 0 .. MaxOffset
    BY <2>1, OffsetsOrdered
  <2> QED BY <2>2, StorageAssumption
<1>3. ASSUME NEW p \in removed PROVE p \in all
  <2>1. PICK r \in removals : p = RemovedAt(slot, r)
    OBVIOUS
  <2>2. /\ r[1] \in Nat /\ r[1] < n /\ p \in Nat /\ slot.offsets[r[1] + 1] \in Nat
        /\ slot.offsets[r[1] + 2] \in Nat
        /\ slot.offsets[r[1] + 1] < p /\ p <= slot.offsets[r[1] + 2]
    BY <2>1, RemovalsPlaced
  <2>3. r[1] + 2 \in 1 .. n + 1 /\ r[1] + 2 <= r[1] + 2
    BY <2>2
  <2>4. slot.offsets[r[1] + 2] <= L
    BY <2>3, OffsetsOrdered
  <2>5. p \in 1 .. L
    <3> HIDE DEF L, removed
    <3> QED BY <1>2, <2>2, <2>4
  <2> QED BY <2>5
<1>4. f \in [removals -> removed] /\ \A p \in removed : \E r \in removals : f[r] = p
  OBVIOUS
<1>5. \A r, q \in removals : f[r] = f[q] => r = q
  BY RemovalsPlaced
<1>6. IsFiniteSet(removed) /\ Cardinality(removed) = Cardinality(removals)
  <2> HIDE DEF f, removed
  <2>1. f \in Bijection(removals, removed)
    BY <1>4, <1>5, Zenon DEF Bijection, Injection, IsInjective, Surjection
  <2>2. ExistsBijection(removals, removed)
    BY <2>1 DEF ExistsBijection
  <2> QED BY <1>1, <2>2, FS_Bijection
<1>7. IsFiniteSet(all) /\ Cardinality(all) = L
  <2>1. 1 \in Int /\ L \in Int /\ (IF 1 > L THEN 0 ELSE L - 1 + 1) = L
    <3> HIDE DEF L
    <3> QED BY <1>2
  <2> HIDE DEF L
  <2> QED BY <2>1, FS_Interval
<1>8. Cardinality(left) = L - Cardinality(removals)
  <2> HIDE DEF removed, all, L
  <2>1. Cardinality(all \ removed) = Cardinality(all) - Cardinality(all \cap removed)
    BY <1>7, FS_Difference
  <2>2. all \cap removed = removed
    BY <1>3
  <2>3. Cardinality(all \cap removed) = Cardinality(removals)
    BY <1>6, <2>2, Zenon
  <2> QED BY <1>7, <2>1, <2>3
<1>9. Within(left, L)
  BY DEF Within
<1> QED BY <1>8, <1>9

\* What a slot keeps when half-edges are taken out: it is sound, and holds nothing new.
LEMMA WithoutEdgesSound ==
  ASSUME NEW n \in Nat, NEW typ, NEW slot, EdgeSlotSound(slot, n, typ), slot.offsets # <<>>,
         NEW removals, RemovalsFit(slot, removals)
  PROVE  LET without == WithoutEdges(slot, removals)
         IN  /\ EdgeSlotSound(without, n, typ)
             /\ \A p \in 1 .. Len(without.neighbors) :
                  \E q \in 1 .. Len(slot.neighbors) : without.neighbors[p] = slot.neighbors[q]
             /\ \A p \in 1 .. Len(without.values.items) :
                  \E q \in 1 .. Len(slot.values.items) : without.values.items[p] = slot.values.items[q]
<1> DEFINE without == WithoutEdges(slot, removals)
           removed == {RemovedAt(slot, r) : r \in removals}
           old == slot.neighbors
           items == slot.values.items
           left == DOMAIN old \ removed
           kept == DOMAIN items \ removed
           O(i) == slot.offsets[i]
           B(i) == Cardinality(RemovalsBefore(removals, i - 1))
           offsets == [i \in 1 .. n + 1 |-> O(i) - B(i)]
           L == LastOffset(slot.offsets)
<1>1. /\ slot.offsets \in Seq(0 .. MaxOffset) /\ Shaped(slot.offsets, n)
      /\ old \in Seq(RawNodeId) /\ Len(old) = L /\ Len(old) \in Nat /\ DOMAIN old = 1 .. Len(old)
      /\ slot.values \in StorageArray /\ slot.values.typ = typ
      /\ items \in Seq(Key) /\ Len(items) \in Nat /\ DOMAIN items = 1 .. Len(items)
      /\ typ # "None" => Len(items) = Len(old)
  <2>1. slot.neighbors \in Seq(RawNodeId) /\ slot.values \in StorageArray
    BY DEF EdgeSlotSound, EdgeStorageSlot
  <2>2. slot.values.items \in Seq(Key)
    BY <2>1 DEF StorageArray
  <2> QED BY <2>1, <2>2, LenProperties DEF EdgeSlotSound, EdgeStorageSlot
<1>2. /\ Len(slot.offsets) = n + 1 /\ DOMAIN slot.offsets = 1 .. n + 1 /\ n + 1 \in Nat
      /\ O(1) = 0 /\ O(n + 1) = L
  <2>1. Len(slot.offsets) = n + 1 /\ O(1) = 0 /\ O(n + 1) = L
    BY <1>1 DEF Shaped, LastOffset
  <2> QED BY <1>1, <2>1, LenProperties
<1>3. /\ \A i \in 1 .. n + 1 : O(i) \in 0 .. MaxOffset
      /\ \A i \in 1 .. n : O(i) <= O(i + 1)
  BY <1>1, <1>2, ElementOfSeq DEF Shaped
<1>4. /\ Cardinality(removals) \in Nat
      /\ RemovalsBefore(removals, 0) = {} /\ RemovalsBefore(removals, n) = removals
      /\ \A i \in 1 .. n + 1 : B(i) \in Nat /\ B(i) <= O(i)
      /\ \A i \in 1 .. n : Cardinality(RemovalsBefore(removals, i)) - B(i) <= O(i + 1) - O(i)
  BY <1>1, RemovalsCounted
<1>5. without = [offsets |-> offsets, neighbors |-> Keep(old, left),
                 values |-> [slot.values EXCEPT !.items = Keep(items, kept)]]
  BY <1>2 DEF WithoutEdges, RemovalsBefore, RemovedAt
<1>6. /\ Within(left, Len(old)) /\ Cardinality(left) = Len(old) - Cardinality(removals)
      /\ typ # "None" => kept = left
  <2>1. LET rest == (1 .. L) \ removed
        IN  Within(rest, L) /\ Cardinality(rest) = L - Cardinality(removals)
    BY <1>1, LeftAfterRemovals
  <2>2. left = (1 .. L) \ removed /\ (typ # "None" => kept = left)
    BY <1>1
  <2> HIDE DEF left, removed, L
  <2> QED BY <1>1, <2>1, <2>2
<1>7. Within(kept, Len(items))
  BY <1>1 DEF Within
<1> HIDE DEF left, kept, removed
<1>8. /\ Keep(old, left) \in Seq(RawNodeId) /\ Len(Keep(old, left)) = Cardinality(left)
      /\ \A p \in 1 .. Cardinality(left) : \E q \in 1 .. Len(old) : Keep(old, left)[p] = old[q]
  <2>1. /\ Keep(old, left) \in Seq(RawNodeId) /\ Len(Keep(old, left)) = Cardinality(left)
        /\ \A k \in 1 .. Cardinality(left) : Nth(left, k) \in left /\ Keep(old, left)[k] = old[Nth(left, k)]
    BY <1>1, <1>6, KeepItems
  <2> QED BY <1>6, <2>1 DEF Within
<1>9. /\ Keep(items, kept) \in Seq(Key) /\ Len(Keep(items, kept)) = Cardinality(kept)
      /\ \A p \in 1 .. Cardinality(kept) : \E q \in 1 .. Len(items) : Keep(items, kept)[p] = items[q]
  <2>1. /\ Keep(items, kept) \in Seq(Key) /\ Len(Keep(items, kept)) = Cardinality(kept)
        /\ \A k \in 1 .. Cardinality(kept) : Nth(kept, k) \in kept /\ Keep(items, kept)[k] = items[Nth(kept, k)]
    BY <1>1, <1>7, KeepItems
  <2> QED BY <1>7, <2>1 DEF Within
<1> HIDE DEF old, items, O, B, L
<1>10. offsets \in Seq(0 .. MaxOffset) /\ Len(offsets) = n + 1 /\ offsets # <<>>
  <2>1. \A i \in 1 .. n + 1 : O(i) - B(i) \in 0 .. MaxOffset
    <3> TAKE i \in 1 .. n + 1
    <3>1. O(i) \in 0 .. MaxOffset /\ B(i) \in Nat /\ B(i) <= O(i)
      BY <1>3, <1>4
    <3> QED BY <3>1, StorageAssumption
  <2>2. offsets \in ListOf(0 .. MaxOffset, n + 1)
    BY <2>1 DEF ListOf
  <2>3. offsets \in Seq(0 .. MaxOffset) /\ Len(offsets) = n + 1
    BY <1>2, <2>2, ListIsSeq
  <2> HIDE DEF offsets
  <2> QED BY <2>3, EmptySeq
<1>11. Shaped(offsets, n) /\ LastOffset(offsets) = L - Cardinality(removals)
  <2>1. 1 \in 1 .. n + 1 /\ n + 1 \in 1 .. n + 1 /\ (n + 1) - 1 = n
    OBVIOUS
  <2>2. B(1) = 0
    <3>1. RemovalsBefore(removals, 1 - 1) = {}
      BY <1>4
    <3> QED BY <3>1, FS_EmptySet, Zenon DEF B
  <2>3. B(n + 1) = Cardinality(removals)
    BY <1>4, <2>1 DEF B
  <2>4. offsets[1] = 0 /\ offsets[n + 1] = L - Cardinality(removals)
    BY <1>2, <2>1, <2>2, <2>3
  <2>5. ASSUME NEW i \in 1 .. n PROVE offsets[i] <= offsets[i + 1]
    <3>1. i \in 1 .. n + 1 /\ i + 1 \in 1 .. n + 1 /\ (i + 1) - 1 = i
      OBVIOUS
    <3>2. offsets[i] = O(i) - B(i) /\ offsets[i + 1] = O(i + 1) - B(i + 1)
      BY <3>1
    <3>3. B(i + 1) - B(i) <= O(i + 1) - O(i)
      BY <1>4, <3>1 DEF B
    <3>4. O(i) \in Int /\ O(i + 1) \in Int /\ B(i) \in Int /\ B(i + 1) \in Int
      BY <1>3, <1>4, <3>1, StorageAssumption
    <3> HIDE DEF offsets
    <3> QED BY <3>2, <3>3, <3>4
  <2> HIDE DEF offsets
  <2>6. LastOffset(offsets) = offsets[n + 1]
    BY <1>10 DEF LastOffset
  <2> QED BY <1>10, <2>4, <2>5, <2>6 DEF Shaped
<1> HIDE DEF offsets, without
<1>12. /\ without.offsets = offsets /\ without.neighbors = Keep(old, left)
       /\ without.values \in StorageArray /\ without.values.typ = typ
       /\ without.values.items = Keep(items, kept)
       /\ without = [offsets |-> without.offsets, neighbors |-> without.neighbors,
                     values |-> without.values]
  BY <1>1, <1>5, <1>9 DEF StorageArray
<1>13. Len(without.neighbors) = L - Cardinality(removals)
       /\ (typ # "None" => Len(without.values.items) = Len(without.neighbors))
  <2>1. Len(without.neighbors) = L - Cardinality(removals)
    BY <1>1, <1>6, <1>8, <1>12
  <2>2. typ # "None" => Cardinality(kept) = Cardinality(left)
    BY <1>6
  <2> QED BY <1>8, <1>9, <1>12, <2>1, <2>2
<1>14. EdgeSlotSound(without, n, typ)
  BY <1>8, <1>10, <1>11, <1>12, <1>13 DEF EdgeSlotSound, EdgeStorageSlot
<1> QED BY <1>8, <1>9, <1>12, <1>14 DEF without, old, items

(***************************************************************************)
(* The texts prepare interns before it writes values                       *)
(***************************************************************************)
Mentions(texts, t) == \E p \in 1 .. Len(texts) : texts[p] = t

\* To be in the pool is to be mentioned there, for a text.
LEMMA InPoolMentions ==
  ASSUME NEW prop, NEW pool
  PROVE  InPool(prop, pool) <=> (prop.typ = "String" => Mentions(pool, prop.key[1]))
BY DEF InPool, Mentions

\* What one of the runs mentions, all of them in one sequence do.
LEMMA ConcatMentions ==
  ASSUME NEW S, NEW n \in Nat, NEW runs \in ListOf(Seq(S), n)
  PROVE  /\ Concat(runs) \in Seq(S)
         /\ \A j \in 1 .. n : \A t : Mentions(runs[j], t) => Mentions(Concat(runs), t)
<1>1. runs \in Seq(Seq(S)) /\ Len(runs) = n
  BY ListIsSeq
<1>2. /\ Concat(runs) \in Seq(S) /\ Len(Concat(runs)) = Cumulative(runs, Len(runs))
      /\ \A j \in 1 .. Len(runs) : \A k \in 1 .. Len(runs[j]) :
           /\ Cumulative(runs, j - 1) + k \in 1 .. Cumulative(runs, Len(runs))
           /\ Concat(runs)[Cumulative(runs, j - 1) + k] = runs[j][k]
  BY <1>1, ConcatItems
<1>3. ASSUME NEW j \in 1 .. n, NEW t, Mentions(runs[j], t) PROVE Mentions(Concat(runs), t)
  <2>1. PICK k \in 1 .. Len(runs[j]) : runs[j][k] = t
    BY <1>3 DEF Mentions
  <2>2. /\ Cumulative(runs, j - 1) + k \in 1 .. Len(Concat(runs))
        /\ Concat(runs)[Cumulative(runs, j - 1) + k] = t
    BY <1>1, <1>2, <2>1
  <2> QED BY <2>2 DEF Mentions
<1> QED BY <1>2, <1>3

\* The texts of values, one by one.
TextsMentioned(props, texts) ==
  \A k \in 1 .. Len(props) : props[k].typ = "String" => Mentions(texts, props[k].key[1])

\* The texts collected from some values are those they mention.
LEMMA TextsOfMentions ==
  ASSUME NEW props \in Seq(PropertyValue)
  PROVE  TextsOf(props) \in Seq(Texts) /\ TextsMentioned(props, TextsOf(props))
BY TextsOfItems DEF Mentions, TextsMentioned

\* What is interned is in the pool, and what was there still is.
LEMMA InternedMentions ==
  ASSUME NEW S, NEW pool \in Seq(S), NEW texts \in Seq(S), NEW t,
         Mentions(texts, t) \/ Mentions(pool, t)
  PROVE  Mentions(Interned(pool, texts), t)
<1> DEFINE all == Interned(pool, texts)
<1>1. /\ Len(pool) \in Nat /\ Len(all) \in Nat /\ Len(pool) <= Len(all)
      /\ \A i \in 1 .. Len(pool) : all[i] = pool[i]
      /\ \A i \in 1 .. Len(texts) : \E h \in 1 .. Len(all) : all[h] = texts[i]
  BY InternedItems
<1> HIDE DEF all
<1>2. CASE Mentions(texts, t)
  BY <1>1, <1>2 DEF Mentions, all
<1>3. CASE Mentions(pool, t)
  <2>1. PICK i \in 1 .. Len(pool) : pool[i] = t
    BY <1>3 DEF Mentions
  <2>2. i \in 1 .. Len(all) /\ all[i] = t
    BY <1>1, <2>1
  <2> QED BY <2>2 DEF Mentions, all
<1> QED BY <1>2, <1>3

\* Values whose texts are interned are in the pool.
LEMMA AllInPoolInterned ==
  ASSUME NEW pool \in Seq(Texts), NEW texts \in Seq(Texts), NEW props, TextsMentioned(props, texts)
  PROVE  AllInPool(props, Interned(pool, texts))
<1> SUFFICES ASSUME NEW k \in 1 .. Len(props) PROVE InPool(props[k], Interned(pool, texts))
  BY DEF AllInPool
<1>1. props[k].typ = "String" => Mentions(texts, props[k].key[1])
  BY DEF TextsMentioned
<1>2. props[k].typ = "String" => Mentions(Interned(pool, texts), props[k].key[1])
  BY <1>1, InternedMentions
<1> QED BY <1>2, InPoolMentions

\* prepare_property_updates interns the texts of every update of every slot.
LEMMA UpdateTextsMention ==
  ASSUME NEW n \in Nat, NEW updates, UpdatesTyped(updates, n)
  PROVE  /\ UpdateTexts(updates, n) \in Seq(Texts)
         /\ \A seq \in DOMAIN updates : TextsMentioned(updates[seq], UpdateTexts(updates, n))
<1> DEFINE runs == [i \in 1 .. n |->
                      IF i - 1 \in DOMAIN updates THEN TextsOf(updates[i - 1]) ELSE <<>>]
<1>1. \A i \in 1 .. n : runs[i] \in Seq(Texts)
  <2> TAKE i \in 1 .. n
  <2>1. CASE i - 1 \in DOMAIN updates
    <3>1. updates[i - 1] \in Seq(PropertyValue)
      BY <2>1 DEF UpdatesTyped
    <3> QED BY <2>1, <3>1, TextsOfMentions
  <2>2. CASE i - 1 \notin DOMAIN updates
    BY <2>2
  <2> QED BY <2>1, <2>2
<1>2. UpdateTexts(updates, n) = Concat(runs)
  BY DEF UpdateTexts
<1>3. runs \in ListOf(Seq(Texts), n)
  <2>1. runs = [i \in 1 .. n |-> runs[i]]
    OBVIOUS
  <2> HIDE DEF runs
  <2> QED BY <1>1, <2>1 DEF ListOf
<1>4. ASSUME NEW seq \in DOMAIN updates, NEW k \in 1 .. Len(updates[seq]), updates[seq][k].typ = "String"
      PROVE  Mentions(Concat(runs), updates[seq][k].key[1])
  <2>1. seq \in 0 .. n - 1 /\ updates[seq] \in Seq(PropertyValue)
    BY DEF UpdatesTyped
  <2>2. seq + 1 \in 1 .. n /\ (seq + 1) - 1 = seq
    BY <2>1
  <2>3. runs[seq + 1] = TextsOf(updates[seq])
    BY <2>2
  <2>4. Mentions(TextsOf(updates[seq]), updates[seq][k].key[1])
    BY <1>4, <2>1, TextsOfMentions DEF TextsMentioned
  <2> HIDE DEF runs
  <2> QED BY <1>3, <2>2, <2>3, <2>4, ConcatMentions
<1> HIDE DEF runs
<1> QED BY <1>2, <1>3, <1>4, ConcatMentions DEF TextsMentioned

(***************************************************************************)
(* Slot numbers                                                            *)
(***************************************************************************)
LEMMA SlotKinds ==
  /\ \A s \in EdgeSlots : SlotNodeKind(s) \in NodeKinds /\ SlotEdgeKind(s) \in EdgeKinds
  /\ \A s \in PropertySlots : SlotNodeKind(s) \in NodeKinds /\ SlotPropertyKind(s) \in PropertyKinds
<1>. NodeKindCount \in Nat /\ EdgeKindCount \in Nat /\ PropertyKindCount \in Nat
  BY SchemaAssumption
<1>1. ASSUME NEW s \in EdgeSlots PROVE SlotNodeKind(s) \in NodeKinds /\ SlotEdgeKind(s) \in EdgeKinds
  <2>1. s \in 0 .. 2 * NodeKindCount * EdgeKindCount - 1
    BY DEF EdgeSlots, edge_storage_size
  <2>2. PICK n \in 0 .. NodeKindCount - 1, d \in {0, 1}, e \in 0 .. EdgeKindCount - 1 :
          s = n + NodeKindCount * (d + 2 * e)
    BY <2>1, EdgeSlotReached, Zenon
  <2> DEFINE slot == n + NodeKindCount * (d + 2 * e)
  <2>3. /\ slot \in 0 .. 2 * NodeKindCount * EdgeKindCount - 1
        /\ slot % NodeKindCount = n
        /\ (slot \div NodeKindCount) % 2 = d
        /\ slot \div (2 * NodeKindCount) = e
    BY EdgeSlotCoordinates
  <2> HIDE DEF slot
  <2>4. s = slot
    BY <2>2 DEF slot
  <2> QED BY <2>3, <2>4 DEF SlotNodeKind, SlotEdgeKind, NodeKinds, EdgeKinds
<1>2. ASSUME NEW s \in PropertySlots
      PROVE  SlotNodeKind(s) \in NodeKinds /\ SlotPropertyKind(s) \in PropertyKinds
  <2>1. s \in 0 .. NodeKindCount * PropertyKindCount - 1
    BY DEF PropertySlots, property_storage_size
  <2>2. PICK n \in 0 .. NodeKindCount - 1, p \in 0 .. PropertyKindCount - 1 : s = n + NodeKindCount * p
    BY <2>1, PropertySlotReached, SchemaAssumption
  <2>3. s % NodeKindCount = n /\ s \div NodeKindCount = p
    BY <2>2, PropertySlotCoordinates, SchemaAssumption
  <2> QED BY <2>3 DEF SlotNodeKind, SlotPropertyKind, NodeKinds, PropertyKinds
<1> QED BY <1>1, <1>2

\* The slot of a node kind, a direction and an edge kind, and back.
LEMMA EdgeSlotOfKinds ==
  ASSUME NEW node \in NodeKinds, NEW direction \in Directions, NEW edge \in EdgeKinds
  PROVE  /\ edge_storage_slot(node, direction, edge) \in EdgeSlots
         /\ SlotNodeKind(edge_storage_slot(node, direction, edge)) = node
         /\ SlotEdgeKind(edge_storage_slot(node, direction, edge)) = edge
         /\ SlotDirection(edge_storage_slot(node, direction, edge)) = direction
<1>1. node \in 0 .. NodeKindCount - 1 /\ direction \in {0, 1} /\ edge \in 0 .. EdgeKindCount - 1
  BY DEF NodeKinds, Directions, In, Out, EdgeKinds
<1>2. edge_storage_slot(node, direction, edge) = node + NodeKindCount * (direction + 2 * edge)
  BY DEF edge_storage_slot
<1>3. NodeKindCount \in Nat /\ EdgeKindCount \in Nat
  BY SchemaAssumption
<1> DEFINE slot == node + NodeKindCount * (direction + 2 * edge)
<1>4. /\ slot \in 0 .. 2 * NodeKindCount * EdgeKindCount - 1
      /\ slot % NodeKindCount = node
      /\ (slot \div NodeKindCount) % 2 = direction
      /\ slot \div (2 * NodeKindCount) = edge
  BY <1>1, <1>3, EdgeSlotCoordinates
<1> QED BY <1>2, <1>4, Zenon DEF EdgeSlots, edge_storage_size, SlotNodeKind, SlotDirection, SlotEdgeKind

\* The slot of a node kind and a property kind, and back.
LEMMA PropertySlotOfKinds ==
  ASSUME NEW node \in NodeKinds, NEW property \in PropertyKinds
  PROVE  /\ property_storage_slot(node, property) \in PropertySlots
         /\ SlotNodeKind(property_storage_slot(node, property)) = node
         /\ SlotPropertyKind(property_storage_slot(node, property)) = property
<1>1. node \in 0 .. NodeKindCount - 1 /\ property \in 0 .. PropertyKindCount - 1
  BY DEF NodeKinds, PropertyKinds
<1>2. property_storage_slot(node, property) = node + NodeKindCount * property
  BY DEF property_storage_slot
<1>3. NodeKindCount \in Nat /\ PropertyKindCount \in Nat
  BY SchemaAssumption
<1> DEFINE slot == node + NodeKindCount * property
<1>4. /\ slot \in 0 .. NodeKindCount * PropertyKindCount - 1
      /\ slot % NodeKindCount = node
      /\ slot \div NodeKindCount = property
  BY <1>1, <1>3, PropertySlotCoordinates, Zenon
<1> QED BY <1>2, <1>4, Zenon DEF PropertySlots, property_storage_size, SlotNodeKind, SlotPropertyKind

(***************************************************************************)
(* What check_slots asks of a graph                                        *)
(***************************************************************************)
\* The check of one stored value passes.
ContentPasses(g, typ, key, enum) ==
  /\ typ = "NodeId" => check_node_id(g, key) = Ok
  /\ typ = "String" => check_string_id(g, key[1]) = Ok
  /\ typ = "Enum" => check_enum_id(key[1], key[2], enum) = Ok
AllContentPasses(g, array, enum) ==
  \A i \in 1 .. Len(array.items) : ContentPasses(g, array.typ, array.items[i], enum)

\* check_values_content passes exactly when every value does.
LEMMA ValuesCheck ==
  ASSUME NEW g, NEW array, NEW enum, Len(array.items) \in Nat
  PROVE  check_values_content(g, array, enum) = Ok <=> AllContentPasses(g, array, enum)
<1> DEFINE Check(i) == LET key == array.items[i]
                       IN  CASE array.typ = "NodeId" -> check_node_id(g, key)
                             [] array.typ = "String" -> check_string_id(g, key[1])
                             [] array.typ = "Enum"   -> check_enum_id(key[1], key[2], enum)
                             [] OTHER                -> Ok
           failing == {i \in 1 .. Len(array.items) : Check(i) # Ok}
<1>1. check_values_content(g, array, enum) = IF failing = {} THEN Ok ELSE Check(Lowest(failing))
  BY DEF check_values_content, FirstError
<1>2. \A i \in 1 .. Len(array.items) :
        Check(i) = Ok <=> ContentPasses(g, array.typ, array.items[i], enum)
  BY DEF ContentPasses
<1>3. failing \subseteq Nat /\ \A i \in failing : Check(i) # Ok
  OBVIOUS
<1>4. failing = {} <=> \A i \in 1 .. Len(array.items) : Check(i) = Ok
  OBVIOUS
<1> HIDE DEF failing, Check
<1>5. failing # {} => Check(Lowest(failing)) # Ok
  BY <1>3, LowestIsLeast
<1> QED BY <1>1, <1>2, <1>4, <1>5 DEF AllContentPasses

\* check_offsets_shape passes exactly the offsets that are Shaped.
LEMMA ShapeCheck ==
  ASSUME NEW n \in Nat, NEW offsets \in Seq(0 .. MaxOffset)
  PROVE  check_offsets_shape(offsets, n) = Ok <=> Shaped(offsets, n)
<1>1. CASE offsets = <<>>
  BY <1>1 DEF check_offsets_shape, Shaped
<1>2. CASE offsets # <<>> /\ Len(offsets) # n + 1
  BY <1>2 DEF check_offsets_shape, Shaped, Ok
<1>3. CASE offsets # <<>> /\ Len(offsets) = n + 1 /\ offsets[1] # 0
  BY <1>3 DEF check_offsets_shape, Shaped, Ok
<1>4. CASE offsets # <<>> /\ Len(offsets) = n + 1 /\ offsets[1] = 0
  <2>1. check_offsets_shape(offsets, n) = Ok <=> ~ (\E i \in 1 .. n : offsets[i + 1] < offsets[i])
    BY <1>4 DEF check_offsets_shape, Ok
  <2>2. \A i \in 1 .. n : offsets[i] \in Int /\ offsets[i + 1] \in Int
    BY <1>4, StorageAssumption
  <2> QED BY <1>4, <2>1, <2>2 DEF Shaped
<1> QED BY <1>1, <1>2, <1>3, <1>4

\* An array's values pass their checks: it is of the declared type, ends where the last
\* offset says and every item passes its own.
LEMMA CheckValuesPass ==
  ASSUME NEW g, NEW slot, NEW decl, Len(slot.values.items) \in Nat
  PROVE  CheckValues(g, slot, decl) = Ok <=>
           /\ slot.values.typ = decl.typ
           /\ decl.typ # "None" => LastOffset(slot.offsets) = Len(slot.values.items)
           /\ AllContentPasses(g, slot.values, decl.enum)
<1>1. check_storage_type(slot.values, decl.typ) = Ok <=> slot.values.typ = decl.typ
  BY DEF check_storage_type, Ok
<1>2. slot.values.typ = decl.typ /\ decl.typ # "None" =>
        (check_offsets_bounds(slot.offsets, ArrayLen(slot.values)) = Ok
           <=> LastOffset(slot.offsets) = Len(slot.values.items))
  BY DEF check_offsets_bounds, ArrayLen, Ok
<1>3. check_values_content(g, slot.values, decl.enum) = Ok <=> AllContentPasses(g, slot.values, decl.enum)
  BY ValuesCheck
<1> QED BY <1>1, <1>2, <1>3 DEF CheckValues, Both

\* check_property_slot passes exactly the slots that are sound and whose values pass.
LEMMA PropertySlotCheck ==
  ASSUME NEW g \in Graph, NEW s \in PropertySlots, NEW n \in Nat, n = Len(g.nodes[SlotNodeKind(s)]),
         NEW decl, decl = NodeProperty[SlotPropertyKind(s)], decl.typ # "None"
  PROVE  check_property_slot(g, s) = Ok <=>
           /\ PropertySlotSound(g.properties[s], n, decl.typ)
           /\ AllContentPasses(g, g.properties[s].values, decl.enum)
<1> DEFINE slot == g.properties[s]
<1>1. slot \in PropertyStorageSlot
  BY DEF Graph
<1>2. slot.offsets \in Seq(0 .. MaxOffset) /\ Len(slot.values.items) \in Nat
  BY <1>1 DEF PropertyStorageSlot, StorageArray
<1>3. check_property_slot(g, s) = Both(check_offsets_shape(slot.offsets, n), CheckValues(g, slot, decl))
  BY DEF check_property_slot
<1> HIDE DEF slot
<1>4. check_offsets_shape(slot.offsets, n) = Ok <=> Shaped(slot.offsets, n)
  BY <1>2, ShapeCheck
<1>5. CheckValues(g, slot, decl) = Ok <=>
        /\ slot.values.typ = decl.typ
        /\ decl.typ # "None" => LastOffset(slot.offsets) = Len(slot.values.items)
        /\ AllContentPasses(g, slot.values, decl.enum)
  BY <1>2, CheckValuesPass
<1>6. check_property_slot(g, s) = Ok <=>
        PropertySlotSound(slot, n, decl.typ) /\ AllContentPasses(g, slot.values, decl.enum)
  BY <1>1, <1>3, <1>4, <1>5 DEF Both, PropertySlotSound
<1> QED BY <1>6 DEF slot

\* The ids of a list name nodes, when each kind has as many as counts says.
Named(node, counts) == KindOf(node) \in NodeKinds /\ SeqOf(node) < counts[KindOf(node)]
AllNamed(ids, counts) == \A i \in 1 .. Len(ids) : Named(ids[i], counts)
Counted(g) == [k \in NodeKinds |-> Len(g.nodes[k])]

\* check_node_id passes exactly the ids that name a node.
LEMMA NodeIdCheck ==
  ASSUME NEW g \in Graph, NEW node, SeqOf(node) \in Nat
  PROVE  check_node_id(g, node) = Ok <=> Named(node, Counted(g))
<1>1. CASE KindOf(node) \in NodeKinds
  <2>1. g.nodes[KindOf(node)] \in Seq(BOOLEAN)
    BY <1>1 DEF Graph
  <2>2. Len(g.nodes[KindOf(node)]) \in Nat /\ Counted(g)[KindOf(node)] = Len(g.nodes[KindOf(node)])
    BY <1>1, <2>1 DEF Counted
  <2> QED BY <1>1, <2>2 DEF check_node_id, ResolvesNodeKind, Named, Ok
<1>2. CASE KindOf(node) \notin NodeKinds
  BY <1>2 DEF check_node_id, ResolvesNodeKind, Named, Ok
<1> QED BY <1>1, <1>2

\* check_edge_slot passes exactly the slots that are sound, whose neighbors exist and
\* whose values pass.
LEMMA EdgeSlotCheck ==
  ASSUME NEW g \in Graph, NEW s \in EdgeSlots, NEW n \in Nat, n = Len(g.nodes[SlotNodeKind(s)]),
         NEW decl, decl = EdgeProperty[SlotEdgeKind(s)]
  PROVE  check_edge_slot(g, s) = Ok <=>
           /\ EdgeSlotSound(g.edges[s], n, decl.typ)
           /\ AllNamed(g.edges[s].neighbors, Counted(g))
           /\ AllContentPasses(g, g.edges[s].values, decl.enum)
<1> DEFINE slot == g.edges[s]
           failing == {i \in 1 .. Len(slot.neighbors) : check_node_id(g, slot.neighbors[i]) # Ok}
           first == FirstError(Len(slot.neighbors), LAMBDA i : check_node_id(g, slot.neighbors[i]))
<1>1. slot \in EdgeStorageSlot
  BY DEF Graph
<1>2. /\ slot.offsets \in Seq(0 .. MaxOffset) /\ Len(slot.values.items) \in Nat
      /\ slot.neighbors \in Seq(RawNodeId) /\ Len(slot.neighbors) \in Nat
  BY <1>1 DEF EdgeStorageSlot, StorageArray
<1>3. check_edge_slot(g, s) =
        Both(check_offsets_shape(slot.offsets, n),
        Both(check_offsets_bounds(slot.offsets, Len(slot.neighbors)),
        Both(first, CheckValues(g, slot, decl))))
  BY DEF check_edge_slot
<1>4. first = IF failing = {} THEN Ok ELSE check_node_id(g, slot.neighbors[Lowest(failing)])
  BY DEF FirstError
<1>5. failing \subseteq Nat /\ \A i \in failing : check_node_id(g, slot.neighbors[i]) # Ok
  OBVIOUS
<1>6. failing = {} <=> \A i \in 1 .. Len(slot.neighbors) : check_node_id(g, slot.neighbors[i]) = Ok
  OBVIOUS
<1> HIDE DEF slot, failing, first
<1>7. failing # {} => check_node_id(g, slot.neighbors[Lowest(failing)]) # Ok
  BY <1>5, LowestIsLeast
<1>8. \A i \in 1 .. Len(slot.neighbors) :
        check_node_id(g, slot.neighbors[i]) = Ok <=> Named(slot.neighbors[i], Counted(g))
  <2> TAKE i \in 1 .. Len(slot.neighbors)
  <2>1. slot.neighbors[i] \in RawNodeId
    BY <1>2
  <2>2. SeqOf(slot.neighbors[i]) \in Nat
    BY <2>1 DEF RawNodeId, SeqOf
  <2> QED BY <2>2, NodeIdCheck
<1>9. first = Ok <=> AllNamed(slot.neighbors, Counted(g))
  BY <1>4, <1>6, <1>7, <1>8 DEF AllNamed
<1>10. check_offsets_shape(slot.offsets, n) = Ok <=> Shaped(slot.offsets, n)
  BY <1>2, ShapeCheck
<1>11. check_offsets_bounds(slot.offsets, Len(slot.neighbors)) = Ok
         <=> LastOffset(slot.offsets) = Len(slot.neighbors)
  BY DEF check_offsets_bounds, Ok
<1>12. CheckValues(g, slot, decl) = Ok <=>
         /\ slot.values.typ = decl.typ
         /\ decl.typ # "None" => LastOffset(slot.offsets) = Len(slot.values.items)
         /\ AllContentPasses(g, slot.values, decl.enum)
  BY <1>2, CheckValuesPass
<1>13. check_edge_slot(g, s) = Ok <=>
         /\ EdgeSlotSound(slot, n, decl.typ)
         /\ AllNamed(slot.neighbors, Counted(g))
         /\ AllContentPasses(g, slot.values, decl.enum)
  BY <1>1, <1>3, <1>9, <1>10, <1>11, <1>12 DEF Both, EdgeSlotSound
<1> QED BY <1>13 DEF slot

\* check_slots passes exactly when the check of every slot does.
LEMMA SlotsCheck ==
  ASSUME NEW g
  PROVE  CheckSlots(g) = Ok <=>
           /\ \A s \in PropertySlots : check_property_slot(g, s) = Ok
           /\ \A s \in EdgeSlots : check_edge_slot(g, s) = Ok
<1> DEFINE fp == {i \in 1 .. property_storage_size : check_property_slot(g, i - 1) # Ok}
           fe == {i \in 1 .. edge_storage_size : check_edge_slot(g, i - 1) # Ok}
<1>1. CheckSlots(g) = Both(IF fp = {} THEN Ok ELSE check_property_slot(g, Lowest(fp) - 1),
                           IF fe = {} THEN Ok ELSE check_edge_slot(g, Lowest(fe) - 1))
  BY DEF CheckSlots, FirstError
<1>2. fp \subseteq Nat /\ \A i \in fp : check_property_slot(g, i - 1) # Ok
  OBVIOUS
<1>3. fe \subseteq Nat /\ \A i \in fe : check_edge_slot(g, i - 1) # Ok
  OBVIOUS
<1>4. property_storage_size \in Nat /\ edge_storage_size \in Nat
  BY SchemaAssumption DEF property_storage_size, edge_storage_size
<1>5. fp = {} <=> \A s \in PropertySlots : check_property_slot(g, s) = Ok
  <2>1. \A i \in 1 .. property_storage_size : i - 1 \in PropertySlots
    BY <1>4 DEF PropertySlots
  <2>2. \A s \in PropertySlots : s + 1 \in 1 .. property_storage_size /\ (s + 1) - 1 = s
    BY <1>4 DEF PropertySlots
  <2> QED BY <2>1, <2>2
<1>6. fe = {} <=> \A s \in EdgeSlots : check_edge_slot(g, s) = Ok
  <2>1. \A i \in 1 .. edge_storage_size : i - 1 \in EdgeSlots
    BY <1>4 DEF EdgeSlots
  <2>2. \A s \in EdgeSlots : s + 1 \in 1 .. edge_storage_size /\ (s + 1) - 1 = s
    BY <1>4 DEF EdgeSlots
  <2> QED BY <2>1, <2>2
<1> HIDE DEF fp, fe
<1>7. fp # {} => check_property_slot(g, Lowest(fp) - 1) # Ok
  BY <1>2, LowestIsLeast
<1>8. fe # {} => check_edge_slot(g, Lowest(fe) - 1) # Ok
  BY <1>3, LowestIsLeast
<1> QED BY <1>1, <1>5, <1>6, <1>7, <1>8 DEF Both

(***************************************************************************)
(* What the pairing asks of a graph                                         *)
(*                                                                          *)
(* A class of half-edges is told by a node, its neighbor and a value.  In the *)
(* slots of one direction its half-edges are positions of the node's run, and *)
(* the checker compares how many there are on either side of an edge.       *)
(***************************************************************************)
\* The class of a half-edge of a node.
ClassOf(dir, node, neighbor, value) ==
  IF dir = Out THEN node \o neighbor \o value ELSE neighbor \o node \o value

\* Two sequences end alike and begin alike when they are equal and begin at one length.
LEMMA ConcatSplits ==
  ASSUME NEW S, NEW a \in Seq(S), NEW b \in Seq(S), NEW v \in Seq(S), NEW w \in Seq(S),
         Len(a) = Len(b), a \o v = b \o w
  PROVE  a = b /\ v = w
<1>1. Len(a) \in Nat /\ Len(v) \in Nat /\ Len(w) \in Nat
  BY LenProperties
<1>2. \A i \in 1 .. Len(a) : a[i] = b[i]
  <2> TAKE i \in 1 .. Len(a)
  <2>1. i \in 1 .. Len(a) + Len(v) /\ i <= Len(a)
    BY <1>1
  <2>2. i \in 1 .. Len(b) + Len(w) /\ i <= Len(b)
    BY <1>1
  <2>3. (a \o v)[i] = a[i]
    BY <2>1, ConcatProperties
  <2>4. (b \o w)[i] = b[i]
    BY <2>2, ConcatProperties
  <2> QED BY <2>3, <2>4
<1>3. a = b
  BY <1>2, SeqEqual
<1>4. \A s, t, u \in Seq(S) : s \o t = s \o u => t = u
  BY ConcatSimplifications
<1> QED BY <1>3, <1>4

\* A class tells its ends and its value apart.
LEMMA ClassSplits ==
  ASSUME NEW dir, NEW a \in RawNodeId, NEW b \in RawNodeId, NEW c \in RawNodeId, NEW d \in RawNodeId,
         NEW v \in Key, NEW w \in Key
  PROVE  ClassOf(dir, a, b, v) = ClassOf(dir, c, d, w) <=> a = c /\ b = d /\ v = w
<1>1. \A x \in RawNodeId : x \in Seq(Nat) /\ Len(x) = 2
  <2> TAKE x \in RawNodeId
  <2>1. PICK k \in Nat, q \in Nat : x = <<k, q>>
    BY DEF RawNodeId
  <2> QED BY <2>1
<1>2. v \in Seq(Nat) /\ w \in Seq(Nat)
  BY DEF Key
<1>3. ASSUME NEW p \in RawNodeId, NEW q \in RawNodeId, NEW r \in RawNodeId, NEW s \in RawNodeId,
             p \o q \o v = r \o s \o w
      PROVE  p = r /\ q = s /\ v = w
  <2>1. p \in Seq(Nat) /\ q \in Seq(Nat) /\ r \in Seq(Nat) /\ s \in Seq(Nat)
    BY <1>1
  <2>2. Len(p) = 2 /\ Len(q) = 2 /\ Len(r) = 2 /\ Len(s) = 2
    BY <1>1
  <2>3. p \o q \in Seq(Nat) /\ r \o s \in Seq(Nat) /\ Len(p \o q) = 4 /\ Len(r \o s) = 4
    <3>1. Len(p \o q) = Len(p) + Len(q) /\ Len(r \o s) = Len(r) + Len(s)
      BY <2>1, ConcatProperties
    <3> QED BY <2>1, <2>2, <3>1, ConcatProperties
  <2>4. p \o q = r \o s /\ v = w
    BY <1>2, <1>3, <2>3, ConcatSplits
  <2>5. Len(p) = Len(r) /\ p \o q = r \o s
    BY <2>2, <2>4
  <2>6. p = r /\ q = s
    BY <2>1, <2>5, ConcatSplits, Zenon
  <2> QED BY <2>4, <2>6
<1>4. CASE dir = Out
  <2>1. ClassOf(dir, a, b, v) = a \o b \o v /\ ClassOf(dir, c, d, w) = c \o d \o w
    BY <1>4 DEF ClassOf
  <2> QED BY <1>3, <2>1
<1>5. CASE dir # Out
  <2>1. ClassOf(dir, a, b, v) = b \o a \o v /\ ClassOf(dir, c, d, w) = d \o c \o w
    BY <1>5 DEF ClassOf
  <2>2. b \o a \o v = d \o c \o w => b = d /\ a = c /\ v = w
    BY <1>3
  <2> QED BY <2>1, <2>2
<1> QED BY <1>4, <1>5

\* The half-edge at position i of the run of node <<kind, seq>>.
HalfAt(g, dir, e, kind, seq, i) ==
  LET s == edge_storage_slot(kind, dir, e)
  IN  [slot |-> s, at |-> i,
       class |-> ClassOf(dir, <<kind, seq>>, g.edges[s].neighbors[i], ValueKey(g.edges[s].values, i - 1))]

\* The half-edges the pairing gathers are those of the runs.
LEMMA HalvesFound ==
  ASSUME NEW g, NEW dir, NEW e, NEW h
  PROVE  h \in Halves(g, dir, e) <=>
           \E kind \in NodeKinds :
             LET slot == g.edges[edge_storage_slot(kind, dir, e)]
             IN  \E seq \in 0 .. Len(slot.offsets) - 2 :
                   \E i \in Start(slot, seq) + 1 .. End(slot, seq) : h = HalfAt(g, dir, e, kind, seq, i)
<1> DEFINE SlotOf(kind) == g.edges[edge_storage_slot(kind, dir, e)]
           Run(kind, seq) == {HalfAt(g, dir, e, kind, seq, i) :
                                i \in Start(SlotOf(kind), seq) + 1 .. End(SlotOf(kind), seq)}
           Runs(kind) == UNION {Run(kind, seq) : seq \in 0 .. Len(SlotOf(kind).offsets) - 2}
<1>1. Halves(g, dir, e) = UNION {Runs(kind) : kind \in NodeKinds}
  BY DEF Halves, HalfAt, ClassOf
<1>2. \A kind, seq : h \in Run(kind, seq) <=>
        \E i \in Start(SlotOf(kind), seq) + 1 .. End(SlotOf(kind), seq) : h = HalfAt(g, dir, e, kind, seq, i)
  OBVIOUS
<1> HIDE DEF Run
<1>3. \A kind : h \in Runs(kind) <=> \E seq \in 0 .. Len(SlotOf(kind).offsets) - 2 : h \in Run(kind, seq)
  OBVIOUS
<1> HIDE DEF Runs
<1> QED BY <1>1, <1>2, <1>3
\* Both halves of an edge are of one class.
LEMMA HalvesOfOneClass ==
  ASSUME NEW src, NEW dst, NEW value
  PROVE  ClassOf(Out, src, dst, value) = ClassOf(In, dst, src, value)
BY DEF ClassOf, Out, In

\* The positions of the run of node seq, and those of them that lead to other with value.
Run(slot, seq) == IF HasOffset(slot, seq) THEN Start(slot, seq) + 1 .. End(slot, seq) ELSE {}
Leads(slot, i, other, value) ==
  slot.neighbors[i] = other /\ (slot.values.typ # "None" => slot.values.items[i] = value)
Alike(slot, seq, other, value) == {i \in Run(slot, seq) : Leads(slot, i, other, value)}

\* A run is made of positions of the slot's arrays.
LEMMA RunPlaces ==
  ASSUME NEW n \in Nat, NEW typ, NEW slot, EdgeSlotSound(slot, n, typ), NEW seq \in Nat
  PROVE  /\ Within(Run(slot, seq), Len(slot.neighbors)) /\ Len(slot.neighbors) \in Nat
         /\ slot.neighbors \in Seq(RawNodeId)
         /\ \A i \in Run(slot, seq) :
              /\ slot.neighbors[i] \in RawNodeId
              /\ typ # "None" =>
                   ValueKey(slot.values, i - 1) = slot.values.items[i] /\ slot.values.items[i] \in Key
         /\ HasOffset(slot, seq) <=> slot.offsets # <<>> /\ seq < n
<1>1. /\ slot.offsets \in Seq(0 .. MaxOffset) /\ slot.neighbors \in Seq(RawNodeId)
      /\ slot.values.items \in Seq(Key)
  BY DEF EdgeSlotSound, EdgeStorageSlot, StorageArray
<1>2. Len(slot.neighbors) \in Nat /\ Len(slot.offsets) \in Nat
  BY <1>1, LenProperties
<1>3. Shaped(slot.offsets, n) /\ LastOffset(slot.offsets) = Len(slot.neighbors) /\ slot.values.typ = typ
  BY DEF EdgeSlotSound
<1>4. HasOffset(slot, seq) <=> slot.offsets # <<>> /\ seq < n
  <2>1. slot.offsets = <<>> => Len(slot.offsets) = 0
    OBVIOUS
  <2>2. slot.offsets # <<>> => Len(slot.offsets) = n + 1
    BY <1>3 DEF Shaped
  <2> QED BY <1>2, <2>1, <2>2 DEF HasOffset
<1>5. ASSUME NEW i \in Run(slot, seq) PROVE i \in 1 .. Len(slot.neighbors)
  <2>1. HasOffset(slot, seq) /\ i \in Start(slot, seq) + 1 .. End(slot, seq)
    BY <1>5 DEF Run
  <2>2. Start(slot, seq) \in Nat /\ End(slot, seq) \in Nat /\ End(slot, seq) <= Len(slot.neighbors)
    BY <1>1, <1>3, <2>1, RunWithin
  <2> QED BY <1>2, <2>1, <2>2
<1>6. ASSUME NEW i \in Run(slot, seq)
      PROVE  /\ slot.neighbors[i] \in RawNodeId
             /\ typ # "None" =>
                  ValueKey(slot.values, i - 1) = slot.values.items[i] /\ slot.values.items[i] \in Key
  <2>1. i \in 1 .. Len(slot.neighbors)
    BY <1>5
  <2>2. slot.neighbors[i] \in RawNodeId
    BY <1>1, <2>1, ElementOfSeq
  <2>3. ASSUME typ # "None" PROVE ValueKey(slot.values, i - 1) = slot.values.items[i] /\ slot.values.items[i] \in Key
    <3>1. Len(slot.values.items) = Len(slot.neighbors)
      BY <2>3 DEF EdgeSlotSound
    <3>2. i \in 1 .. Len(slot.values.items)
      BY <2>1, <3>1
    <3>3. i - 1 < Len(slot.values.items) /\ (i - 1) + 1 = i
      BY <1>2, <2>1, <3>1
    <3>4. slot.values.items[i] \in Key
      BY <1>1, <3>2, ElementOfSeq
    <3> QED BY <1>3, <2>3, <3>3, <3>4 DEF ValueKey
  <2> QED BY <2>2, <2>3
<1> QED BY <1>1, <1>2, <1>4, <1>5, <1>6 DEF Within

\* The slots of an edge kind and a direction hold what they should.
SoundSlots(g, dir, e) ==
  \A kind \in NodeKinds : \E n \in Nat :
    EdgeSlotSound(g.edges[edge_storage_slot(kind, dir, e)], n, EdgeProperty[e].typ)

\* The value in the class of an edge.
ValueOf(e, value) == IF EdgeProperty[e].typ = "None" THEN NoKey ELSE value

\* The class of a half-edge tells the node whose run it is in, its neighbor and its value.
LEMMA ClassTold ==
  ASSUME NEW g, NEW dir, NEW e, SoundSlots(g, dir, e),
         NEW k \in NodeKinds, NEW slot, slot = g.edges[edge_storage_slot(k, dir, e)],
         NEW seq \in Nat, NEW i \in Run(slot, seq)
  PROVE  LET value == ValueKey(slot.values, i - 1)
         IN  /\ slot.neighbors[i] \in RawNodeId /\ value \in Key /\ ValueOf(e, value) = value
             /\ slot.values.typ = EdgeProperty[e].typ
             /\ \A v \in Key : Leads(slot, i, slot.neighbors[i], v) <=> ValueOf(e, v) = value
<1>1. PICK n \in Nat : EdgeSlotSound(slot, n, EdgeProperty[e].typ)
  BY DEF SoundSlots
<1>2. /\ slot.neighbors[i] \in RawNodeId
      /\ EdgeProperty[e].typ # "None" =>
           ValueKey(slot.values, i - 1) = slot.values.items[i] /\ slot.values.items[i] \in Key
  BY <1>1, RunPlaces
<1>3. slot.values.typ = EdgeProperty[e].typ
  BY <1>1 DEF EdgeSlotSound
<1>4. slot.values.typ = "None" => ValueKey(slot.values, i - 1) = NoKey
  BY DEF ValueKey
<1>5. NoKey \in Key
  BY EmptySeq DEF NoKey, Key
<1> QED BY <1>2, <1>3, <1>4, <1>5 DEF ValueOf, Leads

\* The half-edges of a class are as many as the positions of its node that lead to its
\* neighbor with its value.
LEMMA ClassCount ==
  ASSUME NEW g, NEW dir, NEW e, SoundSlots(g, dir, e),
         NEW node \in RawNodeId, KindOf(node) \in NodeKinds, NEW other \in RawNodeId, NEW value \in Key
  PROVE  CountOf(Halves(g, dir, e), ClassOf(dir, node, other, ValueOf(e, value)))
           = Cardinality(Alike(g.edges[edge_storage_slot(KindOf(node), dir, e)], SeqOf(node), other, value))
<1>1. PICK kind \in Nat, seq \in Nat : node = <<kind, seq>>
  BY DEF RawNodeId
<1>2. KindOf(node) = kind /\ SeqOf(node) = seq /\ kind \in NodeKinds
  BY <1>1 DEF KindOf, SeqOf
<1>3. PICK slot : slot = g.edges[edge_storage_slot(kind, dir, e)]
  OBVIOUS
<1> DEFINE c == ClassOf(dir, node, other, ValueOf(e, value))
           H == {h \in Halves(g, dir, e) : h.class = c}
           I == Alike(slot, seq, other, value)
           Half(i) == HalfAt(g, dir, e, kind, seq, i)
<1>4. ValueOf(e, value) \in Key
  BY EmptySeq DEF ValueOf, NoKey, Key
\* What is known of any half-edge.
<1>5. ASSUME NEW k \in NodeKinds, NEW s, s = g.edges[edge_storage_slot(k, dir, e)],
             NEW q \in Nat, NEW i \in Run(s, q)
      PROVE  HalfAt(g, dir, e, k, q, i).class = c <=> k = kind /\ q = seq /\ Leads(s, i, other, value)
  <2>1. /\ s.neighbors[i] \in RawNodeId /\ ValueKey(s.values, i - 1) \in Key
        /\ Leads(s, i, s.neighbors[i], value) <=> ValueOf(e, value) = ValueKey(s.values, i - 1)
    BY <1>5, ClassTold
  <2>2. HalfAt(g, dir, e, k, q, i).class = ClassOf(dir, <<k, q>>, s.neighbors[i], ValueKey(s.values, i - 1))
    BY <1>5 DEF HalfAt
  <2>3. <<k, q>> \in RawNodeId
    BY SchemaAssumption DEF RawNodeId, NodeKinds
  <2>4. HalfAt(g, dir, e, k, q, i).class = c <=>
          <<k, q>> = node /\ s.neighbors[i] = other /\ ValueKey(s.values, i - 1) = ValueOf(e, value)
    BY <1>4, <2>1, <2>2, <2>3, ClassSplits
  <2>5. <<k, q>> = node <=> k = kind /\ q = seq
    BY <1>1
  <2>6. Leads(s, i, other, value) => s.neighbors[i] = other
    BY DEF Leads
  <2> HIDE DEF c
  <2> QED BY <2>1, <2>4, <2>5, <2>6
<1>6. \A s, q : q \in 0 .. Len(s.offsets) - 2 /\ Len(s.offsets) \in Nat <=> q \in Nat /\ HasOffset(s, q) /\ Len(s.offsets) \in Nat
  BY DEF HasOffset
<1>7. \A k \in NodeKinds : Len(g.edges[edge_storage_slot(k, dir, e)].offsets) \in Nat
  <2> TAKE k \in NodeKinds
  <2>1. PICK n \in Nat : EdgeSlotSound(g.edges[edge_storage_slot(k, dir, e)], n, EdgeProperty[e].typ)
    BY DEF SoundSlots
  <2>2. g.edges[edge_storage_slot(k, dir, e)].offsets \in Seq(0 .. MaxOffset)
    BY <2>1 DEF EdgeSlotSound, EdgeStorageSlot
  <2> QED BY <2>2, LenProperties
<1>8. H = {Half(i) : i \in I}
  <2>1. ASSUME NEW h \in H PROVE \E i \in I : h = Half(i)
    <3>1. PICK k \in NodeKinds :
            LET s == g.edges[edge_storage_slot(k, dir, e)]
            IN  \E q \in 0 .. Len(s.offsets) - 2 :
                  \E i \in Start(s, q) + 1 .. End(s, q) : h = HalfAt(g, dir, e, k, q, i)
      BY HalvesFound
    <3>2. PICK s : s = g.edges[edge_storage_slot(k, dir, e)]
      OBVIOUS
    <3>3. PICK q \in 0 .. Len(s.offsets) - 2 :
            \E i \in Start(s, q) + 1 .. End(s, q) : h = HalfAt(g, dir, e, k, q, i)
      BY <3>1, <3>2
    <3>4. PICK i \in Start(s, q) + 1 .. End(s, q) : h = HalfAt(g, dir, e, k, q, i)
      BY <3>3
    <3>5. q \in Nat /\ i \in Run(s, q)
      BY <1>6, <1>7, <3>2 DEF Run
    <3>6. h.class = c
      OBVIOUS
    <3> HIDE DEF c
    <3>7. k = kind /\ q = seq /\ Leads(s, i, other, value)
      BY <1>5, <3>2, <3>4, <3>5, <3>6
    <3>8. s = slot
      BY <1>3, <3>2, <3>7
    <3> QED BY <3>4, <3>5, <3>7, <3>8 DEF Alike
  <2>2. ASSUME NEW i \in I PROVE Half(i) \in H
    <3>1. i \in Run(slot, seq) /\ Leads(slot, i, other, value)
      BY DEF Alike
    <3>2. HasOffset(slot, seq) /\ i \in Start(slot, seq) + 1 .. End(slot, seq)
      BY <3>1 DEF Run
    <3> HIDE DEF c, I
    <3>3. Half(i).class = c
      BY <1>2, <1>3, <1>5, <3>1
    <3>4. seq \in 0 .. Len(slot.offsets) - 2
      BY <1>2, <1>3, <1>6, <1>7, <3>2
    <3>5. Half(i) \in Halves(g, dir, e)
      BY <1>2, <1>3, <3>2, <3>4, HalvesFound
    <3> QED BY <3>3, <3>5
  <2> HIDE DEF H, I, Half
  <2> QED BY <2>1, <2>2
<1>9. IsFiniteSet(I)
  <2>1. PICK n \in Nat : EdgeSlotSound(slot, n, EdgeProperty[e].typ)
    BY <1>2, <1>3 DEF SoundSlots
  <2>2. Within(Run(slot, seq), Len(slot.neighbors)) /\ Len(slot.neighbors) \in Nat
    BY <2>1, RunPlaces
  <2>3. Within(I, Len(slot.neighbors))
    BY <2>2 DEF Within, Alike
  <2> QED BY <2>2, <2>3, PositionsFinite
<1>10. \A i, j \in I : Half(i) = Half(j) => i = j
  <2>1. \A i : Half(i).at = i
    BY DEF HalfAt
  <2> HIDE DEF Half, I
  <2> QED BY <2>1
<1>11. Cardinality(H) = Cardinality(I)
  <2> DEFINE f == [i \in I |-> Half(i)]
  <2> HIDE DEF H, I, Half
  <2>1. f \in [I -> H] /\ \A i \in I : f[i] = Half(i)
    BY <1>8
  <2>2. f \in Bijection(I, H)
    <3>1. \A i, j \in I : f[i] = f[j] => i = j
      BY <1>10, <2>1
    <3>2. \A h \in H : \E i \in I : f[i] = h
      BY <1>8, <2>1
    <3> HIDE DEF f
    <3> QED BY <2>1, <3>1, <3>2, Zenon DEF Bijection, Injection, IsInjective, Surjection
  <2>3. ExistsBijection(I, H)
    BY <2>2 DEF ExistsBijection
  <2> QED BY <1>9, <2>3, FS_Bijection
<1>12. CountOf(Halves(g, dir, e), c) = Cardinality(H)
  BY DEF CountOf
<1> QED BY <1>2, <1>3, <1>11, <1>12

\* The class of every half-edge names a node, its neighbor and a value.
LEMMA ClassNames ==
  ASSUME NEW g, NEW dir, NEW e, SoundSlots(g, dir, e), NEW class \in Classes(Halves(g, dir, e))
  PROVE  \E k \in NodeKinds : \E seq \in Nat :
           LET slot == g.edges[edge_storage_slot(k, dir, e)]
           IN  \E i \in Run(slot, seq) :
                 /\ class = ClassOf(dir, <<k, seq>>, slot.neighbors[i], ValueKey(slot.values, i - 1))
                 /\ <<k, seq>> \in RawNodeId
<1>1. PICK h \in Halves(g, dir, e) : h.class = class
  BY DEF Classes
<1>2. PICK k \in NodeKinds :
        LET s == g.edges[edge_storage_slot(k, dir, e)]
        IN  \E q \in 0 .. Len(s.offsets) - 2 :
              \E i \in Start(s, q) + 1 .. End(s, q) : h = HalfAt(g, dir, e, k, q, i)
  BY HalvesFound
<1>3. PICK s : s = g.edges[edge_storage_slot(k, dir, e)]
  OBVIOUS
<1>4. PICK q \in 0 .. Len(s.offsets) - 2 :
        \E i \in Start(s, q) + 1 .. End(s, q) : h = HalfAt(g, dir, e, k, q, i)
  BY <1>2, <1>3
<1>5. PICK i \in Start(s, q) + 1 .. End(s, q) : h = HalfAt(g, dir, e, k, q, i)
  BY <1>4
<1>6. PICK n \in Nat : EdgeSlotSound(s, n, EdgeProperty[e].typ)
  BY <1>3 DEF SoundSlots
<1>7. s.offsets \in Seq(0 .. MaxOffset)
  BY <1>6 DEF EdgeSlotSound, EdgeStorageSlot
<1>8. Len(s.offsets) \in Nat
  BY <1>7, LenProperties
<1>9. q \in Nat /\ i \in Run(s, q)
  BY <1>8 DEF Run, HasOffset
<1>10. class = ClassOf(dir, <<k, q>>, s.neighbors[i], ValueKey(s.values, i - 1))
  BY <1>1, <1>3, <1>5 DEF HalfAt
<1>11. <<k, q>> \in RawNodeId
  BY <1>9, SchemaAssumption DEF RawNodeId, NodeKinds
<1> QED BY <1>3, <1>9, <1>10, <1>11

\* Each class of half-edges that may be met has as many positions of P at its source as at
\* its destination.
NodeNames == {node \in RawNodeId : KindOf(node) \in NodeKinds}
AlikeIn(storage, P, dir, e, node, other, value) ==
  LET s == edge_storage_slot(KindOf(node), dir, e)
  IN  Alike(storage[s], SeqOf(node), other, value) \cap P[s]
Balanced(storage, P, e) ==
  \A src, dst \in NodeNames : \A value \in Key :
    Cardinality(AlikeIn(storage, P, Out, e, src, dst, value))
      = Cardinality(AlikeIn(storage, P, In, e, dst, src, value))
Everywhere == [s \in EdgeSlots |-> Nat]

\* Everywhere leaves out no position.
LEMMA AlikeEverywhere ==
  ASSUME NEW g, NEW dir \in Directions, NEW e \in EdgeKinds, SoundSlots(g, dir, e)
  PROVE  \A node \in NodeNames : \A other, value :
           AlikeIn(g.edges, Everywhere, dir, e, node, other, value)
             = Alike(g.edges[edge_storage_slot(KindOf(node), dir, e)], SeqOf(node), other, value)
<1> TAKE node \in NodeNames
<1> TAKE other, value
<1> DEFINE s == edge_storage_slot(KindOf(node), dir, e)
<1>1. node \in RawNodeId /\ KindOf(node) \in NodeKinds
  BY DEF NodeNames
<1>2. SeqOf(node) \in Nat
  BY <1>1 DEF RawNodeId, SeqOf
<1>3. s \in EdgeSlots
  BY <1>1, EdgeSlotOfKinds
<1>4. PICK n \in Nat : EdgeSlotSound(g.edges[s], n, EdgeProperty[e].typ)
  BY <1>1 DEF SoundSlots
<1>5. Within(Run(g.edges[s], SeqOf(node)), Len(g.edges[s].neighbors)) /\ Len(g.edges[s].neighbors) \in Nat
  BY <1>2, <1>4, RunPlaces
<1>6. Alike(g.edges[s], SeqOf(node), other, value) \subseteq Nat
  BY <1>5 DEF Within, Alike
<1>7. Everywhere[s] = Nat
  BY <1>3 DEF Everywhere
<1> HIDE DEF s
<1>8. Alike(g.edges[s], SeqOf(node), other, value) \cap Everywhere[s] = Alike(g.edges[s], SeqOf(node), other, value)
  BY <1>6, <1>7
<1> QED BY <1>8 DEF AlikeIn, s

\* check_half_edge_pairing passes exactly the graphs whose half-edges pair up.
LEMMA PairingCheck ==
  ASSUME NEW g, NEW e \in EdgeKinds, \A dir \in Directions : SoundSlots(g, dir, e),
         \A dir \in Directions, k \in NodeKinds :
           \A i \in 1 .. Len(g.edges[edge_storage_slot(k, dir, e)].neighbors) :
             KindOf(g.edges[edge_storage_slot(k, dir, e)].neighbors[i]) \in NodeKinds
  PROVE  check_half_edge_pairing(g, e) = Ok <=> Balanced(g.edges, Everywhere, e)
<1> DEFINE outs == Halves(g, Out, e)
           ins == Halves(g, In, e)
           unequal == {c \in Classes(outs) \cup Classes(ins) : CountOf(outs, c) # CountOf(ins, c)}
<1>1. check_half_edge_pairing(g, e) = Ok <=> unequal = {}
  BY DEF check_half_edge_pairing, Ok
<1>2. Out \in Directions /\ In \in Directions
  BY DEF Directions
<1>3. ASSUME NEW dir \in Directions
      PROVE  \A node \in NodeNames : \A other, value :
               AlikeIn(g.edges, Everywhere, dir, e, node, other, value)
                 = Alike(g.edges[edge_storage_slot(KindOf(node), dir, e)], SeqOf(node), other, value)
  BY AlikeEverywhere
<1>4. ASSUME NEW src \in NodeNames, NEW dst \in NodeNames, NEW value \in Key
      PROVE  LET c == ClassOf(Out, src, dst, ValueOf(e, value))
             IN  /\ CountOf(outs, c) = Cardinality(AlikeIn(g.edges, Everywhere, Out, e, src, dst, value))
                 /\ CountOf(ins, c) = Cardinality(AlikeIn(g.edges, Everywhere, In, e, dst, src, value))
  <2>1. /\ src \in RawNodeId /\ KindOf(src) \in NodeKinds
        /\ dst \in RawNodeId /\ KindOf(dst) \in NodeKinds
    BY DEF NodeNames
  <2>2. CountOf(outs, ClassOf(Out, src, dst, ValueOf(e, value))) =
          Cardinality(AlikeIn(g.edges, Everywhere, Out, e, src, dst, value))
    <3>1. SoundSlots(g, Out, e)
      BY <1>2
    <3>2. AlikeIn(g.edges, Everywhere, Out, e, src, dst, value)
            = Alike(g.edges[edge_storage_slot(KindOf(src), Out, e)], SeqOf(src), dst, value)
      BY <1>2, <1>3
    <3> QED BY <2>1, <3>1, <3>2, ClassCount
  <2>3. CountOf(ins, ClassOf(In, dst, src, ValueOf(e, value))) =
          Cardinality(AlikeIn(g.edges, Everywhere, In, e, dst, src, value))
    <3>1. SoundSlots(g, In, e)
      BY <1>2
    <3>2. AlikeIn(g.edges, Everywhere, In, e, dst, src, value)
            = Alike(g.edges[edge_storage_slot(KindOf(dst), In, e)], SeqOf(dst), src, value)
      BY <1>2, <1>3
    <3> QED BY <2>1, <3>1, <3>2, ClassCount
  <2> QED BY <2>2, <2>3, HalvesOfOneClass
<1>5. \A c : CountOf(outs, c) # CountOf(ins, c) => c \in Classes(outs) \cup Classes(ins)
  <2> TAKE c
  <2> DEFINE A == {h \in outs : h.class = c}
             B == {h \in ins : h.class = c}
  <2>1. c \notin Classes(outs) => A = {}
    BY DEF Classes
  <2>2. c \notin Classes(ins) => B = {}
    BY DEF Classes
  <2>3. CountOf(outs, c) = Cardinality(A) /\ CountOf(ins, c) = Cardinality(B)
    BY DEF CountOf
  <2> QED BY <2>1, <2>2, <2>3
<1>6. ASSUME NEW dir \in Directions, NEW c \in Classes(Halves(g, dir, e))
      PROVE  \E node, other \in NodeNames : \E value \in Key : c = ClassOf(dir, node, other, ValueOf(e, value))
  <2>1. SoundSlots(g, dir, e)
    OBVIOUS
  <2>2. PICK k \in NodeKinds, seq \in Nat :
          LET slot == g.edges[edge_storage_slot(k, dir, e)]
          IN  \E i \in Run(slot, seq) :
                /\ c = ClassOf(dir, <<k, seq>>, slot.neighbors[i], ValueKey(slot.values, i - 1))
                /\ <<k, seq>> \in RawNodeId
    BY <2>1, ClassNames
  <2>3. PICK slot : slot = g.edges[edge_storage_slot(k, dir, e)]
    OBVIOUS
  <2>4. PICK i \in Run(slot, seq) :
          /\ c = ClassOf(dir, <<k, seq>>, slot.neighbors[i], ValueKey(slot.values, i - 1))
          /\ <<k, seq>> \in RawNodeId
    BY <2>2, <2>3
  <2>5. /\ slot.neighbors[i] \in RawNodeId /\ ValueKey(slot.values, i - 1) \in Key
        /\ ValueOf(e, ValueKey(slot.values, i - 1)) = ValueKey(slot.values, i - 1)
    BY <2>1, <2>3, ClassTold
  <2>6. PICK n \in Nat : EdgeSlotSound(slot, n, EdgeProperty[e].typ)
    BY <2>1, <2>3 DEF SoundSlots
  <2>7. i \in 1 .. Len(slot.neighbors)
    BY <2>6, RunPlaces DEF Within
  <2>8. KindOf(slot.neighbors[i]) \in NodeKinds
    BY <2>3, <2>7
  <2>9. KindOf(<<k, seq>>) = k
    BY DEF KindOf
  <2>10. <<k, seq>> \in NodeNames /\ slot.neighbors[i] \in NodeNames
    BY <2>4, <2>5, <2>8, <2>9 DEF NodeNames
  <2> QED BY <2>4, <2>5, <2>10
<1>7. ASSUME NEW c \in Classes(outs) \cup Classes(ins)
      PROVE  \E src, dst \in NodeNames : \E value \in Key : c = ClassOf(Out, src, dst, ValueOf(e, value))
  <2>1. CASE c \in Classes(outs)
    BY <1>2, <1>6, <2>1
  <2>2. CASE c \in Classes(ins)
    <3>1. PICK dst \in NodeNames, src \in NodeNames, value \in Key : c = ClassOf(In, dst, src, ValueOf(e, value))
      BY <1>2, <1>6, <2>2
    <3> QED BY <3>1, HalvesOfOneClass
  <2> QED BY <1>7, <2>1, <2>2
<1> HIDE DEF outs, ins
<1>8. unequal = {} <=> Balanced(g.edges, Everywhere, e)
  <2>1. ASSUME unequal = {} PROVE Balanced(g.edges, Everywhere, e)
    <3>1. \A c : CountOf(outs, c) = CountOf(ins, c)
      BY <1>5, <2>1
    <3> QED BY <1>4, <3>1 DEF Balanced
  <2>2. ASSUME Balanced(g.edges, Everywhere, e) PROVE unequal = {}
    <3>1. ASSUME NEW c \in Classes(outs) \cup Classes(ins) PROVE CountOf(outs, c) = CountOf(ins, c)
      <4>1. PICK src \in NodeNames, dst \in NodeNames, value \in Key : c = ClassOf(Out, src, dst, ValueOf(e, value))
        BY <1>7
      <4> QED BY <1>4, <2>2, <4>1 DEF Balanced
    <3> QED BY <3>1
  <2> QED BY <2>1, <2>2
<1> QED BY <1>1, <1>8

(***************************************************************************)
(* What a class keeps when half-edges are taken out of a slot               *)
(***************************************************************************)
\* The positions that are no place f[x], and the x whose place is no later than t.
Remaining(n, P, f) == (1 .. n) \ {f[x] : x \in P}
PlacedBy(P, f, t) == {x \in P : f[x] <= t}

\* As many positions are left up to t as there are, but for those taken out.
LEMMA RankLeft ==
  ASSUME NEW n \in Nat, NEW P, NEW f, \A x \in P : f[x] \in 1 .. n,
         \A x, y \in P : f[x] = f[y] => x = y, NEW t \in 0 .. n
  PROVE  /\ Within(Remaining(n, P, f), n)
         /\ Rank(Remaining(n, P, f), t) = t - Cardinality(PlacedBy(P, f, t))
         /\ Cardinality(PlacedBy(P, f, t)) \in Nat
<1> DEFINE left == (1 .. n) \ {f[x] : x \in P}
           low == {x \in P : f[x] <= t}
           taken == {f[x] : x \in low}
           all == 1 .. t
           g == [x \in low |-> f[x]]
<1>1. {y \in left : y <= t} = all \ taken /\ taken \subseteq all
  OBVIOUS
<1>2. IsFiniteSet(all) /\ Cardinality(all) = t
  BY FS_Interval
<1>3. IsFiniteSet(low) /\ Cardinality(low) \in Nat
  <2>1. \A x \in low : f[x] \in 1 .. n
    OBVIOUS
  <2>2. \A x, y \in low : f[x] = f[y] => x = y
    OBVIOUS
  <2>3. 1 \in Int /\ n \in Int
    OBVIOUS
  <2> HIDE DEF low
  <2> QED BY <2>1, <2>2, <2>3, PlacesFit
<1>4. g \in [low -> taken] /\ (\A x, y \in low : g[x] = g[y] => x = y) /\ \A y \in taken : \E x \in low : g[x] = y
  OBVIOUS
<1>5. Cardinality(taken) = Cardinality(low)
  <2> HIDE DEF g, low, taken
  <2>1. g \in Bijection(low, taken)
    BY <1>4, Zenon DEF Bijection, Injection, IsInjective, Surjection
  <2>2. ExistsBijection(low, taken)
    BY <2>1 DEF ExistsBijection
  <2> QED BY <1>3, <2>2, FS_Bijection
<1>6. Cardinality(all \ taken) = t - Cardinality(low)
  <2>1. all \cap taken = taken
    BY <1>1
  <2> HIDE DEF all, taken, low
  <2>2. Cardinality(all \ taken) = Cardinality(all) - Cardinality(all \cap taken)
    BY <1>2, FS_Difference
  <2>3. Cardinality(all \cap taken) = Cardinality(low)
    BY <1>5, <2>1, Zenon
  <2> QED BY <1>2, <2>2, <2>3
<1>7. Rank(left, t) = Cardinality(all \ taken)
  <2> HIDE DEF all, taken
  <2> QED BY <1>1 DEF Rank
<1>8. Within(left, n)
  BY DEF Within
<1> QED BY <1>3, <1>6, <1>7, <1>8 DEF Remaining, PlacedBy

\* small is what is left of big when only the positions in left are kept.
LeftOf(small, big, left, n) ==
  /\ Within(left, Len(big.neighbors)) /\ Len(big.neighbors) \in Nat
  /\ small.values.typ = big.values.typ
  /\ \A x \in left :
       /\ small.neighbors[Rank(left, x)] = big.neighbors[x]
       /\ big.values.typ # "None" => small.values.items[Rank(left, x)] = big.values.items[x]
  /\ Len(small.offsets) = n + 1 /\ Len(big.offsets) = n + 1
  /\ \A i \in 1 .. n + 1 :
       /\ big.offsets[i] \in Nat /\ big.offsets[i] <= Len(big.neighbors)
       /\ small.offsets[i] = Rank(left, big.offsets[i])
       /\ small.offsets[i] <= Cardinality(left)

\* Runs keep their order and what is left of them.
LEMMA LeftRuns ==
  ASSUME NEW n \in Nat, NEW small, NEW big, NEW left, LeftOf(small, big, left, n), NEW seq \in Nat
  PROVE  /\ HasOffset(small, seq) <=> HasOffset(big, seq)
         /\ HasOffset(big, seq) =>
              /\ Start(big, seq) \in Nat /\ End(big, seq) \in Nat
              /\ Start(small, seq) = Rank(left, Start(big, seq)) /\ End(small, seq) = Rank(left, End(big, seq))
         /\ \A x \in left : x \in Run(big, seq) <=> Rank(left, x) \in Run(small, seq)
         /\ \A x, y \in left : Rank(left, x) = Rank(left, y) => x = y
         /\ \A k \in Run(small, seq) : \E x \in left : Rank(left, x) = k
<1> DEFINE R(x) == Rank(left, x)
           m == Len(big.neighbors)
<1>1. m \in Nat /\ Within(left, m) /\ Cardinality(left) \in Nat
  BY PositionsFinite DEF LeftOf
<1>2. HasOffset(small, seq) <=> HasOffset(big, seq)
  BY DEF LeftOf, HasOffset
<1>3. ASSUME HasOffset(big, seq)
      PROVE  /\ Start(big, seq) \in Nat /\ End(big, seq) \in Nat
             /\ Start(small, seq) = R(Start(big, seq)) /\ End(small, seq) = R(End(big, seq))
             /\ End(small, seq) <= Cardinality(left)
  <2>1. seq + 1 \in 1 .. n + 1 /\ seq + 2 \in 1 .. n + 1
    BY <1>3 DEF LeftOf, HasOffset
  <2> QED BY <2>1 DEF LeftOf, Start, End
<1>4. \A i \in Nat, j \in Nat : i <= j => R(i) <= R(j) /\ (i < j /\ j \in left => R(i) < R(j))
  BY <1>1, RankOrders
<1>5. \A i \in Nat : R(i) \in Nat
  <2> TAKE i \in Nat
  <2>1. R(i) \in 0 .. Cardinality(left)
    BY <1>1, RankGrows
  <2> QED BY <1>1, <2>1
<1>6. \A x \in left : x \in Nat
  BY <1>1 DEF Within
<1>7. ASSUME NEW x \in left
      PROVE  x \in Run(big, seq) <=> R(x) \in Run(small, seq)
  <2>1. CASE ~ HasOffset(big, seq)
    BY <1>2, <2>1 DEF Run
  <2>2. CASE HasOffset(big, seq)
    <3> DEFINE a == Start(big, seq)
               b == End(big, seq)
    <3>1. a \in Nat /\ b \in Nat /\ x \in Nat /\ R(a) \in Nat /\ R(b) \in Nat /\ R(x) \in Nat
      BY <1>3, <1>5, <1>6, <2>2
    <3>2. x \in Run(big, seq) <=> a < x /\ x <= b
      BY <2>2, <3>1 DEF Run
    <3>3. R(x) \in Run(small, seq) <=> R(a) < R(x) /\ R(x) <= R(b)
      <4>1. Start(small, seq) = R(a) /\ End(small, seq) = R(b) /\ HasOffset(small, seq)
        BY <1>2, <1>3, <2>2
      <4> HIDE DEF a, b, R
      <4> QED BY <3>1, <4>1 DEF Run
    <3>4. a < x => R(a) < R(x)
      BY <1>4, <3>1
    <3>5. x <= a => R(x) <= R(a)
      BY <1>4, <3>1
    <3>6. x <= b => R(x) <= R(b)
      BY <1>4, <3>1
    <3>7. b < x => R(b) < R(x)
      BY <1>4, <3>1
    <3> HIDE DEF a, b, R
    <3> QED BY <3>1, <3>2, <3>3, <3>4, <3>5, <3>6, <3>7
  <2> QED BY <2>1, <2>2
<1>8. \A x, y \in left : R(x) = R(y) => x = y
  <2>1. \A x \in left : Nth(left, R(x)) = x
    BY <1>1, NthOfRank
  <2> HIDE DEF R
  <2> QED BY <2>1, Zenon
<1>9. ASSUME NEW k \in Run(small, seq) PROVE \E x \in left : R(x) = k
  <2>2. HasOffset(small, seq) /\ k \in Start(small, seq) + 1 .. End(small, seq)
    BY DEF Run
  <2>3. k \in 1 .. Cardinality(left)
    <3>1. Start(small, seq) \in Nat /\ End(small, seq) \in Nat /\ End(small, seq) <= Cardinality(left)
      BY <1>2, <1>3, <1>5, <2>2
    <3> QED BY <1>1, <2>2, <3>1
  <2>4. Nth(left, k) \in left /\ R(Nth(left, k)) = k
    BY <1>1, <2>3, NthFound
  <2> QED BY <2>4
<1> QED BY <1>2, <1>3, <1>7, <1>8, <1>9

\* Each node keeps the half-edges that are left of its own.
LEMMA AlikeLeft ==
  ASSUME NEW n \in Nat, NEW small, NEW big, NEW left, LeftOf(small, big, left, n),
         NEW seq \in Nat, NEW other, NEW value
  PROVE  Cardinality(Alike(small, seq, other, value)) = Cardinality(Alike(big, seq, other, value) \cap left)
<1> DEFINE A == Alike(big, seq, other, value) \cap left
           B == Alike(small, seq, other, value)
           R(x) == Rank(left, x)
           m == Len(big.neighbors)
<1>1. m \in Nat /\ Within(left, m)
  BY DEF LeftOf
<1>2. \A x \in left : x \in Run(big, seq) <=> R(x) \in Run(small, seq)
  BY LeftRuns
<1>3. \A x, y \in left : R(x) = R(y) => x = y
  BY LeftRuns
<1>4. \A k \in Run(small, seq) : \E x \in left : R(x) = k
  BY LeftRuns
<1>8. \A x \in left : Leads(big, x, other, value) <=> Leads(small, R(x), other, value)
  BY DEF LeftOf, Leads
<1>9. \A x \in left : x \in A <=> R(x) \in B
  BY <1>2, <1>8 DEF Alike
<1>11. ASSUME NEW k \in B PROVE \E x \in A : R(x) = k
  <2>1. k \in Run(small, seq)
    BY DEF Alike
  <2>2. PICK x \in left : R(x) = k
    BY <1>4, <2>1
  <2> HIDE DEF A, B, R
  <2> QED BY <1>9, <2>2
<1>12. IsFiniteSet(A)
  <2>1. Within(A, m)
    BY <1>1 DEF Within
  <2> QED BY <1>1, <2>1, PositionsFinite
<1> DEFINE f == [x \in A |-> R(x)]
<1>13. f \in [A -> B] /\ (\A x, y \in A : f[x] = f[y] => x = y) /\ \A k \in B : \E x \in A : f[x] = k
  <2>1. A \subseteq left
    OBVIOUS
  <2> HIDE DEF A, B, R
  <2> QED BY <1>3, <1>9, <1>11, <2>1
<1>14. Cardinality(A) = Cardinality(B)
  <2> HIDE DEF f, A, B
  <2>1. f \in Bijection(A, B)
    BY <1>13, Zenon DEF Bijection, Injection, IsInjective, Surjection
  <2>2. ExistsBijection(A, B)
    BY <2>1 DEF ExistsBijection
  <2> QED BY <1>12, <2>2, FS_Bijection
<1> QED BY <1>14

\* The places in a slot's arrays of the half-edges that are taken out.
RemovedPlaces(slot, removals) == {RemovedAt(slot, r) : r \in removals}

\* The places of the others.
Untaken(slot, removals) == (1 .. Len(slot.neighbors)) \ RemovedPlaces(slot, removals)

\* What a slot keeps is in order, run by run.
LEMMA WithoutLeft ==
  ASSUME NEW n \in Nat, NEW typ, NEW slot, EdgeSlotSound(slot, n, typ), slot.offsets # <<>>,
         NEW removals, RemovalsFit(slot, removals)
  PROVE  LeftOf(WithoutEdges(slot, removals), slot, Untaken(slot, removals), n)
<1> DEFINE without == WithoutEdges(slot, removals)
           removed == RemovedPlaces(slot, removals)
           old == slot.neighbors
           items == slot.values.items
           L == Len(old)
           left == (1 .. L) \ removed
           O(i) == slot.offsets[i]
           f == [r \in removals |-> RemovedAt(slot, r)]
<1>1. /\ slot.offsets \in Seq(0 .. MaxOffset) /\ Shaped(slot.offsets, n)
      /\ old \in Seq(RawNodeId) /\ L \in Nat /\ DOMAIN old = 1 .. L
      /\ items \in Seq(Key) /\ DOMAIN items = 1 .. Len(items)
      /\ typ # "None" => Len(items) = L
      /\ LastOffset(slot.offsets) = L /\ slot.values.typ = typ
  <2>1. slot.neighbors \in Seq(RawNodeId) /\ slot.values \in StorageArray
    BY DEF EdgeSlotSound, EdgeStorageSlot
  <2>2. slot.values.items \in Seq(Key)
    BY <2>1 DEF StorageArray
  <2> QED BY <2>1, <2>2, LenProperties DEF EdgeSlotSound, EdgeStorageSlot
<1>2. Len(slot.offsets) = n + 1 /\ DOMAIN slot.offsets = 1 .. n + 1
  <2>1. Len(slot.offsets) = n + 1
    BY <1>1 DEF Shaped
  <2> QED BY <1>1, <2>1, LenProperties
<1>3. \A i \in 1 .. n + 1 : O(i) \in Nat /\ O(i) <= L
  <2> TAKE i \in 1 .. n + 1
  <2>1. i <= i
    OBVIOUS
  <2> QED BY <1>1, <2>1, OffsetsOrdered, StorageAssumption
<1>4. /\ \A r \in removals : /\ r[1] \in Nat /\ r[1] < n /\ f[r] \in Nat
                             /\ O(r[1] + 1) < f[r] /\ f[r] <= O(r[1] + 2)
      /\ \A r, q \in removals : f[r] = f[q] => r = q
  BY <1>1, RemovalsPlaced
<1>5. \A r \in removals : f[r] \in 1 .. L
  <2> TAKE r \in removals
  <2>1. /\ r[1] \in Nat /\ r[1] < n /\ f[r] \in Nat
        /\ O(r[1] + 1) < f[r] /\ f[r] <= O(r[1] + 2)
    BY <1>4
  <2>2. r[1] + 1 \in 1 .. n + 1 /\ r[1] + 2 \in 1 .. n + 1
    BY <2>1
  <2>3. O(r[1] + 1) \in Nat /\ O(r[1] + 2) \in Nat /\ O(r[1] + 2) <= L
    BY <1>3, <2>2
  <2> HIDE DEF O, L, f
  <2> QED BY <1>1, <2>1, <2>3
<1>6. left = Remaining(L, removals, f)
  <2>1. removed = {f[r] : r \in removals}
    BY DEF RemovedPlaces
  <2> QED BY <2>1 DEF Remaining
<1>7. ASSUME NEW t \in 0 .. L
      PROVE  Within(left, L) /\ Rank(left, t) = t - Cardinality({r \in removals : f[r] <= t})
  <2>1. \A r, q \in removals : f[r] = f[q] => r = q
    BY <1>4
  <2> HIDE DEF f, L, left
  <2>2. /\ Within(Remaining(L, removals, f), L)
        /\ Rank(Remaining(L, removals, f), t) = t - Cardinality(PlacedBy(removals, f, t))
    BY <1>1, <1>5, <2>1, RankLeft
  <2> QED BY <1>6, <2>2 DEF PlacedBy
<1>8. without = [offsets |-> [i \in DOMAIN slot.offsets |-> O(i) - Cardinality({r \in removals : r[1] < i - 1})],
                 neighbors |-> Keep(old, DOMAIN old \ removed),
                 values |-> [slot.values EXCEPT !.items = Keep(items, DOMAIN items \ removed)]]
  BY DEF WithoutEdges, RemovedPlaces, RemovedAt
<1>9. ASSUME NEW i \in 1 .. n + 1
      PROVE  without.offsets[i] = Rank(left, O(i)) /\ without.offsets[i] <= Cardinality(left)
  <2>1. ASSUME NEW r \in removals PROVE f[r] <= O(i) <=> r[1] < i - 1
    <3>1. /\ r[1] \in Nat /\ r[1] < n /\ f[r] \in Nat
          /\ O(r[1] + 1) < f[r] /\ f[r] <= O(r[1] + 2)
      BY <1>4
    <3>2. r[1] + 1 \in 1 .. n + 1 /\ r[1] + 2 \in 1 .. n + 1
      BY <3>1
    <3>3. O(r[1] + 1) \in Nat /\ O(r[1] + 2) \in Nat /\ O(i) \in Nat
      BY <1>3, <3>2
    <3>4. r[1] < i - 1 => O(r[1] + 2) <= O(i)
      <4>1. r[1] < i - 1 => r[1] + 2 <= i
        BY <3>1
      <4> QED BY <1>1, <3>2, <4>1, OffsetsOrdered
    <3>5. ~ (r[1] < i - 1) => O(i) <= O(r[1] + 1)
      <4>1. ~ (r[1] < i - 1) => i <= r[1] + 1
        BY <3>1
      <4> QED BY <1>1, <3>2, <4>1, OffsetsOrdered
    <3> HIDE DEF O, f
    <3> QED BY <3>1, <3>3, <3>4, <3>5
  <2>2. {r \in removals : f[r] <= O(i)} = {r \in removals : r[1] < i - 1}
    BY <2>1
  <2>3. without.offsets[i] = O(i) - Cardinality({r \in removals : r[1] < i - 1})
    BY <1>2, <1>8
  <2>4. O(i) \in 0 .. L
    BY <1>1, <1>3
  <2>5. without.offsets[i] = Rank(left, O(i))
    <3> HIDE DEF O, L, f, left, without
    <3> QED BY <1>7, <2>2, <2>3, <2>4
  <2>6. Rank(left, O(i)) \in 0 .. Cardinality(left) /\ Cardinality(left) \in 0 .. L
    <3>1. O(i) \in Nat
      BY <1>3
    <3> HIDE DEF O, L, left
    <3> QED BY <1>1, <1>7, <2>4, <3>1, RankGrows
  <2> HIDE DEF without, left, O, L
  <2> QED BY <2>5, <2>6
<1>10. Within(left, L)
  BY DEF Within
<1>11. ASSUME NEW x \in left
       PROVE  /\ without.neighbors[Rank(left, x)] = old[x]
              /\ typ # "None" => without.values.items[Rank(left, x)] = items[x]
  <2>1. DOMAIN old \ removed = left /\ (typ # "None" => DOMAIN items \ removed = left)
    BY <1>1
  <2>2. without.neighbors = Keep(old, DOMAIN old \ removed)
        /\ without.values.items = Keep(items, DOMAIN items \ removed)
    <3>1. slot.values = [typ |-> slot.values.typ, items |-> items]
      BY DEF EdgeSlotSound, EdgeStorageSlot, StorageArray
    <3> QED BY <1>8, <3>1
  <2> HIDE DEF left, removed, old, items, without
  <2>3. Keep(old, left)[Rank(left, x)] = old[x]
    <3>1. Within(left, Len(old)) /\ old \in Seq(RawNodeId)
      BY <1>1, <1>10 DEF L
    <3> HIDE DEF L
    <3> QED BY <3>1, KeepItems, SMTT(30)
  <2>4. typ # "None" => Keep(items, left)[Rank(left, x)] = items[x]
    <3>1. typ # "None" => Within(left, Len(items))
      BY <1>1, <1>10 DEF L
    <3> QED BY <1>1, <3>1, KeepItems
  <2> QED BY <2>1, <2>2, <2>3, <2>4
<1>12. LeftOf(without, slot, left, n)
  <2>1. without.values.typ = slot.values.typ /\ Len(without.offsets) = n + 1
    <3>1. EdgeSlotSound(without, n, typ)
      BY WithoutEdgesSound
    <3>2. without.offsets = [i \in 1 .. n + 1 |-> O(i) - Cardinality({r \in removals : r[1] < i - 1})]
      BY <1>2, <1>8
    <3>3. without.offsets \in Seq(0 .. MaxOffset) /\ DOMAIN without.offsets = 1 .. n + 1
      <4> HIDE DEF without
      <4> QED BY <3>1, <3>2 DEF EdgeSlotSound, EdgeStorageSlot
    <3>4. Len(without.offsets) = n + 1
      <4>1. Len(without.offsets) \in Nat /\ DOMAIN without.offsets = 1 .. Len(without.offsets)
        BY <3>3, LenProperties
      <4> HIDE DEF without
      <4> QED BY <3>3, <4>1
    <3> QED BY <1>1, <3>1, <3>4 DEF EdgeSlotSound
  <2> HIDE DEF without, left
  <2> QED BY <1>1, <1>2, <1>3, <1>9, <1>10, <1>11, <2>1 DEF LeftOf
<1> QED BY <1>12 DEF Untaken

\* Half-edges taken out leave each node the others of its own.
LEMMA AlikeWithout ==
  ASSUME NEW n \in Nat, NEW typ, NEW slot, EdgeSlotSound(slot, n, typ), slot.offsets # <<>>,
         NEW removals, RemovalsFit(slot, removals), NEW seq \in Nat, NEW other, NEW value
  PROVE  Cardinality(Alike(WithoutEdges(slot, removals), seq, other, value))
           = Cardinality(Alike(slot, seq, other, value) \ RemovedPlaces(slot, removals))
<1> DEFINE without == WithoutEdges(slot, removals)
           removed == RemovedPlaces(slot, removals)
           L == Len(slot.neighbors)
           left == Untaken(slot, removals)
<1>12. LeftOf(without, slot, left, n)
  BY WithoutLeft
<1>13. Alike(slot, seq, other, value) \cap left = Alike(slot, seq, other, value) \ removed
  <2>1. Alike(slot, seq, other, value) \subseteq 1 .. L
    <3>1. Within(Run(slot, seq), L)
      BY RunPlaces
    <3> QED BY <3>1 DEF Within, Alike
  <2>2. left = (1 .. L) \ removed
    BY DEF Untaken
  <2> HIDE DEF removed, L, left
  <2> QED BY <2>1, <2>2
<1> HIDE DEF left, without, removed
<1>14. Cardinality(Alike(without, seq, other, value)) = Cardinality(Alike(slot, seq, other, value) \cap left)
  BY <1>12, AlikeLeft
<1> QED BY <1>13, <1>14 DEF without, removed

(***************************************************************************)
(* What a class gains when half-edges are merged into a slot                *)
(***************************************************************************)
\* A half is placed before the run of a later node, and behind where its own ends.
LEMMA PlacesBetween ==
  ASSUME NEW n \in Nat, NEW offsets \in Seq(0 .. MaxOffset), Shaped(offsets, n), offsets # <<>>,
         NEW halves, HalvesFit(halves, n), NEW j \in 1 .. Len(halves), NEW i \in 1 .. n + 1
  PROVE  /\ PlaceOf(offsets, halves, j) \in Nat
         /\ InsertedOffset(offsets, halves, i) \in Nat
         /\ PlaceOf(offsets, halves, j) <= InsertedOffset(offsets, halves, i) <=> halves[j].seq < i - 1
<1> DEFINE h == Len(halves)
           own == halves[j].seq
           O(k) == offsets[k]
           B == HalvesBefore(halves, i - 1)
           C == NoLater(halves, j)
<1>1. h \in Nat /\ DOMAIN halves = 1 .. h /\ own \in Nat /\ own < n
      /\ \A k \in 1 .. h : halves[k].seq \in Nat
  BY HalvesAre
<1>2. \A k, l \in 1 .. n + 1 : O(k) \in Nat /\ (k <= l => O(k) <= O(l))
  <2> TAKE k, l \in 1 .. n + 1
  <2>1. k <= k
    OBVIOUS
  <2>2. O(k) \in 0 .. MaxOffset
    BY <2>1, OffsetsOrdered
  <2>3. k <= l => O(k) <= O(l)
    BY OffsetsOrdered
  <2> QED BY <2>2, <2>3
<1>3. Within(B, h) /\ Within(C, h)
  BY <1>1 DEF HalvesBefore, NoLater, Within
<1>4. IsFiniteSet(B) /\ Cardinality(B) \in Nat /\ IsFiniteSet(C) /\ Cardinality(C) \in Nat
  BY <1>1, <1>3, PositionsFinite
<1>5. own + 2 \in 1 .. n + 1
  BY <1>1
<1>6. PlaceOf(offsets, halves, j) = O(own + 2) + Cardinality(C)
  BY DEF PlaceOf, SortedRank, NoLater
<1>7. InsertedOffset(offsets, halves, i) = O(i) + Cardinality(B)
  BY DEF InsertedOffset, HalvesBefore
<1>8. O(i) \in Nat /\ O(own + 2) \in Nat
  BY <1>2, <1>5
<1>9. CASE own < i - 1
  <2>1. O(own + 2) <= O(i)
    BY <1>1, <1>2, <1>5, <1>9
  <2>2. C \in SUBSET B
    BY <1>1, <1>9 DEF HalvesBefore, NoLater
  <2> HIDE DEF B, C, O
  <2>3. Cardinality(C) <= Cardinality(B)
    BY <1>4, <2>2, FS_Subset
  <2> QED BY <1>4, <1>6, <1>7, <1>9, <1>8, <2>1, <2>3
<1>10. CASE ~ (own < i - 1)
  <2>1. O(i) <= O(own + 2)
    BY <1>1, <1>2, <1>5, <1>10
  <2>2. B \in SUBSET C /\ j \in C /\ j \notin B
    BY <1>1, <1>10 DEF HalvesBefore, NoLater
  <2>3. B # C
    BY <2>2
  <2> HIDE DEF B, C, O
  <2>4. Cardinality(B) <= Cardinality(C) /\ Cardinality(B) # Cardinality(C)
    BY <1>4, <2>2, <2>3, FS_Subset
  <2> QED BY <1>4, <1>6, <1>7, <1>10, <1>8, <2>1, <2>4
<1> QED BY <1>9, <1>10

Interleaves(all, old, at, new) ==
  /\ \A j \in 1 .. Len(new) : all[at[j]] = new[j]
  /\ \A p \in Remaining(Len(old) + Len(new), 1 .. Len(new), at) :
       all[p] = old[Rank(Remaining(Len(old) + Len(new), 1 .. Len(new), at), p)]

\* A merge puts each new item in its place and the old ones, in order, where that leaves room.
LEMMA MergeKeeps ==
  ASSUME NEW S, NEW old \in Seq(S), NEW new \in Seq(S), NEW at,
         Placed(at, Len(new), Len(old) + Len(new))
  PROVE  Interleaves(Merge(old, at, new), old, at, new)
<1> DEFINE n == Len(old)
           h == Len(new)
           M == Merge(old, at, new)
           all == 1 .. n + h
           P == 1 .. h
           free == Remaining(n + h, P, at)
<1>1. n \in Nat /\ h \in Nat /\ n + h \in Nat /\ DOMAIN new = 1 .. h
  BY LenProperties
<1>2. (\A j \in P : at[j] \in all) /\ \A i, j \in P : at[i] = at[j] => i = j
  BY DEF Placed
<1>3. M = [p \in all |->
             IF \E j \in P : at[j] = p THEN new[CHOOSE j \in P : at[j] = p]
             ELSE old[p - Cardinality(Before(at, h, p))]]
  BY <1>1 DEF Merge, Before
<1>4. ASSUME NEW j \in P PROVE M[at[j]] = new[j]
  <2>1. at[j] \in all
    BY <1>2
  <2>2. (CHOOSE i \in P : at[i] = at[j]) = j
    BY <1>2
  <2> HIDE DEF all, P, M
  <2> QED BY <1>3, <2>1, <2>2
<1>5. ASSUME NEW p \in free PROVE M[p] = old[Rank(free, p)]
  <2>1. p \in all /\ ~ \E j \in P : at[j] = p
    BY DEF Remaining
  <2>2. p \in 0 .. n + h
    BY <2>1
  <2>3. Rank(free, p) = p - Cardinality(PlacedBy(P, at, p))
    <3> HIDE DEF P, n, h
    <3> QED BY <1>1, <1>2, <2>2, RankLeft
  <2>4. PlacedBy(P, at, p) = Before(at, h, p)
    BY <1>1, <1>2, <2>1 DEF PlacedBy, Before
  <2>5. M[p] = old[p - Cardinality(Before(at, h, p))]
    <3> HIDE DEF all, P, M
    <3> QED BY <1>3, <2>1
  <2> HIDE DEF free, M
  <2> QED BY <2>3, <2>4, <2>5, Zenon
<1> QED BY <1>4, <1>5 DEF Interleaves

\* The new halves of a node that lead to other with value.
NewAlike(typ, halves, seq, other, value) ==
  {j \in DOMAIN halves :
     /\ halves[j].seq = seq /\ halves[j].neighbor = other
     /\ typ # "None" => Answer(halves[j].property).key = value}
WithOffsets(slot, offsets) == [slot EXCEPT !.offsets = offsets]

\* What the arrays of a merged slot hold.
MergedHolds(merged, slot, offsets, halves, n, typ) ==
  LET h == Len(halves)
      at == [j \in 1 .. h |-> PlaceOf(offsets, halves, j)]
      free == Remaining(Len(slot.neighbors) + h, 1 .. h, at)
  IN  /\ Placed(at, h, Len(slot.neighbors) + h)
      /\ LeftOf(WithOffsets(slot, offsets), merged, free, n)
      /\ Len(merged.neighbors) = Len(slot.neighbors) + h
      /\ merged.values.typ = typ
      /\ \A j \in 1 .. h :
           /\ merged.neighbors[at[j]] = halves[j].neighbor
           /\ typ # "None" => merged.values.items[at[j]] = Answer(halves[j].property).key
      /\ Len(merged.offsets) = n + 1
      /\ \A i \in 1 .. n + 1 : merged.offsets[i] = InsertedOffset(offsets, halves, i)

\* A merged slot holds what it held, and each new half in its place.
LEMMA MergedFound ==
  ASSUME NEW n \in Nat, NEW typ, NEW slot, Paired(slot, typ),
         NEW offsets \in Seq(0 .. MaxOffset), Shaped(offsets, n), offsets # <<>>,
         EndsWith(offsets, slot.neighbors),
         NEW halves, HalvesFit(halves, n), InsertError(typ, offsets, halves) = Ok
  PROVE  MergedHolds(merge_edge_batches(slot, EdgeSlotInsert(typ, offsets, halves)),
                     slot, offsets, halves, n, typ)
<1> DEFINE insert == EdgeSlotInsert(typ, offsets, halves)
           merged == merge_edge_batches(slot, insert)
           h == Len(halves)
           at == [j \in 1 .. h |-> PlaceOf(offsets, halves, j)]
           new == [j \in 1 .. h |-> halves[j].neighbor]
           keys == [j \in 1 .. h |-> Answer(halves[j].property).key]
           old == slot.neighbors
           items == slot.values.items
           total == Len(old) + h
           free == Remaining(total, 1 .. h, at)
           grown == WithOffsets(slot, offsets)
<1>1. /\ h \in Nat /\ DOMAIN halves = 1 .. h
      /\ \A j \in 1 .. h : halves[j].neighbor \in RawNodeId
  BY HalvesAre
<1>2. /\ old \in Seq(RawNodeId) /\ Len(old) \in Nat
      /\ items \in Seq(Key) /\ slot.values.typ = typ
      /\ typ # "None" => Len(items) = Len(old)
      /\ slot = [offsets |-> slot.offsets, neighbors |-> old, values |-> slot.values]
      /\ slot.values = [typ |-> typ, items |-> items]
  <2>1. slot.neighbors \in Seq(RawNodeId) /\ slot.values \in StorageArray
        /\ slot = [offsets |-> slot.offsets, neighbors |-> old, values |-> slot.values]
    BY DEF Paired, EdgeStorageSlot
  <2> QED BY <2>1, LenProperties DEF Paired, StorageArray
<1>3. HalfTypeError(typ, halves) = Ok
  BY DEF InsertError, Ok
<1>4. /\ insert.neighbors = new /\ insert.items = IF typ = "None" THEN <<>> ELSE keys
      /\ insert.at = at /\ insert.offsets = [i \in DOMAIN offsets |-> InsertedOffset(offsets, halves, i)]
  BY <1>1 DEF EdgeSlotInsert, PlaceOf
<1>5. merged = [offsets |-> insert.offsets, neighbors |-> Merge(old, insert.at, insert.neighbors),
                values |-> IF typ = "None" THEN slot.values
                           ELSE [slot.values EXCEPT !.items = Merge(items, insert.at, insert.items)]]
  BY <1>2 DEF merge_edge_batches
<1> HIDE DEF insert, merged
<1>6. /\ merged.offsets = [i \in DOMAIN offsets |-> InsertedOffset(offsets, halves, i)]
      /\ merged.neighbors = Merge(old, at, new)
      /\ merged.values.typ = typ
      /\ typ # "None" => merged.values.items = Merge(items, at, keys)
  <2> HIDE DEF at, new, keys, old, items
  <2> QED BY <1>2, <1>4, <1>5
<1>7. Placed(at, h, total)
  <2>1. DOMAIN at = 1 .. h /\ \A j \in 1 .. h : at[j] = PlaceOf(offsets, halves, j)
    OBVIOUS
  <2> HIDE DEF at
  <2>2. Placed(at, h, LastOffset(offsets) + h)
    BY <2>1, HalvesPlaced
  <2> QED BY <2>2 DEF EndsWith
<1>8. new \in Seq(RawNodeId) /\ Len(new) = h
  <2>1. new \in ListOf(RawNodeId, h)
    BY <1>1 DEF ListOf
  <2> QED BY <1>1, <2>1, ListIsSeq
<1>9. typ # "None" => keys \in Seq(Key) /\ Len(keys) = h
  <2>1. typ # "None" => keys \in ListOf(Key, h)
    BY <1>3, HalvesCarry DEF ListOf
  <2> QED BY <1>1, <2>1, ListIsSeq
<1>10. (\A j \in 1 .. h : new[j] = halves[j].neighbor) /\ (\A j \in 1 .. h : keys[j] = Answer(halves[j].property).key)
  OBVIOUS
<1> HIDE DEF at, new, keys
<1>11. /\ \A j \in 1 .. h : merged.neighbors[at[j]] = halves[j].neighbor
       /\ \A p \in free : merged.neighbors[p] = old[Rank(free, p)]
  <2>1. Placed(at, Len(new), Len(old) + Len(new))
    BY <1>7, <1>8
  <2> HIDE DEF old, h
  <2>2. Interleaves(Merge(old, at, new), old, at, new)
    BY <1>2, <1>8, <2>1, MergeKeeps
  <2> QED BY <1>6, <1>8, <1>10, <2>2 DEF Interleaves, old, h
<1>12. ASSUME typ # "None"
       PROVE  /\ \A j \in 1 .. h : merged.values.items[at[j]] = Answer(halves[j].property).key
              /\ \A p \in free : merged.values.items[p] = items[Rank(free, p)]
  <2>1. Placed(at, Len(keys), Len(items) + Len(keys)) /\ Len(items) = Len(old) /\ Len(keys) = h
    BY <1>2, <1>7, <1>9, <1>12
  <2> HIDE DEF old, h, items
  <2>2. Interleaves(Merge(items, at, keys), items, at, keys)
    BY <1>2, <1>9, <1>12, <2>1, MergeKeeps
  <2> QED BY <1>6, <1>10, <1>12, <2>1, <2>2 DEF Interleaves, old, h, items
<1>13. MergedWell(slot, insert, halves, n, typ)
  BY InsertedSound DEF insert
<1>14. EdgeSlotSound(merged, n, typ)
  BY <1>13 DEF MergedWell, merged
<1>15. Len(merged.neighbors) = total
  <2>1. Mixes(Merge(old, at, new), old, new, RawNodeId)
    <3>1. Placed(at, Len(new), Len(old) + Len(new))
      BY <1>7, <1>8
    <3> HIDE DEF old
    <3> QED BY <1>2, <1>8, <3>1, MergeItems
  <2> QED BY <1>6, <1>8, <2>1 DEF Mixes
<1>16. Len(offsets) = n + 1 /\ DOMAIN offsets = 1 .. n + 1 /\ Len(merged.offsets) = n + 1
  <2>1. Len(offsets) = n + 1 /\ DOMAIN offsets = 1 .. n + 1
    <3>1. Len(offsets) = n + 1
      BY DEF Shaped
    <3> QED BY <3>1, LenProperties
  <2>2. merged.offsets \in Seq(0 .. MaxOffset) /\ DOMAIN merged.offsets = 1 .. n + 1
    BY <1>6, <1>14, <2>1 DEF EdgeSlotSound, EdgeStorageSlot
  <2>3. Len(merged.offsets) \in Nat /\ DOMAIN merged.offsets = 1 .. Len(merged.offsets)
    BY <2>2, LenProperties
  <2> QED BY <2>1, <2>2, <2>3
<1>17. \A i \in 1 .. n + 1 : merged.offsets[i] = InsertedOffset(offsets, halves, i)
  BY <1>6, <1>16
<1>18. grown = [offsets |-> offsets, neighbors |-> old, values |-> slot.values]
  BY <1>2 DEF WithOffsets
<1>19. /\ \A j \in 1 .. h : at[j] \in 1 .. total /\ at[j] = PlaceOf(offsets, halves, j)
       /\ \A i, j \in 1 .. h : at[i] = at[j] => i = j
  BY <1>7 DEF Placed, at
<1>20. \A t \in 0 .. total : /\ Within(free, total)
                             /\ Rank(free, t) = t - Cardinality(PlacedBy(1 .. h, at, t))
  <2> DEFINE J == 1 .. h
  <2>1. total \in Nat /\ (\A j \in J : at[j] \in 1 .. total) /\ \A i, j \in J : at[i] = at[j] => i = j
    BY <1>1, <1>2, <1>19
  <2> HIDE DEF total, J
  <2>2. \A t \in 0 .. total : /\ Within(Remaining(total, J, at), total)
                              /\ Rank(Remaining(total, J, at), t) = t - Cardinality(PlacedBy(J, at, t))
    BY <2>1, RankLeft, ZenonT(30)
  <2> QED BY <2>2 DEF J
<1>21. ASSUME NEW i \in 1 .. n + 1
       PROVE  /\ merged.offsets[i] \in Nat /\ merged.offsets[i] <= total
              /\ grown.offsets[i] = Rank(free, merged.offsets[i])
              /\ grown.offsets[i] <= Cardinality(free)
  <2>1. merged.offsets[i] \in Nat /\ merged.offsets[i] <= total
    <3>1. Shaped(merged.offsets, n) /\ LastOffset(merged.offsets) = total /\ merged.offsets \in Seq(0 .. MaxOffset)
          /\ merged.offsets # <<>>
      <4>1. merged.offsets # <<>>
        BY <1>16
      <4> QED BY <1>14, <1>15, <4>1 DEF EdgeSlotSound, EdgeStorageSlot
    <3>2. i <= i
      OBVIOUS
    <3>3. merged.offsets[i] \in 0 .. MaxOffset /\ merged.offsets[i] <= LastOffset(merged.offsets)
      BY <3>1, <3>2, OffsetsOrdered
    <3> QED BY <3>1, <3>3, StorageAssumption
  <2>2. PlacedBy(1 .. h, at, merged.offsets[i]) = HalvesBefore(halves, i - 1)
    <3>1. \A j \in 1 .. h : at[j] <= merged.offsets[i] <=> halves[j].seq < i - 1
      BY <1>17, <1>19, PlacesBetween
    <3> QED BY <1>1, <3>1 DEF PlacedBy, HalvesBefore
  <2>3. merged.offsets[i] = offsets[i] + Cardinality(HalvesBefore(halves, i - 1))
    BY <1>17 DEF InsertedOffset, HalvesBefore
  <2>4. Cardinality(HalvesBefore(halves, i - 1)) \in Nat
    <3>1. Within(HalvesBefore(halves, i - 1), h)
      BY <1>1 DEF HalvesBefore, Within
    <3>2. Cardinality(HalvesBefore(halves, i - 1)) \in 0 .. h
      BY <1>1, <3>1, PositionsFinite
    <3> QED BY <1>1, <3>2
  <2>5. offsets[i] \in Nat
    <3>1. i <= i
      OBVIOUS
    <3> QED BY <3>1, OffsetsOrdered, StorageAssumption
  <2>6. merged.offsets[i] \in 0 .. total
    BY <1>1, <1>2, <2>1
  <2>7. Rank(free, merged.offsets[i]) = merged.offsets[i] - Cardinality(PlacedBy(1 .. h, at, merged.offsets[i]))
        /\ Within(free, total)
    BY <1>20, <2>6
  <2>8. Rank(free, merged.offsets[i]) = offsets[i]
    <3> HIDE DEF free, h
    <3> QED BY <2>2, <2>3, <2>4, <2>5, <2>7
  <2>9. Rank(free, merged.offsets[i]) \in 0 .. Cardinality(free) /\ Cardinality(free) \in 0 .. total
    <3>1. total \in Nat
      BY <1>1, <1>2
    <3> HIDE DEF free, total
    <3> QED BY <2>1, <2>7, <3>1, RankGrows
  <2>10. grown.offsets[i] = offsets[i]
    BY <1>18
  <2> HIDE DEF free, total, grown
  <2> QED BY <2>1, <2>8, <2>9, <2>10
<1>22. Within(free, total) /\ total \in Nat
  BY <1>1, <1>2 DEF Within, Remaining
<1>23. LeftOf(grown, merged, free, n)
  <2>1. grown.neighbors = old /\ grown.values = slot.values /\ grown.offsets = offsets
    BY <1>18
  <2> HIDE DEF grown, free, total
  <2> QED BY <1>2, <1>6, <1>11, <1>12, <1>15, <1>16, <1>21, <1>22, <2>1 DEF LeftOf
<1> QED BY <1>6, <1>7, <1>11, <1>12, <1>15, <1>16, <1>17, <1>23, Zenon DEF MergedHolds, at, merged, insert

\* A new half-edge is put into the run of its node.
LEMMA NewInRun ==
  ASSUME NEW n \in Nat, NEW slot, NEW typ, NEW offsets \in Seq(0 .. MaxOffset), Shaped(offsets, n), offsets # <<>>,
         NEW halves, HalvesFit(halves, n), NEW merged, MergedHolds(merged, slot, offsets, halves, n, typ),
         NEW seq \in Nat, NEW j \in 1 .. Len(halves)
  PROVE  PlaceOf(offsets, halves, j) \in Run(merged, seq) <=> halves[j].seq = seq
<1>1. halves[j].seq \in Nat /\ halves[j].seq < n
  BY HalvesAre
<1>2. /\ Len(merged.offsets) = n + 1
      /\ \A i \in 1 .. n + 1 : merged.offsets[i] = InsertedOffset(offsets, halves, i)
  BY Zenon DEF MergedHolds
<1>3. HasOffset(merged, seq) <=> seq < n
  BY <1>2 DEF HasOffset
<1>4. CASE ~ (seq < n)
  BY <1>1, <1>3, <1>4 DEF Run
<1>5. CASE seq < n
  <2>1. seq + 1 \in 1 .. n + 1 /\ seq + 2 \in 1 .. n + 1
    BY <1>5
  <2>2. PICK p : p = PlaceOf(offsets, halves, j)
    OBVIOUS
  <2>3. /\ p \in Nat /\ Start(merged, seq) \in Nat /\ End(merged, seq) \in Nat
        /\ p <= Start(merged, seq) <=> halves[j].seq < (seq + 1) - 1
        /\ p <= End(merged, seq) <=> halves[j].seq < (seq + 2) - 1
    <3>1. Start(merged, seq) = InsertedOffset(offsets, halves, seq + 1)
          /\ End(merged, seq) = InsertedOffset(offsets, halves, seq + 2)
      BY <1>2, <2>1 DEF Start, End
    <3>2. ASSUME NEW i \in 1 .. n + 1
          PROVE  /\ PlaceOf(offsets, halves, j) \in Nat /\ InsertedOffset(offsets, halves, i) \in Nat
                 /\ PlaceOf(offsets, halves, j) <= InsertedOffset(offsets, halves, i) <=> halves[j].seq < i - 1
      BY PlacesBetween
    <3> QED BY <2>1, <2>2, <3>1, <3>2
  <2>4. p \in Run(merged, seq) <=> ~ (p <= Start(merged, seq)) /\ p <= End(merged, seq)
    BY <1>3, <1>5, <2>3 DEF Run
  <2> QED BY <1>1, <2>2, <2>3, <2>4
<1> QED BY <1>4, <1>5

\* A node's half-edges of a class are those it had and the new ones.
LEMMA AlikeMerged ==
  ASSUME NEW n \in Nat, NEW typ, NEW slot, Paired(slot, typ),
         NEW offsets \in Seq(0 .. MaxOffset), Shaped(offsets, n), offsets # <<>>,
         EndsWith(offsets, slot.neighbors),
         NEW halves, HalvesFit(halves, n), InsertError(typ, offsets, halves) = Ok,
         NEW merged, merged = merge_edge_batches(slot, EdgeSlotInsert(typ, offsets, halves)),
         NEW seq \in Nat, NEW other, NEW value
  PROVE  Cardinality(Alike(merged, seq, other, value))
           = Cardinality(Alike(WithOffsets(slot, offsets), seq, other, value))
               + Cardinality(NewAlike(typ, halves, seq, other, value))
<1> DEFINE h == Len(halves)
           at == [j \in 1 .. h |-> PlaceOf(offsets, halves, j)]
           total == Len(slot.neighbors) + h
           free == Remaining(total, 1 .. h, at)
           A == Alike(merged, seq, other, value)
           N == NewAlike(typ, halves, seq, other, value)
           f == [j \in N |-> at[j]]
<1>1. MergedHolds(merged, slot, offsets, halves, n, typ)
  BY MergedFound
<1>2. /\ h \in Nat /\ DOMAIN halves = 1 .. h
      /\ \A j \in 1 .. h : halves[j].seq \in Nat /\ halves[j].seq < n
  BY HalvesAre
<1>3. /\ Placed(at, h, total) /\ LeftOf(WithOffsets(slot, offsets), merged, free, n)
      /\ Len(merged.neighbors) = total /\ merged.values.typ = typ
      /\ \A j \in 1 .. h :
           /\ merged.neighbors[at[j]] = halves[j].neighbor
           /\ typ # "None" => merged.values.items[at[j]] = Answer(halves[j].property).key
      /\ Len(merged.offsets) = n + 1
      /\ \A i \in 1 .. n + 1 : merged.offsets[i] = InsertedOffset(offsets, halves, i)
  BY <1>1, Zenon DEF MergedHolds
<1>4. \A j \in 1 .. h : at[j] = PlaceOf(offsets, halves, j)
  OBVIOUS
<1> HIDE DEF at
<1>5. Cardinality(Alike(WithOffsets(slot, offsets), seq, other, value)) = Cardinality(A \cap free)
  <2> HIDE DEF free
  <2> QED BY <1>3, AlikeLeft
<1>6. HasOffset(merged, seq) <=> seq < n
  BY <1>3 DEF HasOffset
<1>7. ASSUME NEW j \in 1 .. h PROVE at[j] \in Run(merged, seq) <=> halves[j].seq = seq
  <2>1. PlaceOf(offsets, halves, j) \in Run(merged, seq) <=> halves[j].seq = seq
    BY <1>1, NewInRun
  <2> QED BY <1>4, <2>1
<1>8. ASSUME NEW j \in 1 .. h PROVE at[j] \in A <=> j \in N
  BY <1>2, <1>3, <1>7 DEF Alike, Leads, NewAlike
<1>9. A \subseteq 1 .. total
  <2>1. \A i \in 1 .. n + 1 : merged.offsets[i] \in Nat /\ merged.offsets[i] <= total
    BY <1>3 DEF LeftOf
  <2> SUFFICES ASSUME NEW p \in A PROVE p \in 1 .. total
    OBVIOUS
  <2>2. p \in Run(merged, seq)
    BY DEF Alike
  <2>3. HasOffset(merged, seq) /\ p \in Start(merged, seq) + 1 .. End(merged, seq)
    BY <2>2 DEF Run
  <2>4. seq + 1 \in 1 .. n + 1 /\ seq + 2 \in 1 .. n + 1
    BY <1>6, <2>3
  <2>5. Start(merged, seq) \in Nat /\ End(merged, seq) \in Nat /\ End(merged, seq) <= total
    BY <2>1, <2>4 DEF Start, End
  <2>6. total \in Nat
    BY <1>3 DEF LeftOf
  <2> HIDE DEF total
  <2> QED BY <2>3, <2>5, <2>6
<1>10. total \in Nat
  BY <1>3 DEF LeftOf
<1>11. N \subseteq 1 .. h /\ IsFiniteSet(N) /\ Cardinality(N) \in Nat
  <2>1. Within(N, h)
    BY <1>2 DEF NewAlike, Within
  <2>2. IsFiniteSet(N) /\ Cardinality(N) \in 0 .. h
    <3> HIDE DEF N, h
    <3> QED BY <1>2, <2>1, PositionsFinite
  <2> QED BY <1>2, <2>1, <2>2 DEF Within
<1>12. f \in [N -> A \ free] /\ (\A i, j \in N : f[i] = f[j] => i = j) /\ \A p \in A \ free : \E j \in N : f[j] = p
  <2>1. \A j \in N : at[j] \in A \ free
    <3> TAKE j \in N
    <3>1. j \in 1 .. h
      BY <1>11
    <3>2. at[j] \notin free
      BY <3>1 DEF Remaining
    <3> HIDE DEF A, N, free
    <3> QED BY <1>8, <3>1, <3>2
  <2>2. \A i, j \in N : at[i] = at[j] => i = j
    BY <1>3, <1>11 DEF Placed
  <2>3. \A p \in A \ free : \E j \in N : at[j] = p
    <3> TAKE p \in A \ free
    <3>1. p \in 1 .. total /\ p \notin free
      BY <1>9
    <3>2. PICK j \in 1 .. h : at[j] = p
      BY <3>1 DEF Remaining
    <3> HIDE DEF A, N, free
    <3> QED BY <1>8, <3>2
  <2> HIDE DEF A, N, free
  <2> QED BY <2>1, <2>2, <2>3
<1>13. Cardinality(A \ free) = Cardinality(N)
  <2> HIDE DEF f, A, N, free
  <2>1. f \in Bijection(N, A \ free)
    BY <1>12, Zenon DEF Bijection, Injection, IsInjective, Surjection
  <2>2. ExistsBijection(N, A \ free)
    BY <2>1 DEF ExistsBijection
  <2> QED BY <1>11, <2>2, FS_Bijection
<1>14. IsFiniteSet(A) /\ Cardinality(A) \in Nat
  <2>1. Within(A, total)
    BY <1>9 DEF Within
  <2>2. IsFiniteSet(A) /\ Cardinality(A) \in 0 .. total
    <3> HIDE DEF A, total
    <3> QED BY <1>10, <2>1, PositionsFinite
  <2> HIDE DEF A, total
  <2> QED BY <1>10, <2>2
<1> HIDE DEF A, free, N
<1>15. Cardinality(A \ free) = Cardinality(A) - Cardinality(A \cap free)
  BY <1>14, FS_Difference
<1>16. Cardinality(A \cap free) \in Nat
  <2>1. A \cap free \in SUBSET A
    OBVIOUS
  <2> QED BY <1>14, <2>1, FS_Subset, FS_CardinalityType
<1>17. Cardinality(A) = Cardinality(A \cap free) + Cardinality(N)
  BY <1>11, <1>13, <1>14, <1>15, <1>16
<1> QED BY <1>5, <1>17 DEF A, N

\* Growing offsets repeats the last of them.
LEMMA GrownBehind ==
  ASSUME NEW n \in Nat, NEW m \in Nat, NEW offsets \in Seq(0 .. MaxOffset), Shaped(offsets, n), offsets # <<>>
  PROVE  LET body == Repeat(LastOffset(offsets), m)
         IN  /\ Grown(offsets, n + m + 1) = offsets \o body
             /\ Len(offsets) = n + 1 /\ LastOffset(offsets) = offsets[n + 1] /\ LastOffset(offsets) \in 0 .. MaxOffset
             /\ body \in Seq(0 .. MaxOffset) /\ Len(body) = m /\ \A i \in 1 .. m : body[i] = LastOffset(offsets)
<1> DEFINE len == n + m + 1
           last == LastOffset(offsets)
           body == Repeat(last, m)
<1>1. Len(offsets) = n + 1 /\ last = offsets[n + 1] /\ last \in 0 .. MaxOffset
  <2>1. Len(offsets) = n + 1 /\ last = offsets[n + 1] /\ n + 1 \in 1 .. Len(offsets)
    BY DEF Shaped, LastOffset
  <2> QED BY <2>1, ElementOfSeq
<1>2. body \in Seq(0 .. MaxOffset) /\ Len(body) = m /\ \A i \in 1 .. m : body[i] = last
  <2> HIDE DEF last
  <2> QED BY <1>1, RepeatIsList
<1>3. Grown(offsets, len) = offsets \o body
  <2> HIDE DEF body
  <2>1. CASE m = 0
    <3>1. body = <<>>
      BY <1>2, <2>1, EmptySeq
    <3>2. offsets \o body = offsets
      BY <3>1, ConcatEmptySeq
    <3>3. Resized(offsets, len) = SubSeq(offsets, 1, Len(offsets))
      BY <1>1, <2>1 DEF Resized
    <3>4. SubSeq(offsets, 1, Len(offsets)) = offsets
      BY SubSeqFull
    <3> QED BY <3>2, <3>3, <3>4 DEF Grown
  <2>2. CASE m # 0
    <3>1. ~ (Len(offsets) >= len) /\ len - Len(offsets) = m
      BY <1>1, <2>2
    <3> QED BY <3>1 DEF Grown, Resized, body
  <2> QED BY <2>1, <2>2
<1> QED BY <1>1, <1>2, <1>3

\* A slot whose offsets have grown to a number of nodes.
WithMore(slot, nodes) == WithOffsets(slot, Grown(slot.offsets, nodes + 1))

\* Nodes added behind the others have no half-edges, and those of the others stay.
LEMMA AlikeGrown ==
  ASSUME NEW n \in Nat, NEW m \in Nat, NEW typ, NEW slot, EdgeSlotSound(slot, n, typ),
         NEW seq \in Nat, NEW other, NEW value
  PROVE  Alike(WithMore(slot, n + m), seq, other, value) = Alike(slot, seq, other, value)
<1>1. PICK all : all = Grown(slot.offsets, n + m + 1)
  OBVIOUS
<1>2. PICK grown : grown = WithOffsets(slot, all)
  OBVIOUS
<1>3. PICK offsets : offsets = slot.offsets
  OBVIOUS
<1>4. PICK last : last = LastOffset(offsets)
  OBVIOUS
<1>5. /\ offsets \in Seq(0 .. MaxOffset) /\ Shaped(offsets, n)
      /\ slot = [offsets |-> offsets, neighbors |-> slot.neighbors, values |-> slot.values]
  BY <1>3 DEF EdgeSlotSound, EdgeStorageSlot
<1>6. grown.offsets = all /\ grown.neighbors = slot.neighbors /\ grown.values = slot.values
  BY <1>5, <1>2 DEF WithOffsets
<1>7. Len(all) = n + m + 1
  BY <1>1, <1>3, <1>5, GrownShaped
<1>8. HasOffset(grown, seq) <=> seq + 2 <= n + m + 1
  BY <1>6, <1>7 DEF HasOffset
<1>9. last \in Nat
  <2>1. CASE offsets = <<>>
    BY <1>4, <2>1 DEF LastOffset
  <2>2. CASE offsets # <<>>
    <3>1. LastOffset(offsets) \in 0 .. MaxOffset
      BY <1>5, <2>2, GrownBehind
    <3> QED BY <1>4, <3>1, StorageAssumption
  <2> QED BY <2>1, <2>2
\* Where the offsets are the slot's own, and where they repeat the last of them.
<1>10. /\ \A i \in 1 .. n + m + 1 : (offsets = <<>> \/ i >= n + 1) => all[i] = last
       /\ offsets # <<>> => \A i \in 1 .. n + 1 : all[i] = offsets[i]
  <2>1. CASE offsets = <<>>
    <3>1. all = Repeat(0, n + m + 1) /\ last = 0
      BY <1>1, <1>3, <1>4, <2>1 DEF Grown, LastOffset
    <3>2. \A i \in 1 .. n + m + 1 : all[i] = 0
      BY <3>1 DEF Repeat
    <3> QED BY <2>1, <3>1, <3>2
  <2>2. CASE offsets # <<>>
    <3>1. PICK body : body = Repeat(last, m)
      OBVIOUS
    <3>2. /\ all = offsets \o body /\ Len(offsets) = n + 1 /\ last = offsets[n + 1]
          /\ body \in Seq(0 .. MaxOffset) /\ Len(body) = m /\ \A i \in 1 .. m : body[i] = last
      BY <1>1, <1>3, <1>4, <1>5, <2>2, <3>1, GrownBehind, ZenonT(30)
    <3>3. \A i \in 1 .. Len(offsets) + Len(body) :
            (offsets \o body)[i] = IF i <= Len(offsets) THEN offsets[i] ELSE body[i - Len(offsets)]
      BY <1>5, <3>2, ConcatProperties
    <3>4. \A i \in 1 .. n + m + 1 : all[i] = IF i <= n + 1 THEN offsets[i] ELSE body[i - (n + 1)]
      BY <3>2, <3>3
    <3>5. ASSUME NEW i \in 1 .. n + m + 1, i >= n + 1 PROVE all[i] = last
      <4>1. CASE i = n + 1
        <5>1. i <= n + 1
          BY <4>1
        <5>2. all[i] = offsets[i]
          BY <3>4, <5>1
        <5> QED BY <3>2, <4>1, <5>2
      <4>2. CASE i # n + 1
        <5>1. i - (n + 1) \in 1 .. m /\ ~ (i <= n + 1)
          BY <3>5, <4>2
        <5>2. all[i] = body[i - (n + 1)]
          BY <3>4, <5>1
        <5> QED BY <3>2, <5>1, <5>2
      <4> QED BY <4>1, <4>2
    <3>6. \A i \in 1 .. n + 1 : i \in 1 .. n + m + 1 /\ i <= n + 1
      OBVIOUS
    <3> QED BY <2>2, <3>4, <3>5, <3>6
  <2> QED BY <2>1, <2>2
<1>11. HasOffset(slot, seq) <=> offsets # <<>> /\ seq < n
  BY <1>3, RunPlaces
<1>12. CASE offsets # <<>> /\ seq < n
  <2>1. seq + 1 \in 1 .. n + 1 /\ seq + 2 \in 1 .. n + 1
    BY <1>12
  <2>2. all[seq + 1] = offsets[seq + 1] /\ all[seq + 2] = offsets[seq + 2]
    <3>1. \A i \in 1 .. n + 1 : all[i] = offsets[i]
      BY <1>10, <1>12
    <3> QED BY <2>1, <3>1
  <2>3. Start(grown, seq) = Start(slot, seq) /\ End(grown, seq) = End(slot, seq)
    BY <1>6, <1>3, <2>2 DEF Start, End
  <2>4. HasOffset(grown, seq) /\ HasOffset(slot, seq)
    BY <1>8, <1>11, <1>12
  <2>5. Run(grown, seq) = Run(slot, seq)
    BY <2>3, <2>4 DEF Run
  <2> QED BY <1>1, <1>2, <1>6, <2>5 DEF Alike, Leads, WithMore
<1>13. CASE ~ (offsets # <<>> /\ seq < n)
  <2>1. ASSUME HasOffset(grown, seq) PROVE Run(grown, seq) = {}
    <3>1. seq + 1 \in 1 .. n + m + 1 /\ seq + 2 \in 1 .. n + m + 1
      BY <1>8, <2>1
    <3>2. offsets # <<>> => seq + 1 >= n + 1 /\ seq + 2 >= n + 1
      <4>1. offsets # <<>> => seq >= n
        BY <1>13
      <4> QED BY <4>1
    <3>3. all[seq + 1] = last /\ all[seq + 2] = last
      <4>1. \A i \in 1 .. n + m + 1 : (offsets = <<>> \/ i >= n + 1) => all[i] = last
        BY <1>10
      <4> QED BY <3>1, <3>2, <4>1
    <3>4. Start(grown, seq) = last /\ End(grown, seq) = last
      BY <1>6, <3>3 DEF Start, End
    <3>5. last + 1 .. last = {}
      BY <1>9
    <3> QED BY <3>4, <3>5 DEF Run
  <2>2. Run(grown, seq) = {} /\ Run(slot, seq) = {}
    BY <1>11, <1>13, <2>1 DEF Run
  <2> QED BY <1>1, <1>2, <2>2 DEF Alike, WithMore
<1> QED BY <1>12, <1>13

\* Slot insert is what new halves make of a slot whose offsets grow to a number of nodes.
InsertsHalves(insert, slot, typ, halves, nodes) ==
  LET offsets == Grown(slot.offsets, nodes + 1)
  IN  InsertError(typ, offsets, halves) = Ok /\ insert = EdgeSlotInsert(typ, offsets, halves)

\* After new nodes and a merge, a node's half-edges of a class are those it had and the new.
LEMMA AlikeInserted ==
  ASSUME NEW n \in Nat, NEW typ, NEW slot, EdgeSlotSound(slot, n, typ),
         NEW nodes \in Nat, n <= nodes, NEW halves, HalvesFit(halves, nodes),
         NEW insert, InsertsHalves(insert, slot, typ, halves, nodes),
         NEW seq \in Nat, NEW other, NEW value
  PROVE  Cardinality(Alike(merge_edge_batches(slot, insert), seq, other, value))
           = Cardinality(Alike(slot, seq, other, value))
               + Cardinality(NewAlike(typ, halves, seq, other, value))
<1>1. PICK m \in Nat : nodes = n + m
  <2>1. nodes - n \in Nat /\ nodes = n + (nodes - n)
    OBVIOUS
  <2> QED BY <2>1
<1>2. /\ slot.offsets \in Seq(0 .. MaxOffset) /\ Shaped(slot.offsets, n)
      /\ slot.neighbors \in Seq(RawNodeId) /\ EndsWith(slot.offsets, slot.neighbors)
      /\ Paired(slot, typ)
  BY DEF EdgeSlotSound, EdgeStorageSlot, Paired, EndsWith
<1>3. PICK offsets : offsets = Grown(slot.offsets, nodes + 1)
  OBVIOUS
<1>4. InsertError(typ, offsets, halves) = Ok /\ insert = EdgeSlotInsert(typ, offsets, halves)
  BY <1>3 DEF InsertsHalves
<1>5. /\ offsets \in Seq(0 .. MaxOffset) /\ Shaped(offsets, nodes)
      /\ Len(offsets) = nodes + 1 /\ LastOffset(offsets) = LastOffset(slot.offsets)
  BY <1>2, <1>3, <1>1, GrownShaped
<1>6. offsets # <<>>
  BY <1>5
<1>7. EndsWith(offsets, slot.neighbors)
  BY <1>2, <1>5 DEF EndsWith
<1>8. InsertError(typ, offsets, halves) = Ok
  BY <1>4
<1>9. Cardinality(Alike(merge_edge_batches(slot, EdgeSlotInsert(typ, offsets, halves)), seq, other, value))
           = Cardinality(Alike(WithOffsets(slot, offsets), seq, other, value))
               + Cardinality(NewAlike(typ, halves, seq, other, value))
  BY <1>2, <1>5, <1>6, <1>7, <1>8, AlikeMerged
<1>10. Alike(WithMore(slot, nodes), seq, other, value) = Alike(slot, seq, other, value)
  BY <1>1, AlikeGrown
<1>11. WithMore(slot, nodes) = WithOffsets(slot, offsets)
  BY <1>3 DEF WithMore
<1> QED BY <1>9, <1>10, <1>11, <1>4

(***************************************************************************)
(* Classes whose halves are in balance on either side                       *)
(***************************************************************************)
\* No position is in the runs of two nodes.
LEMMA RunsApart ==
  ASSUME NEW n \in Nat, NEW typ, NEW slot, EdgeSlotSound(slot, n, typ),
         NEW a \in Nat, NEW b \in Nat, NEW i \in Run(slot, a), i \in Run(slot, b)
  PROVE  a = b
<1>1. slot.offsets \in Seq(0 .. MaxOffset) /\ Shaped(slot.offsets, n)
  BY DEF EdgeSlotSound, EdgeStorageSlot
<1>2. slot.offsets # <<>> /\ a < n /\ b < n
  BY RunPlaces DEF Run
<1>3. ASSUME NEW x \in Nat, NEW y \in Nat, x < n, y < n, i \in Run(slot, x), i \in Run(slot, y) PROVE ~ (x < y)
  <2>1. i \in Start(slot, y) + 1 .. End(slot, y) /\ i \in Start(slot, x) + 1 .. End(slot, x)
    BY <1>3 DEF Run
  <2>2. ASSUME x < y PROVE FALSE
    <3>1. x + 2 \in 1 .. n + 1 /\ y + 1 \in 1 .. n + 1 /\ x + 2 <= y + 1
      BY <1>3, <2>2
    <3>2. /\ slot.offsets[x + 2] \in 0 .. MaxOffset /\ slot.offsets[y + 1] \in 0 .. MaxOffset
          /\ slot.offsets[x + 2] <= slot.offsets[y + 1]
      BY <1>1, <1>2, <3>1, OffsetsOrdered
    <3>3. End(slot, x) = slot.offsets[x + 2] /\ Start(slot, y) = slot.offsets[y + 1]
      BY DEF Start, End
    <3>4. End(slot, x) \in Nat /\ Start(slot, y) \in Nat /\ End(slot, x) <= Start(slot, y)
      BY <3>2, <3>3, StorageAssumption
    <3>5. i \in Int /\ i <= End(slot, x) /\ Start(slot, y) + 1 <= i
      BY <2>1, <3>4
    <3> QED BY <3>4, <3>5
  <2> QED BY <2>2
<1>4. ~ (a < b) /\ ~ (b < a)
  BY <1>2, <1>3
<1> QED BY <1>4

\* Every slot of a storage holds what it should, for some number of nodes.
AllSound(storage) ==
  \A s \in EdgeSlots : \E n \in Nat : EdgeSlotSound(storage[s], n, EdgeProperty[SlotEdgeKind(s)].typ)

\* A node's name, its kind and its number.
LEMMA NameParts ==
  ASSUME NEW node \in NodeNames
  PROVE  /\ node \in RawNodeId /\ KindOf(node) \in NodeKinds /\ SeqOf(node) \in Nat
         /\ \A other \in NodeNames : KindOf(other) = KindOf(node) /\ SeqOf(other) = SeqOf(node) => other = node
BY DEF NodeNames, RawNodeId, KindOf, SeqOf

\* The half-edges of a node that lead to another with a value are finitely many.
LEMMA AlikeFinite ==
  ASSUME NEW storage, AllSound(storage), NEW dir \in Directions, NEW e \in EdgeKinds,
         NEW node \in NodeNames, NEW other, NEW value, NEW P
  PROVE  /\ IsFiniteSet(Alike(storage[edge_storage_slot(KindOf(node), dir, e)], SeqOf(node), other, value))
         /\ IsFiniteSet(AlikeIn(storage, P, dir, e, node, other, value))
         /\ Cardinality(AlikeIn(storage, P, dir, e, node, other, value)) \in Nat
<1>1. PICK s : s = edge_storage_slot(KindOf(node), dir, e)
  OBVIOUS
<1>2. s \in EdgeSlots /\ SeqOf(node) \in Nat
  BY <1>1, NameParts, EdgeSlotOfKinds
<1>3. PICK n \in Nat : EdgeSlotSound(storage[s], n, EdgeProperty[SlotEdgeKind(s)].typ)
  BY <1>2 DEF AllSound
<1>4. Within(Run(storage[s], SeqOf(node)), Len(storage[s].neighbors)) /\ Len(storage[s].neighbors) \in Nat
  BY <1>2, <1>3, RunPlaces
<1>5. /\ Within(Alike(storage[s], SeqOf(node), other, value), Len(storage[s].neighbors))
      /\ Within(Alike(storage[s], SeqOf(node), other, value) \cap P[s], Len(storage[s].neighbors))
  BY <1>4 DEF Within, Alike
<1>6. /\ IsFiniteSet(Alike(storage[s], SeqOf(node), other, value))
      /\ IsFiniteSet(Alike(storage[s], SeqOf(node), other, value) \cap P[s])
      /\ Cardinality(Alike(storage[s], SeqOf(node), other, value) \cap P[s]) \in 0 .. Len(storage[s].neighbors)
  BY <1>4, <1>5, PositionsFinite
<1> QED BY <1>1, <1>4, <1>6 DEF AlikeIn

\* Whether the half-edges of one node that lead to another with a value are those of
\* (e, node, other, value).
SameClass(k, x, y, v, e, node, other, value) ==
  k = e /\ x = node /\ y = other /\ (EdgeProperty[e].typ # "None" => v = value)
OneIf(b) == IF b THEN 1 ELSE 0

\* Of the slots of a direction, slot o has one position more in Q than in P.
OneMoreAt(Q, P, dir, o, p) ==
  \A s \in EdgeSlots : SlotDirection(s) = dir => Q[s] = IF s = o THEN P[s] \cup {p} ELSE P[s]

\* One more position is one more of its class and of no other.
LEMMA ClaimedSide ==
  ASSUME NEW storage, AllSound(storage), NEW dir \in Directions, NEW e \in EdgeKinds,
         NEW node \in NodeNames, NEW other, NEW value,
         NEW o, o = edge_storage_slot(KindOf(node), dir, e),
         NEW P, NEW Q, NEW p \in Alike(storage[o], SeqOf(node), other, value), p \notin P[o],
         OneMoreAt(Q, P, dir, o, p),
         NEW k \in EdgeKinds, NEW x \in NodeNames, NEW y, NEW v
  PROVE  Cardinality(AlikeIn(storage, Q, dir, k, x, y, v))
           = Cardinality(AlikeIn(storage, P, dir, k, x, y, v)) + OneIf(SameClass(k, x, y, v, e, node, other, value))
<1>1. PICK s : s = edge_storage_slot(KindOf(x), dir, k)
  OBVIOUS
<1>2. /\ s \in EdgeSlots /\ SlotDirection(s) = dir /\ SlotNodeKind(s) = KindOf(x) /\ SlotEdgeKind(s) = k
      /\ o \in EdgeSlots /\ SlotNodeKind(o) = KindOf(node) /\ SlotEdgeKind(o) = e
  BY <1>1, NameParts, EdgeSlotOfKinds
<1>3. PICK A : A = Alike(storage[s], SeqOf(x), y, v)
  OBVIOUS
<1>4. AlikeIn(storage, P, dir, k, x, y, v) = A \cap P[s] /\ AlikeIn(storage, Q, dir, k, x, y, v) = A \cap Q[s]
  BY <1>1, <1>3 DEF AlikeIn
<1>5. IsFiniteSet(A \cap P[s]) /\ Cardinality(A \cap P[s]) \in Nat
  <2>1. /\ IsFiniteSet(AlikeIn(storage, P, dir, k, x, y, v))
        /\ Cardinality(AlikeIn(storage, P, dir, k, x, y, v)) \in Nat
    BY AlikeFinite
  <2> QED BY <1>4, <2>1
<1>6. Q[s] = IF s = o THEN P[s] \cup {p} ELSE P[s]
  BY <1>2 DEF OneMoreAt
<1>7. PICK n \in Nat : EdgeSlotSound(storage[o], n, EdgeProperty[e].typ)
  BY <1>2 DEF AllSound
<1>8. storage[o].values.typ = EdgeProperty[e].typ
  BY <1>7 DEF EdgeSlotSound
<1>9. p \in Run(storage[o], SeqOf(node)) /\ Leads(storage[o], p, other, value)
  BY DEF Alike
<1>10. CASE SameClass(k, x, y, v, e, node, other, value)
  <2>1. s = o /\ k = e /\ x = node /\ y = other /\ (EdgeProperty[e].typ # "None" => v = value)
    BY <1>1, <1>10 DEF SameClass
  <2>2. p \in A
    BY <1>3, <1>8, <1>9, <2>1 DEF Alike, Leads
  <2>3. A \cap Q[s] = (A \cap P[s]) \cup {p} /\ p \notin A \cap P[s]
    BY <1>6, <2>1, <2>2
  <2>4. Cardinality(A \cap Q[s]) = Cardinality(A \cap P[s]) + 1
    BY <1>5, <2>3, FS_AddElement
  <2> QED BY <1>4, <1>10, <2>4 DEF OneIf
<1>11. CASE ~ SameClass(k, x, y, v, e, node, other, value)
  <2>1. A \cap Q[s] = A \cap P[s]
    <3>1. CASE s = o
      <4>1. ASSUME p \in A PROVE FALSE
        <5>1. p \in Run(storage[o], SeqOf(x)) /\ Leads(storage[o], p, y, v)
          BY <1>3, <3>1, <4>1 DEF Alike
        <5>2. SeqOf(x) \in Nat /\ SeqOf(node) \in Nat
          BY NameParts
        <5>3. SeqOf(x) = SeqOf(node)
          BY <1>7, <1>9, <5>1, <5>2, RunsApart
        <5>4. KindOf(x) = KindOf(node) /\ k = e
          BY <1>2, <3>1
        <5>5. x = node
          BY <5>3, <5>4, NameParts
        <5> QED BY <1>8, <1>9, <1>11, <5>1, <5>4, <5>5 DEF Leads, SameClass
      <4> QED BY <1>6, <3>1, <4>1
    <3>2. CASE s # o
      BY <1>6, <3>2
    <3> QED BY <3>1, <3>2
  <2> QED BY <1>4, <1>5, <1>11, <2>1 DEF OneIf
<1> QED BY <1>10, <1>11

\* One more position on either side, of one class, leaves the sides in balance.
LEMMA BalanceClaimed ==
  ASSUME NEW storage, AllSound(storage), NEW e \in EdgeKinds,
         NEW src \in NodeNames, NEW dst \in NodeNames, NEW value,
         NEW o, o = edge_storage_slot(KindOf(src), Out, e),
         NEW i, i = edge_storage_slot(KindOf(dst), In, e),
         NEW P, NEW Q,
         NEW p \in Alike(storage[o], SeqOf(src), dst, value), p \notin P[o],
         NEW q \in Alike(storage[i], SeqOf(dst), src, value), q \notin P[i],
         OneMoreAt(Q, P, Out, o, p), OneMoreAt(Q, P, In, i, q),
         NEW k \in EdgeKinds, Balanced(storage, P, k)
  PROVE  Balanced(storage, Q, k)
<1>1. Out \in Directions /\ In \in Directions /\ Out # In
  BY DEF Directions, Out, In
<1>2. ASSUME NEW x \in NodeNames, NEW y \in NodeNames, NEW v \in Key
      PROVE  Cardinality(AlikeIn(storage, Q, Out, k, x, y, v)) = Cardinality(AlikeIn(storage, Q, In, k, y, x, v))
  <2>1. Cardinality(AlikeIn(storage, Q, Out, k, x, y, v))
          = Cardinality(AlikeIn(storage, P, Out, k, x, y, v)) + OneIf(SameClass(k, x, y, v, e, src, dst, value))
    BY <1>1, ClaimedSide
  <2>2. Cardinality(AlikeIn(storage, Q, In, k, y, x, v))
          = Cardinality(AlikeIn(storage, P, In, k, y, x, v)) + OneIf(SameClass(k, y, x, v, e, dst, src, value))
    BY <1>1, ClaimedSide
  <2>3. SameClass(k, x, y, v, e, src, dst, value) <=> SameClass(k, y, x, v, e, dst, src, value)
    BY DEF SameClass
  <2>4. Cardinality(AlikeIn(storage, P, Out, k, x, y, v)) = Cardinality(AlikeIn(storage, P, In, k, y, x, v))
    BY DEF Balanced
  <2> QED BY <2>1, <2>2, <2>3, <2>4 DEF OneIf
<1> QED BY <1>2 DEF Balanced

\* A half-edge that is not taken out yet is none of those that are.
LEMMA NotRemoved ==
  ASSUME NEW n \in Nat, NEW typ, NEW slot, EdgeSlotSound(slot, n, typ),
         NEW removals, RemovalsFit(slot, removals),
         NEW r \in Nat \X Nat, HasOffset(slot, r[1]), r[2] < Degree(slot, r[1])
  PROVE  /\ RemovalsFit(slot, removals \cup {r})
         /\ RemovedAt(slot, r) \in RemovedPlaces(slot, removals) <=> r \in removals
         /\ RemovedPlaces(slot, removals \cup {r}) = RemovedPlaces(slot, removals) \cup {RemovedAt(slot, r)}
         /\ RemovedAt(slot, r) \in Run(slot, r[1])
<1>1. RemovalsFit(slot, removals \cup {r})
  BY DEF RemovalsFit
<1>2. slot.offsets \in Seq(0 .. MaxOffset) /\ Shaped(slot.offsets, n)
  BY DEF EdgeSlotSound, EdgeStorageSlot
<1>3. \A a, b \in removals \cup {r} : RemovedAt(slot, a) = RemovedAt(slot, b) => a = b
  BY <1>1, <1>2, RemovalsPlaced
<1>4. RemovedAt(slot, r) \in RemovedPlaces(slot, removals) <=> r \in removals
  BY <1>3 DEF RemovedPlaces
<1>5. RemovedPlaces(slot, removals \cup {r}) = RemovedPlaces(slot, removals) \cup {RemovedAt(slot, r)}
  BY DEF RemovedPlaces
<1>6. RemovedAt(slot, r) \in Run(slot, r[1])
  <2>1. r[1] \in Nat /\ r[2] \in Nat
    OBVIOUS
  <2>2. Start(slot, r[1]) \in Nat /\ End(slot, r[1]) \in Nat
    BY <1>2, <2>1, RunWithin
  <2>3. Start(slot, r[1]) + r[2] + 1 \in Start(slot, r[1]) + 1 .. End(slot, r[1])
    BY <2>1, <2>2 DEF Degree
  <2> QED BY <2>3 DEF Run, RemovedAt
<1> QED BY <1>1, <1>4, <1>5, <1>6

\* What a run reads as.
LEMMA RunReads ==
  ASSUME NEW n \in Nat, NEW typ, NEW slot, EdgeSlotSound(slot, n, typ), NEW seq \in Nat, HasOffset(slot, seq)
  PROVE  LET run == get_neighbors(slot, Start(slot, seq), End(slot, seq))
         IN  /\ Start(slot, seq) \in Nat /\ End(slot, seq) \in Nat /\ Start(slot, seq) <= End(slot, seq)
             /\ Len(run) = Degree(slot, seq)
             /\ \A l \in Nat : l < Degree(slot, seq) => run[l + 1] = slot.neighbors[RemovedAt(slot, <<seq, l>>)]
<1>1. /\ slot.offsets \in Seq(0 .. MaxOffset) /\ Shaped(slot.offsets, n)
      /\ slot.neighbors \in Seq(RawNodeId) /\ LastOffset(slot.offsets) = Len(slot.neighbors)
  BY DEF EdgeSlotSound, EdgeStorageSlot
<1>2. PICK a : a = Start(slot, seq)
  OBVIOUS
<1>3. PICK b : b = End(slot, seq)
  OBVIOUS
<1>4. a \in Nat /\ b \in Nat /\ a <= b /\ b <= Len(slot.neighbors)
  BY <1>1, <1>2, <1>3, RunWithin
<1>5. PICK run : run = get_neighbors(slot, a, b)
  OBVIOUS
<1>6. Len(run) = b - a /\ \A k \in 1 .. b - a : run[k] = slot.neighbors[a + k]
  <2>1. run = SubSeq(slot.neighbors, a + 1, b)
    BY <1>4, <1>5 DEF get_neighbors
  <2>2. a + 1 \in 1 .. Len(slot.neighbors) + 1 /\ b \in a .. Len(slot.neighbors) /\ Len(slot.neighbors) \in Nat
    BY <1>1, <1>4, LenProperties
  <2>3. /\ Len(SubSeq(slot.neighbors, a + 1, b)) = b - a
        /\ \A k \in 1 .. b - a : SubSeq(slot.neighbors, a + 1, b)[k] = slot.neighbors[a + k]
    BY <1>1, <1>4, <2>2, SubSeqProperties
  <2> QED BY <2>1, <2>3
<1>7. Degree(slot, seq) = b - a
  BY <1>2, <1>3 DEF Degree
<1>8. ASSUME NEW l \in Nat, l < b - a PROVE run[l + 1] = slot.neighbors[RemovedAt(slot, <<seq, l>>)]
  <2>1. l + 1 \in 1 .. b - a /\ a + (l + 1) = a + l + 1
    BY <1>4, <1>8
  <2>2. RemovedAt(slot, <<seq, l>>) = a + l + 1
    BY <1>2 DEF RemovedAt
  <2> QED BY <1>6, <2>1, <2>2
<1> QED BY <1>2, <1>3, <1>4, <1>5, <1>6, <1>7, <1>8

\* What a caller walks over is stored in the slot.
LEMMA RunItems ==
  ASSUME NEW slot, slot.neighbors \in Seq(RawNodeId), NEW start \in Nat, NEW end \in Nat,
         NEW i \in DOMAIN get_neighbors(slot, start, end)
  PROVE  /\ i \in Nat /\ i - 1 \in Nat /\ start + i \in 1 .. Len(slot.neighbors) /\ start + i <= end
         /\ get_neighbors(slot, start, end)[i] = slot.neighbors[start + i]
<1>1. CASE start <= end /\ end <= Len(slot.neighbors)
  <2>1. get_neighbors(slot, start, end) = SubSeq(slot.neighbors, start + 1, end)
    BY <1>1 DEF get_neighbors
  <2>2. start + 1 \in 1 .. Len(slot.neighbors) + 1 /\ end \in start .. Len(slot.neighbors)
    BY <1>1
  <2>3. /\ Len(SubSeq(slot.neighbors, start + 1, end)) = end - start
        /\ SubSeq(slot.neighbors, start + 1, end) \in Seq(RawNodeId)
        /\ \A k \in 1 .. end - start : SubSeq(slot.neighbors, start + 1, end)[k] = slot.neighbors[start + k]
    BY <1>1, <2>2, SubSeqProperties
  <2> QED BY <1>1, <2>1, <2>3
<1>2. CASE ~ (start <= end /\ end <= Len(slot.neighbors))
  BY <1>2 DEF get_neighbors
<1> QED BY <1>1, <1>2

(***************************************************************************)
(* What the queries read                                                    *)
(***************************************************************************)
\* The id under which a caller gets the half-edge at position p of a node's run.
IdAt(slot, node, kind, dir, p) ==
  from_half(node, slot.neighbors[p], kind, dir, p - Start(slot, SeqOf(node)) - 1)

\* A walk over a node's edges gives the half-edges of its run and nothing else.
LEMMA EdgesRead ==
  ASSUME NEW g, NEW node \in NodeNames, NEW kind, NEW dir,
         NEW slot, slot = EdgeSlotOf(g, node, kind, dir), NEW n \in Nat, NEW typ, EdgeSlotSound(slot, n, typ)
  PROVE  get_edges_with_deleted(g, node, kind, dir)
           = {IdAt(slot, node, kind, dir, p) : p \in Run(slot, SeqOf(node))}
<1>1. PICK seq : seq = SeqOf(node)
  OBVIOUS
<1>2. /\ slot.offsets \in Seq(0 .. MaxOffset) /\ Shaped(slot.offsets, n) /\ seq \in Nat
      /\ slot.neighbors \in Seq(RawNodeId) /\ LastOffset(slot.offsets) = Len(slot.neighbors)
  BY <1>1, NameParts DEF EdgeSlotSound, EdgeStorageSlot
<1> DEFINE Read(a, b) == LET run == get_neighbors(slot, a, b)
                         IN  {from_half(node, run[i], kind, dir, i - 1) : i \in DOMAIN run}
<1>3. get_edges_with_deleted(g, node, kind, dir)
        = UNION {Read(range[1], range[2]) : range \in get_edges_offset(slot, node)}
  BY DEF get_edges_with_deleted
<1>4. CASE HasOffset(slot, seq)
  <2>1. PICK a : a = Start(slot, seq)
    OBVIOUS
  <2>2. PICK b : b = End(slot, seq)
    OBVIOUS
  <2>3. a \in Nat /\ b \in Nat /\ a <= b /\ b <= Len(slot.neighbors) /\ slot.offsets # <<>>
    BY <1>2, <1>4, <2>1, <2>2, RunWithin
  <2>4. get_edges_offset(slot, node) = {<<a, b>>}
    BY <1>1, <1>4, <2>1, <2>2, <2>3 DEF get_edges_offset
  <2>5. Run(slot, seq) = a + 1 .. b
    BY <1>4, <2>1, <2>2 DEF Run
  <2>6. PICK run : run = get_neighbors(slot, a, b)
    OBVIOUS
  <2>7. DOMAIN run = 1 .. b - a /\ \A k \in 1 .. b - a : run[k] = slot.neighbors[a + k]
    <3>1. run = SubSeq(slot.neighbors, a + 1, b)
      BY <2>3, <2>6 DEF get_neighbors
    <3>2. a + 1 \in 1 .. Len(slot.neighbors) + 1 /\ b \in a .. Len(slot.neighbors) /\ Len(slot.neighbors) \in Nat
      BY <1>2, <2>3, LenProperties
    <3>3. /\ Len(SubSeq(slot.neighbors, a + 1, b)) = b - a
          /\ SubSeq(slot.neighbors, a + 1, b) \in Seq(RawNodeId)
          /\ \A k \in 1 .. b - a : SubSeq(slot.neighbors, a + 1, b)[k] = slot.neighbors[a + k]
      BY <1>2, <2>3, <3>2, SubSeqProperties
    <3> QED BY <3>1, <3>3, LenProperties
  <2>8. Read(a, b) = {from_half(node, run[i], kind, dir, i - 1) : i \in 1 .. b - a}
    BY <2>6, <2>7
  <2>9. ASSUME NEW i \in 1 .. b - a
        PROVE  a + i \in a + 1 .. b /\ from_half(node, run[i], kind, dir, i - 1) = IdAt(slot, node, kind, dir, a + i)
    <3>1. (a + i) - a - 1 = i - 1 /\ a + i \in a + 1 .. b
      BY <2>3
    <3> QED BY <1>1, <2>1, <2>7, <3>1 DEF IdAt
  <2>10. ASSUME NEW p \in a + 1 .. b
         PROVE  p - a \in 1 .. b - a /\ from_half(node, run[p - a], kind, dir, (p - a) - 1) = IdAt(slot, node, kind, dir, p)
    <3>1. p - a \in 1 .. b - a /\ a + (p - a) = p
      BY <2>3
    <3> QED BY <2>9, <3>1
  <2>11. Read(a, b) = {IdAt(slot, node, kind, dir, p) : p \in a + 1 .. b}
    <3> HIDE DEF Read
    <3>1. \A x \in Read(a, b) : \E p \in a + 1 .. b : x = IdAt(slot, node, kind, dir, p)
      BY <2>8, <2>9
    <3>2. \A p \in a + 1 .. b : IdAt(slot, node, kind, dir, p) \in Read(a, b)
      BY <2>8, <2>10
    <3> QED BY <3>1, <3>2
  <2> HIDE DEF Read
  <2>12. UNION {Read(range[1], range[2]) : range \in {<<a, b>>}} = Read(a, b)
    OBVIOUS
  <2> QED BY <1>1, <1>3, <2>4, <2>5, <2>11, <2>12
<1>5. CASE ~ HasOffset(slot, seq)
  <2>1. Run(slot, seq) = {}
    BY <1>5 DEF Run
  <2>2. \A range \in get_edges_offset(slot, node) : range = <<0, 0>> /\ slot.offsets = <<>>
    BY <1>1, <1>5 DEF get_edges_offset, Nothing
  <2>3. slot.offsets = <<>> => DOMAIN get_neighbors(slot, 0, 0) = {}
    <3>1. \A i \in DOMAIN get_neighbors(slot, 0, 0) : 0 + i <= 0 /\ 0 + i \in 1 .. Len(slot.neighbors)
      BY <1>2, RunItems
    <3>2. \A i \in DOMAIN get_neighbors(slot, 0, 0) : FALSE
      BY <3>1
    <3> QED BY <3>2
  <2>4. \A range \in get_edges_offset(slot, node) : Read(range[1], range[2]) = {}
    BY <2>2, <2>3
  <2> HIDE DEF Read
  <2>5. get_edges_with_deleted(g, node, kind, dir) = {}
    BY <1>3, <2>4
  <2> QED BY <1>1, <2>1, <2>5
<1> QED BY <1>4, <1>5

\* What an id tells of its half-edge, and what is read at a position.
Describes(id, slot, node, kind, dir, p) ==
  /\ id.src = (IF dir = Out THEN node ELSE slot.neighbors[p])
  /\ id.dst = (IF dir = Out THEN slot.neighbors[p] ELSE node)
  /\ id.kind = kind /\ id.dir = dir
  /\ id.seq = p - Start(slot, SeqOf(node)) - 1
  /\ Neighbor(id) = slot.neighbors[p]
  /\ orient_edge(id.dir, id.src, id.dst).primary = node
ReadAt(slot, typ, p) == IF typ = "None" THEN {} ELSE {[typ |-> typ, key |-> slot.values.items[p]]}

\* The id of a half-edge describes it, and its value is read by it.
LEMMA IdRead ==
  ASSUME NEW g, NEW node \in NodeNames, NEW kind, NEW dir \in Directions,
         NEW slot, slot = EdgeSlotOf(g, node, kind, dir), NEW n \in Nat, NEW typ, EdgeSlotSound(slot, n, typ),
         NEW p \in Run(slot, SeqOf(node)), NEW id, id = IdAt(slot, node, kind, dir, p)
  PROVE  /\ Describes(id, slot, node, kind, dir, p)
         /\ get_edge_property(g, id) = {ReadAt(slot, typ, p)}
         /\ Start(slot, SeqOf(node)) \in Nat /\ p \in Nat /\ id.seq \in Nat
         /\ slot.neighbors[p] \in RawNodeId
<1>1. PICK seq : seq = SeqOf(node)
  OBVIOUS
<1>2. /\ slot.offsets \in Seq(0 .. MaxOffset) /\ Shaped(slot.offsets, n) /\ seq \in Nat
      /\ slot.values.typ = typ
  BY <1>1, NameParts DEF EdgeSlotSound, EdgeStorageSlot
<1>3. HasOffset(slot, seq) /\ p \in Start(slot, seq) + 1 .. End(slot, seq)
  BY <1>1 DEF Run
<1>4. PICK a : a = Start(slot, seq)
  OBVIOUS
<1>5. a \in Nat /\ p \in Nat /\ a + 1 <= p /\ slot.offsets # <<>>
  BY <1>2, <1>3, <1>4, RunWithin
<1>6. /\ Within(Run(slot, seq), Len(slot.neighbors)) /\ Len(slot.neighbors) \in Nat
      /\ slot.neighbors[p] \in RawNodeId
  BY <1>1, <1>2, RunPlaces
<1>7. /\ id.src = (IF dir = Out THEN node ELSE slot.neighbors[p])
      /\ id.dst = (IF dir = Out THEN slot.neighbors[p] ELSE node)
      /\ id.kind = kind /\ id.dir = dir /\ id.seq = p - a - 1
  BY <1>1, <1>4 DEF IdAt, from_half
<1>8. p - a - 1 \in Nat /\ a + (p - a - 1) = p - 1
  BY <1>5
<1>9. Neighbor(id) = slot.neighbors[p]
  BY <1>7 DEF Neighbor
<1>10. orient_edge(id.dir, id.src, id.dst).primary = node
  BY <1>7 DEF orient_edge
<1>11. get_edge_property(g, id) = {get(slot.values, p - 1)}
  <2>1. get_edges_offset(slot, node) = {<<a, End(slot, seq)>>}
    BY <1>1, <1>3, <1>4, <1>5 DEF get_edges_offset
  <2>2. EdgeSlotOf(g, node, id.kind, id.dir) = slot
    BY <1>7
  <2>3. get_edge_property(g, id) = {get(slot.values, range[1] + id.seq) : range \in get_edges_offset(slot, node)}
    BY <1>10, <2>2 DEF get_edge_property
  <2>4. \A range \in {<<a, End(slot, seq)>>} : range[1] + id.seq = p - 1
    BY <1>7, <1>8
  <2> QED BY <2>1, <2>3, <2>4
<1>12. get(slot.values, p - 1) = IF typ = "None" THEN {} ELSE {[typ |-> typ, key |-> slot.values.items[p]]}
  <2>1. CASE typ = "None"
    BY <1>2, <2>1 DEF get
  <2>2. CASE typ # "None"
    <3>1. Len(slot.values.items) = Len(slot.neighbors) /\ p <= Len(slot.neighbors)
      BY <1>1, <1>6, <2>2 DEF EdgeSlotSound, Within
    <3>2. p - 1 < Len(slot.values.items) /\ (p - 1) + 1 = p
      BY <1>5, <1>6, <3>1
    <3> QED BY <1>2, <2>2, <3>2 DEF get
  <2> QED BY <2>1, <2>2
<1>13. Describes(id, slot, node, kind, dir, p)
  BY <1>1, <1>4, <1>7, <1>9, <1>10 DEF Describes
<1> QED BY <1>1, <1>4, <1>5, <1>6, <1>7, <1>8, <1>11, <1>12, <1>13 DEF ReadAt

\* The edges of a kind that a walk from the nodes of V comes along, to nodes of V.
Seen(g, V, e, dir) ==
  {id \in UNION {get_edges_with_deleted(g, node, e, dir) : node \in V} : Neighbor(id) \in V}
\* What is read of an edge with a value.
PropertyRead(typ, value) == {IF typ = "None" THEN {} ELSE {[typ |-> typ, key |-> value]}}
SameRead(g, ids, id) ==
  {i \in ids : /\ i.src = id.src /\ i.dst = id.dst
               /\ get_edge_property(g, i) = get_edge_property(g, id)}
\* The edges of ids that lead from src to dst with a value.
EdgesWith(g, ids, typ, src, dst, value) ==
  {i \in ids : i.src = src /\ i.dst = dst /\ get_edge_property(g, i) = PropertyRead(typ, value)}

\* An edge that is seen leads from one of the nodes to another with a value.
LEMMA SeenTold ==
  ASSUME NEW g, NEW dir \in Directions, NEW e \in EdgeKinds, SoundSlots(g, dir, e),
         NEW V, V \subseteq NodeNames, NEW id \in Seen(g, V, e, dir)
  PROVE  \E src, dst \in V : \E value \in Key :
           id.src = src /\ id.dst = dst /\ get_edge_property(g, id) = PropertyRead(EdgeProperty[e].typ, value)
<1>1. PICK node \in V : id \in get_edges_with_deleted(g, node, e, dir) /\ Neighbor(id) \in V
  BY DEF Seen
<1>2. PICK slot : slot = EdgeSlotOf(g, node, e, dir)
  OBVIOUS
<1>3. node \in NodeNames /\ KindOf(node) \in NodeKinds /\ SeqOf(node) \in Nat
  BY <1>1, NameParts
<1>4. PICK n \in Nat : EdgeSlotSound(slot, n, EdgeProperty[e].typ)
  BY <1>2, <1>3 DEF SoundSlots, EdgeSlotOf
<1>5. PICK p \in Run(slot, SeqOf(node)) : id = IdAt(slot, node, e, dir, p)
  BY <1>1, <1>2, <1>3, <1>4, EdgesRead
<1>6. /\ Describes(id, slot, node, e, dir, p)
      /\ get_edge_property(g, id) = {ReadAt(slot, EdgeProperty[e].typ, p)}
  BY <1>2, <1>3, <1>4, <1>5, IdRead
<1>7. slot.neighbors[p] \in V
  BY <1>1, <1>6 DEF Describes
<1>8. \E value \in Key : get_edge_property(g, id) = PropertyRead(EdgeProperty[e].typ, value)
  <2>1. CASE EdgeProperty[e].typ = "None"
    <3>1. NoKey \in Key
      BY EmptySeq DEF NoKey, Key
    <3> QED BY <1>6, <2>1, <3>1 DEF PropertyRead, ReadAt
  <2>2. CASE EdgeProperty[e].typ # "None"
    <3>1. slot.values.items[p] \in Key
      BY <1>3, <1>4, <1>5, <2>2, RunPlaces
    <3> QED BY <1>6, <2>2, <3>1 DEF PropertyRead, ReadAt
  <2> QED BY <2>1, <2>2
<1> QED BY <1>1, <1>6, <1>7, <1>8 DEF Describes

\* From a node to another there are as many edges with a value as positions of the class.
LEMMA SeenCount ==
  ASSUME NEW g, NEW dir \in Directions, NEW e \in EdgeKinds, SoundSlots(g, dir, e),
         NEW V, V \subseteq NodeNames, NEW node \in V, NEW other \in V, NEW value \in Key,
         NEW src, NEW dst, src = (IF dir = Out THEN node ELSE other), dst = (IF dir = Out THEN other ELSE node)
  PROVE  Cardinality(EdgesWith(g, Seen(g, V, e, dir), EdgeProperty[e].typ, src, dst, value))
           = Cardinality(AlikeIn(g.edges, Everywhere, dir, e, node, other, value))
<1>1. PICK slot : slot = EdgeSlotOf(g, node, e, dir)
  OBVIOUS
<1>2. PICK seq : seq = SeqOf(node)
  OBVIOUS
<1>3. node \in NodeNames /\ other \in NodeNames /\ KindOf(node) \in NodeKinds /\ seq \in Nat
  BY <1>2, NameParts
<1>4. slot = g.edges[edge_storage_slot(KindOf(node), dir, e)]
  BY <1>1 DEF EdgeSlotOf
<1>5. PICK n \in Nat : EdgeSlotSound(slot, n, EdgeProperty[e].typ)
  BY <1>3, <1>4 DEF SoundSlots
<1> DEFINE A == Alike(slot, seq, other, value)
           B == EdgesWith(g, Seen(g, V, e, dir), EdgeProperty[e].typ, src, dst, value)
           Id(p) == IdAt(slot, node, e, dir, p)
<1> HIDE DEF A, B, Id
<1>6. slot.values.typ = EdgeProperty[e].typ
  BY <1>5 DEF EdgeSlotSound
<1>7. Within(Run(slot, seq), Len(slot.neighbors)) /\ Len(slot.neighbors) \in Nat
  BY <1>3, <1>5, RunPlaces
<1>8. AlikeIn(g.edges, Everywhere, dir, e, node, other, value) = A
  <2>1. edge_storage_slot(KindOf(node), dir, e) \in EdgeSlots
    BY <1>3, EdgeSlotOfKinds
  <2>2. A \subseteq Nat
    BY <1>7 DEF A, Within, Alike
  <2>3. AlikeIn(g.edges, Everywhere, dir, e, node, other, value) = A \cap Nat
    BY <1>2, <1>4, <2>1 DEF AlikeIn, Everywhere, A
  <2> QED BY <2>2, <2>3
<1>9. IsFiniteSet(A)
  <2>1. Within(A, Len(slot.neighbors))
    BY <1>7 DEF Within, Alike, A
  <2> QED BY <1>7, <2>1, PositionsFinite
<1>10. ASSUME NEW p \in Run(slot, seq)
       PROVE  /\ Id(p).src = (IF dir = Out THEN node ELSE slot.neighbors[p])
              /\ Id(p).dst = (IF dir = Out THEN slot.neighbors[p] ELSE node)
              /\ Neighbor(Id(p)) = slot.neighbors[p]
              /\ Id(p).seq = p - Start(slot, seq) - 1 /\ p \in Nat /\ Start(slot, seq) \in Nat
              /\ get_edge_property(g, Id(p)) = PropertyRead(EdgeProperty[e].typ, value) <=>
                   (slot.values.typ # "None" => slot.values.items[p] = value)
  <2>1. /\ Describes(Id(p), slot, node, e, dir, p)
        /\ get_edge_property(g, Id(p)) = {ReadAt(slot, EdgeProperty[e].typ, p)}
        /\ p \in Nat /\ Start(slot, SeqOf(node)) \in Nat
    BY <1>1, <1>2, <1>3, <1>5, <1>10, IdRead DEF Id
  <2>2. \A a, b : [typ |-> EdgeProperty[e].typ, key |-> a] = [typ |-> EdgeProperty[e].typ, key |-> b] => a = b
    OBVIOUS
  <2>3. get_edge_property(g, Id(p)) = PropertyRead(EdgeProperty[e].typ, value) <=>
          (EdgeProperty[e].typ # "None" => slot.values.items[p] = value)
    <3>1. CASE EdgeProperty[e].typ = "None"
      BY <2>1, <3>1 DEF PropertyRead, ReadAt
    <3>2. CASE EdgeProperty[e].typ # "None"
      <4>1. \A x, y : {{x}} = {{y}} => x = y
        <5>1. \A x, y : {x} = {y} => x = y
          OBVIOUS
        <5> QED BY <5>1
      <4> QED BY <2>1, <2>2, <3>2, <4>1 DEF PropertyRead, ReadAt
    <3> QED BY <3>1, <3>2
  <2> QED BY <1>2, <1>6, <2>1, <2>3 DEF Describes
<1>11. ASSUME NEW p \in A PROVE Id(p) \in B
  <2>1. p \in Run(slot, seq) /\ Leads(slot, p, other, value)
    BY DEF Alike, A
  <2>2. Id(p) \in get_edges_with_deleted(g, node, e, dir)
    BY <1>1, <1>2, <1>3, <1>5, <2>1, EdgesRead DEF Id
  <2>3. slot.neighbors[p] = other /\ (slot.values.typ # "None" => slot.values.items[p] = value)
    BY <2>1 DEF Leads
  <2>4. Id(p) \in Seen(g, V, e, dir)
    BY <1>10, <2>1, <2>2, <2>3 DEF Seen
  <2>5. Id(p).src = src /\ Id(p).dst = dst /\ get_edge_property(g, Id(p)) = PropertyRead(EdgeProperty[e].typ, value)
    BY <1>10, <2>1, <2>3
  <2> QED BY <2>4, <2>5 DEF EdgesWith, B
<1>12. ASSUME NEW id \in B PROVE \E p \in A : id = Id(p)
  <2>1. id.src = src /\ id.dst = dst /\ get_edge_property(g, id) = PropertyRead(EdgeProperty[e].typ, value) /\ id \in Seen(g, V, e, dir)
    BY DEF EdgesWith, B
  <2>2. PICK m \in V : id \in get_edges_with_deleted(g, m, e, dir)
    BY <2>1 DEF Seen
  <2>3. m = node
    <3>1. PICK s : s = EdgeSlotOf(g, m, e, dir)
      OBVIOUS
    <3>2. m \in NodeNames /\ KindOf(m) \in NodeKinds
      BY <2>2, NameParts
    <3>3. PICK k \in Nat : EdgeSlotSound(s, k, EdgeProperty[e].typ)
      BY <3>1, <3>2 DEF SoundSlots, EdgeSlotOf
    <3>4. PICK q \in Run(s, SeqOf(m)) : id = IdAt(s, m, e, dir, q)
      BY <2>2, <3>1, <3>2, <3>3, EdgesRead
    <3>5. Describes(id, s, m, e, dir, q)
      BY <3>1, <3>2, <3>3, <3>4, IdRead
    <3> QED BY <2>1, <3>5 DEF Describes
  <2>4. PICK p \in Run(slot, seq) : id = Id(p)
    BY <1>1, <1>2, <1>3, <1>5, <2>2, <2>3, EdgesRead DEF Id
  <2>5. slot.neighbors[p] = other /\ (slot.values.typ # "None" => slot.values.items[p] = value)
    BY <1>10, <2>1, <2>4
  <2> QED BY <2>4, <2>5 DEF Alike, Leads, A
<1>13. \A p, q \in A : Id(p) = Id(q) => p = q
  <2>1. A \subseteq Run(slot, seq)
    BY DEF Alike, A
  <2> TAKE p, q \in A
  <2>2. /\ Id(p).seq = p - Start(slot, seq) - 1 /\ Id(q).seq = q - Start(slot, seq) - 1
        /\ p \in Nat /\ q \in Nat /\ Start(slot, seq) \in Nat
    BY <1>10, <2>1
  <2> QED BY <2>2
<1>14. Cardinality(B) = Cardinality(A)
  <2> DEFINE f == [p \in A |-> Id(p)]
  <2>1. f \in [A -> B] /\ \A p \in A : f[p] = Id(p)
    BY <1>11
  <2>2. f \in Bijection(A, B)
    <3>1. \A p, q \in A : f[p] = f[q] => p = q
      BY <1>13, <2>1
    <3>2. \A id \in B : \E p \in A : f[p] = id
      BY <1>12, <2>1
    <3> HIDE DEF f
    <3> QED BY <2>1, <3>1, <3>2, Zenon DEF Bijection, Injection, IsInjective, Surjection
  <2>3. ExistsBijection(A, B)
    BY <2>2 DEF ExistsBijection
  <2> QED BY <1>9, <2>3, FS_Bijection
<1> QED BY <1>8, <1>14 DEF B

\* In a graph whose half-edges pair up, as many edges of each value are seen from the
\* sources of edges as from their destinations.
LEMMA SeenAlike ==
  ASSUME NEW g, NEW e \in EdgeKinds, \A dir \in Directions : SoundSlots(g, dir, e),
         Balanced(g.edges, Everywhere, e), NEW V, V \subseteq NodeNames,
         NEW id \in Seen(g, V, e, Out) \cup Seen(g, V, e, In)
  PROVE  Cardinality(SameRead(g, Seen(g, V, e, Out), id)) = Cardinality(SameRead(g, Seen(g, V, e, In), id))
<1>1. Out \in Directions /\ In \in Directions /\ Out # In
  BY DEF Directions, In, Out
<1>2. PICK src \in V, dst \in V, value \in Key :
        id.src = src /\ id.dst = dst /\ get_edge_property(g, id) = PropertyRead(EdgeProperty[e].typ, value)
  BY <1>1, SeenTold
<1>3. \A ids : SameRead(g, ids, id) = EdgesWith(g, ids, EdgeProperty[e].typ, src, dst, value)
  BY <1>2 DEF SameRead, EdgesWith
<1>4. Cardinality(EdgesWith(g, Seen(g, V, e, Out), EdgeProperty[e].typ, src, dst, value))
        = Cardinality(AlikeIn(g.edges, Everywhere, Out, e, src, dst, value))
  BY <1>1, SeenCount
<1>5. Cardinality(EdgesWith(g, Seen(g, V, e, In), EdgeProperty[e].typ, src, dst, value))
        = Cardinality(AlikeIn(g.edges, Everywhere, In, e, dst, src, value))
  BY <1>1, SeenCount
<1>6. Cardinality(AlikeIn(g.edges, Everywhere, Out, e, src, dst, value))
        = Cardinality(AlikeIn(g.edges, Everywhere, In, e, dst, src, value))
  <2>1. src \in NodeNames /\ dst \in NodeNames
    OBVIOUS
  <2> QED BY <2>1 DEF Balanced
<1> QED BY <1>3, <1>4, <1>5, <1>6

(***************************************************************************)
(* What a graph that passes its check holds                                 *)
(***************************************************************************)
\* The slot of a property and of an edge kind hold what they should, for the nodes there are.
PropertySlotWhole(g, k, p) ==
  LET slot == g.properties[property_storage_slot(k, p)]
  IN  /\ PropertySlotSound(slot, Len(g.nodes[k]), NodeProperty[p].typ)
      /\ AllContentPasses(g, slot.values, NodeProperty[p].enum)
EdgeSlotWhole(g, k, dir, e) ==
  LET slot == g.edges[edge_storage_slot(k, dir, e)]
  IN  /\ EdgeSlotSound(slot, Len(g.nodes[k]), EdgeProperty[e].typ)
      /\ AllNamed(slot.neighbors, Counted(g))
      /\ AllContentPasses(g, slot.values, EdgeProperty[e].enum)
Whole(g) ==
  /\ \A k \in NodeKinds : Len(g.nodes[k]) \in Nat /\ Counted(g)[k] = Len(g.nodes[k])
  /\ \A k \in NodeKinds, p \in PropertyKinds : PropertySlotWhole(g, k, p)
  /\ \A k \in NodeKinds, dir \in Directions, e \in EdgeKinds : EdgeSlotWhole(g, k, dir, e)
  /\ \A dir \in Directions, e \in EdgeKinds : SoundSlots(g, dir, e)
  /\ \A e \in EdgeKinds : Balanced(g.edges, Everywhere, e)

\* Whatever a check finds has a name.
LEMMA ErrorsNamed ==
  ASSUME NEW g
  PROVE  /\ \A s : check_property_slot(g, s) \in Errors
         /\ \A s : check_edge_slot(g, s) \in Errors
         /\ \A e : check_half_edge_pairing(g, e) \in Errors
<1>1. Ok \in Errors
  BY DEF Errors
<1>2. ASSUME NEW offsets, NEW n PROVE check_offsets_shape(offsets, n) \in Errors
  BY DEF check_offsets_shape, Errors
<1>3. ASSUME NEW offsets, NEW n PROVE check_offsets_bounds(offsets, n) \in Errors
  BY DEF check_offsets_bounds, Errors
<1>4. ASSUME NEW node PROVE check_node_id(g, node) \in Errors
  BY DEF check_node_id, Errors
<1>5. ASSUME NEW array, NEW enum PROVE check_values_content(g, array, enum) \in Errors
  <2>1. \A id : check_string_id(g, id) \in Errors
    BY DEF check_string_id, Errors
  <2>2. \A e, v : check_enum_id(e, v, enum) \in Errors
    BY DEF check_enum_id, Errors
  <2> QED BY <1>1, <1>4, <2>1, <2>2 DEF check_values_content, FirstError
<1>6. ASSUME NEW slot, NEW decl PROVE CheckValues(g, slot, decl) \in Errors
  <2>1. check_storage_type(slot.values, decl.typ) \in Errors
    BY DEF check_storage_type, Errors
  <2> QED BY <1>1, <1>3, <1>5, <2>1 DEF CheckValues, Both
<1>7. ASSUME NEW s PROVE check_property_slot(g, s) \in Errors
  BY <1>2, <1>6 DEF check_property_slot, Both
<1>8. ASSUME NEW s PROVE check_edge_slot(g, s) \in Errors
  <2>1. FirstError(Len(g.edges[s].neighbors),
                   LAMBDA k : check_node_id(g, g.edges[s].neighbors[k])) \in Errors
    BY <1>1, <1>4 DEF FirstError
  <2> QED BY <1>2, <1>3, <1>6, <2>1 DEF check_edge_slot, Both
<1>9. ASSUME NEW e PROVE check_half_edge_pairing(g, e) \in Errors
  BY DEF check_half_edge_pairing, Errors
<1> QED BY <1>7, <1>8, <1>9

\* The pairing passes exactly when that of each edge kind does.
LEMMA PairingsCheck ==
  ASSUME NEW g
  PROVE  CheckPairing(g) = Ok <=> \A e \in EdgeKinds : check_half_edge_pairing(g, e) = Ok
<1> DEFINE fails == {i \in 1 .. EdgeKindCount : check_half_edge_pairing(g, i - 1) # Ok}
<1>1. CheckPairing(g) = IF fails = {} THEN Ok ELSE check_half_edge_pairing(g, Lowest(fails) - 1)
  BY DEF CheckPairing, FirstError
<1>2. fails \subseteq Nat /\ \A i \in fails : check_half_edge_pairing(g, i - 1) # Ok
  OBVIOUS
<1>3. fails = {} <=> \A e \in EdgeKinds : check_half_edge_pairing(g, e) = Ok
  <2>1. \A i \in 1 .. EdgeKindCount : i - 1 \in EdgeKinds
    BY SchemaAssumption DEF EdgeKinds
  <2>2. \A e \in EdgeKinds : e + 1 \in 1 .. EdgeKindCount /\ (e + 1) - 1 = e
    BY SchemaAssumption DEF EdgeKinds
  <2> QED BY <2>1, <2>2
<1> HIDE DEF fails
<1>4. fails # {} => check_half_edge_pairing(g, Lowest(fails) - 1) # Ok
  BY <1>2, LowestIsLeast
<1> QED BY <1>1, <1>3, <1>4

\* The graphs whose slots and pairing pass are those that are whole, and those that pass
\* check_integrity are the whole ones whose nodes can be numbered.
LEMMA IntegrityTold ==
  ASSUME NEW g \in Graph
  PROVE  /\ CheckSlots(g) = Ok /\ CheckPairing(g) = Ok <=> Whole(g)
         /\ check_integrity(g) = Ok <=> TotalNodes(g) <= MaxNodes /\ Whole(g)
<1>1. \A k \in NodeKinds : Len(g.nodes[k]) \in Nat /\ Counted(g)[k] = Len(g.nodes[k])
  <2> TAKE k \in NodeKinds
  <2>1. g.nodes[k] \in Seq(BOOLEAN)
    BY DEF Graph
  <2> QED BY <2>1, LenProperties DEF Counted
<1>2. check_storage_sizes(g) = Ok
  BY DEF check_storage_sizes, Graph
<1>3. CheckSlots(g) = Ok /\ CheckPairing(g) = Ok <=>
        /\ \A s \in PropertySlots : check_property_slot(g, s) = Ok
        /\ \A s \in EdgeSlots : check_edge_slot(g, s) = Ok
        /\ \A e \in EdgeKinds : check_half_edge_pairing(g, e) = Ok
  BY SlotsCheck, PairingsCheck
<1>4. ASSUME NEW k \in NodeKinds, NEW p \in PropertyKinds
      PROVE  check_property_slot(g, property_storage_slot(k, p)) = Ok <=> PropertySlotWhole(g, k, p)
  <2>1. PICK s \in PropertySlots : s = property_storage_slot(k, p)
    BY PropertySlotOfKinds
  <2>2. SlotNodeKind(s) = k /\ SlotPropertyKind(s) = p
    BY <2>1, PropertySlotOfKinds
  <2>3. NodeProperty[p].typ # "None" /\ Len(g.nodes[k]) \in Nat
    BY <1>1, NodePropertyAssumption
  <2>4. check_property_slot(g, s) = Ok <=>
          /\ PropertySlotSound(g.properties[s], Len(g.nodes[k]), NodeProperty[p].typ)
          /\ AllContentPasses(g, g.properties[s].values, NodeProperty[p].enum)
    BY <2>2, <2>3, PropertySlotCheck
  <2> QED BY <2>1, <2>4 DEF PropertySlotWhole
<1>5. ASSUME NEW k \in NodeKinds, NEW dir \in Directions, NEW e \in EdgeKinds
      PROVE  check_edge_slot(g, edge_storage_slot(k, dir, e)) = Ok <=> EdgeSlotWhole(g, k, dir, e)
  <2>1. PICK s \in EdgeSlots : s = edge_storage_slot(k, dir, e)
    BY EdgeSlotOfKinds
  <2>2. SlotNodeKind(s) = k /\ SlotEdgeKind(s) = e
    BY <2>1, EdgeSlotOfKinds
  <2>3. Len(g.nodes[k]) \in Nat
    BY <1>1
  <2>4. check_edge_slot(g, s) = Ok <=>
          /\ EdgeSlotSound(g.edges[s], Len(g.nodes[k]), EdgeProperty[e].typ)
          /\ AllNamed(g.edges[s].neighbors, Counted(g))
          /\ AllContentPasses(g, g.edges[s].values, EdgeProperty[e].enum)
    BY <2>2, <2>3, EdgeSlotCheck
  <2> QED BY <2>1, <2>4 DEF EdgeSlotWhole
<1>6. (\A s \in PropertySlots : check_property_slot(g, s) = Ok)
        <=> \A k \in NodeKinds, p \in PropertyKinds : PropertySlotWhole(g, k, p)
  <2>1. \A k \in NodeKinds, p \in PropertyKinds : property_storage_slot(k, p) \in PropertySlots
    BY PropertySlotOfKinds
  <2>2. \A s \in PropertySlots : \E k \in NodeKinds, p \in PropertyKinds : s = property_storage_slot(k, p)
    BY SchemaAssumption, PropertySlotReached
       DEF PropertySlots, property_storage_size, NodeKinds, PropertyKinds, property_storage_slot
  <2> QED BY <1>4, <2>1, <2>2
<1>7. (\A s \in EdgeSlots : check_edge_slot(g, s) = Ok)
        <=> \A k \in NodeKinds, dir \in Directions, e \in EdgeKinds : EdgeSlotWhole(g, k, dir, e)
  <2>1. \A k \in NodeKinds, dir \in Directions, e \in EdgeKinds : edge_storage_slot(k, dir, e) \in EdgeSlots
    BY EdgeSlotOfKinds
  <2>2. \A s \in EdgeSlots : \E k \in NodeKinds, dir \in Directions, e \in EdgeKinds : s = edge_storage_slot(k, dir, e)
    BY SchemaAssumption, EdgeSlotReached
       DEF EdgeSlots, edge_storage_size, NodeKinds, EdgeKinds, Directions, In, Out, edge_storage_slot
  <2> QED BY <1>5, <2>1, <2>2
<1>8. ASSUME \A k \in NodeKinds, dir \in Directions, e \in EdgeKinds : EdgeSlotWhole(g, k, dir, e)
      PROVE  /\ \A dir \in Directions, e \in EdgeKinds : SoundSlots(g, dir, e)
             /\ \A e \in EdgeKinds : check_half_edge_pairing(g, e) = Ok <=> Balanced(g.edges, Everywhere, e)
  <2>1. \A dir \in Directions, e \in EdgeKinds : SoundSlots(g, dir, e)
    BY <1>1, <1>8 DEF EdgeSlotWhole, SoundSlots
  <2>2. \A dir \in Directions, e \in EdgeKinds, k \in NodeKinds :
          \A i \in 1 .. Len(g.edges[edge_storage_slot(k, dir, e)].neighbors) :
            KindOf(g.edges[edge_storage_slot(k, dir, e)].neighbors[i]) \in NodeKinds
    BY <1>8 DEF EdgeSlotWhole, AllNamed, Named
  <2> QED BY <2>1, <2>2, PairingCheck
<1>9. CheckSlots(g) = Ok /\ CheckPairing(g) = Ok <=> Whole(g)
  BY <1>1, <1>3, <1>6, <1>7, <1>8 DEF Whole
<1>10. check_integrity(g) = Ok <=>
         NodeIndexError(g) = Ok /\ CheckSlots(g) = Ok /\ CheckPairing(g) = Ok
  BY <1>2 DEF check_integrity, Both
<1>11. NodeIndexError(g) = Ok <=> TotalNodes(g) <= MaxNodes
  BY DEF NodeIndexError, Ok
<1> QED BY <1>9, <1>10, <1>11

\* Every position of the items that offsets cut into runs is in the run of a node ...
LEMMA RunFound ==
  ASSUME NEW n \in Nat, NEW slot, slot.offsets \in Seq(0 .. MaxOffset), Shaped(slot.offsets, n),
         NEW p \in 1 .. LastOffset(slot.offsets)
  PROVE  \E seq \in 0 .. n - 1 : p \in Run(slot, seq)
<1>1. slot.offsets # <<>>
  BY DEF LastOffset
<1>2. /\ Len(slot.offsets) = n + 1 /\ slot.offsets[1] = 0 /\ slot.offsets[n + 1] = LastOffset(slot.offsets)
      /\ \A i \in 1 .. n + 1 : slot.offsets[i] \in 0 .. MaxOffset
  BY <1>1, ElementOfSeq DEF Shaped, LastOffset
<1>3. p \in Nat /\ 1 <= p /\ p <= slot.offsets[n + 1]
  BY <1>2, StorageAssumption
<1> DEFINE S == {i \in 1 .. n + 1 : p <= slot.offsets[i]}
<1>4. S \subseteq Nat /\ n + 1 \in S
  BY <1>3
<1>5. PICK i \in S : \A j \in S : i <= j
  <2> HIDE DEF S
  <2> QED BY <1>4, LeastOf
<1>6. i \in 1 .. n + 1 /\ p <= slot.offsets[i] /\ i # 1
  BY <1>2, <1>3, <1>5
<1>7. i - 1 \in 1 .. n + 1 /\ i - 1 \notin S
  BY <1>5, <1>6
<1>8. slot.offsets[i - 1] < p /\ slot.offsets[i - 1] \in Nat /\ slot.offsets[i] \in Nat
  BY <1>2, <1>3, <1>6, <1>7, StorageAssumption
<1>9. i - 2 \in 0 .. n - 1 /\ (i - 2) + 1 = i - 1 /\ (i - 2) + 2 = i /\ i <= n + 1
  BY <1>6
<1>10. HasOffset(slot, i - 2) /\ Start(slot, i - 2) = slot.offsets[i - 1] /\ End(slot, i - 2) = slot.offsets[i]
  BY <1>2, <1>9 DEF HasOffset, Start, End
<1>11. p \in Run(slot, i - 2)
  BY <1>3, <1>6, <1>8, <1>10 DEF Run
<1> QED BY <1>9, <1>11

\* ... of one only.
LEMMA RunIsOne ==
  ASSUME NEW n \in Nat, NEW slot, slot.offsets \in Seq(0 .. MaxOffset), Shaped(slot.offsets, n),
         NEW a \in Nat, NEW b \in Nat, NEW i \in Run(slot, a), i \in Run(slot, b)
  PROVE  a = b
<1>1. ASSUME NEW x \in Nat, NEW y \in Nat, i \in Run(slot, x), i \in Run(slot, y) PROVE ~ (x < y)
  <2>1. /\ i \in Start(slot, y) + 1 .. End(slot, y) /\ i \in Start(slot, x) + 1 .. End(slot, x)
        /\ HasOffset(slot, x) /\ HasOffset(slot, y)
    BY <1>1 DEF Run
  <2>2. slot.offsets # <<>> /\ x < n /\ y < n
    BY <2>1, RunWithin
  <2>3. ASSUME x < y PROVE FALSE
    <3>1. x + 2 \in 1 .. n + 1 /\ y + 1 \in 1 .. n + 1 /\ x + 2 <= y + 1
      BY <2>2, <2>3
    <3>2. /\ slot.offsets[x + 2] \in 0 .. MaxOffset /\ slot.offsets[y + 1] \in 0 .. MaxOffset
          /\ slot.offsets[x + 2] <= slot.offsets[y + 1]
      BY <2>2, <3>1, OffsetsOrdered
    <3>3. End(slot, x) = slot.offsets[x + 2] /\ Start(slot, y) = slot.offsets[y + 1]
      BY DEF Start, End
    <3>4. End(slot, x) \in Nat /\ Start(slot, y) \in Nat /\ End(slot, x) <= Start(slot, y)
      BY <3>2, <3>3, StorageAssumption
    <3>5. i \in Int /\ i <= End(slot, x) /\ Start(slot, y) + 1 <= i
      BY <2>1, <3>4
    <3> QED BY <3>4, <3>5
  <2> QED BY <2>3
<1>2. ~ (a < b) /\ ~ (b < a)
  BY <1>1
<1> QED BY <1>2

\* What is read at a position of a run of values.
ValueAt(slot, p) == [typ |-> slot.values.typ, key |-> slot.values.items[p]]

RunOfValues(slot, seq) == [i \in 1 .. Degree(slot, seq) |-> ValueAt(slot, Start(slot, seq) + i)]

\* A node's values of a property are those of its run, in order; a node without offsets
\* has no answer.
LEMMA ValuesOfNode ==
  ASSUME NEW g, NEW node \in NodeNames, NEW p, NEW slot, slot = g.properties[property_storage_slot(KindOf(node), p)],
         NEW n \in Nat, NEW typ, typ # "None", PropertySlotSound(slot, n, typ)
  PROVE  get_node_property(g, node, p)
           = IF HasOffset(slot, SeqOf(node)) THEN {RunOfValues(slot, SeqOf(node))} ELSE {}
<1>1. PICK seq : seq = SeqOf(node)
  OBVIOUS
<1>2. /\ slot.offsets \in Seq(0 .. MaxOffset) /\ Shaped(slot.offsets, n) /\ seq \in Nat
      /\ slot.values.typ = typ /\ slot.values.items \in Seq(Key)
      /\ LastOffset(slot.offsets) = Len(slot.values.items)
  BY <1>1, NameParts DEF PropertySlotSound, PropertyStorageSlot, StorageArray
<1>3. ArrayLen(slot.values) = Len(slot.values.items) /\ Len(slot.values.items) \in Nat
  BY <1>2 DEF ArrayLen
<1>4. CASE ~ HasOffset(slot, seq)
  BY <1>1, <1>4 DEF get_node_property, Nothing
<1>5. CASE HasOffset(slot, seq)
  <2>1. PICK a : a = Start(slot, seq)
    OBVIOUS
  <2>2. PICK b : b = End(slot, seq)
    OBVIOUS
  <2>3. a \in Nat /\ b \in Nat /\ a <= b /\ b <= Len(slot.values.items)
    BY <1>2, <1>5, <2>1, <2>2, RunWithin
  <2>4. get_node_property(g, node, p) = {iter_range(slot.values, a, b)}
    BY <1>1, <1>3, <1>5, <2>1, <2>2, <2>3 DEF get_node_property
  <2>5. iter_range(slot.values, a, b) = [i \in 1 .. b - a |-> ValueAt(slot, a + i)]
    BY <1>2, <2>3 DEF iter_range, ValueAt
  <2>6. Degree(slot, seq) = b - a
    BY <2>1, <2>2 DEF Degree
  <2> QED BY <1>1, <1>5, <2>1, <2>4, <2>5, <2>6 DEF RunOfValues
<1> QED BY <1>1, <1>4, <1>5

\* The nodes of a graph.
LEMMA NodesOf ==
  ASSUME NEW g, Whole(g)
  PROVE  /\ NodeIds(g) \subseteq NodeNames
         /\ \A node \in RawNodeId : node \in NodeIds(g) <=> Named(node, Counted(g))
         /\ \A k \in NodeKinds :
              {node \in NodeIds(g) : KindOf(node) = k} = {<<k, s>> : s \in 0 .. Len(g.nodes[k]) - 1}
<1>1. \A k \in NodeKinds : k \in Nat /\ Len(g.nodes[k]) \in Nat /\ Counted(g)[k] = Len(g.nodes[k])
  <2>1. \A k \in NodeKinds : k \in Nat
    BY SchemaAssumption DEF NodeKinds
  <2> QED BY <2>1 DEF Whole
<1>2. ASSUME NEW node \in NodeIds(g)
      PROVE  \E k \in NodeKinds : \E s \in 0 .. Len(g.nodes[k]) - 1 : node = <<k, s>>
  BY DEF NodeIds
<1>3. ASSUME NEW k \in NodeKinds, NEW s \in 0 .. Len(g.nodes[k]) - 1 PROVE <<k, s>> \in NodeIds(g)
  BY DEF NodeIds
<1>4. \A k \in NodeKinds : \A s \in 0 .. Len(g.nodes[k]) - 1 :
        s \in Nat /\ s < Len(g.nodes[k]) /\ <<k, s>> \in RawNodeId /\ KindOf(<<k, s>>) = k /\ SeqOf(<<k, s>>) = s
  <2> TAKE k \in NodeKinds
  <2> TAKE s \in 0 .. Len(g.nodes[k]) - 1
  <2>1. k \in Nat /\ Len(g.nodes[k]) \in Nat
    BY <1>1
  <2> QED BY <2>1 DEF RawNodeId, KindOf, SeqOf
<1>5. NodeIds(g) \subseteq NodeNames
  BY <1>2, <1>4 DEF NodeNames
<1>6. ASSUME NEW node \in RawNodeId PROVE node \in NodeIds(g) <=> Named(node, Counted(g))
  <2>1. PICK k \in Nat, s \in Nat : node = <<k, s>>
    BY DEF RawNodeId
  <2>2. KindOf(node) = k /\ SeqOf(node) = s
    BY <2>1 DEF KindOf, SeqOf
  <2>3. ASSUME node \in NodeIds(g) PROVE Named(node, Counted(g))
    <3>1. PICK x \in NodeKinds : \E y \in 0 .. Len(g.nodes[x]) - 1 : node = <<x, y>>
      BY <1>2, <2>3
    <3>2. PICK y \in 0 .. Len(g.nodes[x]) - 1 : node = <<x, y>>
      BY <3>1
    <3> QED BY <1>1, <1>4, <3>2 DEF Named
  <2>4. ASSUME Named(node, Counted(g)) PROVE node \in NodeIds(g)
    <3>1. k \in NodeKinds /\ s < Len(g.nodes[k]) /\ Len(g.nodes[k]) \in Nat
      BY <1>1, <2>2, <2>4 DEF Named
    <3>2. s \in 0 .. Len(g.nodes[k]) - 1
      BY <3>1
    <3> QED BY <1>3, <2>1, <3>1, <3>2
  <2> QED BY <2>3, <2>4
<1>7. ASSUME NEW k \in NodeKinds
      PROVE  {node \in NodeIds(g) : KindOf(node) = k} = {<<k, s>> : s \in 0 .. Len(g.nodes[k]) - 1}
  <2>1. \A node \in NodeIds(g) : KindOf(node) = k => \E s \in 0 .. Len(g.nodes[k]) - 1 : node = <<k, s>>
    BY <1>2, <1>4
  <2> QED BY <1>3, <1>4, <2>1
<1> QED BY <1>5, <1>6, <1>7

\* A set whose elements are each named by one element of another has as many.
LEMMA OneForEach ==
  ASSUME NEW S, IsFiniteSet(S), NEW T, NEW f \in [S -> T],
         \A x, y \in S : f[x] = f[y] => x = y, \A t \in T : \E x \in S : f[x] = t
  PROVE  IsFiniteSet(T) /\ Cardinality(T) = Cardinality(S)
<1>1. f \in Bijection(S, T)
  BY Zenon DEF Bijection, Injection, IsInjective, Surjection
<1>2. ExistsBijection(S, T)
  BY <1>1 DEF ExistsBijection
<1> QED BY <1>2, FS_Bijection

\* A walk over the first n nodes of a kind meets each half-edge of their slot once, and
\* nothing else.
EdgesMetOnce(g, k, dir, e, n) ==
  LET slot == g.edges[edge_storage_slot(k, dir, e)]
      ids == UNION {get_edges_with_deleted(g, node, e, dir) : node \in {<<k, s>> : s \in 0 .. n - 1}}
  IN  /\ Cardinality(ids) = Len(slot.neighbors)
      /\ \A id \in ids : \E s \in 0 .. n - 1 : \E p \in Run(slot, s) : id = IdAt(slot, <<k, s>>, e, dir, p)

LEMMA EdgesReadOnce ==
  ASSUME NEW g, NEW k \in NodeKinds, NEW dir \in Directions, NEW e \in EdgeKinds, NEW n \in Nat,
         EdgeSlotSound(g.edges[edge_storage_slot(k, dir, e)], n, EdgeProperty[e].typ)
  PROVE  EdgesMetOnce(g, k, dir, e, n)
<1> SUFFICES ASSUME NEW slot, slot = g.edges[edge_storage_slot(k, dir, e)],
                    EdgeSlotSound(slot, n, EdgeProperty[e].typ),
                    NEW ids, ids = UNION {get_edges_with_deleted(g, node, e, dir) : node \in {<<k, s>> : s \in 0 .. n - 1}}
             PROVE  /\ Cardinality(ids) = Len(slot.neighbors)
                    /\ \A id \in ids : \E s \in 0 .. n - 1 : \E p \in Run(slot, s) : id = IdAt(slot, <<k, s>>, e, dir, p)
  BY Zenon DEF EdgesMetOnce
<1>1. \A s \in 0 .. n - 1 : /\ s \in Nat /\ <<k, s>> \in NodeNames
                            /\ KindOf(<<k, s>>) = k /\ SeqOf(<<k, s>>) = s
  BY SchemaAssumption DEF NodeNames, RawNodeId, NodeKinds, KindOf, SeqOf
<1>2. /\ slot.offsets \in Seq(0 .. MaxOffset) /\ Shaped(slot.offsets, n)
      /\ LastOffset(slot.offsets) = Len(slot.neighbors) /\ Len(slot.neighbors) \in Nat
  <2>1. slot.neighbors \in Seq(RawNodeId)
    BY DEF EdgeSlotSound, EdgeStorageSlot
  <2> QED BY <2>1, LenProperties DEF EdgeSlotSound, EdgeStorageSlot
<1>3. ASSUME NEW s \in 0 .. n - 1
      PROVE  /\ slot = EdgeSlotOf(g, <<k, s>>, e, dir)
             /\ get_edges_with_deleted(g, <<k, s>>, e, dir) = {IdAt(slot, <<k, s>>, e, dir, p) : p \in Run(slot, s)}
  <2>1. slot = EdgeSlotOf(g, <<k, s>>, e, dir)
    BY <1>1 DEF EdgeSlotOf
  <2> QED BY <1>1, <2>1, EdgesRead
<1>4. ASSUME NEW id \in ids
      PROVE  \E s \in 0 .. n - 1 : \E p \in Run(slot, s) : id = IdAt(slot, <<k, s>>, e, dir, p)
  BY <1>3
<1>5. ASSUME NEW s \in 0 .. n - 1, NEW p \in Run(slot, s)
      PROVE  /\ IdAt(slot, <<k, s>>, e, dir, p) \in ids
             /\ Describes(IdAt(slot, <<k, s>>, e, dir, p), slot, <<k, s>>, e, dir, p)
             /\ Start(slot, s) \in Nat /\ p \in 1 .. Len(slot.neighbors)
  <2>1. IdAt(slot, <<k, s>>, e, dir, p) \in ids
    BY <1>3
  <2>2. /\ Describes(IdAt(slot, <<k, s>>, e, dir, p), slot, <<k, s>>, e, dir, p)
        /\ Start(slot, s) \in Nat
    BY <1>1, <1>3, IdRead
  <2>3. p \in 1 .. Len(slot.neighbors)
    BY <1>1, RunPlaces DEF Within
  <2> QED BY <2>1, <2>2, <2>3
<1> DEFINE places == 1 .. Len(slot.neighbors)
           at(p) == CHOOSE s \in 0 .. n - 1 : p \in Run(slot, s)
           f == [p \in places |-> IdAt(slot, <<k, at(p)>>, e, dir, p)]
<1>6. \A p \in places : at(p) \in 0 .. n - 1 /\ p \in Run(slot, at(p))
  <2> TAKE p \in places
  <2>1. \E s \in 0 .. n - 1 : p \in Run(slot, s)
    BY <1>2, RunFound
  <2> QED BY <2>1
<1>7. \A s \in 0 .. n - 1 : \A p \in Run(slot, s) : p \in places /\ at(p) = s
  <2> TAKE s \in 0 .. n - 1
  <2> TAKE p \in Run(slot, s)
  <2>1. p \in places
    BY <1>5
  <2>2. at(p) \in Nat /\ p \in Run(slot, at(p)) /\ s \in Nat
    BY <1>6, <2>1
  <2> HIDE DEF at
  <2>3. at(p) = s
    BY <1>2, <2>2, RunIsOne
  <2> QED BY <2>1, <2>3
<1> HIDE DEF at
<1>8. f \in [places -> ids] /\ \A p \in places : f[p] = IdAt(slot, <<k, at(p)>>, e, dir, p)
  BY <1>5, <1>6
<1> HIDE DEF f
<1>9. ASSUME NEW p \in places, NEW q \in places, f[p] = f[q] PROVE p = q
  <2>1. PICK id : id = f[p]
    OBVIOUS
  <2>2. PICK s \in 0 .. n - 1 : s = at(p) /\ p \in Run(slot, s)
    BY <1>6
  <2>3. PICK t \in 0 .. n - 1 : t = at(q) /\ q \in Run(slot, t)
    BY <1>6
  <2>4. Describes(id, slot, <<k, s>>, e, dir, p) /\ Describes(id, slot, <<k, t>>, e, dir, q)
    BY <1>5, <1>8, <1>9, <2>1, <2>2, <2>3
  <2>5. <<k, s>> = <<k, t>>
    BY <2>4 DEF Describes
  <2>6. s = t
    BY <2>5
  <2>7. SeqOf(<<k, s>>) = s
    BY <1>1
  <2>8. /\ id.seq = p - Start(slot, SeqOf(<<k, s>>)) - 1
        /\ id.seq = q - Start(slot, SeqOf(<<k, t>>)) - 1
    BY <2>4, Zenon DEF Describes
  <2>9. p - Start(slot, s) - 1 = q - Start(slot, s) - 1
    BY <2>6, <2>7, <2>8, Zenon
  <2>10. p \in Nat /\ q \in Nat
    OBVIOUS
  <2>11. Start(slot, s) \in Nat
    BY <1>5, <2>2, Zenon
  <2>12. \A a, b, c \in Nat : a - c - 1 = b - c - 1 => a = b
    OBVIOUS
  <2> QED BY <2>9, <2>10, <2>11, <2>12, Zenon
<1> HIDE DEF places
<1>10. \A id \in ids : \E p \in places : f[p] = id
  <2> TAKE id \in ids
  <2>1. PICK s \in 0 .. n - 1 : \E p \in Run(slot, s) : id = IdAt(slot, <<k, s>>, e, dir, p)
    BY <1>4, Zenon
  <2>2. PICK p \in Run(slot, s) : id = IdAt(slot, <<k, s>>, e, dir, p)
    BY <2>1, Zenon
  <2>3. p \in places /\ at(p) = s
    BY <1>7, <2>2, Zenon
  <2>4. f[p] = IdAt(slot, <<k, at(p)>>, e, dir, p)
    BY <1>8, <2>3, Zenon
  <2> QED BY <2>2, <2>3, <2>4, Zenon
<1>11. \A p, q \in places : f[p] = f[q] => p = q
  <2> TAKE p, q \in places
  <2> HAVE f[p] = f[q]
  <2> QED BY <1>9, Zenon
<1>12. IsFiniteSet(places) /\ Cardinality(places) = Len(slot.neighbors)
  <2>1. PICK m \in Nat : m = Len(slot.neighbors)
    BY <1>2
  <2>2. IsFiniteSet(1 .. m) /\ Cardinality(1 .. m) = m
    BY FS_Interval
  <2> QED BY <2>1, <2>2 DEF places
<1>13. Cardinality(ids) = Cardinality(places)
  BY <1>8, <1>10, <1>11, <1>12, OneForEach, Zenon
<1> QED BY <1>4, <1>12, <1>13, Zenon

\* The half-edges of a node are counted without being met, and those that are left are the
\* ones whose other end is not deleted.
EdgesCountedRight(g, node, e, dir) ==
  LET all == get_edges_with_deleted(g, node, e, dir)
  IN  /\ IsFiniteSet(all) /\ get_edges_count_with_deleted(g, node, e, dir) = {Cardinality(all)}
      /\ get_edges_count(g, node, e, dir)
           = Cardinality(all) - Cardinality({id \in all : node_is_deleted(g, Neighbor(id))})

LEMMA EdgesCounted ==
  ASSUME NEW g, NEW node \in NodeNames, NEW e, NEW dir \in Directions, NEW n \in Nat, NEW typ,
         EdgeSlotSound(EdgeSlotOf(g, node, e, dir), n, typ)
  PROVE  EdgesCountedRight(g, node, e, dir)
<1> SUFFICES ASSUME NEW slot, slot = EdgeSlotOf(g, node, e, dir), EdgeSlotSound(slot, n, typ),
                    NEW all, all = get_edges_with_deleted(g, node, e, dir)
             PROVE  /\ IsFiniteSet(all) /\ get_edges_count_with_deleted(g, node, e, dir) = {Cardinality(all)}
                    /\ get_edges_count(g, node, e, dir)
                         = Cardinality(all) - Cardinality({id \in all : node_is_deleted(g, Neighbor(id))})
  BY Zenon DEF EdgesCountedRight
<1>1. PICK seq : seq = SeqOf(node)
  OBVIOUS
<1>2. /\ slot.offsets \in Seq(0 .. MaxOffset) /\ Shaped(slot.offsets, n) /\ seq \in Nat
      /\ slot.neighbors \in Seq(RawNodeId) /\ LastOffset(slot.offsets) = Len(slot.neighbors)
  BY <1>1, NameParts DEF EdgeSlotSound, EdgeStorageSlot
<1>3. all = {IdAt(slot, node, e, dir, p) : p \in Run(slot, seq)}
  BY <1>1, EdgesRead
<1>4. \A p \in Run(slot, seq) : /\ IdAt(slot, node, e, dir, p).seq = p - Start(slot, seq) - 1
                                /\ p \in Nat /\ Start(slot, seq) \in Nat
  <2> TAKE p \in Run(slot, seq)
  <2>1. PICK id : id = IdAt(slot, node, e, dir, p)
    OBVIOUS
  <2>2. Describes(id, slot, node, e, dir, p) /\ p \in Nat /\ Start(slot, SeqOf(node)) \in Nat
    BY <1>1, <2>1, IdRead
  <2> QED BY <1>1, <2>1, <2>2 DEF Describes
<1>5. IsFiniteSet(Run(slot, seq))
  <2>1. Within(Run(slot, seq), Len(slot.neighbors)) /\ Len(slot.neighbors) \in Nat
    BY <1>2, RunPlaces
  <2> QED BY <2>1, PositionsFinite
<1> DEFINE f == [p \in Run(slot, seq) |-> IdAt(slot, node, e, dir, p)]
<1>6. f \in [Run(slot, seq) -> all] /\ \A p \in Run(slot, seq) : f[p] = IdAt(slot, node, e, dir, p)
  BY <1>3
<1> HIDE DEF f
<1>7. \A p, q \in Run(slot, seq) : f[p] = f[q] => p = q
  <2> TAKE p, q \in Run(slot, seq)
  <2> HAVE f[p] = f[q]
  <2>1. p - Start(slot, seq) - 1 = q - Start(slot, seq) - 1
    BY <1>4, <1>6, Zenon
  <2>2. \A a, b, c \in Nat : a - c - 1 = b - c - 1 => a = b
    OBVIOUS
  <2> QED BY <1>4, <2>1, <2>2, Zenon
<1>8. \A id \in all : \E p \in Run(slot, seq) : f[p] = id
  BY <1>3, <1>6, Zenon
<1>9. IsFiniteSet(all) /\ Cardinality(all) = Cardinality(Run(slot, seq))
  <2>1. f \in [Run(slot, seq) -> all]
    BY <1>6
  <2> QED BY <1>5, <1>7, <1>8, <2>1, OneForEach
<1>10. get_edges_count_with_deleted(g, node, e, dir) = {Cardinality(Run(slot, seq))}
  <2>1. get_edges_count_with_deleted(g, node, e, dir)
          = LET range == get_edges_offset(slot, node)
            IN  IF range = Nothing THEN {0} ELSE {r[2] - r[1] : r \in {r \in range : r[1] <= r[2]}}
    BY DEF get_edges_count_with_deleted
  <2>2. CASE HasOffset(slot, seq)
    <3>1. PICK a : a = Start(slot, seq)
      OBVIOUS
    <3>2. PICK b : b = End(slot, seq)
      OBVIOUS
    <3>3. a \in Nat /\ b \in Nat /\ a <= b /\ slot.offsets # <<>>
      BY <1>2, <2>2, <3>1, <3>2, RunWithin
    <3>4. get_edges_offset(slot, node) = {<<a, b>>}
      BY <1>1, <2>2, <3>1, <3>2, <3>3 DEF get_edges_offset
    <3>5. Cardinality(Run(slot, seq)) = b - a
      <4>1. Run(slot, seq) = a + 1 .. b
        BY <2>2, <3>1, <3>2 DEF Run
      <4>2. Cardinality(a + 1 .. b) = IF a + 1 > b THEN 0 ELSE b - (a + 1) + 1
        BY <3>3, FS_Interval
      <4> QED BY <3>3, <4>1, <4>2
    <3>6. {r \in {<<a, b>>} : r[1] <= r[2]} = {<<a, b>>}
      BY <3>3
    <3>7. {r[2] - r[1] : r \in {<<a, b>>}} = {b - a}
      OBVIOUS
    <3> QED BY <2>1, <3>4, <3>5, <3>6, <3>7 DEF Nothing
  <2>3. CASE ~ HasOffset(slot, seq)
    <3>1. Cardinality(Run(slot, seq)) = 0
      BY <2>3, FS_EmptySet DEF Run
    <3>2. CASE slot.offsets = <<>>
      <4>1. get_edges_offset(slot, node) = {<<0, 0>>}
        BY <3>2 DEF get_edges_offset
      <4>2. {r \in {<<0, 0>>} : r[1] <= r[2]} = {<<0, 0>>}
        OBVIOUS
      <4>3. {r[2] - r[1] : r \in {<<0, 0>>}} = {0}
        OBVIOUS
      <4> QED BY <2>1, <3>1, <4>1, <4>2, <4>3 DEF Nothing
    <3>3. CASE slot.offsets # <<>>
      BY <1>1, <2>1, <2>3, <3>1, <3>3 DEF get_edges_offset, Nothing
    <3> QED BY <3>2, <3>3
  <2> QED BY <2>2, <2>3
<1> DEFINE gone == {id \in all : node_is_deleted(g, Neighbor(id))}
<1>11. get_edges_count(g, node, e, dir) = Cardinality(all \ gone)
  <2>1. get_edges(g, node, e, dir) = all \ gone
    BY DEF get_edges
  <2> QED BY <2>1 DEF get_edges_count
<1>12. gone \subseteq all
  OBVIOUS
<1> HIDE DEF gone
<1>13. Cardinality(all \ gone) = Cardinality(all) - Cardinality(gone)
  <2>1. all \cap gone = gone
    BY <1>12
  <2>2. IsFiniteSet(all)
    BY <1>9
  <2>3. Cardinality(all \ gone) = Cardinality(all) - Cardinality(all \cap gone)
    BY <2>2, FS_Difference, Zenon
  <2> QED BY <2>1, <2>3, Zenon
<1> QED BY <1>9, <1>10, <1>11, <1>13 DEF gone

\* A walk over the first n nodes of a kind meets each value of a property once, and
\* nothing else.
ValuesMetOnce(g, k, p, n) ==
  LET slot == g.properties[property_storage_slot(k, p)]
      read == UNION {UNION {{<<node, i, run[i]>> : i \in DOMAIN run} : run \in get_node_property(g, node, p)} :
                       node \in {<<k, s>> : s \in 0 .. n - 1}}
  IN  /\ Cardinality(read) = Len(slot.values.items)
      /\ \A r \in read : \E i \in 1 .. Len(slot.values.items) : r[3] = ValueAt(slot, i)

LEMMA ValuesReadOnce ==
  ASSUME NEW g, NEW k \in NodeKinds, NEW p, NEW n \in Nat, NEW typ, typ # "None",
         PropertySlotSound(g.properties[property_storage_slot(k, p)], n, typ)
  PROVE  ValuesMetOnce(g, k, p, n)
<1> SUFFICES ASSUME NEW slot, slot = g.properties[property_storage_slot(k, p)], PropertySlotSound(slot, n, typ),
                    NEW read, read = UNION {UNION {{<<node, i, run[i]>> : i \in DOMAIN run} :
                                                     run \in get_node_property(g, node, p)} :
                                              node \in {<<k, s>> : s \in 0 .. n - 1}}
             PROVE  /\ Cardinality(read) = Len(slot.values.items)
                    /\ \A r \in read : \E i \in 1 .. Len(slot.values.items) : r[3] = ValueAt(slot, i)
  BY Zenon DEF ValuesMetOnce
<1>1. \A s \in 0 .. n - 1 : /\ s \in Nat /\ <<k, s>> \in NodeNames
                            /\ KindOf(<<k, s>>) = k /\ SeqOf(<<k, s>>) = s
  BY SchemaAssumption DEF NodeNames, RawNodeId, NodeKinds, KindOf, SeqOf
<1>2. /\ slot.offsets \in Seq(0 .. MaxOffset) /\ Shaped(slot.offsets, n)
      /\ LastOffset(slot.offsets) = Len(slot.values.items) /\ Len(slot.values.items) \in Nat
  <2>1. slot.values.items \in Seq(Key)
    BY DEF PropertySlotSound, PropertyStorageSlot, StorageArray
  <2> QED BY <2>1, LenProperties DEF PropertySlotSound, PropertyStorageSlot
<1> DEFINE ReadOf(s) == UNION {{<<<<k, s>>, i, run[i]>> : i \in DOMAIN run} : run \in get_node_property(g, <<k, s>>, p)}
           Told(s, i) == <<<<k, s>>, i - Start(slot, s), ValueAt(slot, i)>>
<1>3. ASSUME NEW s \in 0 .. n - 1 PROVE ReadOf(s) = {Told(s, i) : i \in Run(slot, s)}
  <2>1. slot = g.properties[property_storage_slot(KindOf(<<k, s>>), p)] /\ <<k, s>> \in NodeNames /\ SeqOf(<<k, s>>) = s
    BY <1>1
  <2>2. CASE ~ HasOffset(slot, s)
    <3>1. get_node_property(g, <<k, s>>, p) = {}
      BY <2>1, <2>2, ValuesOfNode
    <3> QED BY <2>2, <3>1 DEF Run
  <2>3. CASE HasOffset(slot, s)
    <3>1. PICK a : a = Start(slot, s)
      OBVIOUS
    <3>2. PICK b : b = End(slot, s)
      OBVIOUS
    <3>3. /\ a \in Nat /\ b \in Nat /\ a <= b
          /\ get_node_property(g, <<k, s>>, p) = {[i \in 1 .. b - a |-> ValueAt(slot, a + i)]}
      <4>1. a \in Nat /\ b \in Nat /\ a <= b
        BY <1>1, <1>2, <2>3, <3>1, <3>2, RunWithin
      <4>2. get_node_property(g, <<k, s>>, p) = {RunOfValues(slot, s)}
        <5>1. PICK node \in NodeNames : node = <<k, s>>
          BY <2>1
        <5>2. slot = g.properties[property_storage_slot(KindOf(node), p)] /\ SeqOf(node) = s
          BY <2>1, <5>1, Zenon
        <5>3. get_node_property(g, node, p) = IF HasOffset(slot, SeqOf(node)) THEN {RunOfValues(slot, SeqOf(node))} ELSE {}
          BY <5>2, ValuesOfNode, Zenon
        <5> QED BY <2>3, <5>1, <5>2, <5>3, Zenon
      <4> QED BY <3>1, <3>2, <4>1, <4>2 DEF RunOfValues, Degree
    <3>4. PICK run : run = [i \in 1 .. b - a |-> ValueAt(slot, a + i)]
      OBVIOUS
    <3>5. ReadOf(s) = {<<<<k, s>>, i, run[i]>> : i \in 1 .. b - a}
      <4>1. DOMAIN run = 1 .. b - a
        BY <3>4
      <4>2. get_node_property(g, <<k, s>>, p) = {run}
        BY <3>3, <3>4
      <4>3. ReadOf(s) = {<<<<k, s>>, i, run[i]>> : i \in DOMAIN run}
        BY <4>2
      <4> QED BY <4>1, <4>3, Zenon
    <3>6. Run(slot, s) = a + 1 .. b
      BY <2>3, <3>1, <3>2 DEF Run
    <3>7. ASSUME NEW i \in 1 .. b - a PROVE a + i \in a + 1 .. b /\ <<<<k, s>>, i, run[i]>> = Told(s, a + i)
      <4>1. a + i \in a + 1 .. b /\ (a + i) - a = i
        BY <3>3
      <4>2. run[i] = ValueAt(slot, a + i)
        BY <3>4
      <4> QED BY <3>1, <4>1, <4>2
    <3>8. ASSUME NEW i \in a + 1 .. b PROVE i - a \in 1 .. b - a /\ <<<<k, s>>, i - a, run[i - a]>> = Told(s, i)
      <4>1. i - a \in 1 .. b - a /\ a + (i - a) = i
        BY <3>3
      <4> QED BY <3>7, <4>1
    <3> HIDE DEF ReadOf, Told
    <3>9. \A r \in ReadOf(s) : \E i \in a + 1 .. b : r = Told(s, i)
      BY <3>5, <3>7
    <3>10. \A i \in a + 1 .. b : Told(s, i) \in ReadOf(s)
      BY <3>5, <3>8
    <3> QED BY <3>6, <3>9, <3>10
  <2> QED BY <2>2, <2>3
<1> DEFINE ReadAlong(node) == UNION {{<<node, i, run[i]>> : i \in DOMAIN run} : run \in get_node_property(g, node, p)}
<1>4. read = UNION {ReadOf(s) : s \in 0 .. n - 1}
  <2>1. read = UNION {ReadAlong(node) : node \in {<<k, s>> : s \in 0 .. n - 1}}
    BY Zenon
  <2>2. \A s : ReadAlong(<<k, s>>) = ReadOf(s)
    BY Zenon
  <2> HIDE DEF ReadAlong, ReadOf
  <2> QED BY <2>1, <2>2
<1> HIDE DEF ReadAlong, ReadOf
<1>5. ASSUME NEW r \in read PROVE \E s \in 0 .. n - 1 : \E i \in Run(slot, s) : r = Told(s, i)
  BY <1>3, <1>4
<1>6. ASSUME NEW s \in 0 .. n - 1, NEW i \in Run(slot, s)
      PROVE  Told(s, i) \in read /\ i \in 1 .. Len(slot.values.items) /\ Start(slot, s) \in Nat
  <2>1. Told(s, i) \in read
    BY <1>3, <1>4
  <2>2. HasOffset(slot, s) /\ i \in Start(slot, s) + 1 .. End(slot, s)
    BY DEF Run
  <2>3. /\ Start(slot, s) \in Nat /\ End(slot, s) \in Nat /\ End(slot, s) <= Len(slot.values.items)
        /\ Len(slot.values.items) \in Nat
    BY <1>1, <1>2, <2>2, RunWithin
  <2> QED BY <2>1, <2>2, <2>3
<1> DEFINE places == 1 .. Len(slot.values.items)
           at(i) == CHOOSE s \in 0 .. n - 1 : i \in Run(slot, s)
           f == [i \in places |-> Told(at(i), i)]
<1>7. \A i \in places : at(i) \in 0 .. n - 1 /\ i \in Run(slot, at(i))
  <2> TAKE i \in places
  <2>1. \E s \in 0 .. n - 1 : i \in Run(slot, s)
    BY <1>2, RunFound
  <2> QED BY <2>1
<1>8. \A s \in 0 .. n - 1 : \A i \in Run(slot, s) : i \in places /\ at(i) = s
  <2> TAKE s \in 0 .. n - 1
  <2> TAKE i \in Run(slot, s)
  <2>1. i \in places
    BY <1>6
  <2>2. at(i) \in Nat /\ i \in Run(slot, at(i)) /\ s \in Nat
    BY <1>7, <2>1
  <2> HIDE DEF at
  <2>3. at(i) = s
    BY <1>2, <2>2, RunIsOne
  <2> QED BY <2>1, <2>3
<1> HIDE DEF at
<1>9. f \in [places -> read] /\ \A i \in places : f[i] = Told(at(i), i)
  <2> HIDE DEF Told
  <2> QED BY <1>6, <1>7
<1> HIDE DEF f
<1>10. ASSUME NEW i \in places, NEW j \in places, f[i] = f[j] PROVE i = j
  <2>1. Told(at(i), i) = Told(at(j), j)
    BY <1>9, <1>10
  <2>2. at(i) = at(j) /\ i - Start(slot, at(i)) = j - Start(slot, at(j))
    BY <2>1
  <2>3. i \in Nat /\ j \in Nat
    OBVIOUS
  <2>4. Start(slot, at(i)) \in Nat
    BY <1>6, <1>7, Zenon
  <2>5. \A a, b, c \in Nat : a - c = b - c => a = b
    OBVIOUS
  <2> QED BY <2>2, <2>3, <2>4, <2>5, Zenon
<1> HIDE DEF Told
<1>11. \A r \in read : \E i \in places : f[i] = r
  <2> TAKE r \in read
  <2>1. PICK s \in 0 .. n - 1 : \E i \in Run(slot, s) : r = Told(s, i)
    BY <1>5, Zenon
  <2>2. PICK i \in Run(slot, s) : r = Told(s, i)
    BY <2>1, Zenon
  <2>3. i \in places /\ at(i) = s
    BY <1>8, <2>2, Zenon
  <2>4. f[i] = Told(at(i), i)
    BY <1>9, <2>3, Zenon
  <2> QED BY <2>2, <2>3, <2>4, Zenon
<1> HIDE DEF places
<1>12. \A i, j \in places : f[i] = f[j] => i = j
  <2> TAKE i, j \in places
  <2> HAVE f[i] = f[j]
  <2> QED BY <1>10, Zenon
<1>13. IsFiniteSet(places) /\ Cardinality(places) = Len(slot.values.items)
  <2>1. PICK m \in Nat : m = Len(slot.values.items)
    BY <1>2
  <2>2. IsFiniteSet(1 .. m) /\ Cardinality(1 .. m) = m
    BY FS_Interval
  <2> QED BY <2>1, <2>2 DEF places
<1>14. Cardinality(read) = Cardinality(places)
  BY <1>9, <1>11, <1>12, <1>13, OneForEach, Zenon
<1>15. \A r \in read : \E i \in places : r[3] = ValueAt(slot, i)
  <2> TAKE r \in read
  <2>1. PICK i \in places : f[i] = r
    BY <1>11
  <2>2. r = Told(at(i), i)
    BY <1>9, <2>1
  <2> QED BY <2>2 DEF Told
<1> QED BY <1>13, <1>14, <1>15 DEF places

\* h adds up f over the subsets of D, taking one element out at a time.
Adds(h, f, D) ==
  h = [s \in SUBSET D |-> IF s = {} THEN 0 ELSE LET x == CHOOSE y \in s : TRUE IN f[x] + h[s \ {x}]]

\* The sum of the sizes of disjoint sets is the size of their union.
LEMMA SumOfSizes ==
  ASSUME NEW D, IsFiniteSet(D), NEW M, NEW f \in [D -> Nat],
         \A i \in D : IsFiniteSet(M[i]) /\ f[i] = Cardinality(M[i]),
         \A i, j \in D : i # j => M[i] \cap M[j] = {}
  PROVE  SumFunction(f) = Cardinality(UNION {M[i] : i \in D})
<1>1. SumFunction(f) = (CHOOSE sums : Adds(sums, f, D))[D]
  BY DEF SumFunction, SumFunctionOnSet, FoldFunctionOnSet, MapThenFoldSet, Adds
<1> DEFINE All(s) == UNION {M[i] : i \in s}
           g == [s \in SUBSET D |-> Cardinality(All(s))]
<1>2. ASSUME NEW s \in SUBSET D, s # {}, NEW x, x = (CHOOSE y \in s : TRUE)
      PROVE  /\ x \in s /\ x \in D /\ s \ {x} \in SUBSET D /\ IsFiniteSet(s)
             /\ Cardinality(All(s)) = f[x] + Cardinality(All(s \ {x}))
  <2>1. x \in s /\ x \in D /\ s \ {x} \in SUBSET D
    BY <1>2
  <2>2. IsFiniteSet(s) /\ IsFiniteSet(s \ {x})
    BY FS_Subset
  <2>3. IsFiniteSet(All(s \ {x}))
    <3>1. IsFiniteSet({M[i] : i \in s \ {x}})
      <4> DEFINE T == {M[i] : i \in s \ {x}}
                 m == [i \in s \ {x} |-> M[i]]
      <4>1. m \in Surjection(s \ {x}, T)
        BY DEF Surjection
      <4> HIDE DEF T, m
      <4>2. IsFiniteSet(T)
        BY <2>2, <4>1, FS_Surjection
      <4> QED BY <4>2 DEF T
    <3>2. \A T \in {M[i] : i \in s \ {x}} : IsFiniteSet(T)
      BY <2>1
    <3> QED BY <3>1, <3>2, FS_UNION
  <2>4. All(s) = M[x] \cup All(s \ {x})
    BY <2>1
  <2>5. M[x] \cap All(s \ {x}) = {}
    BY <2>1
  <2> HIDE DEF All
  <2>6. IsFiniteSet(M[x]) /\ Cardinality(M[x]) = f[x]
    BY <2>1
  <2>7. Cardinality(M[x] \cup All(s \ {x})) = Cardinality(M[x]) + Cardinality(All(s \ {x})) - Cardinality({})
    <3>1. \A S, T : IsFiniteSet(S) /\ IsFiniteSet(T) =>
                     Cardinality(S \cup T) = Cardinality(S) + Cardinality(T) - Cardinality(S \cap T)
      BY FS_Union
    <3>2. Cardinality(M[x] \cup All(s \ {x}))
            = Cardinality(M[x]) + Cardinality(All(s \ {x})) - Cardinality(M[x] \cap All(s \ {x}))
      BY <2>3, <2>6, <3>1
    <3> QED BY <2>5, <3>2
  <2>8. Cardinality({}) = 0 /\ Cardinality(All(s \ {x})) \in Nat /\ f[x] \in Nat
    BY <2>1, <2>3, FS_EmptySet, FS_CardinalityType
  <2> QED BY <2>1, <2>2, <2>4, <2>6, <2>7, <2>8
<1>3. Cardinality(All({})) = 0
  BY FS_EmptySet
<1>4. Adds(g, f, D)
  <2> HIDE DEF All
  <2>1. \A s \in SUBSET D : Cardinality(All(s))
          = IF s = {} THEN 0 ELSE LET x == CHOOSE y \in s : TRUE IN f[x] + g[s \ {x}]
    <3> TAKE s \in SUBSET D
    <3>1. CASE s = {}
      BY <1>3, <3>1
    <3>2. CASE s # {}
      <4>1. PICK x : x = CHOOSE y \in s : TRUE
        OBVIOUS
      <4>2. s \ {x} \in SUBSET D /\ Cardinality(All(s)) = f[x] + Cardinality(All(s \ {x}))
        BY <1>2, <3>2, <4>1
      <4>3. g[s \ {x}] = Cardinality(All(s \ {x}))
        BY <4>2
      <4> HIDE DEF g
      <4> QED BY <3>2, <4>1, <4>2, <4>3
    <3> QED BY <3>1, <3>2
  <2>2. g = [s \in SUBSET D |-> IF s = {} THEN 0 ELSE LET x == CHOOSE y \in s : TRUE IN f[x] + g[s \ {x}]]
    BY <2>1, Zenon
  <2> QED BY <2>2 DEF Adds
<1> HIDE DEF g
<1>5. PICK h : h = (CHOOSE sums : Adds(sums, f, D)) /\ Adds(h, f, D)
  BY <1>4
<1> DEFINE Right == {n \in Nat : \A s \in SUBSET D : Cardinality(s) = n => h[s] = Cardinality(All(s))}
<1> HIDE DEF All
<1>6. h[{}] = 0 /\ \A s \in SUBSET D : s # {} => h[s] = LET x == CHOOSE y \in s : TRUE IN f[x] + h[s \ {x}]
  <2>1. h = [s \in SUBSET D |-> IF s = {} THEN 0 ELSE LET x == CHOOSE y \in s : TRUE IN f[x] + h[s \ {x}]]
    BY <1>5, Zenon DEF Adds
  <2>2. {} \in SUBSET D
    OBVIOUS
  <2>3. \A s \in SUBSET D : h[s] = IF s = {} THEN 0 ELSE LET x == CHOOSE y \in s : TRUE IN f[x] + h[s \ {x}]
    <3>1. PICK k : k = [s \in SUBSET D |-> IF s = {} THEN 0 ELSE LET x == CHOOSE y \in s : TRUE IN f[x] + h[s \ {x}]]
      OBVIOUS
    <3>2. \A s \in SUBSET D : k[s] = IF s = {} THEN 0 ELSE LET x == CHOOSE y \in s : TRUE IN f[x] + h[s \ {x}]
      BY <3>1
    <3> QED BY <2>1, <3>1, <3>2, Zenon
  <2> QED BY <2>2, <2>3, Zenon
<1>7. 0 \in Right
  <2> SUFFICES ASSUME NEW s \in SUBSET D, Cardinality(s) = 0 PROVE h[s] = Cardinality(All(s))
    OBVIOUS
  <2>1. s = {}
    BY FS_Subset, FS_EmptySet
  <2> QED BY <1>3, <1>6, <2>1
<1>8. ASSUME NEW n \in Nat, n \in Right PROVE n + 1 \in Right
  <2> SUFFICES ASSUME NEW s \in SUBSET D, Cardinality(s) = n + 1 PROVE h[s] = Cardinality(All(s))
    OBVIOUS
  <2>1. s # {}
    BY FS_EmptySet
  <2>2. PICK x : x = CHOOSE y \in s : TRUE
    OBVIOUS
  <2>3. /\ x \in s /\ s \ {x} \in SUBSET D /\ IsFiniteSet(s)
        /\ Cardinality(All(s)) = f[x] + Cardinality(All(s \ {x}))
    BY <1>2, <2>1, <2>2
  <2>4. Cardinality(s \ {x}) = n
    <3>1. IsFiniteSet(s) /\ x \in s
      BY <2>3
    <3>2. Cardinality(s \ {x}) = Cardinality(s) - 1
      BY <3>1, FS_RemoveElement, Zenon
    <3> QED BY <3>2
  <2>5. h[s \ {x}] = Cardinality(All(s \ {x}))
    BY <1>8, <2>3, <2>4
  <2>6. h[s] = f[x] + h[s \ {x}]
    BY <1>6, <2>1, <2>2, Zenon
  <2> QED BY <2>3, <2>5, <2>6
<1>9. Nat \subseteq Right
  BY <1>7, <1>8, FromZero
<1>10. h[D] = Cardinality(All(D))
  <2>1. Cardinality(D) \in Nat /\ D \in SUBSET D
    BY FS_CardinalityType
  <2> QED BY <1>9, <2>1
<1> QED BY <1>1, <1>5, <1>10 DEF All

\* A graph counts its nodes kind by kind.
LEMMA NodesCounted ==
  ASSUME NEW g \in Graph, Whole(g)
  PROVE  node_count(g) = Cardinality(UNION {nodes_by_kind(g, kind) : kind \in NodeKinds})
<1> DEFINE M == [k \in NodeKinds |-> nodes_by_kind(g, k)]
           f == [k \in NodeKinds |-> node_count_by_kind(g, k)]
<1>1. IsFiniteSet(NodeKinds)
  BY SchemaAssumption, FS_Interval DEF NodeKinds
<1>2. ASSUME NEW k \in NodeKinds
      PROVE  /\ IsFiniteSet(nodes_by_kind(g, k)) /\ node_count_by_kind(g, k) \in Nat
             /\ node_count_by_kind(g, k) = Cardinality(nodes_by_kind(g, k))
  <2>1. PICK nodes : nodes = g.nodes[k]
    OBVIOUS
  <2>2. nodes \in Seq(BOOLEAN) /\ Len(nodes) \in Nat /\ DOMAIN nodes = 1 .. Len(nodes)
    <3>1. nodes \in Seq(BOOLEAN)
      BY <2>1 DEF Graph
    <3> QED BY <3>1, LenProperties
  <2>3. nodes_by_kind(g, k) = {node \in {<<k, s>> : s \in 0 .. Len(nodes) - 1} : ~ node_is_deleted(g, node)}
    <3>1. {node \in NodeIds(g) : KindOf(node) = k} = {<<k, s>> : s \in 0 .. Len(nodes) - 1}
      BY <2>1, NodesOf
    <3>2. nodes_by_kind(g, k) = {node \in {node \in NodeIds(g) : KindOf(node) = k} : ~ node_is_deleted(g, node)}
      BY DEF nodes_by_kind
    <3> QED BY <3>1, <3>2, Zenon
  <2>4. ASSUME NEW i \in 1 .. Len(nodes)
        PROVE  node_is_deleted(g, <<k, i - 1>>) <=> nodes[i]
    <3>1. KindOf(<<k, i - 1>>) = k /\ SeqOf(<<k, i - 1>>) = i - 1
      BY DEF KindOf, SeqOf
    <3>2. i - 1 < Len(nodes) /\ (i - 1) + 1 = i
      BY <2>2
    <3>3. nodes[i] \in BOOLEAN
      BY <2>2, ElementOfSeq
    <3> QED BY <2>1, <3>1, <3>2, <3>3 DEF node_is_deleted
  <2> DEFINE live == {i \in DOMAIN nodes : ~ nodes[i]}
             m == [i \in live |-> <<k, i - 1>>]
  <2>5. IsFiniteSet(live) /\ node_count_by_kind(g, k) = Cardinality(live)
    <3>1. Within(live, Len(nodes))
      BY <2>2 DEF Within
    <3>2. node_count_by_kind(g, k) = Cardinality(live)
      BY <2>1 DEF node_count_by_kind
    <3> QED BY <2>2, <3>1, <3>2, PositionsFinite
  <2>6. \A i \in live : i \in 1 .. Len(nodes) /\ ~ nodes[i] /\ i \in Nat
    BY <2>2
  <2>7. \A i \in 1 .. Len(nodes) : ~ nodes[i] => i \in live
    BY <2>2
  <2> HIDE DEF live
  <2>8. \A i \in live : <<k, i - 1>> \in nodes_by_kind(g, k)
    <3> TAKE i \in live
    <3>1. i - 1 \in 0 .. Len(nodes) - 1
      BY <2>2, <2>6
    <3>2. ~ node_is_deleted(g, <<k, i - 1>>)
      BY <2>4, <2>6
    <3> QED BY <2>3, <3>1, <3>2
  <2>9. \A node \in nodes_by_kind(g, k) : \E i \in live : <<k, i - 1>> = node
    <3> TAKE node \in nodes_by_kind(g, k)
    <3>1. PICK s \in 0 .. Len(nodes) - 1 : node = <<k, s>> /\ ~ node_is_deleted(g, node)
      BY <2>3
    <3>2. s + 1 \in 1 .. Len(nodes) /\ (s + 1) - 1 = s
      BY <2>2
    <3>3. ~ nodes[s + 1]
      BY <2>4, <3>1, <3>2
    <3> QED BY <2>7, <3>1, <3>2, <3>3
  <2>10. m \in [live -> nodes_by_kind(g, k)] /\ \A i \in live : m[i] = <<k, i - 1>>
    BY <2>8
  <2> HIDE DEF m
  <2>11. \A i, j \in live : m[i] = m[j] => i = j
    BY <2>6, <2>10
  <2>12. \A node \in nodes_by_kind(g, k) : \E i \in live : m[i] = node
    BY <2>9, <2>10
  <2>13. IsFiniteSet(nodes_by_kind(g, k)) /\ Cardinality(nodes_by_kind(g, k)) = Cardinality(live)
    BY <2>5, <2>10, <2>11, <2>12, OneForEach, Zenon
  <2> QED BY <2>5, <2>13, FS_CardinalityType
<1>3. f \in [NodeKinds -> Nat] /\ \A k \in NodeKinds : IsFiniteSet(M[k]) /\ f[k] = Cardinality(M[k])
  BY <1>2
<1>4. \A i, j \in NodeKinds : i # j => M[i] \cap M[j] = {}
  BY DEF nodes_by_kind
<1>5. node_count(g) = SumFunction(f)
  BY DEF node_count
<1>6. {M[i] : i \in NodeKinds} = {nodes_by_kind(g, kind) : kind \in NodeKinds}
  OBVIOUS
<1> HIDE DEF M, f
<1>7. SumFunction(f) = Cardinality(UNION {M[i] : i \in NodeKinds})
  BY <1>1, <1>3, <1>4, SumOfSizes
<1> QED BY <1>5, <1>6, <1>7

(***************************************************************************)
(* What stays where it was in a run                                         *)
(***************************************************************************)
\* The d positions behind a are in P, and rank one behind the other.
Follow(P, a, d) == \A l \in 1 .. d : a + l \in P
RankedOn(P, a, d) == \A l \in 0 .. d : Rank(P, a + l) = Rank(P, a) + l

LEMMA RankRun ==
  ASSUME NEW n \in Nat, NEW P, Within(P, n), NEW a \in Nat, NEW d \in Nat, Follow(P, a, d)
  PROVE  RankedOn(P, a, d)
<1> DEFINE S == {l \in Nat : l <= d => Rank(P, a + l) = Rank(P, a) + l}
<1>1. \A i \in Nat : Rank(P, i) \in Nat
  <2> TAKE i \in Nat
  <2>1. Rank(P, i) \in 0 .. Cardinality(P) /\ Cardinality(P) \in 0 .. n
    BY RankGrows
  <2> QED BY <2>1
<1>2. 0 \in S
  BY <1>1
<1>3. ASSUME NEW l \in Nat, l \in S PROVE l + 1 \in S
  <2> SUFFICES ASSUME l + 1 <= d PROVE Rank(P, a + (l + 1)) = Rank(P, a) + (l + 1)
    OBVIOUS
  <2>1. Rank(P, a + l) = Rank(P, a) + l
    BY <1>3
  <2>2. (a + l) + 1 = a + (l + 1) /\ a + l \in Nat /\ l + 1 \in 1 .. d
    OBVIOUS
  <2>3. (a + l) + 1 \in P
    BY <2>2 DEF Follow
  <2>4. Rank(P, (a + l) + 1) = Rank(P, a + l) + 1
    BY <2>2, <2>3, RankGrows
  <2>5. Rank(P, a) \in Nat
    BY <1>1
  <2> QED BY <2>1, <2>2, <2>4, <2>5
<1>4. Nat \subseteq S
  <2> HIDE DEF S
  <2> QED BY <1>2, <1>3, FromZero
<1> QED BY <1>4 DEF RankedOn

\* A position of one slot holds what a position of another does.
SameHalf(after, q, before, p) ==
  /\ after.neighbors[q] = before.neighbors[p]
  /\ before.values.typ # "None" => after.values.items[q] = before.values.items[p]

\* The half-edges of a node are still the first of its run, in the same order.
RunStays(after, before, seq) ==
  HasOffset(before, seq) =>
    /\ HasOffset(after, seq) /\ Degree(before, seq) <= Degree(after, seq)
    /\ \A l \in 1 .. Degree(before, seq) :
         SameHalf(after, Start(after, seq) + l, before, Start(before, seq) + l)

LEMMA StaysOnwards ==
  ASSUME NEW first, NEW next, NEW last, NEW seq, RunStays(next, first, seq), RunStays(last, next, seq),
         next.values.typ = first.values.typ,
         HasOffset(first, seq) => Degree(first, seq) \in Int,
         HasOffset(next, seq) => Degree(next, seq) \in Int,
         HasOffset(last, seq) => Degree(last, seq) \in Int
  PROVE  RunStays(last, first, seq)
<1> SUFFICES ASSUME HasOffset(first, seq)
             PROVE  /\ HasOffset(last, seq) /\ Degree(first, seq) <= Degree(last, seq)
                    /\ \A l \in 1 .. Degree(first, seq) :
                         SameHalf(last, Start(last, seq) + l, first, Start(first, seq) + l)
  BY DEF RunStays
<1>1. /\ HasOffset(next, seq) /\ Degree(first, seq) <= Degree(next, seq)
      /\ \A l \in 1 .. Degree(first, seq) :
           SameHalf(next, Start(next, seq) + l, first, Start(first, seq) + l)
  BY DEF RunStays
<1>2. /\ HasOffset(last, seq) /\ Degree(next, seq) <= Degree(last, seq)
      /\ \A l \in 1 .. Degree(next, seq) :
           SameHalf(last, Start(last, seq) + l, next, Start(next, seq) + l)
  BY <1>1 DEF RunStays
<1>3. Degree(first, seq) \in Int /\ Degree(next, seq) \in Int /\ Degree(last, seq) \in Int
  BY <1>1, <1>2
<1>4. \A l \in 1 .. Degree(first, seq) : l \in 1 .. Degree(next, seq)
  BY <1>1, <1>3
<1>5. ASSUME NEW l \in 1 .. Degree(first, seq)
      PROVE  SameHalf(last, Start(last, seq) + l, first, Start(first, seq) + l)
  <2>1. SameHalf(next, Start(next, seq) + l, first, Start(first, seq) + l)
    BY <1>1
  <2>2. SameHalf(last, Start(last, seq) + l, next, Start(next, seq) + l)
    BY <1>2, <1>4
  <2> QED BY <2>1, <2>2 DEF SameHalf
<1> QED BY <1>1, <1>2, <1>3, <1>5

\* A run from which nothing is taken stays.
LEMMA StaysWithout ==
  ASSUME NEW n \in Nat, NEW typ, NEW slot, EdgeSlotSound(slot, n, typ), slot.offsets # <<>>,
         NEW removals, RemovalsFit(slot, removals), NEW seq \in Nat, \A r \in removals : r[1] # seq
  PROVE  RunStays(WithoutEdges(slot, removals), slot, seq)
<1>1. PICK left : left = Untaken(slot, removals)
  OBVIOUS
<1>2. PICK small : small = WithoutEdges(slot, removals)
  OBVIOUS
<1>3. LeftOf(small, slot, left, n)
  BY <1>1, <1>2, WithoutLeft
<1>4. SUFFICES ASSUME HasOffset(slot, seq)
               PROVE  /\ HasOffset(small, seq) /\ Degree(slot, seq) = Degree(small, seq)
                      /\ Degree(small, seq) \in Int
                      /\ \A l \in 1 .. Degree(slot, seq) :
                           SameHalf(small, Start(small, seq) + l, slot, Start(slot, seq) + l)
  BY <1>2 DEF RunStays
<1>5. PICK a : a = Start(slot, seq)
  OBVIOUS
<1>6. PICK b : b = End(slot, seq)
  OBVIOUS
<1>7. /\ HasOffset(small, seq)
      /\ a \in Nat /\ b \in Nat /\ Start(small, seq) = Rank(left, a) /\ End(small, seq) = Rank(left, b)
  BY <1>3, <1>4, <1>5, <1>6, LeftRuns
<1>8. a <= b /\ Degree(slot, seq) = b - a
  BY <1>4, <1>5, <1>6, RunReads DEF Degree
<1>9. Within(Run(slot, seq), Len(slot.neighbors)) /\ Run(slot, seq) = a + 1 .. b
  BY <1>4, <1>5, <1>6, RunPlaces DEF Run
<1>10. ASSUME NEW l \in 1 .. b - a PROVE a + l \in left
  <2>1. a + l \in Run(slot, seq) /\ a + l \in 1 .. Len(slot.neighbors)
    BY <1>7, <1>9 DEF Within
  <2>2. ASSUME NEW r \in removals, RemovedAt(slot, r) = a + l PROVE FALSE
    <3>1. r \in Nat \X Nat /\ HasOffset(slot, r[1]) /\ r[2] < Degree(slot, r[1]) /\ r[1] \in Nat
      BY <2>2 DEF RemovalsFit
    <3>2. RemovedAt(slot, r) \in Run(slot, r[1])
      BY <3>1, NotRemoved
    <3>3. PICK p : p = a + l
      OBVIOUS
    <3>4. p \in Run(slot, r[1]) /\ p \in Run(slot, seq)
      BY <2>1, <2>2, <3>2, <3>3
    <3>5. r[1] = seq
      BY <3>1, <3>4, RunsApart
    <3> QED BY <3>5
  <2> QED BY <1>1, <2>1, <2>2 DEF Untaken, RemovedPlaces
<1>11. \A l \in 0 .. b - a : Rank(left, a + l) = Rank(left, a) + l
  <2>1. PICK m : m = Len(slot.neighbors)
    OBVIOUS
  <2>2. PICK d : d = b - a
    OBVIOUS
  <2>3. Within(left, m) /\ m \in Nat /\ d \in Nat
    BY <1>3, <1>7, <1>8, <2>1, <2>2 DEF LeftOf
  <2>4. Follow(left, a, d)
    BY <1>10, <2>2 DEF Follow
  <2>5. RankedOn(left, a, d)
    BY <1>7, <2>3, <2>4, RankRun
  <2> QED BY <2>2, <2>5 DEF RankedOn
<1>12. Rank(left, a) \in Nat
  <2>1. Within(left, Len(slot.neighbors)) /\ Len(slot.neighbors) \in Nat
    BY <1>3 DEF LeftOf
  <2>2. Rank(left, a) \in 0 .. Cardinality(left) /\ Cardinality(left) \in 0 .. Len(slot.neighbors)
    BY <1>7, <2>1, RankGrows
  <2> QED BY <2>1, <2>2
<1>13. Degree(small, seq) = b - a
  <2>1. b - a \in 0 .. b - a /\ a + (b - a) = b
    BY <1>7, <1>8
  <2>2. Rank(left, b) = Rank(left, a) + (b - a)
    BY <1>11, <2>1
  <2> QED BY <1>7, <1>12, <2>2 DEF Degree
<1>14. ASSUME NEW l \in 1 .. b - a PROVE SameHalf(small, Start(small, seq) + l, slot, a + l)
  <2>1. Start(small, seq) + l = Rank(left, a + l)
    BY <1>7, <1>11
  <2>2. a + l \in left
    BY <1>10
  <2> QED BY <1>3, <2>1, <2>2 DEF LeftOf, SameHalf
<1> QED BY <1>5, <1>7, <1>8, <1>13, <1>14

\* Nodes added behind the others leave the runs of those where they are.
LEMMA StaysGrown ==
  ASSUME NEW n \in Nat, NEW m \in Nat, NEW typ, NEW slot, EdgeSlotSound(slot, n, typ), NEW seq \in Nat,
         NEW offsets, offsets = Grown(slot.offsets, n + m + 1), HasOffset(slot, seq)
  PROVE  LET grown == WithOffsets(slot, offsets)
         IN  /\ HasOffset(grown, seq) /\ Start(grown, seq) = Start(slot, seq) /\ End(grown, seq) = End(slot, seq)
             /\ grown.offsets = offsets /\ grown.neighbors = slot.neighbors /\ grown.values = slot.values
<1>1. /\ slot.offsets \in Seq(0 .. MaxOffset) /\ Shaped(slot.offsets, n) /\ slot.offsets # <<>> /\ seq < n
      /\ slot = [offsets |-> slot.offsets, neighbors |-> slot.neighbors, values |-> slot.values]
  BY RunPlaces DEF EdgeSlotSound, EdgeStorageSlot
<1>2. PICK old : old = slot.offsets
  OBVIOUS
<1>3. PICK body : body = Repeat(LastOffset(old), m)
  OBVIOUS
<1>4. offsets = old \o body /\ Len(old) = n + 1 /\ body \in Seq(0 .. MaxOffset) /\ Len(body) = m
  BY <1>1, <1>2, <1>3, GrownBehind, ZenonT(30)
<1>5. /\ Len(offsets) = n + m + 1
      /\ \A i \in 1 .. n + 1 : offsets[i] = old[i]
  <2>1. /\ Len(old \o body) = Len(old) + Len(body)
        /\ \A i \in 1 .. Len(old) + Len(body) :
             (old \o body)[i] = IF i <= Len(old) THEN old[i] ELSE body[i - Len(old)]
    BY <1>1, <1>2, <1>4, ConcatProperties
  <2>2. \A i \in 1 .. n + 1 : i \in 1 .. Len(old) + Len(body) /\ i <= Len(old)
    BY <1>4
  <2>3. Len(old) + Len(body) = n + m + 1
    BY <1>4
  <2> QED BY <1>4, <2>1, <2>2, <2>3
<1>6. seq + 1 \in 1 .. n + 1 /\ seq + 2 \in 1 .. n + 1 /\ seq + 2 <= n + m + 1
  BY <1>1
<1>7. /\ WithOffsets(slot, offsets).offsets = offsets
      /\ WithOffsets(slot, offsets).neighbors = slot.neighbors /\ WithOffsets(slot, offsets).values = slot.values
  BY <1>1 DEF WithOffsets
<1> QED BY <1>2, <1>5, <1>6, <1>7 DEF HasOffset, Start, End

\* Half-edges merged into a slot go behind those of their node.
LEMMA StaysMerged ==
  ASSUME NEW n \in Nat, NEW typ, NEW slot, Paired(slot, typ),
         NEW offsets \in Seq(0 .. MaxOffset), Shaped(offsets, n), offsets # <<>>,
         EndsWith(offsets, slot.neighbors),
         NEW halves, HalvesFit(halves, n), InsertError(typ, offsets, halves) = Ok,
         NEW merged, merged = merge_edge_batches(slot, EdgeSlotInsert(typ, offsets, halves)),
         NEW seq \in Nat, seq < n
  PROVE  RunStays(merged, WithOffsets(slot, offsets), seq)
<1>1. PICK h : h = Len(halves)
  OBVIOUS
<1>2. PICK at : at = [j \in 1 .. h |-> PlaceOf(offsets, halves, j)]
  OBVIOUS
<1>3. PICK total : total = Len(slot.neighbors) + h
  OBVIOUS
<1>4. PICK free : free = Remaining(total, 1 .. h, at)
  OBVIOUS
<1>5. PICK grown : grown = WithOffsets(slot, offsets)
  OBVIOUS
<1>6. /\ LeftOf(grown, merged, free, n) /\ Len(merged.neighbors) = total
      /\ Len(merged.offsets) = n + 1
      /\ \A i \in 1 .. n + 1 : merged.offsets[i] = InsertedOffset(offsets, halves, i)
  <2>1. MergedHolds(merged, slot, offsets, halves, n, typ)
    BY MergedFound
  <2> QED BY <1>1, <1>2, <1>3, <1>4, <1>5, <2>1 DEF MergedHolds
<1>7. /\ h \in Nat /\ DOMAIN halves = 1 .. h
      /\ \A j \in 1 .. h : halves[j].seq \in Nat /\ halves[j].seq < n /\ at[j] = PlaceOf(offsets, halves, j)
  BY <1>1, <1>2, HalvesAre
<1>8. PICK a : a = merged.offsets[seq + 1]
  OBVIOUS
<1>9. PICK b : b = merged.offsets[seq + 2]
  OBVIOUS
<1>10. PICK x : x = offsets[seq + 1]
  OBVIOUS
<1>11. PICK y : y = offsets[seq + 2]
  OBVIOUS
<1>12. seq + 1 \in 1 .. n + 1 /\ seq + 2 \in 1 .. n + 1 /\ Len(offsets) = n + 1
  BY DEF Shaped
<1>13. x \in Nat /\ y \in Nat /\ x <= y /\ a \in Nat /\ b \in Nat /\ a <= total /\ b <= total
  <2>1. x \in Nat /\ y \in Nat /\ x <= y
    <3>1. seq + 1 <= seq + 2
      OBVIOUS
    <3>2. x \in 0 .. MaxOffset /\ y \in 0 .. MaxOffset /\ x <= y
      BY <1>10, <1>11, <1>12, <3>1, OffsetsOrdered
    <3> QED BY <3>2, StorageAssumption
  <2>2. \A i \in 1 .. n + 1 : merged.offsets[i] \in Nat /\ merged.offsets[i] <= Len(merged.neighbors)
    BY <1>6 DEF LeftOf
  <2> QED BY <1>6, <1>8, <1>9, <1>12, <2>1, <2>2
\* The halves before the run, and those up to the end of it.
<1>14. PICK B : B = HalvesBefore(halves, seq)
  OBVIOUS
<1>15. PICK C : C = HalvesBefore(halves, seq + 1)
  OBVIOUS
<1>16. /\ IsFiniteSet(B) /\ Cardinality(B) \in Nat /\ Cardinality(C) \in Nat /\ Cardinality(B) <= Cardinality(C)
  <2>1. Within(B, h) /\ Within(C, h) /\ B \in SUBSET C
    BY <1>7, <1>14, <1>15 DEF HalvesBefore, Within
  <2>2. IsFiniteSet(B) /\ IsFiniteSet(C)
    BY <1>7, <2>1, PositionsFinite
  <2> QED BY <2>1, <2>2, FS_Subset, FS_CardinalityType
<1>17. a = x + Cardinality(B) /\ b = y + Cardinality(C)
  <2>1. (seq + 1) - 1 = seq /\ (seq + 2) - 1 = seq + 1
    OBVIOUS
  <2> QED BY <1>6, <1>8, <1>9, <1>10, <1>11, <1>12, <1>14, <1>15, <2>1 DEF InsertedOffset, HalvesBefore
<1>18. PICK d \in Nat : d = y - x
  BY <1>13
<1>19. a + d <= b
  BY <1>13, <1>16, <1>17, <1>18
\* No new half has its place among the old ones of the run.
<1>20. ASSUME NEW j \in 1 .. h PROVE at[j] \in Nat /\ (at[j] <= a \/ a + d < at[j])
  <2>1. at[j] \in Nat /\ (at[j] <= a <=> halves[j].seq < seq)
    <3>1. /\ PlaceOf(offsets, halves, j) \in Nat
          /\ PlaceOf(offsets, halves, j) <= InsertedOffset(offsets, halves, seq + 1) <=> halves[j].seq < (seq + 1) - 1
      BY <1>1, <1>12, PlacesBetween
    <3>2. (seq + 1) - 1 = seq
      OBVIOUS
    <3> QED BY <1>6, <1>7, <1>8, <1>12, <3>1, <3>2
  <2>2. ASSUME ~ (halves[j].seq < seq) PROVE a + d < at[j]
    <3>1. PICK own \in Nat : own = halves[j].seq
      BY <1>7
    <3>2. own < n /\ seq <= own /\ own + 2 \in 1 .. n + 1 /\ seq + 2 <= own + 2
      BY <1>7, <2>2, <3>1
    <3>3. y <= offsets[own + 2] /\ offsets[own + 2] \in Nat
      BY <1>11, <1>12, <3>2, OffsetsOrdered, StorageAssumption
    <3>4. PICK N : N = NoLater(halves, j)
      OBVIOUS
    <3>5. at[j] = offsets[own + 2] + Cardinality(N)
      BY <1>7, <3>1, <3>4 DEF PlaceOf, SortedRank, NoLater
    <3>6. B \in SUBSET N /\ j \in N /\ j \notin B /\ Within(N, h)
      BY <1>7, <1>14, <2>2, <3>4 DEF HalvesBefore, NoLater, Within
    <3>7. IsFiniteSet(N) /\ Cardinality(N) \in Nat
      BY <1>7, <3>6, PositionsFinite, FS_CardinalityType
    <3>8. B # N
      BY <3>6
    <3>9. Cardinality(B) <= Cardinality(N) /\ Cardinality(B) # Cardinality(N)
      BY <3>6, <3>7, <3>8, FS_Subset
    <3>10. a + d = y + Cardinality(B)
      BY <1>13, <1>16, <1>17, <1>18
    <3>11. Cardinality(B) < Cardinality(N)
      BY <1>16, <3>7, <3>9
    <3> QED BY <1>13, <1>16, <3>3, <3>5, <3>7, <3>10, <3>11
  <2> QED BY <2>1, <2>2
<1>21. ASSUME NEW l \in 1 .. d PROVE a + l \in free
  <2>1. a + l \in 1 .. total
    <3>1. total \in Nat
      BY <1>6 DEF LeftOf
    <3> QED BY <1>13, <1>18, <1>19, <3>1
  <2>2. ASSUME NEW j \in 1 .. h PROVE at[j] # a + l
    BY <1>13, <1>18, <1>20
  <2> QED BY <1>4, <2>1, <2>2 DEF Remaining
<1>22. /\ grown.offsets = offsets /\ Start(grown, seq) = x /\ End(grown, seq) = y
       /\ Start(merged, seq) = a /\ End(merged, seq) = b
       /\ HasOffset(merged, seq) /\ x = Rank(free, a)
  <2>1. grown.offsets = offsets
    BY <1>5 DEF WithOffsets, Paired, EdgeStorageSlot
  <2>2. HasOffset(merged, seq)
    BY <1>6, <1>12 DEF HasOffset
  <2>3. grown.offsets[seq + 1] = Rank(free, merged.offsets[seq + 1])
    BY <1>6, <1>12 DEF LeftOf
  <2> QED BY <1>8, <1>9, <1>10, <1>11, <2>1, <2>2, <2>3 DEF Start, End
<1>23. \A l \in 0 .. d : Rank(free, a + l) = x + l
  <2>1. Within(free, total) /\ total \in Nat
    BY <1>6 DEF LeftOf
  <2>2. Follow(free, a, d)
    BY <1>21 DEF Follow
  <2>3. RankedOn(free, a, d)
    BY <1>13, <2>1, <2>2, RankRun
  <2> QED BY <1>22, <2>3 DEF RankedOn
<1>24. ASSUME NEW l \in 1 .. d PROVE SameHalf(merged, a + l, grown, x + l)
  <2>1. a + l \in free /\ Rank(free, a + l) = x + l
    BY <1>21, <1>23
  <2> QED BY <1>6, <2>1 DEF LeftOf, SameHalf
<1>25. Degree(grown, seq) = d /\ Degree(merged, seq) = b - a /\ d <= b - a
  BY <1>13, <1>18, <1>19, <1>22 DEF Degree
<1> QED BY <1>5, <1>22, <1>24, <1>25 DEF RunStays

\* After new nodes and a merge, what a run held is still where it was in it.
LEMMA StaysInserted ==
  ASSUME NEW n \in Nat, NEW typ, NEW slot, EdgeSlotSound(slot, n, typ),
         NEW nodes \in Nat, n <= nodes, NEW halves, HalvesFit(halves, nodes),
         NEW insert, InsertsHalves(insert, slot, typ, halves, nodes), NEW seq \in Nat
  PROVE  RunStays(merge_edge_batches(slot, insert), slot, seq)
<1> SUFFICES ASSUME HasOffset(slot, seq) PROVE RunStays(merge_edge_batches(slot, insert), slot, seq)
  BY DEF RunStays
<1>1. PICK m \in Nat : nodes = n + m
  <2>1. nodes - n \in Nat /\ nodes = n + (nodes - n)
    OBVIOUS
  <2> QED BY <2>1
<1>2. /\ slot.offsets \in Seq(0 .. MaxOffset) /\ Shaped(slot.offsets, n)
      /\ slot.neighbors \in Seq(RawNodeId) /\ EndsWith(slot.offsets, slot.neighbors)
      /\ Paired(slot, typ)
  BY DEF EdgeSlotSound, EdgeStorageSlot, Paired, EndsWith
<1>3. PICK offsets : offsets = Grown(slot.offsets, nodes + 1)
  OBVIOUS
<1>4. InsertError(typ, offsets, halves) = Ok /\ insert = EdgeSlotInsert(typ, offsets, halves)
  BY <1>3 DEF InsertsHalves
<1>5. /\ offsets \in Seq(0 .. MaxOffset) /\ Shaped(offsets, nodes)
      /\ Len(offsets) = nodes + 1 /\ LastOffset(offsets) = LastOffset(slot.offsets)
  BY <1>2, <1>3, <1>1, GrownShaped
<1>6. offsets # <<>> /\ EndsWith(offsets, slot.neighbors)
  BY <1>2, <1>5 DEF EndsWith
<1>7. PICK grown : grown = WithOffsets(slot, offsets)
  OBVIOUS
<1>8. PICK merged : merged = merge_edge_batches(slot, insert)
  OBVIOUS
<1>9. seq < n /\ seq < nodes
  BY RunPlaces
<1>10. RunStays(merged, grown, seq)
  BY <1>2, <1>4, <1>5, <1>6, <1>7, <1>8, <1>9, StaysMerged
<1>11. /\ HasOffset(grown, seq) /\ Start(grown, seq) = Start(slot, seq) /\ End(grown, seq) = End(slot, seq)
       /\ grown.neighbors = slot.neighbors /\ grown.values = slot.values
  <2>1. offsets = Grown(slot.offsets, n + m + 1)
    BY <1>1, <1>3
  <2> QED BY <1>7, <2>1, StaysGrown
<1>12. Degree(grown, seq) = Degree(slot, seq)
  BY <1>11 DEF Degree
<1>13. \A q, p : SameHalf(merged, q, grown, p) => SameHalf(merged, q, slot, p)
  BY <1>11 DEF SameHalf
<1> QED BY <1>8, <1>10, <1>11, <1>12, <1>13 DEF RunStays

(***************************************************************************)
(* Where the half-edges of a slot come from                                 *)
(***************************************************************************)
\* The half-edge at a position of a run is the one at position from[q] of the same run
\* before, or one of the new.
WasThere(after, before, from, seq, q) ==
  q \in DOMAIN from /\ from[q] \in Run(before, seq) /\ before.neighbors[from[q]] = after.neighbors[q]
IsNew(after, halves, seq, q) ==
  \E j \in 1 .. Len(halves) : halves[j].seq = seq /\ halves[j].neighbor = after.neighbors[q]
Origins(after, before, halves, from) ==
  /\ \A seq \in Nat : \A q \in Run(after, seq) :
       WasThere(after, before, from, seq, q) \/ IsNew(after, halves, seq, q)
  /\ \A q, r \in DOMAIN from : from[q] = from[r] => q = r

\* A slot's half-edges are its own.
LEMMA OwnOrigins ==
  ASSUME NEW n \in Nat, NEW typ, NEW slot, EdgeSlotSound(slot, n, typ), NEW halves
  PROVE  \E from : Origins(slot, slot, halves, from)
<1>1. PICK from : from = [q \in 1 .. Len(slot.neighbors) |-> q]
  OBVIOUS
<1>2. \A q, r \in DOMAIN from : from[q] = from[r] => q = r
  BY <1>1
<1>3. slot.offsets \in Seq(0 .. MaxOffset) /\ Shaped(slot.offsets, n)
  BY DEF EdgeSlotSound, EdgeStorageSlot
<1>4. ASSUME NEW seq \in Nat, NEW q \in Run(slot, seq) PROVE WasThere(slot, slot, from, seq, q)
  <2>1. Within(Run(slot, seq), Len(slot.neighbors))
    BY RunPlaces
  <2>2. q \in 1 .. Len(slot.neighbors)
    BY <2>1 DEF Within
  <2> QED BY <1>1, <2>2 DEF WasThere
<1> QED BY <1>2, <1>4 DEF Origins

\* What comes from a slot that came from another comes from that.
LEMMA OriginsOnwards ==
  ASSUME NEW last, NEW next, NEW first, NEW halves, NEW from, NEW onwards,
         Origins(last, next, halves, from), Origins(next, first, <<>>, onwards)
  PROVE  \E back : Origins(last, first, halves, back)
<1>1. PICK D : D = {q \in DOMAIN from : from[q] \in DOMAIN onwards}
  OBVIOUS
<1>2. PICK back : back = [q \in D |-> onwards[from[q]]]
  OBVIOUS
<1>3. \A q, r \in DOMAIN back : back[q] = back[r] => q = r
  BY <1>1, <1>2 DEF Origins
<1>4. ASSUME NEW seq \in Nat, NEW q \in Run(last, seq), WasThere(last, next, from, seq, q)
      PROVE  WasThere(last, first, back, seq, q)
  <2>1. q \in DOMAIN from /\ from[q] \in Run(next, seq) /\ next.neighbors[from[q]] = last.neighbors[q]
    BY <1>4 DEF WasThere
  <2>2. PICK p : p = from[q]
    OBVIOUS
  <2>3. WasThere(next, first, onwards, seq, p)
    <3>1. WasThere(next, first, onwards, seq, p) \/ IsNew(next, <<>>, seq, p)
      BY <2>1, <2>2 DEF Origins
    <3>2. ~ IsNew(next, <<>>, seq, p)
      BY DEF IsNew
    <3> QED BY <3>1, <3>2
  <2>4. p \in DOMAIN onwards /\ onwards[p] \in Run(first, seq) /\ first.neighbors[onwards[p]] = next.neighbors[p]
    BY <2>3 DEF WasThere
  <2>5. q \in DOMAIN back /\ back[q] = onwards[p]
    BY <1>1, <1>2, <2>1, <2>2, <2>4
  <2> QED BY <2>1, <2>2, <2>4, <2>5 DEF WasThere
<1>5. \A seq \in Nat : \A q \in Run(last, seq) :
        WasThere(last, first, back, seq, q) \/ IsNew(last, halves, seq, q)
  BY <1>4 DEF Origins
<1> QED BY <1>3, <1>5 DEF Origins

\* What is left of a slot was there.
LEMMA OriginsWithout ==
  ASSUME NEW n \in Nat, NEW small, NEW big, NEW left, LeftOf(small, big, left, n)
  PROVE  \E from : Origins(small, big, <<>>, from)
<1>1. PICK m : m = Len(big.neighbors)
  OBVIOUS
<1>2. PICK from : from = [k \in 1 .. Cardinality(left) |-> Nth(left, k)]
  OBVIOUS
<1>3. m \in Nat /\ Within(left, m)
  BY <1>1 DEF LeftOf
<1>4. \A q, r \in DOMAIN from : from[q] = from[r] => q = r
  <2>1. \A k \in 1 .. Cardinality(left) : Rank(left, from[k]) = k
    BY <1>2, <1>3, NthFound
  <2> QED BY <1>2, <2>1
<1>5. ASSUME NEW seq \in Nat, NEW q \in Run(small, seq) PROVE WasThere(small, big, from, seq, q)
  <2>1. PICK x \in left : Rank(left, x) = q
    BY LeftRuns
  <2>2. Rank(left, x) \in 1 .. Cardinality(left) /\ Nth(left, Rank(left, x)) = x
    BY <1>3, NthOfRank
  <2>3. q \in DOMAIN from /\ from[q] = x
    BY <1>2, <2>1, <2>2
  <2>4. x \in Run(big, seq)
    BY <2>1, LeftRuns
  <2>5. big.neighbors[x] = small.neighbors[q]
    BY <2>1 DEF LeftOf
  <2> QED BY <2>3, <2>4, <2>5 DEF WasThere
<1> QED BY <1>4, <1>5 DEF Origins

\* What a merged slot holds was there or is new.
LEMMA OriginsMerged ==
  ASSUME NEW n \in Nat, NEW typ, NEW slot, NEW offsets \in Seq(0 .. MaxOffset), Shaped(offsets, n), offsets # <<>>,
         NEW halves, HalvesFit(halves, n), NEW merged, MergedHolds(merged, slot, offsets, halves, n, typ)
  PROVE  \E from : Origins(merged, WithOffsets(slot, offsets), halves, from)
<1>1. PICK h : h = Len(halves)
  OBVIOUS
<1>2. PICK at : at = [j \in 1 .. h |-> PlaceOf(offsets, halves, j)]
  OBVIOUS
<1>3. PICK free : free = Remaining(Len(slot.neighbors) + h, 1 .. h, at)
  OBVIOUS
<1>4. PICK grown : grown = WithOffsets(slot, offsets)
  OBVIOUS
<1>5. /\ LeftOf(grown, merged, free, n) /\ Len(merged.neighbors) = Len(slot.neighbors) + h
      /\ \A j \in 1 .. h : merged.neighbors[at[j]] = halves[j].neighbor
  BY <1>1, <1>2, <1>3, <1>4, Zenon DEF MergedHolds
<1>6. PICK from : from = [q \in free |-> Rank(free, q)]
  OBVIOUS
<1>7. \A q, r \in DOMAIN from : from[q] = from[r] => q = r
  <2>1. \A x, y \in free : Rank(free, x) = Rank(free, y) => x = y
    BY <1>5, LeftRuns, 0 \in Nat
  <2> QED BY <1>6, <2>1
<1>8. ASSUME NEW seq \in Nat, NEW q \in Run(merged, seq), q \in free PROVE WasThere(merged, grown, from, seq, q)
  <2>1. Rank(free, q) \in Run(grown, seq)
    BY <1>5, <1>8, LeftRuns
  <2>2. grown.neighbors[Rank(free, q)] = merged.neighbors[q]
    BY <1>5, <1>8 DEF LeftOf
  <2> QED BY <1>6, <1>8, <2>1, <2>2 DEF WasThere
<1>9. ASSUME NEW seq \in Nat, NEW q \in Run(merged, seq), q \notin free PROVE IsNew(merged, halves, seq, q)
  <2>1. q \in 1 .. Len(merged.neighbors)
    <3>1. PICK total : total = Len(merged.neighbors)
      OBVIOUS
    <3>2. total \in Nat /\ Len(merged.offsets) = n + 1 /\ \A i \in 1 .. n + 1 : merged.offsets[i] \in Nat /\ merged.offsets[i] <= total
      BY <1>5, <3>1 DEF LeftOf
    <3>3. HasOffset(merged, seq) /\ q \in Start(merged, seq) + 1 .. End(merged, seq)
      BY <1>9 DEF Run
    <3>4. seq + 1 \in 1 .. n + 1 /\ seq + 2 \in 1 .. n + 1
      BY <3>2, <3>3 DEF HasOffset
    <3>5. Start(merged, seq) \in Nat /\ End(merged, seq) \in Nat /\ End(merged, seq) <= total
      BY <3>2, <3>4 DEF Start, End
    <3> QED BY <3>1, <3>2, <3>3, <3>5
  <2>2. PICK j \in 1 .. h : at[j] = q
    BY <1>3, <1>5, <1>9, <2>1 DEF Remaining
  <2>3. PlaceOf(offsets, halves, j) = q
    BY <1>2, <2>2
  <2>4. halves[j].seq = seq
    BY <1>1, <2>3, <1>9, NewInRun
  <2> QED BY <1>1, <1>5, <2>2, <2>4 DEF IsNew
<1> QED BY <1>4, <1>7, <1>8, <1>9 DEF Origins

\* More nodes hold no more half-edges.
LEMMA OriginsGrown ==
  ASSUME NEW n \in Nat, NEW m \in Nat, NEW typ, NEW slot, EdgeSlotSound(slot, n, typ),
         NEW grown, grown = WithMore(slot, n + m)
  PROVE  \E from : Origins(grown, slot, <<>>, from)
<1>1. grown.neighbors = slot.neighbors /\ grown.values = slot.values
  BY DEF WithMore, WithOffsets, EdgeSlotSound, EdgeStorageSlot
<1>2. \A seq \in Nat : Run(grown, seq) \subseteq Run(slot, seq)
  <2> TAKE seq \in Nat
  <2> SUFFICES ASSUME NEW q \in Run(grown, seq) PROVE q \in Run(slot, seq)
    OBVIOUS
  <2>1. PICK other : other = grown.neighbors[q]
    OBVIOUS
  <2>2. PICK value : value = grown.values.items[q]
    OBVIOUS
  <2>3. q \in Alike(grown, seq, other, value)
    BY <2>1, <2>2 DEF Alike, Leads
  <2>4. Alike(grown, seq, other, value) = Alike(slot, seq, other, value)
    BY AlikeGrown
  <2> QED BY <2>3, <2>4 DEF Alike
<1>3. PICK from : Origins(slot, slot, <<>>, from)
  BY OwnOrigins
<1>4. ASSUME NEW seq \in Nat, NEW q \in Run(grown, seq)
      PROVE  WasThere(grown, slot, from, seq, q) \/ IsNew(grown, <<>>, seq, q)
  <2>1. WasThere(slot, slot, from, seq, q) \/ IsNew(slot, <<>>, seq, q)
    BY <1>2, <1>3 DEF Origins
  <2> QED BY <1>1, <2>1 DEF WasThere, IsNew
<1> QED BY <1>3, <1>4 DEF Origins

\* After new nodes and a merge, a slot holds what it held and the new half-edges.
LEMMA OriginsInserted ==
  ASSUME NEW n \in Nat, NEW typ, NEW slot, EdgeSlotSound(slot, n, typ),
         NEW nodes \in Nat, n <= nodes, NEW halves, HalvesFit(halves, nodes),
         NEW insert, InsertsHalves(insert, slot, typ, halves, nodes)
  PROVE  \E from : Origins(merge_edge_batches(slot, insert), slot, halves, from)
<1>1. PICK m \in Nat : nodes = n + m
  <2>1. nodes - n \in Nat /\ nodes = n + (nodes - n)
    OBVIOUS
  <2> QED BY <2>1
<1>2. /\ slot.offsets \in Seq(0 .. MaxOffset) /\ Shaped(slot.offsets, n)
      /\ slot.neighbors \in Seq(RawNodeId) /\ EndsWith(slot.offsets, slot.neighbors)
      /\ Paired(slot, typ)
  BY DEF EdgeSlotSound, EdgeStorageSlot, Paired, EndsWith
<1>3. PICK offsets : offsets = Grown(slot.offsets, nodes + 1)
  OBVIOUS
<1>4. InsertError(typ, offsets, halves) = Ok /\ insert = EdgeSlotInsert(typ, offsets, halves)
  BY <1>3 DEF InsertsHalves
<1>5. /\ offsets \in Seq(0 .. MaxOffset) /\ Shaped(offsets, nodes)
      /\ Len(offsets) = nodes + 1 /\ LastOffset(offsets) = LastOffset(slot.offsets)
  BY <1>2, <1>3, <1>1, GrownShaped
<1>6. offsets # <<>> /\ EndsWith(offsets, slot.neighbors)
  BY <1>2, <1>5 DEF EndsWith
<1>7. PICK grown : grown = WithOffsets(slot, offsets)
  OBVIOUS
<1>8. PICK merged : merged = merge_edge_batches(slot, insert)
  OBVIOUS
<1>9. MergedHolds(merged, slot, offsets, halves, nodes, typ)
  BY <1>2, <1>4, <1>5, <1>6, <1>8, MergedFound
<1>10. PICK from : Origins(merged, grown, halves, from)
  BY <1>5, <1>6, <1>7, <1>9, OriginsMerged
<1>11. PICK onwards : Origins(grown, slot, <<>>, onwards)
  <2>1. grown = WithMore(slot, n + m)
    BY <1>1, <1>3, <1>7 DEF WithMore
  <2> QED BY <2>1, OriginsGrown
<1> QED BY <1>8, <1>10, <1>11, OriginsOnwards
================================================================================
