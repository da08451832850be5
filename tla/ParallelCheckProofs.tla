--------------------------- MODULE ParallelCheckProofs ---------------------------
(***************************************************************************)
(* However rayon schedules the checks and folds their results, the report   *)
(* is the one a single thread would have made, for every graph and schema.  *)
(* Folding neighbours keeps "the first error of a run of checks", so that   *)
(* the order of folding cannot matter; the buckets cut the edge slots into  *)
(* such runs, so that going through them in order finds the first error.    *)
(*                                                                          *)
(* And the report is Success exactly for the well-formed graphs whose nodes  *)
(* can be numbered.  The checks are met by the clauses of well-formedness    *)
(* slot by slot; the pairing, which compares two multisets of flat tuples,   *)
(* by counting the half-edges of one tuple in the run of the node it begins  *)
(* with.                                                                    *)
(***************************************************************************)
EXTENDS ParallelCheck, StagingProofs

Failing(g, pass, first, last) == {i \in first .. last : Check(g, pass, i) # Ok}

\* A run of checks reports Success exactly when none of them fails.
LEMMA SuccessWhenNoneFails ==
  ASSUME NEW g, NEW pass, NEW lo \in Nat, NEW hi \in Nat
  PROVE  /\ Failing(g, pass, lo, hi) = {} <=> InOrder(g, pass, lo, hi) = Success
         /\ Failing(g, pass, lo, hi) # {} =>
              LET m == Lowest(Failing(g, pass, lo, hi))
              IN  InOrder(g, pass, lo, hi) = [error |-> Check(g, pass, m), pass |-> pass, at |-> m]
<1> DEFINE F == Failing(g, pass, lo, hi)
           m == Lowest(F)
<1>1. CASE F = {}
  BY <1>1 DEF InOrder, Failing
<1>2. CASE F # {}
  <2>1. InOrder(g, pass, lo, hi) = [error |-> Check(g, pass, m), pass |-> pass, at |-> m]
    BY <1>2 DEF InOrder, Failing
  <2>2. m \in F
    BY <1>2, LowestIsLeast DEF Failing
  <2>3. Check(g, pass, m) # Ok
    BY <2>2 DEF Failing
  <2>4. InOrder(g, pass, lo, hi) # Success
    BY <2>1, <2>3 DEF Success
  <2> QED
    BY <1>2, <2>1, <2>4
<1> QED
  BY <1>1, <1>2

\* Two neighbouring runs: what they report together is the fold of their reports.
LEMMA NeighboursFold ==
  ASSUME NEW g, NEW pass, NEW lo \in Nat, NEW mid \in Nat, NEW hi \in Nat,
         lo <= mid, mid + 1 <= hi
  PROVE  InOrder(g, pass, lo, hi)
           = Then(InOrder(g, pass, lo, mid), InOrder(g, pass, mid + 1, hi))
<1> DEFINE F == Failing(g, pass, lo, hi)
           A == Failing(g, pass, lo, mid)
           B == Failing(g, pass, mid + 1, hi)
<1>1. F = A \cup B /\ A \subseteq Nat /\ B \subseteq Nat
  BY DEF Failing
<1>2. \A i \in A, j \in B : i < j
  BY DEF Failing
<1>3. CASE A = {}
  <2>1. F = B
    BY <1>1, <1>3
  <2>2. InOrder(g, pass, lo, mid) = Success
    BY <1>3, SuccessWhenNoneFails
  <2>3. InOrder(g, pass, lo, hi) = InOrder(g, pass, mid + 1, hi)
    <3>1. CASE B = {}
      BY <2>1, <3>1, SuccessWhenNoneFails
    <3>2. CASE B # {}
      BY <2>1, <3>2, SuccessWhenNoneFails
    <3> QED
      BY <3>1, <3>2
  <2> QED
    BY <2>2, <2>3 DEF Then
<1>4. CASE A # {}
  <2>1. F # {}
    BY <1>1, <1>4
  <2>2. /\ Lowest(A) \in A /\ \A y \in A : Lowest(A) <= y
        /\ Lowest(F) \in F /\ \A y \in F : Lowest(F) <= y
    BY <1>1, <1>4, <2>1, LowestIsLeast
  <2>3. Lowest(F) = Lowest(A)
    <3>1. Lowest(F) \in A
      BY <1>1, <1>2, <2>2
    <3>2. Lowest(F) <= Lowest(A) /\ Lowest(A) <= Lowest(F)
      BY <1>1, <2>2, <3>1
    <3>3. Lowest(F) \in Nat /\ Lowest(A) \in Nat
      BY <1>1, <2>2, <3>1
    <3> HIDE DEF F, A
    <3> QED
      BY <3>2, <3>3
  <2>4. InOrder(g, pass, lo, hi) = InOrder(g, pass, lo, mid)
    BY <1>4, <2>1, <2>3, SuccessWhenNoneFails
  <2>5. InOrder(g, pass, lo, mid) # Success
    BY <1>4, SuccessWhenNoneFails
  <2> QED
    BY <2>4, <2>5 DEF Then
<1> QED
  BY <1>3, <1>4

(***************************************************************************)
(* Buckets                                                                 *)
(***************************************************************************)
\* Multiples of the number of node kinds: the buckets cut at them.
LEMMA Multiples ==
  ASSUME NEW n \in Nat, NEW b \in Nat, NEW c \in Nat
  PROVE  /\ b * n \in Nat
         /\ (b + 1) * n = b * n + n
         /\ b <= c => b * n <= c * n
<1>1. b * n \in Nat /\ (b + 1) * n = b * n + n
  OBVIOUS
<1>2. ASSUME b <= c PROVE b * n <= c * n
  <2>1. PICK d \in Nat : c = b + d
    <3>1. c - b \in Nat /\ c = b + (c - b)
      BY <1>2
    <3> QED
      BY <3>1
  <2>2. c * n = b * n + d * n /\ d * n \in Nat
    BY <2>1
  <2> QED
    BY <1>1, <2>2
<1> QED
  BY <1>1, <1>2

\* Each edge slot is in a bucket: the first one that ends at or after it.
LEMMA BucketsCover ==
  ASSUME NEW i \in 1 .. edge_storage_size
  PROVE  \E b \in Buckets : i \in (b - 1) * NodeKindCount + 1 .. b * NodeKindCount
<1> DEFINE n == NodeKindCount
           S == {b \in Nat : i <= b * n}
           B == Lowest(S)
<1>1. n \in Nat /\ EdgeKindCount \in Nat
  BY SchemaAssumption
<1> HIDE DEF n
<1>2. 2 * EdgeKindCount \in Nat /\ edge_storage_size = (2 * EdgeKindCount) * n
  BY <1>1 DEF edge_storage_size, n
<1>3. i \in Nat /\ 1 <= i /\ i <= (2 * EdgeKindCount) * n
  BY <1>1, <1>2
<1>4. 2 * EdgeKindCount \in S
  BY <1>2, <1>3
<1>5. B \in S /\ \A y \in S : B <= y
  BY <1>4, LowestIsLeast
<1> HIDE DEF B
<1>6. B \in Nat /\ i <= B * n /\ B <= 2 * EdgeKindCount
  BY <1>4, <1>5
<1>7. B # 0
  BY <1>1, <1>3, <1>6
<1>8. PICK d \in Nat : B = d + 1
  <2>1. B - 1 \in Nat /\ B = (B - 1) + 1
    BY <1>6, <1>7
  <2> QED
    BY <2>1
<1>9. d \notin S
  BY <1>5, <1>8
<1>10. d * n \in Nat /\ d * n < i
  BY <1>1, <1>3, <1>9, Multiples
<1>11. B \in Buckets
  BY <1>1, <1>6, <1>7 DEF Buckets
<1>12. B - 1 = d
  BY <1>8
<1>13. i \in (B - 1) * n + 1 .. B * n
  BY <1>1, <1>3, <1>6, <1>10, <1>12, Multiples
<1> QED
  BY <1>11, <1>13 DEF n

\* A bucket has slots only, and those of a later bucket come after them.
LEMMA BucketsInOrder ==
  ASSUME NEW b \in Buckets
  PROVE  /\ (b - 1) * NodeKindCount + 1 \in Nat /\ b * NodeKindCount \in Nat
         /\ 1 <= (b - 1) * NodeKindCount + 1 /\ b * NodeKindCount <= edge_storage_size
         /\ \A c \in Buckets : b < c => b * NodeKindCount <= (c - 1) * NodeKindCount
<1>1. NodeKindCount \in Nat /\ EdgeKindCount \in Nat
  BY SchemaAssumption
<1>2. b \in Nat /\ b - 1 \in Nat /\ b <= 2 * EdgeKindCount /\ 2 * EdgeKindCount \in Nat
  BY <1>1 DEF Buckets
<1>3. (b - 1) * NodeKindCount \in Nat /\ b * NodeKindCount \in Nat
  BY <1>1, <1>2, Multiples
<1>4. b * NodeKindCount <= (2 * EdgeKindCount) * NodeKindCount
  BY <1>1, <1>2, Multiples
<1>5. (2 * EdgeKindCount) * NodeKindCount = edge_storage_size
  BY <1>1 DEF edge_storage_size
<1>6. ASSUME NEW c \in Buckets, b < c
      PROVE  b * NodeKindCount <= (c - 1) * NodeKindCount
  <2>1. c - 1 \in Nat /\ b <= c - 1
    BY <1>1, <1>2, <1>6 DEF Buckets
  <2> QED
    BY <1>1, <1>2, <2>1, Multiples
<1> QED
  BY <1>3, <1>4, <1>5, <1>6

(***************************************************************************)
(* The invariant                                                           *)
(***************************************************************************)
\* Each result to be folded is that of the run of checks it stands for; none
\* is there before the first fold, between the two or after the last.
SegmentsReport ==
  /\ phase \notin Folds => segments = {}
  /\ phase \in Folds =>
       \A s \in segments :
         /\ s.lo \in Nat /\ s.hi \in Nat /\ 1 <= s.lo /\ s.lo <= s.hi
         /\ s.report = InOrder(raw, phase, s.lo, s.hi)

\* Each bucket that has been checked reports its first error.
BucketsReport ==
  /\ DOMAIN collected \subseteq Buckets
  /\ \A b \in DOMAIN collected : collected[b] = InBucket(raw, b)

\* A pass begins when the nodes are numbered and the passes before it found no error.
PassesReport ==
  /\ phase \in {"start", "properties", "edges", "pairing", "done"}
  /\ phase \in {"properties", "edges", "pairing"} => Numbered(raw) = Success
  /\ phase \in {"edges", "pairing"} => All(raw, "properties") = Success
  /\ phase = "pairing" => All(raw, "edges") = Success

IInv == SegmentsReport /\ BucketsReport /\ PassesReport /\ ReportsFirstError

\* How many checks a pass has.
LEMMA ChecksCounted ==
  ASSUME NEW pass \in {"properties", "edges", "pairing"}
  PROVE  Checks(pass) \in Nat
<1>1. NodeKindCount \in Nat /\ EdgeKindCount \in Nat /\ PropertyKindCount \in Nat
  BY SchemaAssumption
<1>2. property_storage_size \in Nat /\ edge_storage_size \in Nat
  BY <1>1 DEF property_storage_size, edge_storage_size
<1> QED
  BY <1>1, <1>2 DEF Checks

\* The buckets, gone through in order, report what the edge slots do.
LEMMA BucketsReportEdges ==
  ASSUME NEW g
  PROVE  LET failing == {b \in Buckets : InBucket(g, b) # Success}
         IN  /\ failing = {} => All(g, "edges") = Success
             /\ failing # {} => All(g, "edges") = InBucket(g, Lowest(failing))
                                /\ All(g, "edges") # Success
<1> DEFINE failing == {b \in Buckets : InBucket(g, b) # Success}
           From(b) == (b - 1) * NodeKindCount + 1
           To(b) == b * NodeKindCount
           In_(b) == Failing(g, "edges", From(b), To(b))
           F == Failing(g, "edges", 1, edge_storage_size)
<1>1. edge_storage_size \in Nat /\ Checks("edges") = edge_storage_size
  BY ChecksCounted DEF Checks
<1>2. ASSUME NEW b \in Buckets
      PROVE  /\ In_(b) \subseteq F
             /\ b \in failing <=> In_(b) # {}
             /\ In_(b) # {} => InBucket(g, b) =
                   [error |-> Check(g, "edges", Lowest(In_(b))), pass |-> "edges",
                    at |-> Lowest(In_(b))]
  <2>1. In_(b) \subseteq F
    BY <1>1, BucketsInOrder DEF Failing
  <2>2. From(b) \in Nat /\ To(b) \in Nat
    BY BucketsInOrder
  <2>3. InBucket(g, b) = InOrder(g, "edges", From(b), To(b))
    BY DEF InBucket
  <2> HIDE DEF From, To
  <2>4. b \in failing <=> In_(b) # {}
    BY <2>2, <2>3, SuccessWhenNoneFails
  <2>5. In_(b) # {} => InBucket(g, b) =
                   [error |-> Check(g, "edges", Lowest(In_(b))), pass |-> "edges",
                    at |-> Lowest(In_(b))]
    BY <2>2, <2>3, SuccessWhenNoneFails
  <2> QED
    BY <2>1, <2>4, <2>5
<1>3. \A i \in F : \E b \in Buckets : i \in In_(b)
  BY BucketsCover DEF Failing
<1>4. ASSUME failing = {} PROVE All(g, "edges") = Success
  <2>1. F = {}
    BY <1>2, <1>3, <1>4
  <2> QED
    BY <1>1, <2>1, SuccessWhenNoneFails DEF All
<1>5. ASSUME failing # {}
      PROVE  All(g, "edges") = InBucket(g, Lowest(failing)) /\ All(g, "edges") # Success
  <2> DEFINE b == Lowest(failing)
             m == Lowest(In_(b))
  <2>1. b \in failing /\ \A c \in failing : b <= c
    <3>1. failing \subseteq Nat
      BY SchemaAssumption DEF Buckets
    <3> QED
      BY <1>5, <3>1, LowestIsLeast
  <2> HIDE DEF b
  <2>2. b \in Buckets /\ In_(b) # {} /\ In_(b) \subseteq F
    BY <1>2, <2>1
  <2>3. F \subseteq Nat /\ In_(b) \subseteq Nat
    BY <2>2 DEF Failing
  <2>4. m \in In_(b) /\ \A i \in In_(b) : m <= i
    BY <2>2, <2>3, LowestIsLeast
  <2>5. ASSUME NEW i \in F PROVE m <= i
    <3>1. PICK c \in Buckets : i \in In_(c)
      BY <1>3
    <3>2. c \in failing
      BY <1>2, <3>1
    <3>3. b <= c
      BY <2>1, <3>2
    <3>4. CASE b = c
      BY <2>4, <3>1, <3>4
    <3>5. CASE b # c
      <4>1. b < c
        BY <2>2, <3>3, <3>5, SchemaAssumption DEF Buckets
      <4>2. To(b) <= (c - 1) * NodeKindCount
        BY <2>2, <4>1, BucketsInOrder
      <4>3. m <= To(b)
        <5>1. \A j \in In_(b) : j <= To(b)
          BY DEF Failing
        <5> QED
          BY <2>4, <5>1
      <4>4. (c - 1) * NodeKindCount + 1 <= i
        BY <3>1 DEF Failing
      <4>5. (c - 1) * NodeKindCount \in Int /\ To(b) \in Nat
        BY <2>2, BucketsInOrder, SchemaAssumption DEF Buckets
      <4>6. m \in Nat /\ i \in Nat
        BY <2>3, <2>4
      <4> HIDE DEF To, m
      <4> QED
        BY <4>2, <4>3, <4>4, <4>5, <4>6
    <3> QED
      BY <3>4, <3>5
  <2>6. Lowest(F) = m
    <3>1. F # {} /\ m \in F
      BY <2>2, <2>4
    <3>2. Lowest(F) \in F /\ \A i \in F : Lowest(F) <= i
      BY <2>3, <3>1, LowestIsLeast
    <3>3. Lowest(F) <= m /\ m <= Lowest(F) /\ m \in Nat /\ Lowest(F) \in Nat
      BY <2>3, <2>5, <3>1, <3>2
    <3> HIDE DEF m, F
    <3> QED
      BY <3>3
  <2>7. F # {}
    BY <2>2
  <2>8. All(g, "edges") = [error |-> Check(g, "edges", Lowest(F)), pass |-> "edges", at |-> Lowest(F)]
    BY <1>1, <2>7, SuccessWhenNoneFails DEF All
  <2>9. All(g, "edges") = InBucket(g, b)
    BY <1>2, <2>2, <2>6, <2>8
  <2>10. All(g, "edges") # Success
    BY <1>1, <2>7, SuccessWhenNoneFails DEF All
  <2> QED
    BY <2>9, <2>10 DEF b
<1> QED
  BY <1>4, <1>5

(***************************************************************************)
(* The steps                                                               *)
(***************************************************************************)
\* A graph whose nodes are numbered is reported as its slots are.
LEMMA NumberedFirst ==
  ASSUME NEW g
  PROVE  /\ Numbered(g) = Success => OneThread(g) = check_slots(g)
         /\ Numbered(g) # Success => OneThread(g) = Numbered(g)
  BY DEF OneThread, Then

\* What check_slots returns, by the pass that finds the first error.
LEMMA FirstPassDecides ==
  ASSUME NEW g
  PROVE  /\ All(g, "properties") # Success => check_slots(g) = All(g, "properties")
         /\ All(g, "properties") = Success /\ All(g, "edges") # Success =>
              check_slots(g) = All(g, "edges")
         /\ All(g, "properties") = Success /\ All(g, "edges") = Success =>
              check_slots(g) = All(g, "pairing")
  BY DEF check_slots, Then

\* A fold that is complete stands for all the checks of its pass.
LEMMA FoldedReportsAll ==
  ASSUME IInv, phase \in Folds, NEW report \in Folded
  PROVE  report = All(raw, phase)
<1>1. Checks(phase) \in Nat
  BY ChecksCounted DEF Folds
<1>2. CASE Checks(phase) = 0
  <2>1. Failing(raw, phase, 1, 0) = {}
    BY DEF Failing
  <2>2. InOrder(raw, phase, 1, 0) = Success
    BY <2>1, SuccessWhenNoneFails
  <2> QED
    BY <1>2, <2>2 DEF Folded, All
<1>3. CASE Checks(phase) # 0
  BY <1>3 DEF Folded, All, IInv, SegmentsReport
<1> QED
  BY <1>2, <1>3

\* Before any job has run there is nothing to report.
LEMMA InitIInv == Init => IInv
  BY DEF Init, IInv, SegmentsReport, BucketsReport, PassesReport, ReportsFirstError, Folds

\* No job, fold or join loses the earliest error.
LEMMA NextIInv == IInv /\ [Next]_vars => IInv'
<1> SUFFICES ASSUME IInv, [Next]_vars PROVE IInv'
  OBVIOUS
<1> USE DEF Folds
<1>1. CASE Begin
  <2>1. phase = "start" /\ UNCHANGED <<raw, segments, collected>>
    BY <1>1 DEF Begin
  <2>2. \/ phase' = "done" /\ outcome' = OneThread(raw)
        \/ phase' = "properties" /\ Numbered(raw) = Success
    BY <1>1, NumberedFirst DEF Begin, Finish
  <2>3. PassesReport' /\ ReportsFirstError'
    BY <2>1, <2>2 DEF PassesReport, ReportsFirstError
  <2> QED
    BY <2>1, <2>2, <2>3 DEF IInv, SegmentsReport, BucketsReport
<1>2. CASE CheckOne
  <2>1. phase \in Folds /\ UNCHANGED <<raw, phase, collected, outcome>>
    BY <1>2 DEF CheckOne
  <2>2. PICK i \in 1 .. Checks(phase) :
          segments' = segments \cup {Segment(i, i, InOrder(raw, phase, i, i))}
    BY <1>2 DEF CheckOne
  <2>3. i \in Nat /\ 1 <= i
    BY <2>1, ChecksCounted
  <2>4. SegmentsReport'
    BY <2>1, <2>2, <2>3 DEF IInv, SegmentsReport, Segment
  <2>5. BucketsReport' /\ PassesReport' /\ ReportsFirstError'
    BY <2>1 DEF IInv, BucketsReport, PassesReport, ReportsFirstError
  <2> QED
    BY <2>4, <2>5 DEF IInv
<1>3. CASE Fold
  <2>1. phase \in Folds /\ UNCHANGED <<raw, phase, collected, outcome>>
    BY <1>3 DEF Fold
  <2>2. PICK s \in segments, t \in segments :
          /\ s.hi + 1 = t.lo
          /\ segments' = (segments \ {s, t}) \cup {Segment(s.lo, t.hi, Then(s.report, t.report))}
    BY <1>3 DEF Fold
  <2>3. /\ s.lo \in Nat /\ s.hi \in Nat /\ t.lo \in Nat /\ t.hi \in Nat
        /\ 1 <= s.lo /\ s.lo <= s.hi /\ t.lo <= t.hi
        /\ s.report = InOrder(raw, phase, s.lo, s.hi)
        /\ t.report = InOrder(raw, phase, t.lo, t.hi)
    BY <2>1, <2>2 DEF IInv, SegmentsReport
  <2>4. Then(s.report, t.report) = InOrder(raw, phase, s.lo, t.hi)
    <3>1. s.hi + 1 <= t.hi
      BY <2>2, <2>3
    <3>2. InOrder(raw, phase, s.lo, t.hi)
            = Then(InOrder(raw, phase, s.lo, s.hi), InOrder(raw, phase, s.hi + 1, t.hi))
      BY <2>3, <3>1, NeighboursFold
    <3> QED
      BY <2>2, <2>3, <3>2
  <2>5. s.lo <= t.hi
    BY <2>2, <2>3
  <2>6. SegmentsReport'
    BY <2>1, <2>2, <2>3, <2>4, <2>5 DEF IInv, SegmentsReport, Segment
  <2>7. BucketsReport' /\ PassesReport' /\ ReportsFirstError'
    BY <2>1 DEF IInv, BucketsReport, PassesReport, ReportsFirstError
  <2> QED
    BY <2>6, <2>7 DEF IInv
<1>4. CASE FinishFold
  <2>1. phase \in Folds /\ segments' = {} /\ UNCHANGED <<raw, collected>>
    BY <1>4 DEF FinishFold
  <2>2. PICK report \in Folded :
          \/ /\ report = Success /\ phase = "properties"
             /\ phase' = "edges" /\ UNCHANGED outcome
          \/ /\ report # Success \/ phase = "pairing"
             /\ Finish(report)
    BY <1>4 DEF FinishFold
  <2>3. report = All(raw, phase)
    BY <2>1, FoldedReportsAll
  <2>4. SegmentsReport' /\ BucketsReport'
    BY <2>1 DEF IInv, SegmentsReport, BucketsReport
  <2>5. PassesReport'
    BY <2>1, <2>2, <2>3 DEF IInv, PassesReport, Finish
  <2>6. ReportsFirstError'
    <3>1. CASE phase' = "done"
      <4>1. outcome' = All(raw, phase) /\ (All(raw, phase) # Success \/ phase = "pairing")
        BY <2>2, <2>3, <3>1 DEF Finish
      <4>2. outcome' = check_slots(raw)
        BY <2>1, <4>1, FirstPassDecides DEF IInv, PassesReport
      <4>3. outcome' = OneThread(raw)
        BY <2>1, <4>2, NumberedFirst DEF IInv, PassesReport
      <4> QED
        BY <2>1, <4>3 DEF ReportsFirstError
    <3> QED
      BY <3>1 DEF ReportsFirstError
  <2> QED
    BY <2>4, <2>5, <2>6 DEF IInv
<1>5. CASE CheckBucket
  <2>1. phase = "edges" /\ UNCHANGED <<raw, phase, segments, outcome>>
    BY <1>5 DEF CheckBucket
  <2>2. BucketsReport'
    BY <1>5, <2>1 DEF CheckBucket, IInv, BucketsReport
  <2> QED
    BY <2>1, <2>2 DEF IInv, SegmentsReport, PassesReport, ReportsFirstError
<1>6. CASE CollectBuckets
  <2> DEFINE failing == {b \in Buckets : collected[b] # Success}
  <2>1. /\ phase = "edges" /\ DOMAIN collected = Buckets
        /\ UNCHANGED <<raw, segments, collected>>
        /\ \/ failing = {} /\ phase' = "pairing" /\ UNCHANGED outcome
           \/ failing # {} /\ Finish(collected[Lowest(failing)])
    BY <1>6 DEF CollectBuckets
  <2>2. failing = {b \in Buckets : InBucket(raw, b) # Success}
    BY <2>1 DEF IInv, BucketsReport
  <2> HIDE DEF failing
  <2>3. CASE failing = {}
    <3>1. All(raw, "edges") = Success
      BY <2>2, <2>3, BucketsReportEdges
    <3>2. segments' = segments /\ phase' = "pairing"
      BY <2>1, <2>3
    <3>3. segments = {}
      BY <2>1 DEF IInv, SegmentsReport
    <3> QED
      BY <2>1, <3>1, <3>2, <3>3
         DEF IInv, SegmentsReport, BucketsReport, PassesReport, ReportsFirstError
  <2>4. CASE failing # {}
    <3>1. Lowest(failing) \in Buckets
      <4>1. failing \subseteq Buckets /\ Buckets \subseteq Nat
        BY <2>2, SchemaAssumption DEF Buckets
      <4> QED
        BY <2>4, <4>1, LowestIsLeast
    <3>2. outcome' = All(raw, "edges") /\ All(raw, "edges") # Success /\ phase' = "done"
      BY <2>1, <2>2, <2>4, <3>1, BucketsReportEdges DEF Finish, IInv, BucketsReport
    <3>3. outcome' = check_slots(raw)
      BY <2>1, <3>2, FirstPassDecides DEF IInv, PassesReport
    <3>4. outcome' = OneThread(raw)
      BY <2>1, <3>3, NumberedFirst DEF IInv, PassesReport
    <3> QED
      BY <2>1, <3>2, <3>4
         DEF IInv, SegmentsReport, BucketsReport, PassesReport, ReportsFirstError
  <2> QED
    BY <2>3, <2>4
<1>7. CASE Returned
  BY <1>7 DEF Returned, vars, IInv, SegmentsReport, BucketsReport, PassesReport,
              ReportsFirstError
<1>8. CASE UNCHANGED vars
  BY <1>8 DEF vars, IInv, SegmentsReport, BucketsReport, PassesReport, ReportsFirstError
<1> QED
  BY <1>1, <1>2, <1>3, <1>4, <1>5, <1>6, <1>7, <1>8 DEF Next

\* However the workers are scheduled, and for every graph and schema, the
\* report is the one a single thread would have made.
THEOREM FirstErrorAlwaysReported == Spec => []ReportsFirstError
<1>1. IInv => ReportsFirstError
  BY DEF IInv
<1> QED
  BY <1>1, InitIInv, NextIInv, PTL DEF Spec

(***************************************************************************)
(* Types                                                                   *)
(***************************************************************************)
\* Every check has a name for what it finds.
LEMMA CheckIsNamed ==
  ASSUME NEW g, NEW pass \in {"properties", "edges", "pairing"}, NEW i
  PROVE  Check(g, pass, i) \in Errors
BY ErrorsNamed DEF Check

\* A run of checks reports a check, or success.
LEMMA InOrderIsReport ==
  ASSUME NEW g, NEW pass \in {"properties", "edges", "pairing"}, NEW lo \in Nat, NEW hi \in Nat
  PROVE  InOrder(g, pass, lo, hi) \in Report
<1>1. Success \in Report
  BY DEF Success, Report, Errors
<1>2. CASE Failing(g, pass, lo, hi) = {}
  BY <1>1, <1>2, SuccessWhenNoneFails
<1>3. CASE Failing(g, pass, lo, hi) # {}
  <2> DEFINE m == Lowest(Failing(g, pass, lo, hi))
  <2>1. m \in Nat
    <3>1. Failing(g, pass, lo, hi) \subseteq Nat
      BY DEF Failing
    <3> QED BY <1>3, <3>1, LowestIsLeast
  <2>2. InOrder(g, pass, lo, hi) = [error |-> Check(g, pass, m), pass |-> pass, at |-> m]
    BY <1>3, SuccessWhenNoneFails
  <2>3. Check(g, pass, m) \in Errors
    BY CheckIsNamed
  <2> HIDE DEF m
  <2> QED BY <2>1, <2>2, <2>3 DEF Report
<1> QED BY <1>2, <1>3

\* The report of one thread is a report.
LEMMA CheckSlotsReports == ASSUME NEW g PROVE check_slots(g) \in Report
<1>1. ASSUME NEW pass \in {"properties", "edges", "pairing"} PROVE All(g, pass) \in Report
  BY ChecksCounted, InOrderIsReport DEF All
<1> QED BY <1>1 DEF check_slots, Then

\* Too many nodes are reported as such.
LEMMA NumberedReports == ASSUME NEW g PROVE Numbered(g) \in Report
<1>1. NodeIndexError(g) \in Errors
  BY DEF NodeIndexError, Errors
<1> QED BY <1>1 DEF Numbered, Success, Report

\* So is the report of a bucket.
LEMMA BucketIsReport == ASSUME NEW g, NEW b \in Buckets PROVE InBucket(g, b) \in Report
<1>1. b \in Nat /\ b - 1 \in Nat /\ NodeKindCount \in Nat
  BY SchemaAssumption DEF Buckets
<1>2. (b - 1) * NodeKindCount \in Nat /\ b * NodeKindCount \in Nat
  BY <1>1
<1>3. (b - 1) * NodeKindCount + 1 \in Nat
  BY <1>2
<1> QED BY <1>2, <1>3, InOrderIsReport DEF InBucket

\* Runs of checks to be folded are disjoint.
Disjoint == \A s, t \in segments : s # t => s.hi < t.lo \/ t.hi < s.lo
TypeInv == IInv /\ raw \in RawGraphs /\ outcome \in Report /\ Disjoint

\* Each step leaves a report of its type and disjoint runs.
LEMMA StepTypeInv == ASSUME TypeInv, IInv', [Next]_vars PROVE TypeInv'
<1>1. raw' = raw
  BY DEF Next, vars, Begin, CheckOne, Fold, FinishFold, CheckBucket, CollectBuckets, Returned
<1>2. CASE Begin
  <2>1. outcome' \in Report
    BY <1>2, CheckSlotsReports, NumberedReports DEF Begin, Finish, TypeInv
  <2> QED BY <1>1, <1>2, <2>1 DEF Begin, TypeInv, Disjoint
<1>3. CASE CheckOne
  <2>1. PICK i \in 1 .. Checks(phase) :
          /\ \A s \in segments : i \notin s.lo .. s.hi
          /\ segments' = segments \cup {Segment(i, i, InOrder(raw, phase, i, i))}
    BY <1>3 DEF CheckOne
  <2>2. i \in Nat
    OBVIOUS
  <2>3. \A s \in segments : s.lo \in Nat /\ s.hi \in Nat
    BY <1>3 DEF TypeInv, IInv, SegmentsReport, CheckOne
  <2>4. \A s \in segments : s.hi < i \/ i < s.lo
    BY <2>1, <2>2, <2>3
  <2>5. Segment(i, i, InOrder(raw, phase, i, i)).lo = i /\ Segment(i, i, InOrder(raw, phase, i, i)).hi = i
    BY DEF Segment
  <2>6. Disjoint'
    BY <2>1, <2>4, <2>5 DEF TypeInv, Disjoint
  <2> QED BY <1>1, <1>3, <2>6 DEF CheckOne, TypeInv
<1>4. CASE Fold
  <2>1. PICK s \in segments, t \in segments :
          /\ s.hi + 1 = t.lo
          /\ segments' = (segments \ {s, t}) \cup {Segment(s.lo, t.hi, Then(s.report, t.report))}
    BY <1>4 DEF Fold
  <2> DEFINE both == Segment(s.lo, t.hi, Then(s.report, t.report))
  <2>2. \A u \in segments : u.lo \in Nat /\ u.hi \in Nat /\ u.lo <= u.hi
    BY <1>4 DEF TypeInv, IInv, SegmentsReport, Fold
  <2>3. both.lo = s.lo /\ both.hi = t.hi
    BY DEF Segment
  <2>4. ASSUME NEW u \in segments \ {s, t} PROVE u.hi < both.lo \/ both.hi < u.lo
    <3>1. u.hi < s.lo \/ s.hi < u.lo
      BY DEF TypeInv, Disjoint
    <3>2. u.hi < t.lo \/ t.hi < u.lo
      BY DEF TypeInv, Disjoint
    <3> HIDE DEF both
    <3> QED BY <2>1, <2>2, <2>3, <3>1, <3>2
  <2> HIDE DEF both
  <2>5. segments' = (segments \ {s, t}) \cup {both}
    BY <2>1 DEF both
  <2>6. Disjoint'
    BY <2>4, <2>5 DEF TypeInv, Disjoint
  <2> QED BY <1>1, <1>4, <2>6 DEF Fold, TypeInv
<1>5. CASE FinishFold
  <2>1. segments' = {}
    BY <1>5 DEF FinishFold
  <2>2. phase \in Folds /\ phase \in {"properties", "edges", "pairing"} /\ Checks(phase) \in Nat
    BY <1>5, ChecksCounted DEF FinishFold, Folds
  <2>3. \A report \in Folded : report \in Report
    <3>1. Success \in Report
      BY DEF Success, Report, Errors
    <3>2. \A s \in segments : s.report = InOrder(raw, phase, s.lo, s.hi) /\ s.lo \in Nat /\ s.hi \in Nat
      BY <2>2 DEF TypeInv, IInv, SegmentsReport
    <3>3. \A s \in segments : s.report \in Report
      BY <2>2, <3>2, InOrderIsReport
    <3> QED BY <3>1, <3>3 DEF Folded
  <2>4. outcome' \in Report
    BY <1>5, <2>3 DEF FinishFold, Finish, TypeInv
  <2> QED BY <1>1, <2>1, <2>4 DEF TypeInv, Disjoint
<1>6. CASE CheckBucket \/ Returned \/ UNCHANGED vars
  BY <1>1, <1>6 DEF CheckBucket, Returned, vars, TypeInv, Disjoint
<1>7. CASE CollectBuckets
  <2>1. outcome' \in Report
    <3> DEFINE failing == {b \in Buckets : collected[b] # Success}
    <3>1. \/ outcome' = outcome
          \/ failing # {} /\ outcome' = collected[Lowest(failing)]
      BY <1>7, Zenon DEF CollectBuckets, Finish
    <3>2. DOMAIN collected = Buckets
      BY <1>7 DEF CollectBuckets
    <3>3. failing # {} => Lowest(failing) \in Buckets
      BY SchemaAssumption, LowestIsLeast DEF Buckets
    <3>4. \A b \in Buckets : collected[b] \in Report
      BY <3>2, BucketIsReport DEF TypeInv, IInv, BucketsReport
    <3> QED BY <3>1, <3>3, <3>4 DEF TypeInv
  <2> QED BY <1>1, <1>7, <2>1 DEF CollectBuckets, TypeInv, Disjoint
<1> QED BY <1>2, <1>3, <1>4, <1>5, <1>6, <1>7 DEF Next

\* TypeInv holds at first and in every step.
LEMMA TypeInvAlways == Spec => []TypeInv
<1>1. Init => TypeInv
  BY InitIInv DEF Init, TypeInv, Disjoint, Success, Report, Errors
<1>2. TypeInv /\ [Next]_vars => TypeInv'
  BY StepTypeInv, NextIInv DEF TypeInv
<1> QED BY <1>1, <1>2, PTL DEF Spec

\* In every state of every check: the report and the results to be folded are of their
\* types, and no two of those results stand for the same check.
THEOREM CheckTypeAlwaysOK == Spec => []TypeOK
<1>1. TypeInv => TypeOK
  <2> SUFFICES ASSUME TypeInv PROVE TypeOK
    OBVIOUS
  <2>1. raw \in Graph
    <3>1. RawGraphs \subseteq Graph
      BY CheckAssumption
    <3>2. raw \in RawGraphs
      BY DEF TypeInv
    <3> QED BY <3>1, <3>2
  <2>2. \A s \in segments : s.lo \in Nat /\ s.hi \in Nat /\ s.lo <= s.hi /\ s.report \in Report
    BY InOrderIsReport DEF TypeInv, IInv, SegmentsReport, PassesReport, Folds
  <2>3. \A b \in DOMAIN collected : collected[b] \in Report
    BY BucketIsReport DEF TypeInv, IInv, BucketsReport
  <2> QED BY <2>1, <2>2, <2>3 DEF TypeInv, Disjoint, IInv, PassesReport, BucketsReport, TypeOK
<1> QED BY <1>1, TypeInvAlways, PTL

(***************************************************************************)
(* What the checker accepts                                                *)
(***************************************************************************)
\* A graph passes exactly when each of its checks does.
LEMMA ChecksPass ==
  ASSUME NEW g
  PROVE  check_slots(g) = Success <=>
           /\ \A s \in PropertySlots : check_property_slot(g, s) = Ok
           /\ \A s \in EdgeSlots : check_edge_slot(g, s) = Ok
           /\ \A e \in EdgeKinds : check_half_edge_pairing(g, e) = Ok
<1>1. ASSUME NEW pass \in {"properties", "edges", "pairing"}
      PROVE  All(g, pass) = Success <=> \A i \in 1 .. Checks(pass) : Check(g, pass, i) = Ok
  <2>1. Checks(pass) \in Nat
    BY ChecksCounted
  <2>2. All(g, pass) = Success <=> Failing(g, pass, 1, Checks(pass)) = {}
    BY <2>1, SuccessWhenNoneFails DEF All
  <2> QED BY <2>2 DEF Failing
<1>2. check_slots(g) = Success <=>
        All(g, "properties") = Success /\ All(g, "edges") = Success /\ All(g, "pairing") = Success
  BY FirstPassDecides
<1>3. All(g, "properties") = Success <=> \A s \in PropertySlots : check_property_slot(g, s) = Ok
  <2>1. property_storage_size \in Nat
    BY SchemaAssumption DEF property_storage_size
  <2>2. /\ \A i \in 1 .. property_storage_size : i - 1 \in PropertySlots
        /\ \A s \in PropertySlots : s + 1 \in 1 .. property_storage_size /\ (s + 1) - 1 = s
    BY <2>1 DEF PropertySlots
  <2>3. \A i : Check(g, "properties", i) = check_property_slot(g, i - 1)
    BY DEF Check
  <2>4. Checks("properties") = property_storage_size
    BY DEF Checks
  <2> QED BY <1>1, <2>2, <2>3, <2>4
<1>4. All(g, "edges") = Success <=> \A s \in EdgeSlots : check_edge_slot(g, s) = Ok
  <2>1. edge_storage_size \in Nat
    BY SchemaAssumption DEF edge_storage_size
  <2>2. /\ \A i \in 1 .. edge_storage_size : i - 1 \in EdgeSlots
        /\ \A s \in EdgeSlots : s + 1 \in 1 .. edge_storage_size /\ (s + 1) - 1 = s
    BY <2>1 DEF EdgeSlots
  <2>3. \A i : Check(g, "edges", i) = check_edge_slot(g, i - 1)
    BY DEF Check
  <2>4. Checks("edges") = edge_storage_size
    BY DEF Checks
  <2> QED BY <1>1, <2>2, <2>3, <2>4
<1>5. All(g, "pairing") = Success <=> \A e \in EdgeKinds : check_half_edge_pairing(g, e) = Ok
  <2>1. /\ \A i \in 1 .. EdgeKindCount : i - 1 \in EdgeKinds
        /\ \A e \in EdgeKinds : e + 1 \in 1 .. EdgeKindCount /\ (e + 1) - 1 = e
    BY SchemaAssumption DEF EdgeKinds
  <2>2. \A i : Check(g, "pairing", i) = check_half_edge_pairing(g, i - 1)
    BY DEF Check
  <2>3. Checks("pairing") = EdgeKindCount
    BY DEF Checks
  <2> QED BY <1>1, <2>1, <2>2, <2>3
<1> QED BY <1>2, <1>3, <1>4, <1>5

\* Offsets that are in shape and end at the last item cut the items into runs.
LEMMA ShapedCuts ==
  ASSUME NEW n \in Nat, NEW offsets \in Seq(0 .. MaxOffset), NEW items
  PROVE  CutInRuns(offsets, n, items) <=> Shaped(offsets, n) /\ LastOffset(offsets) = items
<1>1. CASE offsets = <<>>
  BY <1>1 DEF CutInRuns, Shaped, LastOffset
<1>2. CASE offsets # <<>>
  <2>1. Len(offsets) \in Nat /\ DOMAIN offsets = 1 .. Len(offsets)
    BY LenProperties
  <2>2. Len(offsets) # 0
    BY <1>2, EmptySeq
  <2>3. DOMAIN offsets = 1 .. n + 1 <=> Len(offsets) = n + 1
    <3>1. ASSUME 1 .. Len(offsets) = 1 .. n + 1 PROVE Len(offsets) = n + 1
      <4>1. PICK m \in Nat : m = Len(offsets)
        BY <2>1
      <4>2. \A x : x \in 1 .. m <=> x \in 1 .. n + 1
        BY <3>1, <4>1
      <4>3. n + 1 \in 1 .. m /\ m \in 1 .. n + 1
        BY <2>2, <4>1, <4>2
      <4>4. m = n + 1
        BY <4>3
      <4> QED BY <4>1, <4>4
    <3> QED BY <2>1, <3>1
  <2>4. ASSUME Shaped(offsets, n), LastOffset(offsets) = items PROVE CutInRuns(offsets, n, items)
    <3>1. Len(offsets) = n + 1 /\ offsets[1] = 0
      BY <1>2, <2>4 DEF Shaped
    <3>2. \A i, j \in 1 .. n + 1 : i <= j => offsets[i] <= offsets[j]
      BY <1>2, <2>4, OffsetsOrdered
    <3>3. offsets[n + 1] = items
      BY <1>2, <2>4, <3>1 DEF LastOffset
    <3> QED BY <2>1, <3>1, <3>2, <3>3 DEF CutInRuns
  <2>5. ASSUME CutInRuns(offsets, n, items) PROVE Shaped(offsets, n) /\ LastOffset(offsets) = items
    <3>1. /\ DOMAIN offsets = 1 .. n + 1 /\ offsets[1] = 0 /\ offsets[n + 1] = items
          /\ \A i, j \in DOMAIN offsets : i < j => offsets[i] <= offsets[j]
      BY <1>2, <2>5 DEF CutInRuns
    <3>2. Len(offsets) = n + 1
      BY <2>3, <3>1
    <3>3. \A i \in 1 .. n : offsets[i] <= offsets[i + 1]
      <4> TAKE i \in 1 .. n
      <4>1. i \in DOMAIN offsets /\ i + 1 \in DOMAIN offsets /\ i < i + 1
        BY <3>1
      <4> QED BY <3>1, <4>1
    <3> QED BY <1>2, <3>1, <3>2, <3>3 DEF Shaped, LastOffset
  <2> QED BY <2>4, <2>5
<1> QED BY <1>1, <1>2

\* The nodes of the graph under check.
LEMMA NodesNamed ==
  ASSUME raw \in Graph, NEW node
  PROVE  node \in AllNodes <=> node \in RawNodeId /\ Named(node, Counted(raw))
<1>1. \A k \in NodeKinds : /\ Len(raw.nodes[k]) \in Nat /\ DOMAIN raw.nodes[k] = 1 .. Len(raw.nodes[k])
                           /\ Counted(raw)[k] = Len(raw.nodes[k])
  <2> TAKE k \in NodeKinds
  <2>1. raw.nodes[k] \in Seq(BOOLEAN)
    BY DEF Graph
  <2> QED BY <2>1, LenProperties DEF Counted
<1>2. NodeKinds \subseteq Nat
  BY SchemaAssumption DEF NodeKinds
<1>3. ASSUME node \in AllNodes PROVE node \in RawNodeId /\ Named(node, Counted(raw))
  <2>1. PICK k \in NodeKinds : \E i \in DOMAIN raw.nodes[k] : node = <<k, i - 1>>
    BY <1>3 DEF AllNodes
  <2>2. PICK i \in DOMAIN raw.nodes[k] : node = <<k, i - 1>>
    BY <2>1
  <2>3. i \in 1 .. Len(raw.nodes[k]) /\ k \in Nat
    BY <1>1, <1>2, <2>2
  <2>4. i - 1 \in Nat /\ i - 1 < Len(raw.nodes[k])
    BY <1>1, <2>2, <2>3
  <2> QED BY <1>1, <2>2, <2>3, <2>4 DEF RawNodeId, Named, KindOf, SeqOf
<1>4. ASSUME node \in RawNodeId, Named(node, Counted(raw)) PROVE node \in AllNodes
  <2>1. PICK k \in Nat, q \in Nat : node = <<k, q>>
    BY <1>4 DEF RawNodeId
  <2>2. k \in NodeKinds /\ q < Len(raw.nodes[k])
    BY <1>1, <1>4, <2>1 DEF Named, KindOf, SeqOf
  <2>3. q + 1 \in DOMAIN raw.nodes[k] /\ node = <<k, (q + 1) - 1>>
    BY <1>1, <2>1, <2>2
  <2> QED BY <2>2, <2>3 DEF AllNodes
<1> QED BY <1>3, <1>4

\* A stored value passes its check exactly when it names something.
LEMMA PassesWhenNames ==
  ASSUME raw \in Graph, NEW decl \in PropertyDecl, NEW key,
         decl.typ = "NodeId" => key \in RawNodeId,
         decl.typ = "Enum" => key \in Nat \X Nat,
         decl.typ = "String" => Len(key) = 1 /\ key[1] \in Nat, key \in Key
  PROVE  ContentPasses(raw, decl.typ, key, decl.enum) <=> NamesSomething(key, decl)
<1>1. CASE decl.typ = "NodeId"
  <2>1. SeqOf(key) \in Nat
    BY <1>1 DEF RawNodeId, SeqOf
  <2>2. check_node_id(raw, key) = Ok <=> key \in AllNodes
    BY <1>1, <2>1, NodeIdCheck, NodesNamed
  <2> QED BY <1>1, <2>2 DEF ContentPasses, NamesSomething
<1>2. CASE decl.typ = "String"
  <2>1. raw.strings \in Seq(Texts)
    BY DEF Graph
  <2>2. Len(raw.strings) \in Nat /\ DOMAIN raw.strings = 1 .. Len(raw.strings)
    BY <2>1, LenProperties
  <2>3. key \in Seq(Nat) /\ Len(key) = 1 /\ key[1] \in Nat
    BY <1>2 DEF Key
  <2>4. PICK id \in Nat : id = key[1]
    BY <2>3
  <2>5. key = <<id>>
    BY <2>3, <2>4
  <2>6. check_string_id(raw, key[1]) = Ok <=> id < Len(raw.strings)
    BY <2>4 DEF check_string_id, Ok
  <2>7. id < Len(raw.strings) <=> \E i \in 1 .. Len(raw.strings) : id = i - 1
    <3>1. ASSUME id < Len(raw.strings) PROVE id + 1 \in 1 .. Len(raw.strings) /\ id = (id + 1) - 1
      BY <2>2, <3>1
    <3>2. ASSUME NEW i \in 1 .. Len(raw.strings), id = i - 1 PROVE id < Len(raw.strings)
      BY <2>2, <3>2
    <3> QED BY <3>1, <3>2
  <2>8. \A i : key = <<i>> <=> id = i
    BY <2>5
  <2>9. (\E i \in DOMAIN raw.strings : key = <<i - 1>>) <=> check_string_id(raw, key[1]) = Ok
    <3>1. \A i : key = <<i - 1>> <=> id = i - 1
      BY <2>8
    <3> QED BY <2>2, <2>6, <2>7, <3>1
  <2> QED BY <1>2, <2>9 DEF ContentPasses, NamesSomething
<1>3. CASE decl.typ = "Enum"
  <2>1. PICK e \in Nat, v \in Nat : key = <<e, v>>
    BY <1>3
  <2>2. key[1] = e /\ key[2] = v
    BY <2>1
  <2>3. decl.enum \in Nat
    BY DEF PropertyDecl
  <2>4. decl.enum + 1 \in DOMAIN EnumVariants => EnumVariants[decl.enum + 1] \in Nat
    BY SchemaAssumption, LenProperties, ElementOfSeq
  <2>5. check_enum_id(e, v, decl.enum) = Ok <=>
          e + 1 \in DOMAIN EnumVariants /\ e = decl.enum /\ ~ (v >= EnumVariants[e + 1])
    BY DEF check_enum_id, Ok
  <2>6. check_enum_id(e, v, decl.enum) = Ok <=>
          /\ decl.enum + 1 \in DOMAIN EnumVariants
          /\ e = decl.enum /\ v \in 0 .. EnumVariants[decl.enum + 1] - 1
    BY <2>3, <2>4, <2>5
  <2>7. \A w : key = <<decl.enum, w>> <=> e = decl.enum /\ v = w
    BY <2>1
  <2> QED BY <1>3, <2>2, <2>6, <2>7 DEF ContentPasses, NamesSomething
<1>4. CASE decl.typ \notin {"NodeId", "String", "Enum"}
  BY <1>4 DEF ContentPasses, NamesSomething
<1> QED BY <1>1, <1>2, <1>3, <1>4

\* A slot of the graph under check, its offsets in shape, holds values as declared
\* exactly when they pass their checks.
LEMMA HoldsWhenPasses ==
  ASSUME raw \in Graph, NEW decl \in PropertyDecl, NEW n \in Nat, NEW slot,
         slot.values \in StorageArray, ArrayKeyed(slot.values),
         slot.offsets \in Seq(0 .. MaxOffset), Shaped(slot.offsets, n)
  PROVE  HoldsValues(slot, decl, n) <=>
           /\ slot.values.typ = decl.typ
           /\ decl.typ # "None" => LastOffset(slot.offsets) = Len(slot.values.items)
           /\ AllContentPasses(raw, slot.values, decl.enum)
<1> DEFINE array == slot.values
<1>1. array.items \in Seq(Key)
  BY DEF StorageArray
<1>2. DOMAIN array.items = 1 .. Len(array.items) /\ \A i \in 1 .. Len(array.items) : array.items[i] \in Key
  BY <1>1, LenProperties, ElementOfSeq
<1>3. CutInRuns(slot.offsets, n, Len(array.items)) <=> LastOffset(slot.offsets) = Len(array.items)
  BY ShapedCuts
<1>4. ASSUME array.typ = decl.typ, NEW i \in 1 .. Len(array.items)
      PROVE  ContentPasses(raw, array.typ, array.items[i], decl.enum) <=> NamesSomething(array.items[i], decl)
  <2> DEFINE key == array.items[i]
  <2>1. /\ decl.typ = "NodeId" => key \in RawNodeId
        /\ decl.typ = "Enum" => key \in Nat \X Nat
        /\ decl.typ = "String" => Len(key) = 1 /\ key[1] \in Nat
        /\ key \in Key
    BY <1>2, <1>4 DEF ArrayKeyed
  <2> HIDE DEF key
  <2>2. ContentPasses(raw, decl.typ, key, decl.enum) <=> NamesSomething(key, decl)
    BY <2>1, PassesWhenNames
  <2> QED BY <1>4, <2>2 DEF key
<1> QED BY <1>2, <1>3, <1>4 DEF HoldsValues, AllContentPasses

\* The graphs handed to the checker, as they are assumed.
LEMMA RawTyped ==
  ASSUME raw \in RawGraphs
  PROVE  /\ raw \in Graph
         /\ \A s \in EdgeSlots : raw.edges[s] \in EdgeStorageSlot /\ ArrayKeyed(raw.edges[s].values)
         /\ \A s \in PropertySlots :
              raw.properties[s] \in PropertyStorageSlot /\ ArrayKeyed(raw.properties[s].values)
         /\ \A k \in NodeKinds : Len(raw.nodes[k]) \in Nat /\ Counted(raw)[k] = Len(raw.nodes[k])
<1>1. RawGraphs \subseteq Graph
  BY CheckAssumption
<1>2. raw \in Graph
  BY <1>1
<1>3. \A k \in NodeKinds : raw.nodes[k] \in Seq(BOOLEAN)
  BY <1>2 DEF Graph
<1>4. \A k \in NodeKinds : Len(raw.nodes[k]) \in Nat
  BY <1>3, LenProperties
<1>5. /\ \A s \in EdgeSlots : ArrayKeyed(raw.edges[s].values)
      /\ \A s \in PropertySlots : ArrayKeyed(raw.properties[s].values)
  BY CheckAssumption
<1>6. /\ \A s \in EdgeSlots : raw.edges[s] \in EdgeStorageSlot
      /\ \A s \in PropertySlots : raw.properties[s] \in PropertyStorageSlot
  BY <1>2 DEF Graph
<1> QED BY <1>2, <1>4, <1>5, <1>6 DEF Counted

\* What well-formedness asks of a property slot.
PropertyHeld(k, p) ==
  LET slot == raw.properties[property_storage_slot(k, p)]
  IN  /\ HoldsValues(slot, NodeProperty[p], Len(raw.nodes[k]))
      /\ CutInRuns(slot.offsets, Len(raw.nodes[k]), LastOffset(slot.offsets))

\* Every property slot passes exactly when each holds what it should.
LEMMA PropertiesHeld ==
  ASSUME raw \in RawGraphs
  PROVE  (\A s \in PropertySlots : check_property_slot(raw, s) = Ok)
           <=> \A k \in NodeKinds, p \in PropertyKinds : PropertyHeld(k, p)
<1>1. ASSUME NEW k \in NodeKinds, NEW p \in PropertyKinds
      PROVE  check_property_slot(raw, property_storage_slot(k, p)) = Ok <=> PropertyHeld(k, p)
  <2>1. PICK n \in Nat : n = Len(raw.nodes[k])
    BY RawTyped
  <2>2. PICK s \in PropertySlots : s = property_storage_slot(k, p)
    BY PropertySlotOfKinds
  <2>3. SlotNodeKind(s) = k /\ SlotPropertyKind(s) = p
    BY <2>2, PropertySlotOfKinds
  <2>4. PICK decl \in PropertyDecl : decl = NodeProperty[p]
    BY SchemaAssumption
  <2>5. decl.typ # "None"
    BY <2>4, NodePropertyAssumption
  <2> DEFINE slot == raw.properties[s]
  <2>6. raw \in Graph /\ slot \in PropertyStorageSlot /\ ArrayKeyed(slot.values)
    BY RawTyped
  <2>7. check_property_slot(raw, s) = Ok <=>
           /\ PropertySlotSound(slot, n, decl.typ)
           /\ AllContentPasses(raw, slot.values, decl.enum)
    BY <2>1, <2>3, <2>4, <2>5, <2>6, PropertySlotCheck
  <2> HIDE DEF slot
  <2>8. slot.values \in StorageArray /\ slot.offsets \in Seq(0 .. MaxOffset)
    BY <2>6 DEF PropertyStorageSlot
  <2>9. CutInRuns(slot.offsets, n, LastOffset(slot.offsets)) <=> Shaped(slot.offsets, n)
    BY <2>8, ShapedCuts
  <2>10. Shaped(slot.offsets, n) =>
           (HoldsValues(slot, decl, n) <=>
              /\ slot.values.typ = decl.typ
              /\ decl.typ # "None" => LastOffset(slot.offsets) = Len(slot.values.items)
              /\ AllContentPasses(raw, slot.values, decl.enum))
    BY <2>6, <2>8, HoldsWhenPasses
  <2>11. PropertyHeld(k, p) <=>
           HoldsValues(slot, decl, n) /\ CutInRuns(slot.offsets, n, LastOffset(slot.offsets))
    BY <2>1, <2>2, <2>4 DEF PropertyHeld, slot
  <2> QED BY <2>2, <2>5, <2>6, <2>7, <2>9, <2>10, <2>11 DEF PropertySlotSound
<1>2. \A k \in NodeKinds, p \in PropertyKinds : property_storage_slot(k, p) \in PropertySlots
  BY PropertySlotOfKinds
<1>3. \A s \in PropertySlots : \E k \in NodeKinds, p \in PropertyKinds : s = property_storage_slot(k, p)
  BY SchemaAssumption, PropertySlotReached
     DEF PropertySlots, property_storage_size, NodeKinds, PropertyKinds, property_storage_slot
<1> QED BY <1>1, <1>2, <1>3

\* What it asks of an edge slot.
EdgesHeld(k, dir, e) ==
  LET slot == raw.edges[edge_storage_slot(k, dir, e)]
  IN  /\ CutInRuns(slot.offsets, Len(raw.nodes[k]), Len(slot.neighbors))
      /\ \A i \in DOMAIN slot.neighbors : slot.neighbors[i] \in AllNodes
      /\ HoldsValues(slot, EdgeProperty[e], Len(raw.nodes[k]))

\* An edge slot passes exactly when it holds what it should.
LEMMA EdgeSlotHeld ==
  ASSUME raw \in RawGraphs, NEW k \in NodeKinds, NEW dir \in Directions, NEW e \in EdgeKinds
  PROVE  check_edge_slot(raw, edge_storage_slot(k, dir, e)) = Ok <=> EdgesHeld(k, dir, e)
<1>1. PICK n \in Nat : n = Len(raw.nodes[k])
  BY RawTyped
<1>2. PICK s \in EdgeSlots : s = edge_storage_slot(k, dir, e)
  BY EdgeSlotOfKinds
<1>3. SlotNodeKind(s) = k /\ SlotEdgeKind(s) = e
  BY <1>2, EdgeSlotOfKinds
<1>4. PICK decl \in PropertyDecl : decl = EdgeProperty[e]
  BY SchemaAssumption
<1> DEFINE slot == raw.edges[s]
<1>5. raw \in Graph /\ slot \in EdgeStorageSlot /\ ArrayKeyed(slot.values)
  BY RawTyped
<1>6. check_edge_slot(raw, s) = Ok <=>
         /\ EdgeSlotSound(slot, n, decl.typ)
         /\ AllNamed(slot.neighbors, Counted(raw))
         /\ AllContentPasses(raw, slot.values, decl.enum)
  BY <1>1, <1>3, <1>4, <1>5, EdgeSlotCheck
<1> HIDE DEF slot
<1>7. /\ slot.values \in StorageArray /\ slot.offsets \in Seq(0 .. MaxOffset)
      /\ slot.neighbors \in Seq(RawNodeId)
  BY <1>5 DEF EdgeStorageSlot
<1>8. CutInRuns(slot.offsets, n, Len(slot.neighbors)) <=>
        Shaped(slot.offsets, n) /\ LastOffset(slot.offsets) = Len(slot.neighbors)
  BY <1>7, ShapedCuts
<1>9. Shaped(slot.offsets, n) =>
         (HoldsValues(slot, decl, n) <=>
            /\ slot.values.typ = decl.typ
            /\ decl.typ # "None" => LastOffset(slot.offsets) = Len(slot.values.items)
            /\ AllContentPasses(raw, slot.values, decl.enum))
  BY <1>5, <1>7, HoldsWhenPasses
<1>10. AllNamed(slot.neighbors, Counted(raw)) <=>
         \A i \in DOMAIN slot.neighbors : slot.neighbors[i] \in AllNodes
  <2>1. DOMAIN slot.neighbors = 1 .. Len(slot.neighbors)
    BY <1>7, LenProperties
  <2>2. \A i \in 1 .. Len(slot.neighbors) : slot.neighbors[i] \in RawNodeId
    BY <1>7, ElementOfSeq
  <2> QED BY <1>5, <2>1, <2>2, NodesNamed DEF AllNamed
<1>11. EdgesHeld(k, dir, e) <=>
         /\ CutInRuns(slot.offsets, n, Len(slot.neighbors))
         /\ \A i \in DOMAIN slot.neighbors : slot.neighbors[i] \in AllNodes
         /\ HoldsValues(slot, decl, n)
  BY <1>1, <1>2, <1>4 DEF EdgesHeld, slot
<1>12. EdgeSlotSound(slot, n, decl.typ) <=>
         /\ slot.values.typ = decl.typ /\ Shaped(slot.offsets, n)
         /\ LastOffset(slot.offsets) = Len(slot.neighbors)
         /\ decl.typ # "None" => Len(slot.values.items) = Len(slot.neighbors)
  BY <1>5 DEF EdgeSlotSound
<1> QED BY <1>2, <1>6, <1>8, <1>9, <1>10, <1>11, <1>12

\* And all of them do when each holds what it should.
LEMMA EdgesAllHeld ==
  ASSUME raw \in RawGraphs
  PROVE  (\A s \in EdgeSlots : check_edge_slot(raw, s) = Ok)
           <=> \A k \in NodeKinds, dir \in Directions, e \in EdgeKinds : EdgesHeld(k, dir, e)
<1>1. \A k \in NodeKinds, dir \in Directions, e \in EdgeKinds : edge_storage_slot(k, dir, e) \in EdgeSlots
  BY EdgeSlotOfKinds
<1>2. \A s \in EdgeSlots : \E k \in NodeKinds, dir \in Directions, e \in EdgeKinds :
                             s = edge_storage_slot(k, dir, e)
  BY SchemaAssumption, EdgeSlotReached
     DEF EdgeSlots, edge_storage_size, NodeKinds, EdgeKinds, Directions, In, Out, edge_storage_slot
<1> QED BY <1>1, <1>2, EdgeSlotHeld

(***************************************************************************)
(* Pairing                                                                 *)
(***************************************************************************)

\* What is known of the slots once each has passed its check.
LEMMA RunsHeld ==
  ASSUME raw \in RawGraphs, NEW kind \in NodeKinds, NEW dir \in Directions, NEW e \in EdgeKinds,
         EdgesHeld(kind, dir, e), NEW slot, slot = raw.edges[edge_storage_slot(kind, dir, e)]
  PROVE  /\ slot.values.typ = EdgeProperty[e].typ
         /\ slot.offsets # <<>> => Len(slot.offsets) = Len(raw.nodes[kind]) + 1
         /\ \A seq \in 0 .. Len(slot.offsets) - 2 :
              \A i \in Start(slot, seq) + 1 .. End(slot, seq) :
                /\ i \in 1 .. Len(slot.neighbors) /\ <<kind, seq>> \in AllNodes
                /\ slot.neighbors[i] \in AllNodes
                /\ slot.values.typ # "None" =>
                     /\ i \in DOMAIN slot.values.items
                     /\ ValueKey(slot.values, i - 1) = slot.values.items[i]
                     /\ slot.values.items[i] \in Key
         /\ slot.values.typ = "None" => \A i : ValueKey(slot.values, i) = NoKey
<1>1. edge_storage_slot(kind, dir, e) \in EdgeSlots
  BY EdgeSlotOfKinds
<1>2. raw \in Graph /\ slot \in EdgeStorageSlot
  BY <1>1, RawTyped
<1>3. PICK n \in Nat : n = Len(raw.nodes[kind])
  BY RawTyped
<1>4. /\ slot.offsets \in Seq(0 .. MaxOffset) /\ slot.neighbors \in Seq(RawNodeId)
      /\ slot.values.items \in Seq(Key)
  BY <1>2 DEF EdgeStorageSlot, StorageArray
<1>5. /\ CutInRuns(slot.offsets, n, Len(slot.neighbors))
      /\ \A i \in DOMAIN slot.neighbors : slot.neighbors[i] \in AllNodes
      /\ slot.values.typ = EdgeProperty[e].typ
      /\ slot.values.typ # "None" => CutInRuns(slot.offsets, n, Len(slot.values.items))
  BY <1>3 DEF EdgesHeld, HoldsValues
<1>6. Shaped(slot.offsets, n) /\ LastOffset(slot.offsets) = Len(slot.neighbors)
  BY <1>4, <1>5, ShapedCuts
<1>7. slot.values.typ # "None" => Len(slot.values.items) = Len(slot.neighbors)
  BY <1>4, <1>5, <1>6, ShapedCuts
<1>8. /\ DOMAIN slot.neighbors = 1 .. Len(slot.neighbors) /\ Len(slot.neighbors) \in Nat
      /\ DOMAIN slot.values.items = 1 .. Len(slot.values.items) /\ Len(slot.offsets) \in Nat
  BY <1>4, LenProperties
<1>9. ASSUME NEW seq \in 0 .. Len(slot.offsets) - 2, NEW i \in Start(slot, seq) + 1 .. End(slot, seq)
      PROVE  /\ i \in 1 .. Len(slot.neighbors) /\ <<kind, seq>> \in AllNodes
             /\ slot.neighbors[i] \in AllNodes
             /\ slot.values.typ # "None" =>
                  /\ i \in DOMAIN slot.values.items
                  /\ ValueKey(slot.values, i - 1) = slot.values.items[i]
                  /\ slot.values.items[i] \in Key
  <2>1. seq \in Nat /\ HasOffset(slot, seq)
    BY <1>8 DEF HasOffset
  <2>2. /\ seq < n /\ Start(slot, seq) \in Nat /\ End(slot, seq) \in Nat
        /\ End(slot, seq) <= Len(slot.neighbors)
    BY <1>4, <1>6, <2>1, RunWithin
  <2>3. i \in 1 .. Len(slot.neighbors)
    BY <1>8, <2>2
  <2>4. <<kind, seq>> \in AllNodes
    <3>1. kind \in Nat
      BY SchemaAssumption DEF NodeKinds
    <3>2. Counted(raw)[kind] = n
      BY <1>3, RawTyped
    <3> QED BY <1>2, <2>1, <2>2, <3>1, <3>2, NodesNamed DEF RawNodeId, Named, KindOf, SeqOf
  <2>5. slot.neighbors[i] \in AllNodes
    BY <1>5, <1>8, <2>3
  <2>6. ASSUME slot.values.typ # "None"
        PROVE  /\ i \in DOMAIN slot.values.items
               /\ ValueKey(slot.values, i - 1) = slot.values.items[i]
               /\ slot.values.items[i] \in Key
    <3>1. i \in 1 .. Len(slot.values.items)
      BY <1>7, <2>3, <2>6
    <3>2. i - 1 < Len(slot.values.items) /\ (i - 1) + 1 = i
      BY <1>7, <1>8, <2>3, <2>6
    <3>3. slot.values.items[i] \in Key
      BY <1>4, <3>1, ElementOfSeq
    <3> QED BY <1>8, <2>6, <3>1, <3>2, <3>3 DEF ValueKey
  <2> QED BY <2>3, <2>4, <2>5, <2>6
<1>10. slot.offsets # <<>> => Len(slot.offsets) = n + 1
  BY <1>6 DEF Shaped
<1>11. slot.values.typ = "None" => \A i : ValueKey(slot.values, i) = NoKey
  BY DEF ValueKey
<1> QED BY <1>3, <1>5, <1>9, <1>10, <1>11

\* The half-edges of a class are as many as run in parallel from its node to its neighbor
\* with its value.
LEMMA ClassCounted ==
  ASSUME raw \in RawGraphs, NEW dir \in Directions, NEW e \in EdgeKinds,
         \A k \in NodeKinds : EdgesHeld(k, dir, e),
         NEW node \in AllNodes, NEW other \in AllNodes, NEW value \in Key
  PROVE  CountOf(Halves(raw, dir, e), ClassOf(dir, node, other, ValueOf(e, value)))
           = Parallel(raw.edges[edge_storage_slot(KindOf(node), dir, e)], SeqOf(node), other, value)
<1>1. /\ node \in RawNodeId /\ Named(node, Counted(raw)) /\ other \in RawNodeId
      /\ AllNodes \subseteq RawNodeId
  BY RawTyped, NodesNamed
<1>2. PICK kind \in Nat : \E q \in Nat : node = <<kind, q>>
  BY <1>1 DEF RawNodeId
<1>3. PICK seq \in Nat : node = <<kind, seq>>
  BY <1>2
<1>4. KindOf(node) = kind /\ SeqOf(node) = seq /\ kind \in NodeKinds /\ seq < Len(raw.nodes[kind])
  <2>1. KindOf(node) = kind /\ SeqOf(node) = seq
    BY <1>3 DEF KindOf, SeqOf
  <2>2. kind \in NodeKinds /\ seq < Counted(raw)[kind]
    BY <1>1, <2>1 DEF Named
  <2> QED BY <2>1, <2>2, RawTyped
<1>5. PICK slot : slot = raw.edges[edge_storage_slot(kind, dir, e)]
  OBVIOUS
<1> DEFINE c == ClassOf(dir, node, other, ValueOf(e, value))
           H == {h \in Halves(raw, dir, e) : h.class = c}
           I == IF slot.offsets = <<>> THEN {}
                ELSE {i \in Start(slot, seq) + 1 .. End(slot, seq) :
                        /\ slot.neighbors[i] = other
                        /\ slot.values.typ # "None" => slot.values.items[i] = value}
           Half(i) == HalfAt(raw, dir, e, kind, seq, i)
<1>6. slot.offsets # <<>> => seq \in 0 .. Len(slot.offsets) - 2
  <2>1. slot.offsets # <<>> => Len(slot.offsets) = Len(raw.nodes[kind]) + 1
    BY <1>4, <1>5, RunsHeld
  <2>2. PICK n \in Nat : n = Len(raw.nodes[kind])
    BY <1>4, RawTyped
  <2> QED BY <1>4, <2>1, <2>2
<1>7. ValueOf(e, value) \in Key
  BY DEF ValueOf, NoKey, Key
\* What is known of any half-edge.
<1>8. ASSUME NEW k \in NodeKinds, NEW s, s = raw.edges[edge_storage_slot(k, dir, e)],
             NEW q \in 0 .. Len(s.offsets) - 2, NEW i \in Start(s, q) + 1 .. End(s, q)
      PROVE  HalfAt(raw, dir, e, k, q, i).class = c <=>
               /\ k = kind /\ q = seq /\ s.neighbors[i] = other
               /\ s.values.typ # "None" => s.values.items[i] = value
  <2>1. /\ s.values.typ = EdgeProperty[e].typ
        /\ <<k, q>> \in AllNodes /\ s.neighbors[i] \in AllNodes
        /\ s.values.typ # "None" =>
             ValueKey(s.values, i - 1) = s.values.items[i] /\ s.values.items[i] \in Key
        /\ s.values.typ = "None" => ValueKey(s.values, i - 1) = NoKey
    <3>1. /\ s.values.typ = EdgeProperty[e].typ
          /\ s.values.typ = "None" => \A j : ValueKey(s.values, j) = NoKey
      BY <1>8, RunsHeld
    <3>2. \A p \in 0 .. Len(s.offsets) - 2 :
            \A j \in Start(s, p) + 1 .. End(s, p) :
              /\ <<k, p>> \in AllNodes /\ s.neighbors[j] \in AllNodes
              /\ s.values.typ # "None" =>
                   ValueKey(s.values, j - 1) = s.values.items[j] /\ s.values.items[j] \in Key
      BY <1>8, RunsHeld
    <3> QED BY <3>1, <3>2
  <2>2. ValueKey(s.values, i - 1) \in Key
    <3>1. NoKey \in Key
      BY EmptySeq DEF NoKey, Key
    <3> QED BY <2>1, <3>1
  <2>3. HalfAt(raw, dir, e, k, q, i).class = ClassOf(dir, <<k, q>>, s.neighbors[i], ValueKey(s.values, i - 1))
    BY <1>8 DEF HalfAt
  <2>4. HalfAt(raw, dir, e, k, q, i).class = c <=>
          <<k, q>> = node /\ s.neighbors[i] = other /\ ValueKey(s.values, i - 1) = ValueOf(e, value)
    <3>1. <<k, q>> \in RawNodeId /\ s.neighbors[i] \in RawNodeId
      BY <1>1, <2>1
    <3> QED BY <1>1, <1>7, <2>2, <2>3, <3>1, ClassSplits
  <2>5. <<k, q>> = node <=> k = kind /\ q = seq
    BY <1>3
  <2> HIDE DEF c
  <2> QED BY <2>1, <2>4, <2>5 DEF ValueOf
<1>9. H = {Half(i) : i \in I}
  <2>1. ASSUME NEW h \in H PROVE \E i \in I : h = Half(i)
    <3>1. PICK k \in NodeKinds :
            LET s == raw.edges[edge_storage_slot(k, dir, e)]
            IN  \E q \in 0 .. Len(s.offsets) - 2 :
                  \E i \in Start(s, q) + 1 .. End(s, q) : h = HalfAt(raw, dir, e, k, q, i)
      BY HalvesFound
    <3>2. PICK s : s = raw.edges[edge_storage_slot(k, dir, e)]
      OBVIOUS
    <3>3. PICK q \in 0 .. Len(s.offsets) - 2 :
            \E i \in Start(s, q) + 1 .. End(s, q) : h = HalfAt(raw, dir, e, k, q, i)
      BY <3>1, <3>2
    <3>4. PICK i \in Start(s, q) + 1 .. End(s, q) : h = HalfAt(raw, dir, e, k, q, i)
      BY <3>3
    <3>5. h.class = c
      OBVIOUS
    <3> HIDE DEF c
    <3>6. /\ k = kind /\ q = seq /\ s.neighbors[i] = other
          /\ s.values.typ # "None" => s.values.items[i] = value
      BY <1>8, <3>2, <3>4, <3>5
    <3>7. s = slot
      BY <1>5, <3>2, <3>6
    <3>8. slot.offsets # <<>>
      <4>1. ASSUME slot.offsets = <<>> PROVE FALSE
        <5>1. Len(s.offsets) = 0
          BY <3>7, <4>1
        <5> QED BY <5>1
      <4> QED BY <4>1
    <3> QED BY <3>4, <3>6, <3>7, <3>8
  <2>2. ASSUME NEW i \in I PROVE Half(i) \in H
    <3>1. /\ slot.offsets # <<>> /\ i \in Start(slot, seq) + 1 .. End(slot, seq)
          /\ slot.neighbors[i] = other
          /\ slot.values.typ # "None" => slot.values.items[i] = value
      OBVIOUS
    <3> HIDE DEF c, I
    <3>2. Half(i).class = c
      BY <1>4, <1>5, <1>6, <1>8, <3>1
    <3>3. Half(i) \in Halves(raw, dir, e)
      BY <1>4, <1>5, <1>6, <3>1, HalvesFound
    <3> QED BY <3>2, <3>3
  <2> HIDE DEF H, I, Half
  <2>3. H \subseteq {Half(i) : i \in I}
    BY <2>1
  <2> QED BY <2>2, <2>3
<1>10. IsFiniteSet(I)
  <2>1. CASE slot.offsets = <<>>
    BY <2>1, FS_EmptySet
  <2>2. CASE slot.offsets # <<>>
    <3>1. \A i \in Start(slot, seq) + 1 .. End(slot, seq) : i \in 1 .. Len(slot.neighbors)
      BY <1>4, <1>5, <1>6, <2>2, RunsHeld
    <3>2. Len(slot.neighbors) \in Nat
      <4>1. slot \in EdgeStorageSlot
        BY <1>4, <1>5, EdgeSlotOfKinds, RawTyped
      <4>2. slot.neighbors \in Seq(RawNodeId)
        BY <4>1 DEF EdgeStorageSlot
      <4> QED BY <4>2, LenProperties
    <3>3. Within(I, Len(slot.neighbors))
      BY <2>2, <3>1 DEF Within
    <3> HIDE DEF I
    <3> QED BY <3>2, <3>3, PositionsFinite
  <2> QED BY <2>1, <2>2
<1>11. \A i, j \in I : Half(i) = Half(j) => i = j
  <2>1. \A i : Half(i).at = i
    BY DEF HalfAt
  <2> HIDE DEF Half, I
  <2> QED BY <2>1
<1>12. Parallel(raw.edges[edge_storage_slot(KindOf(node), dir, e)], SeqOf(node), other, value) = Cardinality(I)
  <2>1. Parallel(slot, seq, other, value) = Cardinality(I)
    <3>1. CASE slot.offsets = <<>>
      BY <3>1, FS_EmptySet DEF Parallel
    <3>2. CASE slot.offsets # <<>>
      BY <3>2 DEF Parallel
    <3> QED BY <3>1, <3>2
  <2> QED BY <1>4, <1>5, <2>1
<1>13. Cardinality(H) = Cardinality(I)
  <2> DEFINE f == [i \in I |-> Half(i)]
  <2> HIDE DEF H, I, Half
  <2>1. f \in [I -> H] /\ \A i \in I : f[i] = Half(i)
    BY <1>9
  <2>2. f \in Bijection(I, H)
    <3>1. \A i, j \in I : f[i] = f[j] => i = j
      BY <1>11, <2>1
    <3>2. \A h \in H : \E i \in I : f[i] = h
      BY <1>9, <2>1
    <3> HIDE DEF f
    <3> QED BY <2>1, <3>1, <3>2, Zenon DEF Bijection, Injection, IsInjective, Surjection
  <2>3. ExistsBijection(I, H)
    BY <2>2 DEF ExistsBijection
  <2> QED BY <1>10, <2>3, FS_Bijection
<1>14. CountOf(Halves(raw, dir, e), c) = Cardinality(H)
  BY DEF CountOf
<1> QED BY <1>12, <1>13, <1>14

\* The values of the edges, and that of the edges that carry none.
LEMMA AllValuesAre ==
  ASSUME NEW value
  PROVE  value \in AllValues <=>
           \/ value = NoKey
           \/ \E s \in EdgeSlots :
                \E i \in DOMAIN raw.edges[s].values.items : value = raw.edges[s].values.items[i]
<1> DEFINE Values(s) == Range(raw.edges[s].values.items)
<1>1. AllValues = {NoKey} \cup UNION {Values(s) : s \in EdgeSlots}
  BY DEF AllValues
<1>2. \A s : value \in Values(s) <=>
             \E i \in DOMAIN raw.edges[s].values.items : value = raw.edges[s].values.items[i]
  BY DEF Range
<1> HIDE DEF Values
<1> QED BY <1>1, <1>2

\* Every half-edge is of the class of a node, a node and a value of the graph.
LEMMA ClassesNamed ==
  ASSUME raw \in RawGraphs, NEW dir \in Directions, NEW e \in EdgeKinds,
         \A k \in NodeKinds : EdgesHeld(k, dir, e), NEW class \in Classes(Halves(raw, dir, e))
  PROVE  \E node, other \in AllNodes : \E value \in AllValues :
           class = ClassOf(dir, node, other, ValueOf(e, value))
<1>1. PICK h \in Halves(raw, dir, e) : h.class = class
  BY DEF Classes
<1>2. PICK k \in NodeKinds :
        LET s == raw.edges[edge_storage_slot(k, dir, e)]
        IN  \E q \in 0 .. Len(s.offsets) - 2 :
              \E i \in Start(s, q) + 1 .. End(s, q) : h = HalfAt(raw, dir, e, k, q, i)
  BY <1>1, HalvesFound
<1>3. PICK s : s = raw.edges[edge_storage_slot(k, dir, e)]
  OBVIOUS
<1>4. PICK q \in 0 .. Len(s.offsets) - 2 :
        \E i \in Start(s, q) + 1 .. End(s, q) : h = HalfAt(raw, dir, e, k, q, i)
  BY <1>2, <1>3
<1>5. PICK i \in Start(s, q) + 1 .. End(s, q) : h = HalfAt(raw, dir, e, k, q, i)
  BY <1>4
<1>6. /\ s.values.typ = EdgeProperty[e].typ
      /\ s.values.typ = "None" => ValueKey(s.values, i - 1) = NoKey
  BY <1>3, RunsHeld
<1>7. \A p \in 0 .. Len(s.offsets) - 2 :
        \A j \in Start(s, p) + 1 .. End(s, p) :
          /\ <<k, p>> \in AllNodes /\ s.neighbors[j] \in AllNodes
          /\ s.values.typ # "None" =>
               ValueKey(s.values, j - 1) = s.values.items[j] /\ j \in DOMAIN s.values.items
  BY <1>3, RunsHeld
<1>8. /\ <<k, q>> \in AllNodes /\ s.neighbors[i] \in AllNodes
      /\ s.values.typ # "None" =>
           ValueKey(s.values, i - 1) = s.values.items[i] /\ i \in DOMAIN s.values.items
  BY <1>7
<1>9. class = ClassOf(dir, <<k, q>>, s.neighbors[i], ValueKey(s.values, i - 1))
  BY <1>1, <1>3, <1>5 DEF HalfAt
<1>10. ValueKey(s.values, i - 1) \in AllValues
  <2>1. CASE s.values.typ = "None"
    BY <1>6, <2>1, AllValuesAre
  <2>2. CASE s.values.typ # "None"
    <3>1. edge_storage_slot(k, dir, e) \in EdgeSlots
      BY EdgeSlotOfKinds
    <3> QED BY <1>3, <1>8, <2>2, <3>1, AllValuesAre
  <2> QED BY <2>1, <2>2
<1>11. ValueOf(e, ValueKey(s.values, i - 1)) = ValueKey(s.values, i - 1)
  BY <1>6 DEF ValueOf
<1> QED BY <1>8, <1>9, <1>10, <1>11

\* What it asks of an edge kind: as many edges lead one way as the other.
PairsHeld(e) ==
  \A src, dst \in AllNodes : \A value \in AllValues :
    Parallel(raw.edges[edge_storage_slot(KindOf(src), Out, e)], SeqOf(src), dst, value)
      = Parallel(raw.edges[edge_storage_slot(KindOf(dst), In, e)], SeqOf(dst), src, value)

\* The pairing of an edge kind passes exactly when it does.
LEMMA PairingHeld ==
  ASSUME raw \in RawGraphs, NEW e \in EdgeKinds,
         \A k \in NodeKinds, dir \in Directions : EdgesHeld(k, dir, e)
  PROVE  check_half_edge_pairing(raw, e) = Ok <=> PairsHeld(e)
<1> DEFINE outs == Halves(raw, Out, e)
           ins == Halves(raw, In, e)
           unequal == {c \in Classes(outs) \cup Classes(ins) : CountOf(outs, c) # CountOf(ins, c)}
<1>1. check_half_edge_pairing(raw, e) = Ok <=> unequal = {}
  BY DEF check_half_edge_pairing, Ok
<1>2. Out \in Directions /\ In \in Directions
  BY DEF Directions
<1>3. AllValues \subseteq Key
  <2>1. \A s \in EdgeSlots : raw.edges[s].values.items \in Seq(Key)
    BY RawTyped DEF EdgeStorageSlot, StorageArray
  <2>2. \A s \in EdgeSlots : \A i \in DOMAIN raw.edges[s].values.items : raw.edges[s].values.items[i] \in Key
    BY <2>1, LenProperties, ElementOfSeq
  <2>3. NoKey \in Key
    BY EmptySeq DEF NoKey, Key
  <2> QED BY <2>2, <2>3, AllValuesAre
<1>4. ASSUME NEW src \in AllNodes, NEW dst \in AllNodes, NEW value \in AllValues
      PROVE  LET c == ClassOf(Out, src, dst, ValueOf(e, value))
             IN  /\ CountOf(outs, c) =
                      Parallel(raw.edges[edge_storage_slot(KindOf(src), Out, e)], SeqOf(src), dst, value)
                 /\ CountOf(ins, c) =
                      Parallel(raw.edges[edge_storage_slot(KindOf(dst), In, e)], SeqOf(dst), src, value)
  <2>1. value \in Key
    BY <1>3
  <2>2. CountOf(outs, ClassOf(Out, src, dst, ValueOf(e, value))) =
          Parallel(raw.edges[edge_storage_slot(KindOf(src), Out, e)], SeqOf(src), dst, value)
    BY <1>2, <2>1, ClassCounted
  <2>3. CountOf(ins, ClassOf(In, dst, src, ValueOf(e, value))) =
          Parallel(raw.edges[edge_storage_slot(KindOf(dst), In, e)], SeqOf(dst), src, value)
    BY <1>2, <2>1, ClassCounted
  <2> QED BY <2>2, <2>3, HalvesOfOneClass
<1>5. \A c : CountOf(outs, c) # CountOf(ins, c) => c \in Classes(outs) \cup Classes(ins)
  <2> TAKE c
  <2> DEFINE A == {h \in outs : h.class = c}
             B == {h \in ins : h.class = c}
  <2>1. c \notin Classes(outs) => A = {}
    BY DEF Classes
  <2>2. c \notin Classes(ins) => B = {}
    BY DEF Classes
  <2>3. CountOf(outs, c) = Cardinality(A) /\ CountOf(ins, c) = Cardinality(B)
    BY DEF CountOf
  <2> QED BY <2>1, <2>2, <2>3
<1>6. ASSUME NEW c \in Classes(outs) \cup Classes(ins)
      PROVE  \E src, dst \in AllNodes : \E value \in AllValues : c = ClassOf(Out, src, dst, ValueOf(e, value))
  <2>1. CASE c \in Classes(outs)
    BY <1>2, <2>1, ClassesNamed
  <2>2. CASE c \in Classes(ins)
    <3>1. PICK dst \in AllNodes, src \in AllNodes, value \in AllValues : c = ClassOf(In, dst, src, ValueOf(e, value))
      BY <1>2, <2>2, ClassesNamed
    <3> QED BY <3>1, HalvesOfOneClass
  <2> QED BY <1>6, <2>1, <2>2
<1> HIDE DEF outs, ins
<1>7. unequal = {} <=> PairsHeld(e)
  <2>1. ASSUME unequal = {} PROVE PairsHeld(e)
    <3>1. \A c : CountOf(outs, c) = CountOf(ins, c)
      BY <1>5, <2>1
    <3> QED BY <1>4, <3>1 DEF PairsHeld
  <2>2. ASSUME PairsHeld(e) PROVE unequal = {}
    <3>1. ASSUME NEW c \in Classes(outs) \cup Classes(ins) PROVE CountOf(outs, c) = CountOf(ins, c)
      <4>1. PICK src \in AllNodes, dst \in AllNodes, value \in AllValues : c = ClassOf(Out, src, dst, ValueOf(e, value))
        BY <1>6
      <4> QED BY <1>4, <2>2, <4>1 DEF PairsHeld
    <3> QED BY <3>1
  <2> QED BY <2>1, <2>2
<1> QED BY <1>1, <1>7

\* The slots of a graph pass exactly when it is well-formed.
LEMMA PassesWhenWellFormed ==
  ASSUME raw \in RawGraphs
  PROVE  check_slots(raw) = Success <=> WellFormed
<1>1. WellFormed <=>
        /\ \A k \in NodeKinds, p \in PropertyKinds : PropertyHeld(k, p)
        /\ \A k \in NodeKinds, dir \in Directions, e \in EdgeKinds : EdgesHeld(k, dir, e)
        /\ \A e \in EdgeKinds : PairsHeld(e)
  BY DEF WellFormed, PropertyHeld, EdgesHeld, PairsHeld
<1>2. (\A k \in NodeKinds, dir \in Directions, e \in EdgeKinds : EdgesHeld(k, dir, e)) =>
        \A e \in EdgeKinds : check_half_edge_pairing(raw, e) = Ok <=> PairsHeld(e)
  BY PairingHeld
<1> QED BY <1>1, <1>2, ChecksPass, PropertiesHeld, EdgesAllHeld

\* The checker accepts exactly the well-formed graphs of no more nodes than it can number,
\* whatever the schedule of its workers and the defects of the graph.
THEOREM AcceptsExactlyTheWellFormed == Spec => []AcceptsExactlyWellFormed
<1>1. Numbered(raw) = Success <=> TotalNodes(raw) <= MaxNodes
  BY DEF Numbered, NodeIndexError, Success, Ok
<1>2. OneThread(raw) = Success <=> Numbered(raw) = Success /\ check_slots(raw) = Success
  BY NumberedFirst
<1>3. TypeInv => AcceptsExactlyWellFormed
  BY <1>1, <1>2, PassesWhenWellFormed DEF TypeInv, IInv, ReportsFirstError, AcceptsExactlyWellFormed
<1> QED BY <1>3, TypeInvAlways, PTL
================================================================================
