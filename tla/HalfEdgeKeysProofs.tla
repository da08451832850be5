--------------------------- MODULE HalfEdgeKeysProofs ---------------------------
(***************************************************************************)
(* At every width and for every graph: half-edges compare by their codes as *)
(* by the ids and values they stand for, and the number of a node resolves  *)
(* to it.  Both rest on one fact about the table of NodeIndex: each kind     *)
(* starts behind all nodes of the kinds before it.  A graph is refused for   *)
(* its size exactly when it has more nodes than there are numbers, since    *)
(* the table counts them.                                                   *)
(***************************************************************************)
EXTENDS HalfEdgeKeys, SlotProofs, FiniteSetTheorems, TLAPS

(***************************************************************************)
(* Widths and pairs                                                        *)
(***************************************************************************)
\* A narrow integer fits a wider one.
LEMMA Widths ==
  /\ Half16 \in Nat /\ Half32 \in Nat /\ Half64 \in Nat /\ Span8 \in Nat
  /\ 0 < Half16 /\ Half16 <= Half32 /\ Half32 < Half64
  /\ U16Max \in Nat /\ U32Max \in Nat /\ U64Max \in Nat /\ U32Max < U64Max
<1> DEFINE w == U32Max + 1
<1>1. /\ Half16 \in Nat /\ Half32 \in Nat /\ Half64 \in Nat /\ Span8 \in Nat
      /\ 0 < Half16 /\ Half16 <= Half32 /\ w * w <= 2 * Half64
  BY WidthAssumption DEF U64Max
<1>2. w \in Nat /\ w = 2 * Half32 /\ 2 <= w
  BY <1>1 DEF U32Max
<1>3. w * w = 2 * w + (w - 2) * w /\ (w - 2) * w \in Nat
  <2>1. PICK d \in Nat : w = 2 + d
    BY <1>2
  <2> HIDE DEF w
  <2>2. w * w = 2 * w + d * w /\ d * w \in Nat
    BY <2>1
  <2> QED
    BY <2>1, <2>2
<1>4. 2 * w <= 2 * Half64
  <2> HIDE DEF w
  <2> QED
    BY <1>1, <1>2, <1>3
<1> QED
  BY <1>1, <1>2, <1>4 DEF U16Max, U32Max, U64Max

\* A pair packed into one number, its second part below the factor, keeps its order.
LEMMA Packed ==
  ASSUME NEW m \in Nat, NEW a \in Nat, NEW b \in Nat,
         NEW x \in 0 .. m - 1, NEW y \in 0 .. m - 1
  PROVE  a * m + x < b * m + y <=> a < b \/ (a = b /\ x < y)
<1>1. a * m \in Nat /\ b * m \in Nat
  OBVIOUS
<1>2. ASSUME NEW c \in Nat, NEW d \in Nat, c < d PROVE c * m + m <= d * m
  <2>1. PICK e \in Nat : d = c + 1 + e
    <3>1. d - c - 1 \in Nat /\ d = c + 1 + (d - c - 1)
      BY <1>2
    <3> QED
      BY <3>1
  <2>2. d * m = c * m + m + e * m /\ e * m \in Nat
    BY <2>1
  <2> QED
    BY <2>2
<1>3. CASE a < b
  BY <1>1, <1>2, <1>3
<1>4. CASE a = b
  BY <1>1, <1>4
<1>5. CASE b < a
  BY <1>1, <1>2, <1>5
<1> QED
  BY <1>3, <1>4, <1>5

\* The same, of the two parts of pairs.
LEMMA PairsPacked ==
  ASSUME NEW m \in Nat, NEW v \in (0 .. m - 1) \X (0 .. m - 1), NEW w \in (0 .. m - 1) \X (0 .. m - 1)
  PROVE  v[1] * m + v[2] < w[1] * m + w[2] <=> PairBefore(v, w)
<1> DEFINE a == v[1]
           b == w[1]
           x == v[2]
           y == w[2]
<1>1. a \in Nat /\ b \in Nat /\ x \in 0 .. m - 1 /\ y \in 0 .. m - 1
  OBVIOUS
<1>2. a * m + x < b * m + y <=> a < b \/ (a = b /\ x < y)
  <2> HIDE DEF a, b, x, y
  <2> QED
    BY <1>1, Packed
<1> QED
  BY <1>2 DEF PairBefore

(***************************************************************************)
(* Values                                                                  *)
(***************************************************************************)
LEMMA SignedCompare ==
  ASSUME NEW v \in Signed(Half64), NEW w \in Signed(Half64)
  PROVE  signed_key(v) < signed_key(w) <=> v < w
BY Widths DEF Signed, signed_key

\* Floats order as their keys do: negative ones below, and in reverse of their bits.
LEMMA FloatsCompare ==
  ASSUME NEW limit \in Nat, NEW v \in 0 .. 2 * limit - 1, NEW w \in 0 .. 2 * limit - 1
  PROVE  float_key(v, limit) < float_key(w, limit) <=> FloatBefore(v, w, limit)
BY DEF float_key, FloatBefore

\* Two values of one type compare by their codes as they do themselves.
LEMMA ValuesCompare ==
  ASSUME NEW typ \in Types, NEW v \in Values(typ), NEW w \in Values(typ)
  PROVE  ValueKeyOf(typ, v) < ValueKeyOf(typ, w) <=> ValueBefore(typ, v, w)
<1>1. CASE typ = "None"
  BY <1>1 DEF ValueKeyOf, ValueBefore
<1>2. CASE typ \in {"Bool", "Byte", "String"}
  BY <1>2 DEF ValueKeyOf, ValueBefore
<1>3. CASE typ \in {"Short", "Int", "Long"}
  <2>1. v \in Signed(Half64) /\ w \in Signed(Half64)
    BY <1>3, Widths DEF Values, Signed
  <2>2. signed_key(v) < signed_key(w) <=> v < w
    BY <2>1, SignedCompare
  <2> QED
    BY <1>3, <2>2 DEF ValueKeyOf, ValueBefore
<1>4. CASE typ = "Float"
  <2>1. v \in 0 .. 2 * Half32 - 1 /\ w \in 0 .. 2 * Half32 - 1
    BY <1>4 DEF Values, U32Max
  <2>2. float_key(v, Half32) < float_key(w, Half32) <=> FloatBefore(v, w, Half32)
    BY <2>1, FloatsCompare, Widths
  <2> QED
    BY <1>4, <2>2 DEF ValueKeyOf, ValueBefore
<1>5. CASE typ = "Double"
  <2>1. v \in 0 .. 2 * Half64 - 1 /\ w \in 0 .. 2 * Half64 - 1
    BY <1>5 DEF Values, U64Max
  <2>2. float_key(v, Half64) < float_key(w, Half64) <=> FloatBefore(v, w, Half64)
    BY <2>1, FloatsCompare, Widths
  <2> QED
    BY <1>5, <2>2 DEF ValueKeyOf, ValueBefore
<1>6. CASE typ = "NodeId"
  <2>1. v \in (0 .. (U32Max + 1) - 1) \X (0 .. (U32Max + 1) - 1)
        /\ w \in (0 .. (U32Max + 1) - 1) \X (0 .. (U32Max + 1) - 1) /\ U32Max + 1 \in Nat
    BY <1>6, Widths DEF Values
  <2>2. v[1] * (U32Max + 1) + v[2] < w[1] * (U32Max + 1) + w[2] <=> PairBefore(v, w)
    BY <2>1, PairsPacked
  <2> QED
    BY <1>6, <2>2 DEF ValueKeyOf, ValueBefore
<1>7. CASE typ = "Enum"
  <2>1. v \in (0 .. (U16Max + 1) - 1) \X (0 .. (U16Max + 1) - 1)
        /\ w \in (0 .. (U16Max + 1) - 1) \X (0 .. (U16Max + 1) - 1) /\ U16Max + 1 \in Nat
    BY <1>7, Widths DEF Values
  <2>2. v[1] * (U16Max + 1) + v[2] < w[1] * (U16Max + 1) + w[2] <=> PairBefore(v, w)
    BY <2>1, PairsPacked
  <2> QED
    BY <1>7, <2>2 DEF ValueKeyOf, ValueBefore
<1> QED
  BY <1>1, <1>2, <1>3, <1>4, <1>5, <1>6, <1>7 DEF Types

(***************************************************************************)
(* The table                                                               *)
(***************************************************************************)
\* Where the nodes of each kind end, once counted: at or before the start of
\* every later kind, and of the kind counted next.
Start(k) == kind_offsets[k + 1]
End(k) == Start(k) + counts[k]

TableTypeOK ==
  /\ counts \in [NodeKinds -> Nat]
  /\ kind_offsets \in Seq(0 .. U32Max) /\ Len(kind_offsets) <= NodeKindCount + 1
  /\ total \in 0 .. U64Max
  /\ outcome \in {"counting", "Ok", "NodeCountOverflow"}

KindsInOrder ==
  \A k, l \in Nat : k < l /\ l < Len(kind_offsets) => End(k) <= Start(l)

CountedBehind ==
  outcome = "counting" /\ total <= U32Max =>
    \A k \in Nat : k < Len(kind_offsets) => End(k) <= total

TableComplete ==
  /\ outcome = "counting" => Len(kind_offsets) <= NodeKindCount
  /\ outcome = "Ok" => Len(kind_offsets) = NodeKindCount + 1

HalfTypeOK ==
  \A h \in half : /\ outcome = "Ok" /\ h.src \in Nodes /\ h.dst \in Nodes
                  /\ h.typ \in Types /\ h.value \in Values(h.typ)

IInv == TableTypeOK /\ KindsInOrder /\ CountedBehind /\ TableComplete /\ HalfTypeOK

\* Sums saturate at the top of the range, and only there.
LEMMA Saturating ==
  ASSUME NEW x \in Nat, NEW y \in Nat, NEW max \in Nat, x <= max
  PROVE  /\ SaturatingAdd(x, y, max) \in 0 .. max
         /\ x <= SaturatingAdd(x, y, max)
         /\ SaturatingAdd(x, y, max) < max => SaturatingAdd(x, y, max) = x + y
BY DEF SaturatingAdd

\* The parts of the invariant that speak of the table hold of it without half.
LEMMA CountKindKeepsTable ==
  ASSUME IInv, CountKind
  PROVE  TableTypeOK' /\ KindsInOrder' /\ CountedBehind'
<1> DEFINE n == Len(kind_offsets)
           sum == SaturatingAdd(total, counts[n], U64Max)
<1>1. /\ outcome = "counting" /\ total <= U32Max /\ n < NodeKindCount
      /\ kind_offsets' = Append(kind_offsets, total) /\ total' = sum
      /\ counts' = counts /\ outcome' = outcome
  BY DEF CountKind
<1>2. /\ counts \in [NodeKinds -> Nat] /\ kind_offsets \in Seq(0 .. U32Max)
      /\ total \in 0 .. U64Max /\ n \in Nat /\ NodeKindCount \in Nat
  BY SchemaAssumption DEF IInv, TableTypeOK
<1>3. n \in NodeKinds /\ counts[n] \in Nat /\ total \in 0 .. U32Max
  BY <1>1, <1>2, Widths DEF NodeKinds
<1>4. sum \in 0 .. U64Max /\ total <= sum /\ (sum < U64Max => sum = total + counts[n])
  <2>1. total \in Nat /\ U64Max \in Nat /\ total <= U64Max
    BY <1>2, Widths
  <2> HIDE DEF n
  <2> QED
    BY <1>3, <2>1, Saturating
<1>5. /\ Len(kind_offsets') = n + 1 /\ kind_offsets'[n + 1] = total
      /\ \A i \in 1 .. n : kind_offsets'[i] = kind_offsets[i] /\ kind_offsets[i] \in 0 .. U32Max
      /\ kind_offsets' \in Seq(0 .. U32Max)
  <2> DEFINE range == 0 .. U32Max
  <2>1. kind_offsets \in Seq(range) /\ total \in range /\ kind_offsets' = Append(kind_offsets, total)
    BY <1>1, <1>2, <1>3
  <2>2. \A i \in 1 .. n : kind_offsets[i] \in range
    <3> HIDE DEF range
    <3> QED
      BY <2>1
  <2>3. /\ Len(kind_offsets') = n + 1 /\ kind_offsets'[n + 1] = total
        /\ \A i \in 1 .. n : kind_offsets'[i] = kind_offsets[i]
    <3> HIDE DEF range
    <3> QED
      BY <2>1
  <2>4. kind_offsets' \in Seq(range)
    <3> HIDE DEF range
    <3> QED
      BY <2>1
  <2> QED
    BY <2>2, <2>3, <2>4
<1>6. \A k \in Nat : k < n => Start(k)' = Start(k) /\ End(k)' = End(k) /\ End(k) <= total /\ End(k) \in Nat
  <2> SUFFICES ASSUME NEW k \in Nat, k < n
               PROVE  Start(k)' = Start(k) /\ End(k)' = End(k) /\ End(k) <= total /\ End(k) \in Nat
    OBVIOUS
  <2>1. k + 1 \in 1 .. n /\ k \in NodeKinds
    BY <1>1, <1>2 DEF NodeKinds
  <2>2. Start(k)' = Start(k) /\ Start(k) \in Nat /\ counts[k] \in Nat
    BY <1>2, <1>5, <2>1, Widths DEF Start
  <2> QED
    BY <1>1, <2>2 DEF End, IInv, CountedBehind
<1>7. TableTypeOK'
  BY <1>1, <1>2, <1>4, <1>5 DEF TableTypeOK, IInv
<1>8. \A k \in Nat : k = n => Start(k)' = total /\ End(k)' = total + counts[n]
  BY <1>1, <1>5 DEF Start, End
<1>9. KindsInOrder'
  <2> SUFFICES ASSUME NEW k \in Nat, NEW l \in Nat, k < l, l < Len(kind_offsets')
               PROVE  End(k)' <= Start(l)'
    BY DEF KindsInOrder
  <2>1. CASE l < n
    BY <1>2, <1>6, <2>1 DEF IInv, KindsInOrder
  <2>2. CASE l = n
    BY <1>6, <1>8, <2>2
  <2> QED
    BY <1>2, <1>5, <2>1, <2>2
<1>10. CountedBehind'
  <2> SUFFICES ASSUME sum <= U32Max, NEW k \in Nat, k < Len(kind_offsets')
               PROVE  End(k)' <= sum
    BY <1>1 DEF CountedBehind
  <2>1. sum = total + counts[n]
    BY <1>4, Widths
  <2>2. CASE k < n
    <3>1. End(k)' = End(k) /\ End(k) <= total /\ End(k) \in Nat
      BY <1>6, <2>2
    <3>2. total \in Int /\ sum \in Int /\ total <= sum
      BY <1>2, <1>4
    <3> HIDE DEF sum
    <3> QED
      BY <3>1, <3>2
  <2>3. CASE k = n
    <3>1. End(k)' = sum
      BY <1>8, <2>1, <2>3
    <3>2. sum \in Int
      BY <1>4
    <3> HIDE DEF sum
    <3> QED
      BY <3>1, <3>2
  <2> QED
    BY <1>2, <1>5, <2>2, <2>3
<1> QED
  BY <1>7, <1>9, <1>10

\* A kind counted keeps the table of starts ascending.
LEMMA CountedKeepsTable ==
  ASSUME IInv, Counted
  PROVE  TableTypeOK' /\ KindsInOrder' /\ CountedBehind'
<1> DEFINE n == Len(kind_offsets)
<1>1. /\ outcome = "counting" /\ total <= U32Max /\ n = NodeKindCount
      /\ kind_offsets' = Append(kind_offsets, total) /\ total' = total
      /\ counts' = counts /\ outcome' = "Ok"
  BY DEF Counted
<1>2. /\ counts \in [NodeKinds -> Nat] /\ kind_offsets \in Seq(0 .. U32Max)
      /\ total \in 0 .. U32Max /\ n \in Nat
  BY <1>1, Widths DEF IInv, TableTypeOK
<1>3. /\ Len(kind_offsets') = n + 1 /\ kind_offsets'[n + 1] = total
      /\ \A i \in 1 .. n : kind_offsets'[i] = kind_offsets[i]
      /\ kind_offsets' \in Seq(0 .. U32Max)
  BY <1>1, <1>2
<1>4. TableTypeOK'
  BY <1>1, <1>2, <1>3 DEF TableTypeOK, IInv
<1>5. KindsInOrder'
  <2> SUFFICES ASSUME NEW k \in Nat, NEW l \in Nat, k < l, l < Len(kind_offsets')
               PROVE  End(k)' <= Start(l)'
    BY DEF KindsInOrder
  <2>1. k < n /\ k + 1 \in 1 .. n /\ l + 1 \in 1 .. n + 1
    BY <1>2, <1>3
  <2>2. End(k)' = End(k)
    BY <1>1, <1>3, <2>1 DEF End, Start
  <2>3. CASE l < n
    <3>1. Start(l)' = Start(l)
      BY <1>2, <1>3, <2>3 DEF Start
    <3> QED
      BY <2>2, <2>3, <3>1 DEF IInv, KindsInOrder
  <2>4. CASE l = n
    <3>1. Start(l)' = total
      BY <1>3, <2>4 DEF Start
    <3> QED
      BY <1>1, <2>1, <2>2, <3>1 DEF IInv, CountedBehind
  <2> QED
    BY <1>2, <1>3, <2>3, <2>4
<1>6. CountedBehind'
  BY <1>1 DEF CountedBehind
<1> QED
  BY <1>4, <1>5, <1>6

\* The table is right at every step, and a half-edge is pushed only once it is complete.
LEMMA TableInvariant == Spec => []IInv
<1>1. Init => IInv
  <2> SUFFICES ASSUME Init PROVE IInv
    OBVIOUS
  <2>1. TableTypeOK
    BY SchemaAssumption, WidthAssumption, Widths DEF Init, TableTypeOK
  <2>2. KindsInOrder /\ CountedBehind /\ TableComplete /\ HalfTypeOK
    BY SchemaAssumption DEF Init, KindsInOrder, CountedBehind, TableComplete, HalfTypeOK
  <2> QED
    BY <2>1, <2>2 DEF IInv
<1>2. IInv /\ [Next]_vars => IInv'
  <2> SUFFICES ASSUME IInv, [Next]_vars PROVE IInv'
    OBVIOUS
  <2> USE DEF IInv
  <2>1. kind_offsets \in Seq(0 .. U32Max) /\ NodeKindCount \in Nat
    BY SchemaAssumption DEF TableTypeOK
  <2>2. CASE CountOverflow
    <3>1. TableTypeOK' /\ KindsInOrder' /\ CountedBehind'
      BY <2>2 DEF CountOverflow, TableTypeOK, KindsInOrder, CountedBehind, Start, End
    <3>2. TableComplete' /\ HalfTypeOK'
      BY <2>2 DEF CountOverflow, TableComplete, HalfTypeOK
    <3> QED
      BY <3>1, <3>2
  <2>3. CASE CountKind
    <3>1. TableTypeOK' /\ KindsInOrder' /\ CountedBehind'
      BY <2>3, CountKindKeepsTable
    <3>2. TableComplete' /\ HalfTypeOK'
      BY <2>1, <2>3 DEF CountKind, TableComplete, HalfTypeOK
    <3> QED
      BY <3>1, <3>2
  <2>4. CASE Counted
    <3>1. TableTypeOK' /\ KindsInOrder' /\ CountedBehind'
      BY <2>4, CountedKeepsTable
    <3>2. TableComplete' /\ HalfTypeOK'
      BY <2>1, <2>4 DEF Counted, TableComplete, HalfTypeOK
    <3> QED
      BY <3>1, <3>2
  <2>5. CASE PushHalf
    <3>1. TableTypeOK' /\ KindsInOrder' /\ CountedBehind' /\ TableComplete'
      BY <2>5 DEF PushHalf, TableTypeOK, KindsInOrder, CountedBehind, TableComplete, Start, End
    <3>2. HalfTypeOK'
      BY <2>5 DEF PushHalf, HalfTypeOK, Half, Nodes
    <3> QED
      BY <3>1, <3>2
  <2>6. CASE UNCHANGED vars
    BY <2>6 DEF vars, TableTypeOK, KindsInOrder, CountedBehind, TableComplete, HalfTypeOK,
                Start, End, Nodes
  <2> QED
    BY <2>2, <2>3, <2>4, <2>5, <2>6 DEF Next
<1> QED
  BY <1>1, <1>2, PTL DEF Spec

(***************************************************************************)
(* Numbers of nodes                                                        *)
(***************************************************************************)
\* A node is numbered without saturating, behind the start of its kind and
\* before its end, which is at or before the start of every later kind.
LEMMA NodeNumber ==
  ASSUME IInv, outcome = "Ok", NEW node \in Nodes
  PROVE  /\ node \in NodeKinds \X Nat
         /\ Start(node[1]) \in Nat /\ End(node[1]) \in Nat
         /\ densify(node) = Start(node[1]) + node[2] /\ densify(node) \in Nat
         /\ Start(node[1]) <= densify(node) /\ densify(node) < End(node[1])
         /\ \A l \in NodeKinds : node[1] < l => End(node[1]) <= Start(l)
<1>1. PICK k \in NodeKinds : node \in {<<k, s>> : s \in 0 .. counts[k] - 1}
  BY DEF Nodes
<1>2. PICK s \in 0 .. counts[k] - 1 : node = <<k, s>>
  BY <1>1
<1>3. /\ NodeKindCount \in Nat /\ counts[k] \in Nat /\ s \in Nat /\ s < counts[k]
      /\ kind_offsets \in Seq(0 .. U32Max) /\ Len(kind_offsets) = NodeKindCount + 1
  BY <1>2, SchemaAssumption DEF IInv, TableTypeOK, TableComplete
<1>4. k \in Nat /\ k < NodeKindCount /\ NodeKindCount < Len(kind_offsets)
  BY <1>3 DEF NodeKinds
<1>5. Start(k) \in 0 .. U32Max /\ Start(NodeKindCount) \in 0 .. U32Max
  <2>1. k + 1 \in 1 .. Len(kind_offsets) /\ NodeKindCount + 1 \in 1 .. Len(kind_offsets)
    BY <1>3, <1>4
  <2>2. \A i \in 1 .. Len(kind_offsets) : kind_offsets[i] \in 0 .. U32Max
    <3> DEFINE range == 0 .. U32Max
    <3>1. kind_offsets \in Seq(range)
      BY <1>3
    <3> HIDE DEF range
    <3>2. \A i \in 1 .. Len(kind_offsets) : kind_offsets[i] \in range
      BY <3>1
    <3> QED
      BY <3>2 DEF range
  <2> QED
    BY <2>1, <2>2 DEF Start
<1>6. End(k) \in Nat /\ End(k) <= Start(NodeKindCount) /\ Start(k) + s < End(k)
  BY <1>3, <1>4, <1>5, Widths DEF End, IInv, KindsInOrder
<1>7. densify(node) = Start(k) + s
  <2>1. KindOf(node) = k /\ SeqOf(node) = s /\ k + 1 \in DOMAIN kind_offsets
    BY <1>2, <1>3, <1>4 DEF KindOf, SeqOf
  <2>2. densify(node) = SaturatingAdd(Start(k), s, U32Max)
    BY <2>1 DEF densify, Start
  <2> QED
    BY <1>3, <1>5, <1>6, <2>2, Widths DEF SaturatingAdd
<1>8. \A l \in NodeKinds : k < l => End(k) <= Start(l)
  BY <1>3, <1>4 DEF NodeKinds, IInv, KindsInOrder
<1> QED
  BY <1>2, <1>3, <1>5, <1>6, <1>7, <1>8, Widths

\* Nodes are numbered in the order of their ids, no two alike.
LEMMA NodesCompare ==
  ASSUME IInv, outcome = "Ok", NEW a \in Nodes, NEW b \in Nodes
  PROVE  /\ densify(a) < densify(b) <=> PairBefore(a, b)
         /\ densify(a) = densify(b) <=> a = b
<1>1. /\ a \in NodeKinds \X Nat /\ b \in NodeKinds \X Nat
      /\ densify(a) \in Nat /\ densify(b) \in Nat
  BY NodeNumber
<1>2. ASSUME NEW c \in Nodes, NEW d \in Nodes, c[1] < d[1]
      PROVE  densify(c) < densify(d)
  <2>1. densify(c) \in Nat /\ densify(c) < End(c[1]) /\ End(c[1]) \in Nat /\ End(c[1]) <= Start(d[1])
    BY <1>2, NodeNumber
  <2>2. Start(d[1]) <= densify(d) /\ Start(d[1]) \in Nat /\ densify(d) \in Nat
    BY NodeNumber
  <2> QED
    BY <2>1, <2>2
<1>3. a[1] \in Int /\ b[1] \in Int /\ a[2] \in Nat /\ b[2] \in Nat
  BY <1>1 DEF NodeKinds
<1>4. CASE a[1] < b[1]
  BY <1>1, <1>2, <1>3, <1>4 DEF PairBefore
<1>5. CASE b[1] < a[1]
  BY <1>1, <1>2, <1>3, <1>5 DEF PairBefore
<1>6. CASE a[1] = b[1]
  <2>1. densify(a) = Start(a[1]) + a[2] /\ densify(b) = Start(a[1]) + b[2] /\ Start(a[1]) \in Nat
    BY <1>6, NodeNumber
  <2>2. a = b <=> a[2] = b[2]
    BY <1>1, <1>6
  <2> QED
    BY <1>3, <1>6, <2>1, <2>2 DEF PairBefore
<1> QED
  BY <1>3, <1>4, <1>5, <1>6

(***************************************************************************)
(* The theorems                                                            *)
(***************************************************************************)
\* The last kind that starts at or before the number of a node is the node's.
LEMMA NodeResolves ==
  ASSUME IInv, outcome = "Ok", NEW node \in Nodes
  PROVE  resolve(densify(node)) = node
<1> DEFINE dense == densify(node)
           starts == {l \in NodeKinds : Start(l) <= dense}
           kind == CHOOSE k \in starts : \A l \in starts : l <= k
<1>1. PICK k \in NodeKinds, s \in Nat : node = <<k, s>>
  BY NodeNumber
<1>2. /\ Start(k) \in Nat /\ End(k) \in Nat /\ dense = Start(k) + s /\ dense \in Nat
      /\ Start(k) <= dense /\ dense < End(k)
      /\ \A l \in NodeKinds : k < l => End(k) <= Start(l)
  BY <1>1, NodeNumber
<1>3. k \in starts
  BY <1>2
<1>4. ASSUME NEW l \in starts PROVE l <= k
  <2>1. l \in NodeKinds /\ Start(l) <= dense /\ l \in Int /\ k \in Int
    BY DEF NodeKinds
  <2>2. Start(l) \in Int
    <3>1. l + 1 \in 1 .. Len(kind_offsets) /\ kind_offsets \in Seq(0 .. U32Max)
      BY <2>1, SchemaAssumption DEF NodeKinds, IInv, TableTypeOK, TableComplete
    <3>2. kind_offsets[l + 1] \in 0 .. U32Max
      <4> DEFINE range == 0 .. U32Max
      <4>1. kind_offsets \in Seq(range)
        BY <3>1
      <4> HIDE DEF range
      <4>2. kind_offsets[l + 1] \in range
        BY <3>1, <4>1
      <4> QED
        BY <4>2 DEF range
    <3> QED
      BY <3>2 DEF Start
  <2>3. ~ (k < l)
    <3> HIDE DEF dense
    <3> QED
      BY <1>2, <2>1, <2>2
  <2> QED
    BY <2>1, <2>3
<1>5. kind = k
  <2>1. kind \in starts /\ k <= kind
    <3> HIDE DEF starts
    <3> QED
      BY <1>3, <1>4
  <2>2. kind <= k /\ kind \in Int /\ k \in Int
    <3>1. kind \in NodeKinds
      BY <2>1
    <3> HIDE DEF kind
    <3> QED
      BY <1>4, <2>1, <3>1 DEF NodeKinds
  <2> QED
    BY <2>1, <2>2
<1>6. resolve(dense) = <<kind, dense - Start(kind)>>
  BY DEF resolve, Start
<1>7. resolve(dense) = <<k, dense - Start(k)>>
  BY <1>5, <1>6
<1>8. dense - Start(k) = s
  <2> HIDE DEF dense
  <2> QED
    BY <1>2
<1> QED
  BY <1>1, <1>7, <1>8

\* A half-edge of the graph under check compares by its code as by what it
\* stands for, with every half-edge of the same kind there could be.
LEMMA HalvesCompare ==
  ASSUME IInv, NEW g \in half, NEW src \in Nodes, NEW dst \in Nodes, NEW value \in Values(g.typ)
  PROVE  LET h == Half(src, dst, g.typ, value)
         IN  (CodeBefore(g, h) <=> StoredBefore(g, h)) /\ (CodeBefore(h, g) <=> StoredBefore(h, g))
<1> DEFINE h == Half(src, dst, g.typ, value)
<1>1. /\ outcome = "Ok" /\ g.src \in Nodes /\ g.dst \in Nodes
      /\ g.typ \in Types /\ g.value \in Values(g.typ)
  BY DEF IInv, HalfTypeOK
<1>2. h.src = src /\ h.dst = dst /\ h.typ = g.typ /\ h.value = value
  BY DEF Half
<1>3. /\ densify(g.src) < densify(src) <=> PairBefore(g.src, src)
      /\ densify(src) < densify(g.src) <=> PairBefore(src, g.src)
      /\ densify(g.src) = densify(src) <=> g.src = src
      /\ densify(g.dst) < densify(dst) <=> PairBefore(g.dst, dst)
      /\ densify(dst) < densify(g.dst) <=> PairBefore(dst, g.dst)
      /\ densify(g.dst) = densify(dst) <=> g.dst = dst
  BY <1>1, NodesCompare
<1>4. /\ ValueKeyOf(g.typ, g.value) < ValueKeyOf(g.typ, value) <=> ValueBefore(g.typ, g.value, value)
      /\ ValueKeyOf(g.typ, value) < ValueKeyOf(g.typ, g.value) <=> ValueBefore(g.typ, value, g.value)
  BY <1>1, ValuesCompare
<1> HIDE DEF h
<1>5. CodeBefore(g, h) <=> StoredBefore(g, h)
  BY <1>2, <1>3, <1>4, Zenon DEF CodeBefore, StoredBefore
<1>6. CodeBefore(h, g) <=> StoredBefore(h, g)
  BY <1>2, <1>3, <1>4, Zenon DEF CodeBefore, StoredBefore
<1> QED
  BY <1>5, <1>6 DEF h

\* In every graph, sorting and comparing codes is sorting and comparing half-edges.
THEOREM HalvesAlwaysCompareAsStored == Spec => []HalvesCompareAsStored
<1>1. IInv => HalvesCompareAsStored
  BY HalvesCompare DEF HalvesCompareAsStored
<1> QED
  BY <1>1, TableInvariant, PTL

\* In every graph, an error that names a node by its number names the right one.
THEOREM NodesAlwaysResolve == Spec => []NodesResolve
<1>1. IInv => NodesResolve
  BY NodeResolves DEF NodesResolve
<1> QED
  BY <1>1, TableInvariant, PTL

(***************************************************************************)
(* The number of nodes                                                     *)
(***************************************************************************)
\* The nodes of the first n kinds.
NodesBefore(n) == UNION {{<<k, s>> : s \in 0 .. counts[k] - 1} : k \in 0 .. n - 1}

\* No kind, all kinds, and one kind more.
LEMMA NodesOneMore ==
  ASSUME NodeKindCount \in Nat
  PROVE  /\ NodesBefore(0) = {} /\ NodesBefore(NodeKindCount) = Nodes
         /\ \A n \in Nat : NodesBefore(n + 1) = NodesBefore(n) \cup ({n} \X (0 .. counts[n] - 1))
         /\ \A n \in Nat : NodesBefore(n) \cap ({n} \X (0 .. counts[n] - 1)) = {}
<1>1. NodesBefore(NodeKindCount) = Nodes
  BY DEF NodesBefore, Nodes, NodeKinds
<1>2. NodesBefore(0) = {}
  BY DEF NodesBefore
<1>3. ASSUME NEW n \in Nat
      PROVE  /\ NodesBefore(n + 1) = NodesBefore(n) \cup ({n} \X (0 .. counts[n] - 1))
             /\ NodesBefore(n) \cap ({n} \X (0 .. counts[n] - 1)) = {}
  <2> DEFINE of(k) == {<<k, s>> : s \in 0 .. counts[k] - 1}
  <2>1. of(n) = {n} \X (0 .. counts[n] - 1)
    OBVIOUS
  <2>2. 0 .. n + 1 - 1 = (0 .. n - 1) \cup {n} /\ n \notin 0 .. n - 1
    OBVIOUS
  <2>3. \A k : \A x \in of(k) : x[1] = k
    OBVIOUS
  <2>4. NodesBefore(n + 1) = NodesBefore(n) \cup of(n)
    BY <2>2 DEF NodesBefore
  <2>5. NodesBefore(n) \cap of(n) = {}
    <3>1. NodesBefore(n) = UNION {of(k) : k \in 0 .. n - 1}
      BY DEF NodesBefore
    <3> HIDE DEF of
    <3> QED BY <2>2, <2>3, <3>1
  <2> QED BY <2>1, <2>4, <2>5
<1> QED BY <1>1, <1>2, <1>3

\* There are as many as the table has counted.
LEMMA NodesOfKind ==
  ASSUME TableTypeOK, NEW n \in NodeKinds, IsFiniteSet(NodesBefore(n))
  PROVE  /\ IsFiniteSet(NodesBefore(n + 1))
         /\ Cardinality(NodesBefore(n + 1)) = Cardinality(NodesBefore(n)) + counts[n]
         /\ Cardinality(NodesBefore(n)) \in Nat /\ counts[n] \in Nat
<1> DEFINE new == {n} \X (0 .. counts[n] - 1)
<1>1. n \in Nat /\ counts[n] \in Nat /\ NodeKindCount \in Nat
  BY SchemaAssumption DEF TableTypeOK, NodeKinds
<1>2. IsFiniteSet(0 .. counts[n] - 1) /\ Cardinality(0 .. counts[n] - 1) = counts[n]
  <2>1. PICK last \in Int : last = counts[n] - 1
    BY <1>1
  <2>2. IsFiniteSet(0 .. last) /\ Cardinality(0 .. last) = IF 0 > last THEN 0 ELSE last - 0 + 1
    BY FS_Interval
  <2>3. (IF 0 > last THEN 0 ELSE last - 0 + 1) = counts[n]
    BY <1>1, <2>1
  <2> QED BY <2>1, <2>2, <2>3, Zenon
<1>3. IsFiniteSet({n}) /\ Cardinality({n}) = 1
  BY FS_Singleton
<1>4. IsFiniteSet(new) /\ Cardinality(new) = 1 * counts[n]
  BY <1>2, <1>3, FS_Product
<1>5. NodesBefore(n + 1) = NodesBefore(n) \cup new /\ NodesBefore(n) \cap new = {}
  BY <1>1, NodesOneMore
<1> HIDE DEF new
<1>6. /\ IsFiniteSet(NodesBefore(n) \cup new)
      /\ Cardinality(NodesBefore(n) \cup new)
           = Cardinality(NodesBefore(n)) + Cardinality(new) - Cardinality(NodesBefore(n) \cap new)
  BY <1>4, FS_Union
<1>7. Cardinality(NodesBefore(n) \cap new) = 0
  BY <1>5, FS_EmptySet, Zenon
<1>8. Cardinality(NodesBefore(n)) \in Nat
  BY FS_CardinalityType
<1>9. Cardinality(NodesBefore(n)) + 1 * counts[n] - 0 = Cardinality(NodesBefore(n)) + counts[n]
  BY <1>1, <1>8
<1>10. Cardinality(NodesBefore(n) \cup new) = Cardinality(NodesBefore(n)) + counts[n]
  BY <1>4, <1>6, <1>7, <1>9, Zenon
<1> QED BY <1>1, <1>5, <1>6, <1>8, <1>10, Zenon

\* All nodes are finitely many, and no fewer than those of the first kinds.
LEMMA NodesFinite ==
  ASSUME TableTypeOK, NEW n \in 0 .. NodeKindCount
  PROVE  /\ IsFiniteSet(NodesBefore(n)) /\ IsFiniteSet(Nodes)
         /\ Cardinality(NodesBefore(n)) \in Nat /\ Cardinality(Nodes) \in Nat
         /\ Cardinality(NodesBefore(n)) <= Cardinality(Nodes)
<1> DEFINE S == {m \in Nat : m <= NodeKindCount => IsFiniteSet(NodesBefore(m))}
<1>1. NodeKindCount \in Nat
  BY SchemaAssumption
<1>2. 0 \in S
  BY <1>1, NodesOneMore, FS_EmptySet
<1>3. ASSUME NEW m \in Nat, m \in S PROVE m + 1 \in S
  <2> SUFFICES ASSUME m + 1 <= NodeKindCount PROVE IsFiniteSet(NodesBefore(m + 1))
    OBVIOUS
  <2>1. m \in NodeKinds /\ m <= NodeKindCount
    BY <1>1 DEF NodeKinds
  <2> QED BY <1>3, <2>1, NodesOfKind
<1>4. Nat \subseteq S
  <2> HIDE DEF S
  <2> QED BY <1>2, <1>3, FromZero
<1>5. IsFiniteSet(NodesBefore(n)) /\ IsFiniteSet(NodesBefore(NodeKindCount))
  <2>1. n \in Nat /\ n <= NodeKindCount /\ NodeKindCount <= NodeKindCount
    BY <1>1
  <2> QED BY <1>1, <1>4, <2>1
<1>6. NodesBefore(NodeKindCount) = Nodes
  BY <1>1, NodesOneMore
<1>7. NodesBefore(n) \subseteq Nodes
  <2>1. 0 .. n - 1 \subseteq NodeKinds
    BY <1>1 DEF NodeKinds
  <2> QED BY <2>1 DEF NodesBefore, Nodes
<1> QED BY <1>5, <1>6, <1>7, FS_Subset, FS_CardinalityType

\* What has been counted: the nodes of the kinds in the table, unless the sum has reached
\* the top of its range.  And the outcome says whether they fit.
CountInv ==
  /\ outcome = "counting" =>
       LET counted == Cardinality(NodesBefore(Len(kind_offsets)))
       IN  counted >= total /\ (total < U64Max => counted = total)
  /\ RefusedWhenTooMany

\* The sum is that of the nodes in every step.
LEMMA StepCounts ==
  ASSUME IInv, IInv', CountInv, [Next]_vars PROVE CountInv'
<1>1. PICK n \in Nat : n = Len(kind_offsets)
  BY DEF IInv, TableTypeOK
<1> DEFINE counted == Cardinality(NodesBefore(n))
<1>2. /\ NodeKindCount \in Nat /\ total \in Nat /\ TableTypeOK
      /\ U32Max \in Nat /\ U64Max \in Nat /\ U32Max < U64Max
  BY SchemaAssumption, Widths DEF IInv, TableTypeOK
<1>3. /\ outcome = "counting" => /\ n \in 0 .. NodeKindCount /\ counted >= total
                                  /\ (total < U64Max => counted = total)
  BY <1>1, <1>2 DEF IInv, TableComplete, CountInv
<1>4. /\ n \in 0 .. NodeKindCount => Cardinality(Nodes) \in Nat /\ counted \in Nat
                                    /\ counted <= Cardinality(Nodes) /\ IsFiniteSet(NodesBefore(n))
  BY <1>2, NodesFinite
<1>5. CASE CountOverflow
  <2>1. outcome = "counting" /\ total > U32Max /\ outcome' = "NodeCountOverflow" /\ UNCHANGED counts
    BY <1>5 DEF CountOverflow
  <2>2. Cardinality(Nodes) > U32Max /\ Cardinality(Nodes) \in Nat
    <3> HIDE DEF counted
    <3> QED BY <1>2, <1>3, <1>4, <2>1
  <2>3. Nodes' = Nodes
    BY <2>1 DEF Nodes
  <2>4. ~ (Cardinality(Nodes') <= U32Max)
    BY <1>2, <2>2, <2>3
  <2> QED BY <2>1, <2>4 DEF CountInv, RefusedWhenTooMany
<1>6. CASE CountKind
  <2>1. /\ outcome = "counting" /\ total <= U32Max /\ n < NodeKindCount
        /\ outcome' = "counting" /\ counts' = counts
        /\ total' = SaturatingAdd(total, counts[n], U64Max)
    BY <1>1, <1>6 DEF CountKind
  <2>2. n \in NodeKinds /\ Len(kind_offsets') = n + 1
    BY <1>1, <1>2, <1>6, <2>1 DEF CountKind, NodeKinds, IInv, TableTypeOK
  <2>3. Cardinality(NodesBefore(n + 1)) = counted + counts[n] /\ counts[n] \in Nat
    BY <1>2, <1>3, <1>4, <2>1, <2>2, NodesOfKind
  <2>4. NodesBefore(n + 1)' = NodesBefore(n + 1)
    BY <2>1 DEF NodesBefore
  <2>5. counted = total
    BY <1>2, <1>3, <2>1
  <2> HIDE DEF counted
  <2>6. Cardinality(NodesBefore(n + 1)') >= total'
        /\ (total' < U64Max => Cardinality(NodesBefore(n + 1)') = total')
    <3>1. Cardinality(NodesBefore(n + 1)') = total + counts[n]
      BY <2>3, <2>4, <2>5
    <3>2. total + counts[n] \in Nat
      BY <1>2, <2>3
    <3> QED BY <1>2, <2>1, <2>3, <3>1, <3>2 DEF SaturatingAdd
  <2>7. NodesBefore(Len(kind_offsets))' = NodesBefore(n + 1)'
    BY <2>2 DEF NodesBefore
  <2> QED BY <2>1, <2>6, <2>7 DEF CountInv, RefusedWhenTooMany
<1>7. CASE Counted
  <2>1. outcome = "counting" /\ total <= U32Max /\ n = NodeKindCount /\ outcome' = "Ok" /\ counts' = counts
    BY <1>1, <1>7 DEF Counted
  <2>2. NodesBefore(n) = Nodes
    BY <1>2, <2>1, NodesOneMore
  <2>3. Nodes' = Nodes
    BY <2>1 DEF Nodes
  <2>4. Cardinality(Nodes) = total
    BY <1>2, <1>3, <2>1, <2>2
  <2>5. Cardinality(Nodes') <= U32Max
    BY <2>1, <2>3, <2>4
  <2> QED BY <2>1, <2>5 DEF CountInv, RefusedWhenTooMany
<1>8. CASE PushHalf \/ UNCHANGED vars
  <2>1. UNCHANGED <<counts, kind_offsets, total, outcome>>
    BY <1>8 DEF PushHalf, vars
  <2> QED BY <2>1 DEF CountInv, RefusedWhenTooMany, NodesBefore, Nodes
<1> QED BY <1>5, <1>6, <1>7, <1>8 DEF Next

\* NodeIndex::new refuses a graph for its size exactly when its nodes have no number each,
\* though the sum it goes by stops at the top of its range.
THEOREM RefusedExactlyWhenTooMany == Spec => []RefusedWhenTooMany
<1>1. Init /\ IInv => CountInv
  <2> SUFFICES ASSUME Init PROVE CountInv
    OBVIOUS
  <2>1. NodesBefore(0) = {}
    BY SchemaAssumption, NodesOneMore
  <2>2. Cardinality(NodesBefore(0)) = 0
    BY <2>1, FS_EmptySet, Zenon
  <2>3. Len(kind_offsets) = 0 /\ total = 0 /\ outcome = "counting"
    BY DEF Init
  <2>4. Cardinality(NodesBefore(Len(kind_offsets))) = 0
    BY <2>2, <2>3, Zenon
  <2> QED BY <2>3, <2>4 DEF CountInv, RefusedWhenTooMany
<1>2. IInv /\ IInv' /\ CountInv /\ [Next]_vars => CountInv'
  BY StepCounts
<1>3. CountInv => RefusedWhenTooMany
  BY DEF CountInv
<1> QED BY <1>1, <1>2, <1>3, TableInvariant, PTL DEF Spec

\* Every variable of the checker's index has its type: no start is past the range of a
\* dense number, no sum past its own, however many nodes there are.
THEOREM KeysTypeAlwaysOK == Spec => []TypeOK
<1>1. IInv => TypeOK
  BY DEF IInv, TableTypeOK, HalfTypeOK, TypeOK
<1> QED BY <1>1, TableInvariant, PTL
================================================================================
