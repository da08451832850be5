------------------------------ MODULE HalfEdgeKeys ------------------------------
(***************************************************************************)
(* How the integrity checker compares half-edges.  It numbers all nodes in  *)
(* one sequence, with a table of where each kind starts, encodes the value   *)
(* of an edge as an unsigned integer, and sorts and compares the numbers.    *)
(* Module Integrity compares the ids and values themselves; here the codes   *)
(* are shown to compare as what they stand for.  Widths are parameters: a    *)
(* w-bit integer is given by half its range, 2^(w-1).                       *)
(***************************************************************************)
EXTENDS FlatSchema, FiniteSets

CONSTANTS
  Half16, Half32, Half64,  \* half the range of a 16, 32, 64 bit integer
  Span8,                   \* the range of a byte
  NodeCounts               \* node kind -> number of nodes, for each graph checked

U16Max == 2 * Half16 - 1
U32Max == 2 * Half32 - 1
U64Max == 2 * Half64 - 1

ASSUME WidthAssumption ==
  /\ Half16 \in Nat \ {0} /\ Half32 \in Nat \ {0} /\ Half64 \in Nat \ {0} /\ Span8 \in Nat
  /\ Half16 <= Half32 /\ (U32Max + 1) * (U32Max + 1) <= U64Max + 1
  /\ NodeCounts \subseteq [NodeKinds -> Nat]

VARIABLES
  counts,        \* the nodes of each kind of the graph under check
  kind_offsets,  \* the table: where the nodes of each kind start
  total,         \* nodes counted so far
  outcome,       \* of NodeIndex::new
  half           \* the half-edge pushed last, as a set

vars == <<counts, kind_offsets, total, outcome, half>>

Nodes == UNION {{<<k, s>> : s \in 0 .. counts[k] - 1} : k \in NodeKinds}

(***************************************************************************)
(* Values.  A float is given by its bits.                                  *)
(***************************************************************************)
Types == {"None", "Bool", "Byte", "Short", "Int", "Long", "Float", "Double",
          "NodeId", "String", "Enum"}

Signed(limit) == - limit .. limit - 1
Values(typ) ==
  CASE typ = "None"   -> {<<>>}
    [] typ = "Bool"   -> 0 .. 1
    [] typ = "Byte"   -> 0 .. Span8 - 1
    [] typ = "Short"  -> Signed(Half16)
    [] typ = "Int"    -> Signed(Half32)
    [] typ = "Long"   -> Signed(Half64)
    [] typ = "Float"  -> 0 .. U32Max
    [] typ = "Double" -> 0 .. U64Max
    [] typ = "NodeId" -> (0 .. U32Max) \X (0 .. U32Max)
    [] typ = "String" -> 0 .. U32Max
    [] typ = "Enum"   -> (0 .. U16Max) \X (0 .. U16Max)

\* The two's complement of value, its top bit flipped.
signed_key(value) ==
  LET bits == IF value < 0 THEN value + 2 * Half64 ELSE value
  IN  IF bits >= Half64 THEN bits - Half64 ELSE bits + Half64

\* Mutant: the sign bit is flipped, negative floats are not reversed.
MutantFloatKey(bits, limit) == IF bits >= limit THEN bits - limit ELSE bits + limit

\* A negative float is inverted bit by bit, a positive one gets the top bit.
float_key(bits, limit) == IF bits >= limit THEN 2 * limit - 1 - bits ELSE bits + limit

ValueKeyOf(typ, value) ==
  CASE typ = "None"                       -> 0
    [] typ \in {"Bool", "Byte", "String"} -> value
    [] typ \in {"Short", "Int", "Long"}   -> signed_key(value)
    [] typ = "Float"                      -> float_key(value, Half32)
    [] typ = "Double"                     -> float_key(value, Half64)
    [] typ = "NodeId"                     -> value[1] * (U32Max + 1) + value[2]
    [] typ = "Enum"                       -> value[1] * (U16Max + 1) + value[2]

(***************************************************************************)
(* NodeIndex: new counts through the kinds, one step for each.              *)
(***************************************************************************)
SaturatingAdd(x, y, max) == IF x + y > max THEN max ELSE x + y

Init ==
  /\ counts \in NodeCounts
  /\ kind_offsets = <<>> /\ total = 0 /\ outcome = "counting" /\ half = {}

CountOverflow ==
  /\ outcome = "counting" /\ total > U32Max
  /\ outcome' = "NodeCountOverflow"
  /\ UNCHANGED <<counts, kind_offsets, total, half>>

\* Mutant: the start of a kind is recorded behind its nodes.
MutantCountKind ==
  /\ outcome = "counting" /\ total <= U32Max /\ Len(kind_offsets) < NodeKindCount
  /\ total' = SaturatingAdd(total, counts[Len(kind_offsets)], U64Max)
  /\ kind_offsets' = Append(kind_offsets, total')
  /\ UNCHANGED <<counts, outcome, half>>

CountKind ==
  /\ outcome = "counting" /\ total <= U32Max /\ Len(kind_offsets) < NodeKindCount
  /\ kind_offsets' = Append(kind_offsets, total)
  /\ total' = SaturatingAdd(total, counts[Len(kind_offsets)], U64Max)
  /\ UNCHANGED <<counts, outcome, half>>

\* Mutant: the end of the last kind is not checked.
MutantCounted ==
  /\ outcome = "counting" /\ Len(kind_offsets) = NodeKindCount
  /\ kind_offsets' = Append(kind_offsets, total)
  /\ outcome' = "Ok"
  /\ UNCHANGED <<counts, total, half>>

Counted ==
  /\ outcome = "counting" /\ total <= U32Max /\ Len(kind_offsets) = NodeKindCount
  /\ kind_offsets' = Append(kind_offsets, total)
  /\ outcome' = "Ok"
  /\ UNCHANGED <<counts, total, half>>

densify(node) ==
  SaturatingAdd(IF KindOf(node) + 1 \in DOMAIN kind_offsets
                  THEN kind_offsets[KindOf(node) + 1] ELSE U32Max,
                SeqOf(node), U32Max)

\* Mutant: the first kind that starts there, which may have no nodes.
MutantResolve(dense) ==
  LET starts == {k \in NodeKinds : kind_offsets[k + 1] >= dense}
      kind == IF starts = {} THEN NodeKindCount - 1 ELSE CHOOSE k \in starts : \A l \in starts : k <= l
  IN  <<kind, dense - kind_offsets[kind + 1]>>

\* The last kind that starts at or before a number holds it.
resolve(dense) ==
  LET starts == {k \in NodeKinds : kind_offsets[k + 1] <= dense}
      kind == CHOOSE k \in starts : \A l \in starts : l <= k
  IN  <<kind, dense - kind_offsets[kind + 1]>>

\* check_edge_slot pushes a half-edge of a slot whose ids it has checked.
Half(src, dst, typ, value) == [src |-> src, dst |-> dst, typ |-> typ, value |-> value]

PushHalf ==
  /\ outcome = "Ok" /\ half = {}
  /\ \E src, dst \in Nodes, typ \in Types : \E value \in Values(typ) :
       half' = {Half(src, dst, typ, value)}
  /\ UNCHANGED <<counts, kind_offsets, total, outcome>>

Next == CountOverflow \/ CountKind \/ Counted \/ PushHalf

Spec == Init /\ [][Next]_vars

(***************************************************************************)
(* What the codes stand for                                                *)
(***************************************************************************)
PairBefore(a, b) == a[1] < b[1] \/ (a[1] = b[1] /\ a[2] < b[2])

\* total_cmp: by sign, then by magnitude, reversed for negative numbers.
FloatBefore(a, b, limit) ==
  \/ a >= limit /\ b < limit
  \/ a < limit /\ b < limit /\ a < b
  \/ a >= limit /\ b >= limit /\ a - limit > b - limit

ValueBefore(typ, a, b) ==
  CASE typ = "None"              -> FALSE
    [] typ = "Float"             -> FloatBefore(a, b, Half32)
    [] typ = "Double"            -> FloatBefore(a, b, Half64)
    [] typ \in {"NodeId", "Enum"} -> PairBefore(a, b)
    [] OTHER                     -> a < b

StoredBefore(g, h) ==
  \/ PairBefore(g.src, h.src)
  \/ g.src = h.src /\ PairBefore(g.dst, h.dst)
  \/ g.src = h.src /\ g.dst = h.dst /\ ValueBefore(g.typ, g.value, h.value)

\* The order HalfEdge derives from its three fields.
CodeBefore(g, h) ==
  LET g_value == ValueKeyOf(g.typ, g.value)
      h_value == ValueKeyOf(h.typ, h.value)
  IN  \/ densify(g.src) < densify(h.src)
      \/ densify(g.src) = densify(h.src) /\ densify(g.dst) < densify(h.dst)
      \/ /\ densify(g.src) = densify(h.src) /\ densify(g.dst) = densify(h.dst)
         /\ g_value < h_value

(***************************************************************************)
(* Properties                                                              *)
(***************************************************************************)
TypeOK ==
  /\ counts \in [NodeKinds -> Nat]
  /\ kind_offsets \in Seq(0 .. U32Max) /\ Len(kind_offsets) <= NodeKindCount + 1
  /\ total \in 0 .. U64Max
  /\ outcome \in {"counting", "Ok", "NodeCountOverflow"}
  /\ \A h \in half : h.src \in Nodes /\ h.dst \in Nodes /\ h.typ \in Types /\ h.value \in Values(h.typ)

\* Two half-edges of one edge kind compare, once encoded, as the ids and values
\* they were made from: no two of them share a code, so that pairing takes no
\* half for another, and the lowest one reported is the lowest one stored.
HalvesCompareAsStored ==
  \A g \in half : \A src, dst \in Nodes : \A value \in Values(g.typ) :
    LET h == Half(src, dst, g.typ, value)
    IN  (CodeBefore(g, h) <=> StoredBefore(g, h)) /\ (CodeBefore(h, g) <=> StoredBefore(h, g))

\* An error names the node it is about: the number of a node resolves to it, with
\* kinds that have no nodes before, between and behind those that have.
NodesResolve == outcome = "Ok" => \A node \in Nodes : resolve(densify(node)) = node

\* A graph is refused for its size exactly when its nodes cannot be numbered.
RefusedWhenTooMany ==
  outcome # "counting" => (outcome = "Ok" <=> Cardinality(Nodes) <= U32Max)
=============================================================================
