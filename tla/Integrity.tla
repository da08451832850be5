------------------------------- MODULE Integrity -------------------------------
(***************************************************************************)
(* check_integrity: the test a RawGraph must pass to become a Graph, and    *)
(* the promise every committed diff is meant to keep.  It is a sequence of  *)
(* checks, each with an error of its own; the first one that fails decides  *)
(* the result.                                                              *)
(***************************************************************************)
EXTENDS FlatStorage

CONSTANT MaxNodes  \* the most nodes the checker can number (u32::MAX)

ASSUME NodesAssumption == MaxNodes \in Nat

Graph == [nodes : [NodeKinds -> Seq(BOOLEAN)],
          edges : [EdgeSlots -> EdgeStorageSlot],
          properties : [PropertySlots -> PropertyStorageSlot],
          strings : Seq(Texts)]

NewGraph ==
  [nodes |-> [k \in NodeKinds |-> <<>>],
   edges |-> [s \in EdgeSlots |-> EmptyEdgeSlot(SlotEdgeKind(s))],
   properties |-> [s \in PropertySlots |-> EmptyPropertySlot(SlotPropertyKind(s))],
   strings |-> <<>>]

Ok == "Ok"

\* What the checks report of a graph that has every slot of its schema.
Errors ==
  {Ok, "NodeCountOverflow", "OffsetsLengthMismatch", "OffsetsBoundsMismatch", "OffsetUnderflow",
   "InvalidPropertyType", "UnresolvedNodeKind", "NodeSeqOutOfBounds", "UnresolvedStringId",
   "UnresolvedEnumKind", "EnumPropIndexMismatch", "UnresolvedEnumVariant",
   "ReverseEdgeNotFound", "EdgeHalfPropertyMismatch"}

Lowest(S) == CHOOSE x \in S : \A y \in S : x <= y

\* The first error among the checks Check(1), ..., Check(n), or Ok.
FirstError(n, Check(_)) ==
  LET failing == {i \in 1 .. n : Check(i) # Ok}
  IN  IF failing = {} THEN Ok ELSE Check(Lowest(failing))

Both(first, second) == IF first # Ok THEN first ELSE second

(***************************************************************************)
(* One slot                                                                *)
(***************************************************************************)
check_offsets_shape(offsets, node_count) ==
  IF offsets = <<>> THEN Ok
  ELSE IF Len(offsets) # node_count + 1 THEN "OffsetsLengthMismatch"
  ELSE IF offsets[1] # 0 THEN "OffsetsBoundsMismatch"
  ELSE IF \E i \in 1 .. Len(offsets) - 1 : offsets[i + 1] < offsets[i]
    THEN "OffsetUnderflow"
  ELSE Ok

check_offsets_bounds(offsets, array_len) ==
  IF LastOffset(offsets) = array_len THEN Ok ELSE "OffsetsBoundsMismatch"

check_storage_type(array, expected) ==
  IF array.typ = expected THEN Ok ELSE "InvalidPropertyType"

check_node_id(g, node) ==
  IF ~ ResolvesNodeKind(node) THEN "UnresolvedNodeKind"
  ELSE IF SeqOf(node) >= Len(g.nodes[KindOf(node)]) THEN "NodeSeqOutOfBounds"
  ELSE Ok

check_string_id(g, id) == IF id < Len(g.strings) THEN Ok ELSE "UnresolvedStringId"

\* A slot of enum values has an enum to expect: the derives refuse a kind without one.
check_enum_id(enum, variant, expected) ==
  IF enum + 1 \notin DOMAIN EnumVariants THEN "UnresolvedEnumKind"
  ELSE IF enum # expected
    THEN IF expected + 1 \in DOMAIN EnumVariants THEN "EnumPropIndexMismatch"
         ELSE "UnresolvedEnumKind"
  ELSE IF variant >= EnumVariants[enum + 1] THEN "UnresolvedEnumVariant"
  ELSE Ok

check_values_content(g, array, expected_enum) ==
  FirstError(Len(array.items), LAMBDA i :
    LET key == array.items[i]
    IN  CASE array.typ = "NodeId" -> check_node_id(g, key)
          [] array.typ = "String" -> check_string_id(g, key[1])
          [] array.typ = "Enum"   -> check_enum_id(key[1], key[2], expected_enum)
          [] OTHER                -> Ok)

\* A None array has no length to bound.
CheckValues(g, slot, decl) ==
  Both(check_storage_type(slot.values, decl.typ),
  Both(IF decl.typ = "None" THEN Ok
         ELSE check_offsets_bounds(slot.offsets, ArrayLen(slot.values)),
       check_values_content(g, slot.values, decl.enum)))

check_property_slot(g, s) ==
  LET slot == g.properties[s]
  IN  Both(check_offsets_shape(slot.offsets, Len(g.nodes[SlotNodeKind(s)])),
           CheckValues(g, slot, NodeProperty[SlotPropertyKind(s)]))

check_edge_slot(g, s) ==
  LET slot == g.edges[s]
  IN  Both(check_offsets_shape(slot.offsets, Len(g.nodes[SlotNodeKind(s)])),
      Both(check_offsets_bounds(slot.offsets, Len(slot.neighbors)),
      Both(FirstError(Len(slot.neighbors),
             LAMBDA i : check_node_id(g, slot.neighbors[i])),
           CheckValues(g, slot, EdgeProperty[SlotEdgeKind(s)]))))

(***************************************************************************)
(* Pairing.  Both halves of an edge canonicalize to the same class, its      *)
(* source, destination and value, written as one flat tuple; tuples are      *)
(* ordered as the checker sorts its half-edges.                              *)
(***************************************************************************)
\* The position of each half-edge in the slots of (direction, edge), with its class.
Halves(g, direction, edge) ==
  UNION {LET s == edge_storage_slot(kind, direction, edge)
             slot == g.edges[s]
         IN  UNION {{LET neighbor == slot.neighbors[i]
                         node == <<kind, seq>>
                         value == ValueKey(slot.values, i - 1)
                     IN  [slot |-> s, at |-> i,
                          class |-> IF direction = Out
                                      THEN node \o neighbor \o value
                                      ELSE neighbor \o node \o value] :
                       i \in Start(slot, seq) + 1 .. End(slot, seq)} :
                      seq \in 0 .. Len(slot.offsets) - 2} :
           kind \in NodeKinds}

Classes(halves) == {h.class : h \in halves}
CountOf(halves, class) == Cardinality({h \in halves : h.class = class})

Precedes(a, b) ==
  \E i \in DOMAIN a : a[i] < b[i] /\ \A j \in 1 .. i - 1 : a[j] = b[j]
FirstClass(classes) ==
  CHOOSE a \in classes : \A b \in classes \ {a} : Precedes(a, b)

\* Mutant: a reverse half is looked for, whatever the number of parallel edges.
MutantPairing(g, edge) ==
  IF Classes(Halves(g, Out, edge)) = Classes(Halves(g, In, edge)) THEN Ok
  ELSE "ReverseEdgeNotFound"

\* The multisets of classes differ first at class.  The side with fewer of
\* them holds the next class of its own there, if it has one left: when that
\* differs in the value only, the value is what is reported.
check_half_edge_pairing(g, edge) ==
  LET outs == Halves(g, Out, edge)
      ins == Halves(g, In, edge)
      unequal == {c \in Classes(outs) \cup Classes(ins) : CountOf(outs, c) # CountOf(ins, c)}
      class == FirstClass(unequal)
      fewer == IF CountOf(outs, class) < CountOf(ins, class) THEN outs ELSE ins
      later == {c \in Classes(fewer) : Precedes(class, c)}
  IN  IF unequal = {} THEN Ok
      ELSE IF /\ later # {}
              /\ SubSeq(FirstClass(later), 1, 4) = SubSeq(class, 1, 4)
        THEN "EdgeHalfPropertyMismatch"
      ELSE "ReverseEdgeNotFound"

(***************************************************************************)
(* check_slots                                                             *)
(***************************************************************************)
CheckSlots(g) ==
  Both(FirstError(property_storage_size, LAMBDA i : check_property_slot(g, i - 1)),
       FirstError(edge_storage_size, LAMBDA i : check_edge_slot(g, i - 1)))

CheckPairing(g) == FirstError(EdgeKindCount, LAMBDA i : check_half_edge_pairing(g, i - 1))

\* The schema has a place for each slot: without them all, no slot is looked at.
check_storage_sizes(g) ==
  IF /\ DOMAIN g.nodes = NodeKinds
     /\ DOMAIN g.edges = EdgeSlots /\ DOMAIN g.properties = PropertySlots
    THEN Ok ELSE "StorageSizeMismatch"

TotalNodes(g) == Cardinality(UNION {{k} \X DOMAIN g.nodes[k] : k \in NodeKinds})

\* NodeIndex::new gives the nodes of all kinds numbers of one sequence, which module
\* HalfEdgeKeys models: with too many of them no slot is looked at.
NodeIndexError(g) == IF TotalNodes(g) <= MaxNodes THEN Ok ELSE "NodeCountOverflow"

check_integrity(g) ==
  Both(check_storage_sizes(g),
  Both(NodeIndexError(g),
  Both(CheckSlots(g), CheckPairing(g))))
=============================================================================
