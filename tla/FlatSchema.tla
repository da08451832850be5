------------------------------ MODULE FlatSchema ------------------------------
(***************************************************************************)
(* The compile-time shape of a flat property graph: how many kinds of node, *)
(* edge and property a Schema has, what each kind carries, and how the      *)
(* storage slot of a (node kind, direction, edge kind) or of a (node kind,  *)
(* property kind) is numbered.  A kind is its index, counted from 0 as in   *)
(* the code (ItemIndex).                                                    *)
(***************************************************************************)
EXTENDS Integers, Sequences

CONSTANTS
  NodeKindCount,      \* S::number_of_node_kinds()
  EdgeKindCount,      \* S::number_of_edge_kinds()
  PropertyKindCount,  \* S::number_of_property_kinds()
  EdgeProperty,       \* edge kind -> what each of its edges carries
  NodeProperty,       \* property kind -> what its values are
  KindProperties,     \* node kind -> the property kinds it declares
  MultiProperties,    \* the property kinds of QuantityType::Multi
  EnumVariants        \* registered enum (from 1) -> number of its variants

NodeKinds == 0 .. NodeKindCount - 1
EdgeKinds == 0 .. EdgeKindCount - 1
PropertyKinds == 0 .. PropertyKindCount - 1

\* "Int" stands for all the scalar types (Bool, Byte, ..., Double).
PropertyType == {"None", "Int", "NodeId", "String", "Enum"}

\* A declaration names the enum of an Enum property by its registry index.
PropertyDecl == [typ : PropertyType, enum : Nat]

ASSUME SchemaAssumption ==
  /\ NodeKindCount \in Nat /\ EdgeKindCount \in Nat /\ PropertyKindCount \in Nat
  /\ EdgeProperty \in [EdgeKinds -> PropertyDecl]
  /\ NodeProperty \in [PropertyKinds -> PropertyDecl]
  /\ KindProperties \in [NodeKinds -> SUBSET PropertyKinds]
  /\ MultiProperties \subseteq PropertyKinds
  /\ EnumVariants \in Seq(Nat)

\* None is reserved for the edges that carry no value: the derive of the property
\* trait refuses it on a node property.
ASSUME NodePropertyAssumption == \A p \in PropertyKinds : NodeProperty[p].typ # "None"

\* A direction is its factor: In is 0 and Out is 1.
In == 0
Out == 1
Directions == {In, Out}

(***************************************************************************)
(* Slots                                                                   *)
(***************************************************************************)
edge_storage_size == 2 * NodeKindCount * EdgeKindCount
property_storage_size == NodeKindCount * PropertyKindCount

EdgeSlots == 0 .. edge_storage_size - 1
PropertySlots == 0 .. property_storage_size - 1

edge_storage_slot(node, direction, edge) ==
  node + NodeKindCount * (direction + 2 * edge)

property_storage_slot(node, property) == node + NodeKindCount * property

\* The iterators run through the slots in the order of their numbers: the edge
\* (property) kind is the outermost loop and the node kind the innermost.  The
\* coordinates of a slot are those the iterator yields at that position.
SlotNodeKind(slot) == slot % NodeKindCount
SlotDirection(slot) == (slot \div NodeKindCount) % 2
SlotEdgeKind(slot) == slot \div (2 * NodeKindCount)
SlotPropertyKind(slot) == slot \div NodeKindCount

(***************************************************************************)
(* Node ids are <<kind, seq>>.  An id the caller supplies is resolved       *)
(* against the schema; its seq is not checked there.                        *)
(***************************************************************************)
RawNodeId == Nat \X Nat
KindOf(node) == node[1]
SeqOf(node) == node[2]

ResolvesNodeKind(node) == KindOf(node) \in NodeKinds

\* The half an edge is read from, and the one it must be paired with.
orient_edge(direction, src, dst) ==
  IF direction = Out
    THEN [primary |-> src, dir |-> Out, secondary |-> dst, reverse |-> In]
    ELSE [primary |-> dst, dir |-> In, secondary |-> src, reverse |-> Out]
=============================================================================
