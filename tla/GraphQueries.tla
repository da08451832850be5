----------------------------- MODULE GraphQueries -----------------------------
(***************************************************************************)
(* What a caller reads out of a Graph.  A query that can fail returns its   *)
(* answer as a singleton and its error as the empty set.                    *)
(***************************************************************************)
EXTENDS Integrity

Nothing == {}
Answer(S) == CHOOSE x \in S : TRUE

NodeIds(g) == UNION {{<<k, s>> : s \in 0 .. Len(g.nodes[k]) - 1} : k \in NodeKinds}

\* A node that does not exist reads as deleted.
node_is_deleted(g, node) ==
  SeqOf(node) < Len(g.nodes[KindOf(node)]) => g.nodes[KindOf(node)][SeqOf(node) + 1]

nodes_by_kind(g, kind) == {node \in NodeIds(g) : KindOf(node) = kind /\ ~ node_is_deleted(g, node)}

node_count_by_kind(g, kind) == Cardinality({i \in DOMAIN g.nodes[kind] : ~ g.nodes[kind][i]})
node_count(g) == SumFunction([kind \in NodeKinds |-> node_count_by_kind(g, kind)])
node_count_by_kind_with_deleted(g, kind) == Len(g.nodes[kind])

(***************************************************************************)
(* Edges.  An EdgeId is a position in one node's run of half-edges, written  *)
(* with the edge's own source and destination.                              *)
(***************************************************************************)
EdgeId == [src : RawNodeId, dst : RawNodeId, kind : Nat, dir : Directions, seq : Nat]

from_half(node, neighbor, kind, direction, seq) ==
  [src |-> IF direction = Out THEN node ELSE neighbor,
   dst |-> IF direction = Out THEN neighbor ELSE node,
   kind |-> kind, dir |-> direction, seq |-> seq]

EdgeSlotOf(g, node, kind, direction) == g.edges[edge_storage_slot(KindOf(node), direction, kind)]

\* A slot without offsets holds no edge of any node.
get_edges_offset(slot, node) ==
  IF slot.offsets = <<>> THEN {<<0, 0>>}
  ELSE IF HasOffset(slot, SeqOf(node))
    THEN {<<Start(slot, SeqOf(node)), End(slot, SeqOf(node))>>}
    ELSE Nothing

\* Where the code returns an error, for offsets that are missing or reversed, there
\* are no edges here: no Graph has such offsets, as RawGraph and GraphDiff show.
get_edges_with_deleted(g, node, kind, direction) ==
  LET slot == EdgeSlotOf(g, node, kind, direction)
  IN  UNION {LET run == get_neighbors(slot, range[1], range[2])
             IN  {from_half(node, run[i], kind, direction, i - 1) : i \in DOMAIN run} :
             range \in get_edges_offset(slot, node)}

Neighbor(id) == IF id.dir = Out THEN id.dst ELSE id.src

get_edges(g, node, kind, direction) ==
  {id \in get_edges_with_deleted(g, node, kind, direction) :
     ~ node_is_deleted(g, Neighbor(id))}

\* A node the slot has no offsets for counts no edge, as in the code.
get_edges_count(g, node, kind, direction) == Cardinality(get_edges(g, node, kind, direction))

\* Counted by the offsets alone; they refuse where the end is before the start.
get_edges_count_with_deleted(g, node, kind, direction) ==
  LET range == get_edges_offset(EdgeSlotOf(g, node, kind, direction), node)
  IN  IF range = Nothing THEN {0}
      ELSE {r[2] - r[1] : r \in {r \in range : r[1] <= r[2]}}

\* The position is counted from the node's start and not checked against its
\* end, so a seq past the node's run reads what the next node stores; one past
\* MaxOffset is past every array, which the code refuses and here reads as nothing.  The
\* property itself is a set: an edge of a kind without value has none.
get_edge_property(g, id) ==
  LET near == orient_edge(id.dir, id.src, id.dst)
      slot == EdgeSlotOf(g, near.primary, id.kind, id.dir)
  IN  {get(slot.values, range[1] + id.seq) : range \in get_edges_offset(slot, near.primary)}

\* An id without its schema, as RawEdgeId carries it, and back: whether the kinds
\* and the direction it names exist is asked, whether the nodes and the edge do is not.
RawEdgeIdOf(id) ==
  [src_node_id |-> id.src, dst_node_id |-> id.dst,
   handle |-> [kind |-> id.kind, direction |-> id.dir, seq |-> id.seq]]
EdgeIdOf(raw) ==
  IF /\ ResolvesNodeKind(raw.src_node_id) /\ ResolvesNodeKind(raw.dst_node_id)
     /\ raw.handle.kind \in EdgeKinds /\ raw.handle.direction \in Directions
    THEN {[src |-> raw.src_node_id, dst |-> raw.dst_node_id, kind |-> raw.handle.kind,
           dir |-> raw.handle.direction, seq |-> raw.handle.seq]}
    ELSE Nothing

\* Every id a caller can hold after walking the whole graph.
EdgeIds(g) ==
  UNION {get_edges_with_deleted(g, node, kind, direction) :
           node \in NodeIds(g), kind \in EdgeKinds, direction \in Directions}

(***************************************************************************)
(* Properties                                                              *)
(***************************************************************************)
resolve_property(g, prop) ==
  IF prop.typ = "String" THEN <<g.strings[prop.key[1] + 1]>> ELSE prop.key

get_node_property(g, node, property) ==
  LET slot == g.properties[property_storage_slot(KindOf(node), property)]
      readable == /\ HasOffset(slot, SeqOf(node))
                  /\ Start(slot, SeqOf(node)) <= End(slot, SeqOf(node))
                  /\ End(slot, SeqOf(node)) <= ArrayLen(slot.values)
  IN  IF readable
        THEN {iter_range(slot.values, Start(slot, SeqOf(node)), End(slot, SeqOf(node)))}
        ELSE Nothing
=============================================================================
