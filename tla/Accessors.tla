------------------------------- MODULE Accessors -------------------------------
(***************************************************************************)
(* What the derive macros generate over the untyped queries: structs for    *)
(* nodes and edges, which hold a reference to the graph, the walks that      *)
(* return them, and an accessor per property.  A struct is made for one kind  *)
(* of schema! and gives its kind by its variant; an accessor knows the type    *)
(* and the quantity its property declares, and what is stored has to agree.    *)
(***************************************************************************)
EXTENDS GraphDiff

(***************************************************************************)
(* Typed structs                                                           *)
(***************************************************************************)
Node == [variant : NodeKinds, seq : Nat]

\* Node::new: anybody may make one, of any seq.
NewNodeStruct(kind, seq) == [variant |-> kind, seq |-> seq]
node_id(node) == <<node.variant, node.seq>>

\* The method of a node kind on a view of the graph.
nodes_accessor(kind) ==
  {NewNodeStruct(KindOf(id), SeqOf(id)) : id \in nodes_by_kind(graph, kind)}

get_edges_out(node, edge_kind) == get_edges(graph, node_id(node), edge_kind, Out)
get_edges_in(node, edge_kind) == get_edges(graph, node_id(node), edge_kind, In)
get_edges_out_with_deleted(node, edge_kind) ==
  get_edges_with_deleted(graph, node_id(node), edge_kind, Out)
get_edges_in_with_deleted(node, edge_kind) ==
  get_edges_with_deleted(graph, node_id(node), edge_kind, In)

\* Edge::new and, back from it, StoredEdge::edge.
Edge == [variant : EdgeKinds, src_node : RawNodeId, dst_node : RawNodeId,
         direction : Directions, seq : Nat]
NewEdgeStruct(id) ==
  [variant |-> id.kind, src_node |-> id.src, dst_node |-> id.dst,
   direction |-> id.dir, seq |-> id.seq]
edge_id(edge) ==
  [src |-> edge.src_node, dst |-> edge.dst_node, kind |-> edge.variant,
   dir |-> edge.direction, seq |-> edge.seq]

\* EdgesAccessor, on a view of the graph.
edges_accessor(src_node, edge_kind, direction) ==
  {NewEdgeStruct(id) : id \in get_edges(graph, src_node, edge_kind, direction)}
edges_with_deleted_accessor(src_node, edge_kind, direction) ==
  {NewEdgeStruct(id) : id \in get_edges_with_deleted(graph, src_node, edge_kind, direction)}

(***************************************************************************)
(* Properties of nodes and edges                                           *)
(***************************************************************************)
\* property_binding: the error of reading one stored value as declared.  The
\* variant of an enum is asked for once the enum is the one that is declared.
property_binding(prop, decl) ==
  IF prop.typ # decl.typ THEN "InvalidPropertyType"
  ELSE CASE prop.typ = "NodeId" /\ ~ ResolvesNodeKind(prop.key) -> "UnresolvedNodeKind"
         [] prop.typ = "String" /\ ~ (prop.key[1] < Len(strings)) -> "UnresolvedStringId"
         [] prop.typ = "Enum" /\ prop.key[1] # decl.enum        -> "EnumPropIndexMismatch"
         [] prop.typ = "Enum" /\ prop.key[1] = decl.enum
              /\ prop.key[2] >= EnumVariants[decl.enum + 1]     -> "UnresolvedEnumVariant"
         [] OTHER                                               -> Ok

Read(error, values) == [error |-> error, values |-> values]

\* A Multi property is collected up to the first value that does not convert,
\* of a One property the first value is all that is looked at.
property_accessor(node, property) ==
  LET decl == NodeProperty[property]
      stored == get_node_property(graph, node_id(node), property)
      run == Answer(stored)
      looked_at == IF property \in MultiProperties \/ run = <<>> THEN run ELSE <<run[1]>>
      error == FirstError(Len(looked_at), LAMBDA i : property_binding(looked_at[i], decl))
  IN  IF stored = Nothing THEN Read("PropertyIndexNotFound", <<>>)
      ELSE IF error # Ok THEN Read(error, <<>>)
      ELSE IF property \notin MultiProperties /\ run = <<>>
        THEN Read("PropertyIndexNotFound", <<>>)
      ELSE Read(Ok, [i \in DOMAIN looked_at |-> resolve_property(graph, looked_at[i])])

\* property() of an edge: no value, or the one it carries.
edge_accessor(edge) ==
  LET decl == EdgeProperty[edge.variant]
      stored == UNION get_edge_property(graph, edge_id(edge))
      error == property_binding(Answer(stored), decl)
  IN  IF stored = {} THEN Read(Ok, <<>>)
      ELSE IF error # Ok THEN Read(error, <<>>)
      ELSE Read(Ok, <<resolve_property(graph, Answer(stored))>>)

(***************************************************************************)
(* Properties                                                              *)
(***************************************************************************)
\* Whatever has been committed, a caller who reads it through the generated structs
\* meets no other error than that a property was never set: types, texts and enums
\* agree with their declarations, also in the middle of a prepare, and every edge of
\* a kind with a value has one.  A walk from a node along its edges and back along
\* those of the nodes it reaches returns to it, over an edge of the same value; over
\* the edges whose ends are deleted too, and without them.
Returns(node, edge, back(_, _, _)) ==
  \E other \in back(Neighbor(edge_id(edge)), edge.variant, 1 - edge.direction) :
    /\ Neighbor(edge_id(other)) = node_id(node)
    /\ edge_accessor(other) = edge_accessor(edge)

AccessorsAnswer ==
  /\ \A id \in NodeIds(graph) : \A p \in KindProperties[KindOf(id)] :
       property_accessor(NewNodeStruct(KindOf(id), SeqOf(id)), p).error
         \in {Ok, "PropertyIndexNotFound"}
  /\ \A id \in NodeIds(graph), kind \in EdgeKinds :
       LET node == NewNodeStruct(KindOf(id), SeqOf(id))
       IN  \A edge \in {NewEdgeStruct(e) : e \in get_edges_out_with_deleted(node, kind)
                                            \cup get_edges_in_with_deleted(node, kind)} :
             /\ Returns(node, edge, edges_with_deleted_accessor)
             /\ EdgeProperty[kind].typ # "None" =>
                  edge_accessor(edge).error = Ok /\ edge_accessor(edge).values # <<>>
  /\ \A kind \in NodeKinds, edge_kind \in EdgeKinds :
       \A node \in nodes_accessor(kind) :
         \A e \in get_edges_out(node, edge_kind) \cup get_edges_in(node, edge_kind) :
           Returns(node, NewEdgeStruct(e), edges_accessor)

\* A node never gets a value of a property its kind does not declare, although
\* update_node_property does not ask: a kind without the property has no offsets,
\* and a slot without offsets takes no update.
\* (A graph put together by hand may have such offsets: its seeds have to do without.)
UndeclaredEmpty(g) ==
  \A kind \in NodeKinds : \A p \in PropertyKinds \ KindProperties[kind] :
    g.properties[property_storage_slot(kind, p)].offsets = <<>>
SeedsFollowSchema == \A g \in Seeds : UndeclaredEmpty(g)
UndeclaredStayEmpty == UndeclaredEmpty(graph)

\* The README's promise on quantity: a property declared One holds one value.
OneHoldsOneValue ==
  \A node \in NodeIds(graph) : \A p \in KindProperties[KindOf(node)] \ MultiProperties :
    \A run \in get_node_property(graph, node, p) : Len(run) <= 1
=============================================================================
