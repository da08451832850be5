---------------------------- MODULE GraphRefinement ----------------------------
(***************************************************************************)
(* The flat graph read through its own queries is a LogicalGraph, and a     *)
(* prepare followed by a commit or a roll-back is one of its steps.         *)
(***************************************************************************)
EXTENDS GraphDiff

EdgeValue(id) == {resolve_property(graph, prop) : prop \in UNION get_edge_property(graph, id)}

LogicalEdge(id) == <<id.src, id.kind, id.dst, EdgeValue(id)>>

OutIds == {id \in EdgeIds(graph) : id.dir = Out}
LogicalEdges ==
  [e \in {LogicalEdge(id) : id \in OutIds} |->
     Cardinality({id \in OutIds : LogicalEdge(id) = e})]

LogicalValues ==
  [v \in NodeIds(graph) \X PropertyKinds |->
     {[i \in DOMAIN run |-> resolve_property(graph, run[i])] :
        run \in get_node_property(graph, v[1], v[2])}]

RestingPool == IF pc = "idle" THEN strings ELSE truncate(strings, strings_baseline)

LogicalChange(change) ==
  IF change.change = "RemoveEdge"
    THEN LET id == change.edge
         IN  [change |-> "RemoveEdge", edge |-> LogicalEdge(id),
              half |-> [dir |-> id.dir, seq |-> id.seq,
                        node |-> orient_edge(id.dir, id.src, id.dst).primary]]
    ELSE change

LogicalRequest ==
  IF pc = "idle" THEN {}
  ELSE {[diff[current] EXCEPT
           !.changes = [i \in DOMAIN @ |-> LogicalChange(@[i])]]}

L == INSTANCE LogicalGraph WITH
       MaxItems <- MaxOffset, deleted <- nodes, edges <- LogicalEdges,
       values <- LogicalValues, pool <- RestingPool, request <- LogicalRequest,
       outcome <- result

\* Applying a diff is atomic and does exactly what was asked: the nodes, edges
\* and values a caller reads after a commit are the request applied to the ones
\* read before it, a refused or dropped diff changes nothing, and a diff is
\* refused only for a malformed request or for lack of room.
ImplementsLogicalGraph == L!Spec
=============================================================================
