------------------------------- MODULE MCRawGraph -------------------------------
(***************************************************************************)
(* One node kind, edges with an Int and one String property of many values:  *)
(* an empty graph, and two nodes with an edge and a property, edited by hand  *)
(* into graphs with more edges, values and nodes, and into broken ones.       *)
(***************************************************************************)
EXTENDS RawGraph

CONSTANTS x, y

MCEdgeProperty == [e \in EdgeKinds |-> [typ |-> "Int", enum |-> 0]]
MCNodeProperty == [p \in PropertyKinds |-> [typ |-> "String", enum |-> 0]]
MCKindProperties == [k \in NodeKinds |-> PropertyKinds]
MCMultiProperties == PropertyKinds
MCEnumVariants == <<>>

a == <<0, 0>>
b == <<0, 1>>

list(offsets, neighbors) == [offsets |-> offsets, neighbors |-> neighbors]
values(typ, items) == [typ |-> typ, items |-> items]

MCSeeds ==
  {[NewGraph EXCEPT
      !.nodes[0] = <<FALSE, TRUE>>,
      !.edges[edge_storage_slot(0, Out, 0)] =
         [offsets |-> <<0, 1, 1>>, neighbors |-> <<b>>, values |-> values("Int", <<<<5>>>>)],
      !.edges[edge_storage_slot(0, In, 0)] =
         [offsets |-> <<0, 0, 1>>, neighbors |-> <<a>>, values |-> values("Int", <<<<5>>>>)],
      !.properties[0] = [offsets |-> <<0, 1, 1>>, values |-> values("String", <<<<0>>>>)],
      !.strings = <<x>>]}

MCEdgeLists ==
  {list(<<>>, <<>>),
   list(<<0, 2, 2>>, <<b, b>>), list(<<0, 0, 2>>, <<a, a>>),   \* a second edge
   list(<<0, 2, 2>>, <<a, b>>), list(<<0, 1, 2>>, <<a, a>>),   \* and one of a to itself
   list(<<0, 1, 1>>, <<a>>), list(<<0, 2, 1>>, <<b>>), list(<<0, 1>>, <<b>>),
   list(<<0, 1, 1, 1>>, <<b>>), list(<<0, 0, 1, 1>>, <<a>>)}   \* a third node

MCOffsetLists == {<<>>, <<0, 1, 2>>, <<0, 2, 2>>, <<0, 2, 1>>, <<0, 1>>, <<0, 1, 1, 1>>}

MCItems == {[typ |-> "Int", key |-> <<5>>], [typ |-> "Int", key |-> <<6>>],
            [typ |-> "String", key |-> <<0>>], [typ |-> "String", key |-> <<1>>]}
MCPools == {<<>>, <<x, y>>}
MCBatches == {values("Int", <<<<6>>, <<6>>>>), values("String", <<<<0>>>>), values("None", <<>>)}
=============================================================================
