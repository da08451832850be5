------------------------------ MODULE MCProperties ------------------------------
(***************************************************************************)
(* Two node kinds with a Multi String, a NodeId and an Enum property, an     *)
(* edge kind without value and one with a String.  The caller also asks for  *)
(* what must be refused: kinds the schema lacks, nodes never created, values *)
(* of another type, a property the kind lacks or no node has, more than an   *)
(* offset can count.                                                        *)
(***************************************************************************)
EXTENDS GraphRefinement, Accessors

CONSTANTS x, y

MCEdgeProperty ==
  [e \in EdgeKinds |-> [typ |-> IF e = 0 THEN "None" ELSE "String", enum |-> 0]]
MCNodeProperty ==
  [p \in PropertyKinds |->
     [typ |-> CASE p = 0 -> "String" [] p = 1 -> "NodeId" [] OTHER -> "Enum", enum |-> 0]]
MCKindProperties == [k \in NodeKinds |-> IF k = 0 THEN PropertyKinds ELSE {}]
MCMultiProperties == {0}
MCEnumVariants == <<2>>

text(t) == [typ |-> "String", key |-> <<t>>]
node_value(n) == [typ |-> "NodeId", key |-> n]
enum(variant) == [typ |-> "Enum", key |-> <<0, variant>>]

a == <<0, 0>>  \* live, named x
b == <<0, 1>>  \* deleted, unnamed
c == <<1, 0>>  \* live
unknown_kind == <<NodeKindCount, 0>>
unknown_node == <<0, 9>>

names(offsets, items) ==
  [offsets |-> offsets, values |-> [typ |-> "String", items |-> items]]

\* a --> c without value, a --x-> a, and a deleted b that still has an edge to c.
Seed ==
  [NewGraph EXCEPT
     !.nodes = [k \in NodeKinds |-> IF k = 0 THEN <<FALSE, TRUE>> ELSE <<FALSE>>],
     !.properties[property_storage_slot(0, 0)] = names(<<0, 1, 1>>, <<<<0>>>>),
     !.edges[edge_storage_slot(0, Out, 0)].offsets = <<0, 1, 2>>,
     !.edges[edge_storage_slot(0, Out, 0)].neighbors = <<c, c>>,
     !.edges[edge_storage_slot(1, In, 0)].offsets = <<0, 2>>,
     !.edges[edge_storage_slot(1, In, 0)].neighbors = <<a, b>>,
     !.edges[edge_storage_slot(0, Out, 1)] =
       [offsets |-> <<0, 1, 1>>, neighbors |-> <<a>>, values |-> [typ |-> "String", items |-> <<<<0>>>>]],
     !.edges[edge_storage_slot(0, In, 1)] =
       [offsets |-> <<0, 1, 1>>, neighbors |-> <<a>>, values |-> [typ |-> "String", items |-> <<<<0>>>>]],
     !.strings = <<x>>]

MCSeeds == {Seed}
MCNewNodeInputs ==
  {[kind |-> 1, properties |-> NoFunction],
   [kind |-> 0, properties |-> [p \in {0, 1} |-> IF p = 0 THEN <<text(y), text(x)>> ELSE <<node_value(c)>>]],
   [kind |-> 0, properties |-> [p \in {2} |-> <<enum(1)>>]],
   [kind |-> 0, properties |-> [p \in {1} |-> <<text(y)>>]]}
MCEdgeEnds == {a, b, c, unknown_kind}
MCEdgeProps == {{}, {text(y)}}
MCRemovedNodes == {a, unknown_kind, unknown_node}
MCUpdateInputs ==
  {<<a, 0, <<>>>>, <<a, 0, <<text(y), text(y)>>>>, <<b, 0, <<text(y)>>>>,
   <<a, 0, <<text(y), enum(0)>>>>, <<a, 1, <<node_value(a)>>>>,
   <<unknown_kind, 0, <<text(y)>>>>, <<unknown_node, 0, <<text(y)>>>>,
   <<c, 0, <<text(y)>>>>}
\* Two values for a property of quantity One.
MCTwoValues == {<<<<0, 2>>, 1, <<node_value(a), node_value(c)>>>>}

\* Values of the declared type that name nothing: a node never created, a variant
\* and an enum the schema does not register.
MCDanglingNodes ==
  {[kind |-> 0, properties |-> [p \in {1} |-> <<node_value(unknown_node)>>]],
   [kind |-> 0, properties |-> [p \in {2} |-> <<enum(7)>>]],
   [kind |-> 0, properties |-> [p \in {2} |-> <<[typ |-> "Enum", key |-> <<4, 0>>]>>]]}

\* Of all the inputs here only those leave the caller's part undone.
ASSUME CallerSeesToValues == InputsResolve <=> NewNodeInputs # MCDanglingNodes
ASSUME SeedsAsDeclared == SeedsFollowSchema
=============================================================================
