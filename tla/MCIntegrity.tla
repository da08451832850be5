------------------------------- MODULE MCIntegrity -------------------------------
(***************************************************************************)
(* Two node kinds, edges with a String and edges without value, a NodeId and *)
(* an Enum property: a well-formed graph, and every graph that comes of it   *)
(* by replacing one or two of its slots; and graphs at and past the number   *)
(* of nodes that can be told apart.                                         *)
(***************************************************************************)
EXTENDS ParallelCheck

CONSTANTS x, y

MCEdgeProperty ==
  [e \in EdgeKinds |-> [typ |-> IF e = 0 THEN "String" ELSE "None", enum |-> 0]]
MCNodeProperty ==
  [p \in PropertyKinds |-> [typ |-> IF p = 0 THEN "NodeId" ELSE "Enum", enum |-> p]]
MCKindProperties == [k \in NodeKinds |-> PropertyKinds]
MCMultiProperties == PropertyKinds
MCEnumVariants == <<3, 2>>

a == <<0, 0>>
b == <<0, 1>>
c == <<1, 0>>

edge(offsets, neighbors, items) ==
  [offsets |-> offsets, neighbors |-> neighbors, values |-> [typ |-> "String", items |-> items]]
plain(offsets, neighbors) ==
  [offsets |-> offsets, neighbors |-> neighbors, values |-> NewArray("None")]
property(typ, offsets, items) == [offsets |-> offsets, values |-> [typ |-> typ, items |-> items]]

Out_0 == edge_storage_slot(0, Out, 0)
In_1 == edge_storage_slot(1, In, 0)
Out_plain == edge_storage_slot(1, Out, 1)
In_plain == edge_storage_slot(0, In, 1)
Links == property_storage_slot(0, 0)
Colours == property_storage_slot(1, 1)

\* a -x-> c, a -y-> c, c --> b; a links to c, c has a colour.
Base ==
  [NewGraph EXCEPT
     !.nodes = [k \in NodeKinds |-> IF k = 0 THEN <<FALSE, TRUE>> ELSE <<FALSE>>],
     !.edges[Out_0] = edge(<<0, 2, 2>>, <<c, c>>, <<<<0>>, <<1>>>>),
     !.edges[In_1] = edge(<<0, 2>>, <<a, a>>, <<<<1>>, <<0>>>>),
     !.edges[Out_plain] = plain(<<0, 1>>, <<b>>),
     !.edges[In_plain] = plain(<<0, 0, 1>>, <<c>>),
     !.properties[Links] = property("NodeId", <<0, 1, 1>>, <<c>>),
     !.properties[Colours] = property("Enum", <<0, 1>>, <<<<1, 1>>>>),
     !.strings = <<x, y>>]

EdgeVariants ==
       {Out_0} \X {edge(<<>>, <<>>, <<>>),                            \* no Out halves
                   edge(<<>>, <<c, c>>, <<<<0>>, <<1>>>>),            \* items without offsets
                   edge(<<0, 2>>, <<c, c>>, <<<<0>>, <<1>>>>),        \* an offset short
                   edge(<<1, 2, 2>>, <<c, c>>, <<<<0>>, <<1>>>>),     \* not from 0
                   edge(<<0, 3, 2>>, <<c, c>>, <<<<0>>, <<1>>>>),     \* decreasing
                   edge(<<0, 1, 2>>, <<c, c>>, <<<<0>>, <<1>>>>),     \* one from b
                   edge(<<0, 1, 1>>, <<c, c>>, <<<<0>>, <<1>>>>),     \* an item too many
                   edge(<<0, 2, 2>>, <<c, c>>, <<<<0>>>>),            \* a value short
                   edge(<<0, 2, 2>>, <<c, c>>, <<<<0>>, <<2>>>>),     \* no such text
                   edge(<<0, 2, 2>>, <<c, c>>, <<<<1>>, <<0>>>>),     \* in the other order
                   edge(<<0, 2, 2>>, <<c, c>>, <<<<0>>, <<0>>>>),     \* the same value twice
                   edge(<<0, 2, 2>>, <<c, <<2, 0>>>>, <<<<0>>, <<1>>>>),  \* no such kind
                   edge(<<0, 2, 2>>, <<c, <<1, 1>>>>, <<<<0>>, <<1>>>>)}  \* no such node
  \cup {In_1} \X {edge(<<0, 1>>, <<a>>, <<<<0>>>>),                   \* a half short
                  edge(<<0, 2>>, <<a, b>>, <<<<1>>, <<0>>>>),         \* of another node
                  edge(<<0, 2>>, <<a, a>>, <<<<0>>, <<0>>>>),         \* of another value
                  plain(<<0, 2>>, <<a, a>>)}                          \* of another type
  \cup {In_plain} \X {plain(<<>>, <<>>), plain(<<0, 1, 1>>, <<c>>), plain(<<0, 0, 2>>, <<c, c>>)}
  \cup {Out_plain} \X {plain(<<0, 2>>, <<b, b>>), edge(<<0, 1>>, <<b>>, <<<<0>>>>)}

PropertyVariants ==
       {Links} \X {property("NodeId", <<0, 1, 2>>, <<c, <<1, 1>>>>),  \* no such node
                   property("NodeId", <<0, 2, 1>>, <<c>>),            \* decreasing
                   property("NodeId", <<0, 1>>, <<c>>),               \* an offset short
                   property("NodeId", <<0, 0, 2>>, <<a, b>>),         \* two of b
                   property("Enum", <<0, 1, 1>>, <<<<0, 0>>>>)}       \* of another type
  \cup {Colours} \X {property("Enum", <<0, 1>>, <<<<1, 2>>>>),        \* no such variant
                     property("Enum", <<0, 1>>, <<<<0, 2>>>>),        \* of another enum
                     property("Enum", <<0, 1>>, <<<<2, 0>>>>)}        \* of no enum

Damage(g) ==
       {[g EXCEPT !.edges[v[1]] = v[2]] : v \in EdgeVariants}
  \cup {[g EXCEPT !.properties[v[1]] = v[2]] : v \in PropertyVariants}

\* More nodes than can be numbered, in slots that are fine and in one that is not.
Crowds ==
  {[NewGraph EXCEPT !.nodes[0] = Repeat(FALSE, n)] : n \in {MaxNodes, MaxNodes + 1}}
  \cup {[Base EXCEPT !.nodes[1] = <<FALSE, FALSE>>]}

MCRawGraphs == {NewGraph, Base} \cup Crowds \cup Damage(Base) \cup UNION {Damage(g) : g \in Damage(Base)}
=============================================================================
