-------------------------------- MODULE MCEdges --------------------------------
(***************************************************************************)
(* One node kind, one edge kind carrying an Int, no node properties: parallel *)
(* edges, a self-loop, and edges whose two runs store them in other orders.   *)
(***************************************************************************)
EXTENDS GraphRefinement

MCEdgeProperty == [e \in EdgeKinds |-> [typ |-> "Int", enum |-> 0]]
MCNodeProperty == [p \in PropertyKinds |-> [typ |-> "Int", enum |-> 0]]
MCKindProperties == [k \in NodeKinds |-> {}]
MCMultiProperties == {}
MCEnumVariants == <<>>

int(n) == [typ |-> "Int", key |-> <<n>>]
a == <<0, 0>>
b == <<0, 1>>

Ints(keys) == [typ |-> "Int", items |-> [i \in DOMAIN keys |-> <<keys[i]>>]]

\* a -1-> b, a -2-> b, a -1-> b, a -1-> a; b lists its first two in reverse.
ParallelEdges ==
  [NewGraph EXCEPT
     !.nodes = [k \in NodeKinds |-> <<FALSE, FALSE>>],
     !.edges = [s \in EdgeSlots |->
       IF s = edge_storage_slot(0, Out, 0)
         THEN [offsets |-> <<0, 4, 4>>, neighbors |-> <<b, b, b, a>>, values |-> Ints(<<1, 2, 1, 1>>)]
         ELSE [offsets |-> <<0, 1, 4>>, neighbors |-> <<a, a, a, a>>, values |-> Ints(<<1, 2, 1, 1>>)]]]

MCSeeds == {NewGraph, ParallelEdges}
MCNewNodeInputs == {[kind |-> 0, properties |-> NoFunction]}
MCEdgeEnds == {a, b}
MCEdgeProps == {{int(1)}}
MCRemovedNodes == {b}
MCUpdateInputs == {}

\* Ids read from a graph with more edges and nodes than NewGraph and a third node
\* than ParallelEdges: a node without edges yet, a node that is not there at all.
stray(src, dst, dir) == [src |-> src, dst |-> dst, kind |-> 0, dir |-> dir, seq |-> 0]
MCStrayIds == {stray(a, <<0, 2>>, Out), stray(a, <<0, 2>>, In)}

ASSUME CallerSeesToValues == InputsResolve
=============================================================================
