----------------------------- MODULE MCHalfEdgeKeys -----------------------------
(***************************************************************************)
(* Four node kinds with up to two nodes each, words of 1, 2 and 4 bits.      *)
(***************************************************************************)
EXTENDS HalfEdgeKeys

MCEdgeProperty == [e \in EdgeKinds |-> [typ |-> "None", enum |-> 0]]
MCNodeProperty == [p \in PropertyKinds |-> [typ |-> "None", enum |-> 0]]
MCKindProperties == [k \in NodeKinds |-> {}]
MCEnumVariants == <<>>
MCNodeCounts == [NodeKinds -> 0 .. 2]
=============================================================================
