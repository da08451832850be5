------------------------------ MODULE FlatStorage ------------------------------
(***************************************************************************)
(* The flat arrays a graph is stored in, and the operators that read and    *)
(* rebuild them.                                                            *)
(*                                                                          *)
(* A slot keeps the items of all the nodes of one kind in one array; its     *)
(* offsets say where each node's run starts and ends: node seq owns the      *)
(* 0-based positions offsets[seq] .. offsets[seq + 1] - 1.  An array is a    *)
(* sequence here, so offset o of the code is "after o items" and the run of  *)
(* seq is the 1-based positions Start(slot, seq) + 1 .. End(slot, seq).      *)
(***************************************************************************)
EXTENDS FlatSchema, FiniteSets, Functions

CONSTANTS
  MaxOffset,  \* the largest value an Offset holds (u32::MAX)
  Texts       \* the strings a caller may store

ASSUME StorageAssumption == MaxOffset \in Nat

(***************************************************************************)
(* Values.  What the caller supplies is a PropertyValue; what an array      *)
(* stores is its key: the number, the node id, the enum id, or the handle   *)
(* of the interned string.                                                  *)
(***************************************************************************)
Key == Seq(Nat)
PropertyValue ==
       [typ : PropertyType \ {"None", "String"}, key : Key]
  \cup [typ : {"String"}, key : {<<t>> : t \in Texts}]
StoredProperty == [typ : PropertyType \ {"None"}, key : Key]
StorageArray == [typ : PropertyType, items : Seq(Key)]
EdgeStorageSlot ==
  [offsets : Seq(0 .. MaxOffset), neighbors : Seq(RawNodeId), values : StorageArray]
PropertyStorageSlot == [offsets : Seq(0 .. MaxOffset), values : StorageArray]

\* The keys of an array are of its type: a node id and an enum id have two parts, the
\* handle of a text has one.
ArrayKeyed(array) ==
  \A i \in 1 .. Len(array.items) :
    /\ array.typ = "NodeId" => array.items[i] \in RawNodeId
    /\ array.typ = "Enum" => array.items[i] \in Nat \X Nat
    /\ array.typ = "String" => Len(array.items[i]) = 1 /\ array.items[i][1] \in Nat

NewArray(typ) == [typ |-> typ, items |-> <<>>]

\* StorageArray::len: the None variant is a marker that counts as one item.
ArrayLen(array) == IF array.typ = "None" THEN 1 ELSE Len(array.items)

\* StorageArray::get at a 0-based index: the item, as a set.
get(array, index) ==
  IF array.typ # "None" /\ index < Len(array.items)
    THEN {[typ |-> array.typ, key |-> array.items[index + 1]]}
    ELSE {}

\* A range that is reversed or runs past the array reads as no items.
iter_range(array, start, end) ==
  IF array.typ # "None" /\ start <= end /\ end <= Len(array.items)
    THEN [i \in 1 .. end - start |-> [typ |-> array.typ, key |-> array.items[start + i]]]
    ELSE <<>>

\* ValueKey::of at a 0-based index.  Keys are compared within one slot only,
\* so the packing into 64 bits is left out; a None array has the same key
\* everywhere.
NoKey == <<>>
ValueKey(array, index) ==
  IF array.typ # "None" /\ index < Len(array.items)
    THEN array.items[index + 1]
    ELSE NoKey

EmptyEdgeSlot(edge) ==
  [offsets |-> <<>>, neighbors |-> <<>>, values |-> NewArray(EdgeProperty[edge].typ)]
EmptyPropertySlot(property) ==
  [offsets |-> <<>>, values |-> NewArray(NodeProperty[property].typ)]

(***************************************************************************)
(* Reading a slot                                                          *)
(***************************************************************************)
\* get_offset(seq) is Some exactly when both ends are stored.
HasOffset(slot, seq) == seq + 2 <= Len(slot.offsets)
Start(slot, seq) == slot.offsets[seq + 1]
End(slot, seq) == slot.offsets[seq + 2]
Degree(slot, seq) == End(slot, seq) - Start(slot, seq)

\* A range that is reversed or runs past the array reads as no neighbors.
get_neighbors(slot, start, end) ==
  IF start <= end /\ end <= Len(slot.neighbors)
    THEN SubSeq(slot.neighbors, start + 1, end)
    ELSE <<>>

LastOffset(offsets) == IF offsets = <<>> THEN 0 ELSE offsets[Len(offsets)]

(***************************************************************************)
(* Rebuilding an array                                                     *)
(***************************************************************************)
Rank(S, x) == Cardinality({y \in S : y <= x})
Nth(S, k) == CHOOSE x \in S : Rank(S, x) = k

\* The items of s at the positions P, in order.
Keep(s, P) == [k \in 1 .. Cardinality(P) |-> s[Nth(P, k)]]

\* old with item j of new moved in at position at[j], and what was there moved up.
Merge(old, at, new) ==
  [p \in 1 .. Len(old) + Len(new) |->
     IF \E j \in DOMAIN new : at[j] = p
       THEN new[CHOOSE j \in DOMAIN new : at[j] = p]
       ELSE old[p - Cardinality({j \in DOMAIN new : at[j] < p})]]

Repeat(x, n) == [i \in 1 .. n |-> x]

(***************************************************************************)
(* The string pool, as the graph uses it: the interned texts in the order   *)
(* of their handles.  Module StringsPool models its lookup table.           *)
(***************************************************************************)
\* Mutant: a text that is already there is interned again.
MutantInterned(pool, texts) == pool \o texts

\* The pool after intern has been called on each of texts in turn.
Interned(pool, texts) ==
  pool \o Keep(texts, {i \in DOMAIN texts :
                         /\ texts[i] \notin Range(pool)
                         /\ \A j \in 1 .. i - 1 : texts[j] # texts[i]})

StringId(pool, text) == (CHOOSE i \in DOMAIN pool : pool[i] = text) - 1

\* Mutant: the rollback cuts one text too many.
MutantTruncate(pool, len) == IF len > Len(pool) THEN pool ELSE SubSeq(pool, 1, len - 1)

truncate(pool, len) == IF len >= Len(pool) THEN pool ELSE SubSeq(pool, 1, len)

\* to_stored_property, once the text of prop is in the pool.
Stored(prop, pool) ==
  IF prop.typ = "String"
    THEN [typ |-> "String", key |-> <<StringId(pool, prop.key[1])>>]
    ELSE prop

\* The texts to_stored_property interns when it converts props one by one.
TextsOf(props) ==
  LET strings == {i \in DOMAIN props : props[i].typ = "String"}
  IN  [k \in 1 .. Cardinality(strings) |-> props[Nth(strings, k)].key[1]]
=============================================================================
