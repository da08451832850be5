----------------------------- MODULE RawGraphProofs -----------------------------
(***************************************************************************)
(* Proofs about graphs edited by hand: their arrays keep their types, and     *)
(* what try_from lets through is read whole.                                *)
(***************************************************************************)
EXTENDS RawGraph, StagingProofs

(***************************************************************************)
(* The arrays of a raw graph keep their types                               *)
(***************************************************************************)
EdgeFields == {slot \in EdgeStorageSlot : NoItems(slot.values)}
PropertyFields == {slot \in PropertyStorageSlot : NoItems(slot.values)}
\* A storage of any number of slots.
Slots(S) == UNION {[0 .. n - 1 -> S] : n \in Nat}
RawFields == [nodes : Slots(Seq(BOOLEAN)), edges : Slots(EdgeFields),
              properties : Slots(PropertyFields), strings : Seq(Texts)]

Results == Errors \cup {"StorageSizeMismatch", "panic"}

\* The invariant: whatever was edited, the fields are arrays of their types, and those
\* of a Graph have passed the check.
RawInv ==
  /\ form \in {"Graph", "RawGraph", "lost"} /\ result \in Results /\ edits \in 0 .. MaxEdits
  /\ fields \in RawFields
  /\ form = "Graph" => fields \in Graph /\ check_integrity(fields) = Ok

Arrays == {array \in StorageArray : NoItems(array)}

\* A helper returns an array of the same type, whatever becomes of it.
LEMMA EditedTyped ==
  ASSUME NEW array \in Arrays, NEW edited \in Edited(array)
  PROVE  edited.array \in Arrays /\ edited.outcome \in Results
<1>1. /\ array \in StorageArray /\ array.items \in Seq(Key) /\ Len(array.items) \in Nat /\ NoItems(array)
      /\ DOMAIN array.items = 1 .. Len(array.items)
  BY LenProperties DEF Arrays, StorageArray
<1>2. ASSUME NEW items \in Seq(Key), array.typ # "None" \/ items = <<>>
      PROVE  Done(array, items).array \in Arrays /\ Done(array, items).outcome \in Results
  <2>1. PICK new : new = [array EXCEPT !.items = items]
    OBVIOUS
  <2>2. new \in StorageArray /\ new.items = items /\ new.typ = array.typ
    BY <1>1, <2>1 DEF StorageArray
  <2>3. new \in Arrays
    BY <1>2, <2>2 DEF Arrays, NoItems
  <2>4. Done(array, items).array = new /\ Done(array, items).outcome \in Results
    BY <2>1 DEF Done, Results, Errors
  <2> QED BY <2>3, <2>4
<1>3. ASSUME NEW outcome \in Results
      PROVE  Refused(array, outcome).array \in Arrays /\ Refused(array, outcome).outcome \in Results
  <2>1. Refused(array, outcome).array = array /\ Refused(array, outcome).outcome = outcome
    BY DEF Refused
  <2> QED BY <1>3, <2>1
<1>4. "InvalidPropertyType" \in Results /\ "panic" \in Results
  BY DEF Results, Errors
<1>5. \A p \in Items : p.typ # "None" /\ p.key \in Key
  BY RawAssumption DEF StoredProperty
<1>6. \A b \in Batches : b.items \in Seq(Key) /\ NoItems(b)
  BY RawAssumption DEF StorageArray
<1>7. ASSUME NEW at \in Nat, at <= Len(array.items)
      PROVE  SubSeq(array.items, 1, at) \in Seq(Key) /\ SubSeq(array.items, at + 1, Len(array.items)) \in Seq(Key)
  BY <1>1, <1>7, SubSeqProperties
<1>8. \A i \in 0 .. Len(array.items) + 1 : i \in Nat
  OBVIOUS
<1>9. ASSUME NEW p \in Items, edited = try_push(array, p) PROVE edited.array \in Arrays /\ edited.outcome \in Results
  <2>1. Append(array.items, p.key) \in Seq(Key)
    BY <1>1, <1>5, AppendProperties
  <2> QED BY <1>2, <1>3, <1>4, <1>5, <1>9, <2>1 DEF try_push
<1>10. ASSUME NEW b \in Batches, edited = try_append(array, b) PROVE edited.array \in Arrays /\ edited.outcome \in Results
  <2>1. array.items \o b.items \in Seq(Key)
    BY <1>1, <1>6, ConcatProperties
  <2>2. b.typ = "None" /\ array.typ = "None" => array.items \o b.items = <<>>
    BY <1>1, <1>6, ConcatEmptySeq DEF NoItems
  <2> QED BY <1>2, <1>3, <1>4, <1>10, <2>1, <2>2 DEF try_append
<1>11. ASSUME NEW at \in 0 .. Len(array.items) + 1, NEW b \in Batches, edited = try_splice(array, at, b)
       PROVE  edited.array \in Arrays /\ edited.outcome \in Results
  <2>1. at <= Len(array.items) =>
          SubSeq(array.items, 1, at) \o b.items \o SubSeq(array.items, at + 1, Len(array.items)) \in Seq(Key)
    BY <1>6, <1>7, <1>8, ConcatProperties
  <2>2. at > Len(array.items) <=> ~ (at <= Len(array.items))
    BY <1>1
  <2> QED BY <1>2, <1>3, <1>4, <1>11, <2>1, <2>2 DEF try_splice
<1>12. ASSUME NEW i \in 0 .. Len(array.items) + 1, NEW p \in Items, edited = try_insert(array, i, p)
       PROVE  edited.array \in Arrays /\ edited.outcome \in Results
  <2>1. <<p.key>> \in Seq(Key)
    BY <1>5
  <2>2. i <= Len(array.items) =>
          SubSeq(array.items, 1, i) \o <<p.key>> \o SubSeq(array.items, i + 1, Len(array.items)) \in Seq(Key)
    BY <1>7, <1>8, <2>1, ConcatProperties
  <2>3. i > Len(array.items) <=> ~ (i <= Len(array.items))
    BY <1>1
  <2> QED BY <1>2, <1>3, <1>4, <1>5, <1>12, <2>2, <2>3 DEF try_insert
<1>13. ASSUME NEW i \in 0 .. Len(array.items) + 1, NEW j \in 0 .. Len(array.items) + 1, edited = try_drain(array, i, j)
       PROVE  edited.array \in Arrays /\ edited.outcome \in Results
  <2>1. i <= Len(array.items) /\ j <= Len(array.items) =>
          SubSeq(array.items, 1, i) \o SubSeq(array.items, j + 1, Len(array.items)) \in Seq(Key)
    BY <1>7, <1>8, ConcatProperties
  <2>2. ~ (i > j \/ j > Len(array.items)) => i <= Len(array.items) /\ j <= Len(array.items)
    BY <1>1
  <2>3. array.typ = "None" => array.items = <<>>
    BY <1>1 DEF NoItems
  <2> QED BY <1>1, <1>2, <1>3, <1>4, <1>13, <2>1, <2>2, <2>3 DEF try_drain
<1>14. ASSUME NEW i \in 0 .. Len(array.items) + 1, NEW p \in Items, edited = try_as_mut(array, i, p)
       PROVE  edited.array \in Arrays /\ edited.outcome \in Results
  <2>1. ~ (i >= Len(array.items)) => [array.items EXCEPT ![i + 1] = p.key] \in Seq(Key)
    <3>1. i \in Nat /\ (~ (i >= Len(array.items)) => i + 1 \in 1 .. Len(array.items))
      BY <1>1
    <3>2. p.key \in Key
      BY <1>5
    <3> QED BY <1>1, <3>1, <3>2, ExceptSeq
  <2> QED BY <1>2, <1>3, <1>4, <1>5, <1>14, <2>1 DEF try_as_mut
<1> DEFINE positions == 0 .. Len(array.items) + 1
<1>15. \/ \E p \in Items : edited = try_push(array, p)
       \/ \E b \in Batches : edited = try_append(array, b)
       \/ \E at \in positions, b \in Batches : edited = try_splice(array, at, b)
       \/ \E i \in positions, p \in Items : edited = try_insert(array, i, p)
       \/ \E i \in positions, j \in positions : edited = try_drain(array, i, j)
       \/ \E i \in positions, p \in Items : edited = try_as_mut(array, i, p)
  BY DEF Edited
<1> QED BY <1>9, <1>10, <1>11, <1>12, <1>13, <1>14, <1>15

\* The check of a graph has a name for all it finds.
LEMMA ResultNamed == ASSUME NEW g PROVE check_integrity(g) \in Results
<1>1. Ok \in Results /\ Errors \subseteq Results /\ "StorageSizeMismatch" \in Results
  BY DEF Results, Errors
<1>2. check_storage_sizes(g) \in Results
  BY <1>1 DEF check_storage_sizes
<1>3. NodeIndexError(g) \in Results
  BY <1>1 DEF NodeIndexError, Errors
<1>4. CheckSlots(g) \in Results
  <2>1. FirstError(property_storage_size, LAMBDA i : check_property_slot(g, i - 1)) \in Results
    BY <1>1, ErrorsNamed DEF FirstError
  <2>2. FirstError(edge_storage_size, LAMBDA i : check_edge_slot(g, i - 1)) \in Results
    BY <1>1, ErrorsNamed DEF FirstError
  <2> QED BY <2>1, <2>2 DEF CheckSlots, Both
<1>5. CheckPairing(g) \in Results
  BY <1>1, ErrorsNamed DEF CheckPairing, FirstError
<1> QED BY <1>2, <1>3, <1>4, <1>5 DEF check_integrity, Both

\* A storage whose slots are changed, one more or one less.
LEMMA SlotsChanged ==
  ASSUME NEW S, NEW slots \in Slots(S)
  PROVE  /\ \E n \in Nat : /\ DOMAIN slots = 0 .. n - 1 /\ Cardinality(DOMAIN slots) = n
                           /\ \A s \in 0 .. n - 1 : slots[s] \in S
         /\ \A s \in DOMAIN slots, new \in S : [slots EXCEPT ![s] = new] \in Slots(S)
         /\ LET len == Cardinality(DOMAIN slots)
            IN  /\ \A new \in S : [s \in 0 .. len |-> IF s < len THEN slots[s] ELSE new] \in Slots(S)
                /\ len > 0 => [s \in 0 .. len - 2 |-> slots[s]] \in Slots(S)
<1>1. PICK n \in Nat : slots \in [0 .. n - 1 -> S]
  BY DEF Slots
<1>2. Cardinality(0 .. n - 1) = n
  BY <1>1, FS_Interval
<1>3. DOMAIN slots = 0 .. n - 1 /\ Cardinality(DOMAIN slots) = n
  BY <1>1, <1>2
<1>4. \A m \in Nat : \A f \in [0 .. m - 1 -> S] : f \in Slots(S)
  BY DEF Slots
<1>5. \A s \in DOMAIN slots, new \in S : [slots EXCEPT ![s] = new] \in Slots(S)
  BY <1>1, <1>4
<1>6. ASSUME NEW new \in S PROVE [s \in 0 .. n |-> IF s < n THEN slots[s] ELSE new] \in Slots(S)
  <2>1. n + 1 \in Nat /\ (n + 1) - 1 = n
    BY <1>1
  <2>2. \A s \in 0 .. n : s < n => s \in 0 .. n - 1
    BY <1>1
  <2>3. [s \in 0 .. n |-> IF s < n THEN slots[s] ELSE new] \in [0 .. n -> S]
    BY <1>1, <2>2
  <2> QED BY <1>4, <2>1, <2>3
<1>7. ASSUME n > 0 PROVE [s \in 0 .. n - 2 |-> slots[s]] \in Slots(S)
  <2>1. n - 1 \in Nat /\ (n - 1) - 1 = n - 2
    BY <1>1, <1>7
  <2>2. \A s \in 0 .. n - 2 : s \in 0 .. n - 1
    BY <1>1
  <2>3. [s \in 0 .. n - 2 |-> slots[s]] \in [0 .. n - 2 -> S]
    BY <1>1, <2>2
  <2> QED BY <1>4, <2>1, <2>3
<1> QED BY <1>1, <1>3, <1>5, <1>6, <1>7

\* The fields once one of them is written.
LEMMA FieldWritten ==
  ASSUME NEW f \in RawFields
  PROVE  /\ \A new \in Slots(Seq(BOOLEAN)) : [f EXCEPT !.nodes = new] \in RawFields
         /\ \A new \in Slots(EdgeFields) : [f EXCEPT !.edges = new] \in RawFields
         /\ \A new \in Slots(PropertyFields) : [f EXCEPT !.properties = new] \in RawFields
         /\ f.nodes \in Slots(Seq(BOOLEAN)) /\ f.edges \in Slots(EdgeFields)
         /\ f.properties \in Slots(PropertyFields)
BY DEF RawFields

\* A slot once its arrays are written.
LEMMA SlotWritten ==
  /\ \A slot \in EdgeFields :
       /\ slot.values \in Arrays
       /\ \A values \in Arrays : [slot EXCEPT !.values = values] \in EdgeFields
       /\ \A offsets \in Seq(0 .. MaxOffset), neighbors \in Seq(RawNodeId) :
            [slot EXCEPT !.offsets = offsets, !.neighbors = neighbors] \in EdgeFields
  /\ \A slot \in PropertyFields :
       /\ slot.values \in Arrays
       /\ \A values \in Arrays : [slot EXCEPT !.values = values] \in PropertyFields
       /\ \A offsets \in Seq(0 .. MaxOffset) : [slot EXCEPT !.offsets = offsets] \in PropertyFields
<1>1. \A slot \in EdgeFields :
        /\ slot.values \in Arrays
        /\ \A values \in Arrays : [slot EXCEPT !.values = values] \in EdgeFields
  BY DEF EdgeFields, EdgeStorageSlot, Arrays
<1>2. \A slot \in EdgeFields : \A offsets \in Seq(0 .. MaxOffset), neighbors \in Seq(RawNodeId) :
        [slot EXCEPT !.offsets = offsets, !.neighbors = neighbors] \in EdgeFields
  BY DEF EdgeFields, EdgeStorageSlot
<1>3. \A slot \in PropertyFields :
        /\ slot.values \in Arrays
        /\ \A values \in Arrays : [slot EXCEPT !.values = values] \in PropertyFields
  BY DEF PropertyFields, PropertyStorageSlot, Arrays
<1>4. \A slot \in PropertyFields : \A offsets \in Seq(0 .. MaxOffset) : [slot EXCEPT !.offsets = offsets] \in PropertyFields
  BY DEF PropertyFields, PropertyStorageSlot
<1> QED BY <1>1, <1>2, <1>3, <1>4

\* An edit that leaves the fields of their types keeps the invariant.
LEMMA EditKeepsInv ==
  ASSUME RawInv, NEW changed \in RawFields, NEW outcome \in Results, Edit(changed, outcome) PROVE RawInv'
<1>1. edits + 1 \in 0 .. MaxEdits
  BY RawAssumption DEF RawInv, Edit
<1> QED BY <1>1 DEF RawInv, Edit

LEMMA WriteEdgeListKeepsInv == ASSUME RawInv, WriteEdgeList PROVE RawInv'
<1>1. PICK s \in DOMAIN fields.edges, l \in EdgeLists :
        Edit([fields EXCEPT !.edges[s].offsets = l.offsets, !.edges[s].neighbors = l.neighbors], Ok)
  BY DEF WriteEdgeList
<1>2. fields \in RawFields /\ fields.edges \in Slots(EdgeFields)
  BY FieldWritten DEF RawInv
<1>3. l.offsets \in Seq(0 .. MaxOffset) /\ l.neighbors \in Seq(RawNodeId)
  BY RawAssumption
<1>4. PICK n \in Nat : DOMAIN fields.edges = 0 .. n - 1 /\ \A i \in 0 .. n - 1 : fields.edges[i] \in EdgeFields
  BY <1>2, SlotsChanged
<1>5. PICK slot : slot = [fields.edges[s] EXCEPT !.offsets = l.offsets, !.neighbors = l.neighbors]
  OBVIOUS
<1>6. slot \in EdgeFields
  BY <1>3, <1>4, <1>5, SlotWritten
<1>7. [fields.edges EXCEPT ![s] = slot] \in Slots(EdgeFields)
  BY <1>2, <1>6, SlotsChanged
<1>8. [fields EXCEPT !.edges[s].offsets = l.offsets, !.edges[s].neighbors = l.neighbors]
        = [fields EXCEPT !.edges = [fields.edges EXCEPT ![s] = slot]]
  BY <1>2, <1>4, <1>5 DEF RawFields
<1>9. Ok \in Results
  BY DEF Results, Errors
<1> QED BY <1>1, <1>2, <1>7, <1>8, <1>9, FieldWritten, EditKeepsInv

LEMMA WriteOffsetsKeepsInv == ASSUME RawInv, WriteOffsets PROVE RawInv'
<1>1. PICK s \in DOMAIN fields.properties, offsets \in OffsetLists :
        Edit([fields EXCEPT !.properties[s].offsets = offsets], Ok)
  BY DEF WriteOffsets
<1>2. fields \in RawFields /\ fields.properties \in Slots(PropertyFields)
  BY FieldWritten DEF RawInv
<1>3. offsets \in Seq(0 .. MaxOffset)
  BY RawAssumption
<1>4. PICK n \in Nat : /\ DOMAIN fields.properties = 0 .. n - 1
                       /\ \A i \in 0 .. n - 1 : fields.properties[i] \in PropertyFields
  BY <1>2, SlotsChanged
<1>5. PICK slot : slot = [fields.properties[s] EXCEPT !.offsets = offsets]
  OBVIOUS
<1>6. slot \in PropertyFields
  BY <1>3, <1>4, <1>5, SlotWritten
<1>7. [fields.properties EXCEPT ![s] = slot] \in Slots(PropertyFields)
  BY <1>2, <1>6, SlotsChanged
<1>8. [fields EXCEPT !.properties[s].offsets = offsets]
        = [fields EXCEPT !.properties = [fields.properties EXCEPT ![s] = slot]]
  BY <1>2, <1>4, <1>5 DEF RawFields
<1>9. Ok \in Results
  BY DEF Results, Errors
<1> QED BY <1>1, <1>2, <1>7, <1>8, <1>9, FieldWritten, EditKeepsInv

LEMMA WriteStringsKeepsInv == ASSUME RawInv, WriteStrings PROVE RawInv'
<1>1. PICK pool \in Pools : Edit([fields EXCEPT !.strings = pool], Ok)
  BY DEF WriteStrings
<1>2. pool \in Seq(Texts) /\ fields \in RawFields
  BY RawAssumption DEF RawInv
<1>3. [fields EXCEPT !.strings = pool] \in RawFields
  BY <1>2 DEF RawFields
<1>4. Ok \in Results
  BY DEF Results, Errors
<1> QED BY <1>1, <1>3, <1>4, EditKeepsInv

LEMMA WriteNodesKeepsInv == ASSUME RawInv, WriteNodes PROVE RawInv'
<1>1. fields \in RawFields /\ fields.nodes \in Slots(Seq(BOOLEAN))
  BY FieldWritten DEF RawInv
<1>2. PICK n \in Nat : DOMAIN fields.nodes = 0 .. n - 1 /\ \A i \in 0 .. n - 1 : fields.nodes[i] \in Seq(BOOLEAN)
  BY <1>1, SlotsChanged
<1>3. ASSUME NEW k \in DOMAIN fields.nodes, NEW new \in Seq(BOOLEAN), Edit([fields EXCEPT !.nodes[k] = new], Ok)
      PROVE  RawInv'
  <2>1. [fields.nodes EXCEPT ![k] = new] \in Slots(Seq(BOOLEAN))
    BY <1>1, SlotsChanged
  <2>2. [fields EXCEPT !.nodes[k] = new] = [fields EXCEPT !.nodes = [fields.nodes EXCEPT ![k] = new]]
    BY <1>1 DEF RawFields
  <2>3. Ok \in Results
    BY DEF Results, Errors
  <2> QED BY <1>1, <1>3, <2>1, <2>2, <2>3, FieldWritten, EditKeepsInv
<1>4. PICK k \in DOMAIN fields.nodes :
        \/ Edit([fields EXCEPT !.nodes[k] = Append(@, FALSE)], Ok)
        \/ /\ fields.nodes[k] # <<>>
           /\ Edit([fields EXCEPT !.nodes[k] = SubSeq(@, 1, Len(@) - 1)], Ok)
  BY DEF WriteNodes
<1>5. Append(fields.nodes[k], FALSE) \in Seq(BOOLEAN)
  BY <1>2, <1>4, AppendProperties
<1>6. SubSeq(fields.nodes[k], 1, Len(fields.nodes[k]) - 1) \in Seq(BOOLEAN)
  <2>1. fields.nodes[k] \in Seq(BOOLEAN) /\ Len(fields.nodes[k]) \in Nat
    BY <1>2, <1>4, LenProperties
  <2>2. \A i \in 1 .. Len(fields.nodes[k]) - 1 : fields.nodes[k][i] \in BOOLEAN
    BY <2>1, ElementOfSeq
  <2> QED BY <2>1, <2>2, SubSeqProperties
<1>7. /\ [fields EXCEPT !.nodes[k] = Append(@, FALSE)] = [fields EXCEPT !.nodes[k] = Append(fields.nodes[k], FALSE)]
      /\ [fields EXCEPT !.nodes[k] = SubSeq(@, 1, Len(@) - 1)]
           = [fields EXCEPT !.nodes[k] = SubSeq(fields.nodes[k], 1, Len(fields.nodes[k]) - 1)]
  BY <1>1, <1>2 DEF RawFields
<1> QED BY <1>3, <1>4, <1>5, <1>6, <1>7

\* A slot of edges, of properties, whose values are exchanged.
LEMMA ValuesKeepInv ==
  ASSUME RawInv, NEW values \in Arrays, NEW outcome \in Results
  PROVE  /\ \A s \in DOMAIN fields.edges : Edit([fields EXCEPT !.edges[s].values = values], outcome) => RawInv'
         /\ \A s \in DOMAIN fields.properties :
              Edit([fields EXCEPT !.properties[s].values = values], outcome) => RawInv'
<1>1. fields \in RawFields /\ fields.edges \in Slots(EdgeFields) /\ fields.properties \in Slots(PropertyFields)
  BY FieldWritten DEF RawInv
<1>2. ASSUME NEW s \in DOMAIN fields.edges, Edit([fields EXCEPT !.edges[s].values = values], outcome) PROVE RawInv'
  <2>1. fields.edges[s] \in EdgeFields
    BY <1>1, SlotsChanged
  <2>2. PICK slot : slot = [fields.edges[s] EXCEPT !.values = values]
    OBVIOUS
  <2>3. slot \in EdgeFields
    BY <2>1, <2>2, SlotWritten
  <2>4. [fields.edges EXCEPT ![s] = slot] \in Slots(EdgeFields)
    BY <1>1, <2>3, SlotsChanged
  <2>5. [fields EXCEPT !.edges[s].values = values] = [fields EXCEPT !.edges = [fields.edges EXCEPT ![s] = slot]]
    BY <1>1, <2>2 DEF RawFields
  <2> QED BY <1>1, <1>2, <2>4, <2>5, FieldWritten, EditKeepsInv
<1>3. ASSUME NEW s \in DOMAIN fields.properties, Edit([fields EXCEPT !.properties[s].values = values], outcome)
      PROVE  RawInv'
  <2>1. fields.properties[s] \in PropertyFields
    BY <1>1, SlotsChanged
  <2>2. PICK slot : slot = [fields.properties[s] EXCEPT !.values = values]
    OBVIOUS
  <2>3. slot \in PropertyFields
    BY <2>1, <2>2, SlotWritten
  <2>4. [fields.properties EXCEPT ![s] = slot] \in Slots(PropertyFields)
    BY <1>1, <2>3, SlotsChanged
  <2>5. [fields EXCEPT !.properties[s].values = values]
          = [fields EXCEPT !.properties = [fields.properties EXCEPT ![s] = slot]]
    BY <1>1, <2>2 DEF RawFields
  <2> QED BY <1>1, <1>3, <2>4, <2>5, FieldWritten, EditKeepsInv
<1> QED BY <1>2, <1>3

\* The arrays of the fields.
LEMMA FieldArrays ==
  ASSUME RawInv
  PROVE  /\ \A s \in DOMAIN fields.edges : fields.edges[s] \in EdgeFields /\ fields.edges[s].values \in Arrays
         /\ \A s \in DOMAIN fields.properties :
              fields.properties[s] \in PropertyFields /\ fields.properties[s].values \in Arrays
<1>1. fields.edges \in Slots(EdgeFields) /\ fields.properties \in Slots(PropertyFields)
  BY FieldWritten DEF RawInv
<1>2. /\ \A s \in DOMAIN fields.edges : fields.edges[s] \in EdgeFields
      /\ \A s \in DOMAIN fields.properties : fields.properties[s] \in PropertyFields
  BY <1>1, SlotsChanged
<1> QED BY <1>2, SlotWritten

LEMMA EditValuesKeepInv == ASSUME RawInv, EditEdgeValues \/ EditPropertyValues \/ ReplaceValues PROVE RawInv'
<1>1. CASE EditEdgeValues
  <2>1. PICK s \in DOMAIN fields.edges : \E edited \in Edited(fields.edges[s].values) :
          Edit([fields EXCEPT !.edges[s].values = edited.array], edited.outcome)
    BY <1>1 DEF EditEdgeValues
  <2>2. PICK edited \in Edited(fields.edges[s].values) :
          Edit([fields EXCEPT !.edges[s].values = edited.array], edited.outcome)
    BY <2>1
  <2>3. edited.array \in Arrays /\ edited.outcome \in Results
    BY FieldArrays, EditedTyped
  <2> QED BY <2>2, <2>3, ValuesKeepInv
<1>2. CASE EditPropertyValues
  <2>1. PICK s \in DOMAIN fields.properties : \E edited \in Edited(fields.properties[s].values) :
          Edit([fields EXCEPT !.properties[s].values = edited.array], edited.outcome)
    BY <1>2 DEF EditPropertyValues
  <2>2. PICK edited \in Edited(fields.properties[s].values) :
          Edit([fields EXCEPT !.properties[s].values = edited.array], edited.outcome)
    BY <2>1
  <2>3. edited.array \in Arrays /\ edited.outcome \in Results
    BY FieldArrays, EditedTyped
  <2> QED BY <2>2, <2>3, ValuesKeepInv
<1>3. CASE ReplaceValues
  <2>1. PICK b \in Batches :
          \/ \E s \in DOMAIN fields.edges : Edit([fields EXCEPT !.edges[s].values = b], Ok)
          \/ \E s \in DOMAIN fields.properties : Edit([fields EXCEPT !.properties[s].values = b], Ok)
    BY <1>3 DEF ReplaceValues
  <2>2. b \in Arrays /\ Ok \in Results
    BY RawAssumption DEF Arrays, Results, Errors
  <2> QED BY <2>1, <2>2, ValuesKeepInv
<1> QED BY <1>1, <1>2, <1>3

\* The slots that are pushed.
LEMMA DefaultsTyped ==
  /\ DefaultSlots.nodes \in Seq(BOOLEAN) /\ DefaultSlots.edges \in EdgeFields
  /\ DefaultSlots.properties \in PropertyFields
  /\ DOMAIN DefaultSlots = {"nodes", "edges", "properties"}
<1>1. /\ <<>> \in Seq(0 .. MaxOffset) /\ <<>> \in Seq(RawNodeId) /\ <<>> \in Seq(Key) /\ <<>> \in Seq(BOOLEAN)
  BY EmptySeq
<1>2. NewArray("None") \in StorageArray /\ NoItems(NewArray("None"))
  BY <1>1 DEF NewArray, StorageArray, PropertyType, NoItems
<1> QED BY <1>1, <1>2 DEF DefaultSlots, EdgeFields, PropertyFields, EdgeStorageSlot, PropertyStorageSlot

LEMMA ResizeStorageKeepsInv == ASSUME RawInv, ResizeStorage PROVE RawInv'
<1>1. /\ fields \in RawFields /\ fields.nodes \in Slots(Seq(BOOLEAN)) /\ fields.edges \in Slots(EdgeFields)
      /\ fields.properties \in Slots(PropertyFields) /\ Ok \in Results
  BY FieldWritten DEF RawInv, Results, Errors
<1> DEFINE Longer(slots, new) == [s \in 0 .. Cardinality(DOMAIN slots) |->
                                    IF s < Cardinality(DOMAIN slots) THEN slots[s] ELSE new]
           Shorter(slots) == [s \in 0 .. Cardinality(DOMAIN slots) - 2 |-> slots[s]]
<1>2. ASSUME NEW S, NEW slots \in Slots(S), NEW new \in S
      PROVE  Longer(slots, new) \in Slots(S) /\ (Cardinality(DOMAIN slots) > 0 => Shorter(slots) \in Slots(S))
  BY <1>2, SlotsChanged
<1>3. PICK storage \in DOMAIN DefaultSlots :
        \/ Edit([fields EXCEPT ![storage] = Longer(fields[storage], DefaultSlots[storage])], Ok)
        \/ /\ Cardinality(DOMAIN fields[storage]) > 0
           /\ Edit([fields EXCEPT ![storage] = Shorter(fields[storage])], Ok)
  BY DEF ResizeStorage
<1> HIDE DEF Longer, Shorter
<1>4. CASE storage = "nodes"
  <2>1. \/ Edit([fields EXCEPT !.nodes = Longer(fields.nodes, DefaultSlots.nodes)], Ok)
        \/ /\ Cardinality(DOMAIN fields.nodes) > 0
           /\ Edit([fields EXCEPT !.nodes = Shorter(fields.nodes)], Ok)
    BY <1>3, <1>4
  <2>2. /\ Longer(fields.nodes, DefaultSlots.nodes) \in Slots(Seq(BOOLEAN))
        /\ Cardinality(DOMAIN fields.nodes) > 0 => Shorter(fields.nodes) \in Slots(Seq(BOOLEAN))
    BY <1>1, <1>2, DefaultsTyped
  <2> QED BY <1>1, <2>1, <2>2, FieldWritten, EditKeepsInv
<1>5. CASE storage = "edges"
  <2>1. \/ Edit([fields EXCEPT !.edges = Longer(fields.edges, DefaultSlots.edges)], Ok)
        \/ /\ Cardinality(DOMAIN fields.edges) > 0
           /\ Edit([fields EXCEPT !.edges = Shorter(fields.edges)], Ok)
    BY <1>3, <1>5
  <2>2. /\ Longer(fields.edges, DefaultSlots.edges) \in Slots(EdgeFields)
        /\ Cardinality(DOMAIN fields.edges) > 0 => Shorter(fields.edges) \in Slots(EdgeFields)
    BY <1>1, <1>2, DefaultsTyped
  <2> QED BY <1>1, <2>1, <2>2, FieldWritten, EditKeepsInv
<1>6. CASE storage = "properties"
  <2>1. \/ Edit([fields EXCEPT !.properties = Longer(fields.properties, DefaultSlots.properties)], Ok)
        \/ /\ Cardinality(DOMAIN fields.properties) > 0
           /\ Edit([fields EXCEPT !.properties = Shorter(fields.properties)], Ok)
    BY <1>3, <1>6
  <2>2. /\ Longer(fields.properties, DefaultSlots.properties) \in Slots(PropertyFields)
        /\ Cardinality(DOMAIN fields.properties) > 0 => Shorter(fields.properties) \in Slots(PropertyFields)
    BY <1>1, <1>2, DefaultsTyped
  <2> QED BY <1>1, <2>1, <2>2, FieldWritten, EditKeepsInv
<1> QED BY <1>3, <1>4, <1>5, <1>6, DefaultsTyped

\* The storages have a slot for each place of the schema exactly if the fields are a Graph.
LEMMA StoragesSized ==
  /\ NodeKindCount \in Nat /\ edge_storage_size \in Nat /\ property_storage_size \in Nat
  /\ NodeKinds = 0 .. NodeKindCount - 1 /\ EdgeSlots = 0 .. edge_storage_size - 1
  /\ PropertySlots = 0 .. property_storage_size - 1
BY SchemaAssumption DEF NodeKinds, EdgeSlots, PropertySlots, edge_storage_size, property_storage_size

LEMMA GraphIsRaw ==
  ASSUME NEW g \in Graph, \A s \in EdgeSlots : NoItems(g.edges[s].values),
         \A s \in PropertySlots : NoItems(g.properties[s].values)
  PROVE  g \in RawFields
<1>1. g.nodes \in Slots(Seq(BOOLEAN))
  <2>1. g.nodes \in [0 .. NodeKindCount - 1 -> Seq(BOOLEAN)]
    BY StoragesSized DEF Graph
  <2> QED BY <2>1, StoragesSized DEF Slots
<1>2. g.edges \in Slots(EdgeFields)
  <2>1. g.edges \in [EdgeSlots -> EdgeFields]
    BY DEF Graph, EdgeFields
  <2>2. g.edges \in [0 .. edge_storage_size - 1 -> EdgeFields]
    BY <2>1, StoragesSized
  <2> QED BY <2>2, StoragesSized DEF Slots
<1>3. g.properties \in Slots(PropertyFields)
  <2>1. g.properties \in [PropertySlots -> PropertyFields]
    BY DEF Graph, PropertyFields
  <2>2. g.properties \in [0 .. property_storage_size - 1 -> PropertyFields]
    BY <2>1, StoragesSized
  <2> QED BY <2>2, StoragesSized DEF Slots
<1> QED BY <1>1, <1>2, <1>3 DEF Graph, RawFields

LEMMA RawIsGraph ==
  ASSUME NEW f \in RawFields, check_storage_sizes(f) = Ok PROVE f \in Graph
<1>1. DOMAIN f.nodes = NodeKinds /\ DOMAIN f.edges = EdgeSlots /\ DOMAIN f.properties = PropertySlots
  BY DEF check_storage_sizes, Ok
<1>2. \A S : \A slots \in Slots(S) : slots \in [DOMAIN slots -> S]
  BY DEF Slots
<1>3. f.nodes \in [NodeKinds -> Seq(BOOLEAN)] /\ f.edges \in [EdgeSlots -> EdgeFields]
      /\ f.properties \in [PropertySlots -> PropertyFields]
  BY <1>1, <1>2, FieldWritten
<1>4. f.edges \in [EdgeSlots -> EdgeStorageSlot] /\ f.properties \in [PropertySlots -> PropertyStorageSlot]
  BY <1>3 DEF EdgeFields, PropertyFields
<1> QED BY <1>3, <1>4 DEF RawFields, Graph

\* A new graph is whole: it has no nodes, and nothing in its slots.
LEMMA NewGraphWhole ==
  /\ NewGraph \in Graph /\ check_integrity(NewGraph) = Ok
  /\ \A s \in EdgeSlots : NoItems(NewGraph.edges[s].values)
  /\ \A s \in PropertySlots : NoItems(NewGraph.properties[s].values)
<1>1. /\ <<>> \in Seq(0 .. MaxOffset) /\ <<>> \in Seq(RawNodeId) /\ <<>> \in Seq(Key) /\ <<>> \in Seq(BOOLEAN)
      /\ <<>> \in Seq(Texts) /\ Len(<<>>) = 0
  BY EmptySeq
<1>2. ASSUME NEW e \in EdgeKinds
      PROVE  /\ EmptyEdgeSlot(e) \in EdgeStorageSlot /\ EmptyEdgeSlot(e).offsets = <<>>
             /\ EmptyEdgeSlot(e).neighbors = <<>> /\ EmptyEdgeSlot(e).values.items = <<>>
             /\ EmptyEdgeSlot(e).values.typ = EdgeProperty[e].typ
  <2>1. EdgeProperty[e].typ \in PropertyType
    BY SchemaAssumption DEF PropertyDecl
  <2> QED BY <1>1, <2>1 DEF EmptyEdgeSlot, EdgeStorageSlot, NewArray, StorageArray
<1>3. ASSUME NEW p \in PropertyKinds
      PROVE  /\ EmptyPropertySlot(p) \in PropertyStorageSlot /\ EmptyPropertySlot(p).offsets = <<>>
             /\ EmptyPropertySlot(p).values.items = <<>> /\ EmptyPropertySlot(p).values.typ = NodeProperty[p].typ
  <2>1. NodeProperty[p].typ \in PropertyType
    BY SchemaAssumption DEF PropertyDecl
  <2> QED BY <1>1, <2>1 DEF EmptyPropertySlot, PropertyStorageSlot, NewArray, StorageArray
<1>4. /\ \A s \in EdgeSlots : SlotEdgeKind(s) \in EdgeKinds
      /\ \A s \in PropertySlots : SlotPropertyKind(s) \in PropertyKinds
  BY SlotKinds
<1>5. /\ \A k \in NodeKinds : NewGraph.nodes[k] = <<>>
      /\ \A s \in EdgeSlots : NewGraph.edges[s] = EmptyEdgeSlot(SlotEdgeKind(s))
      /\ \A s \in PropertySlots : NewGraph.properties[s] = EmptyPropertySlot(SlotPropertyKind(s))
  BY DEF NewGraph
<1>6. NewGraph \in Graph
  <2>1. [k \in NodeKinds |-> <<>>] \in [NodeKinds -> Seq(BOOLEAN)]
    BY <1>1
  <2>2. [s \in EdgeSlots |-> EmptyEdgeSlot(SlotEdgeKind(s))] \in [EdgeSlots -> EdgeStorageSlot]
    BY <1>2, <1>4
  <2>3. [s \in PropertySlots |-> EmptyPropertySlot(SlotPropertyKind(s))] \in [PropertySlots -> PropertyStorageSlot]
    BY <1>3, <1>4
  <2> QED BY <1>1, <2>1, <2>2, <2>3 DEF NewGraph, Graph
<1>7. /\ \A s \in EdgeSlots : NoItems(NewGraph.edges[s].values)
      /\ \A s \in PropertySlots : NoItems(NewGraph.properties[s].values)
  BY <1>2, <1>3, <1>4, <1>5 DEF NoItems
<1>8. \A k \in NodeKinds : Len(NewGraph.nodes[k]) = 0 /\ Counted(NewGraph)[k] = 0
  BY <1>1, <1>5 DEF Counted
<1>9. ASSUME NEW k \in NodeKinds, NEW p \in PropertyKinds PROVE PropertySlotWhole(NewGraph, k, p)
  <2>1. PICK s \in PropertySlots : s = property_storage_slot(k, p) /\ SlotPropertyKind(s) = p
    BY PropertySlotOfKinds
  <2>2. NewGraph.properties[s] = EmptyPropertySlot(p)
    BY <1>5, <2>1
  <2>3. PropertySlotSound(EmptyPropertySlot(p), 0, NodeProperty[p].typ)
    BY <1>1, <1>3 DEF PropertySlotSound, Shaped, LastOffset
  <2>4. AllContentPasses(NewGraph, EmptyPropertySlot(p).values, NodeProperty[p].enum)
    BY <1>1, <1>3 DEF AllContentPasses
  <2> QED BY <1>8, <2>1, <2>2, <2>3, <2>4 DEF PropertySlotWhole
<1>10. ASSUME NEW k \in NodeKinds, NEW dir \in Directions, NEW e \in EdgeKinds
       PROVE  EdgeSlotWhole(NewGraph, k, dir, e) /\ NewGraph.edges[edge_storage_slot(k, dir, e)].offsets = <<>>
  <2>1. PICK s \in EdgeSlots : s = edge_storage_slot(k, dir, e) /\ SlotEdgeKind(s) = e
    BY EdgeSlotOfKinds
  <2>2. NewGraph.edges[s] = EmptyEdgeSlot(e)
    BY <1>5, <2>1
  <2>3. EdgeSlotSound(EmptyEdgeSlot(e), 0, EdgeProperty[e].typ)
    BY <1>1, <1>2 DEF EdgeSlotSound, Shaped, LastOffset
  <2>4. /\ AllContentPasses(NewGraph, EmptyEdgeSlot(e).values, EdgeProperty[e].enum)
        /\ AllNamed(EmptyEdgeSlot(e).neighbors, Counted(NewGraph))
    BY <1>1, <1>2 DEF AllContentPasses, AllNamed
  <2> QED BY <1>2, <1>8, <2>1, <2>2, <2>3, <2>4 DEF EdgeSlotWhole
<1>11. ASSUME NEW dir \in Directions, NEW e \in EdgeKinds, NEW node \in NodeNames, NEW other, NEW value
       PROVE  AlikeIn(NewGraph.edges, Everywhere, dir, e, node, other, value) = {}
  <2>1. KindOf(node) \in NodeKinds /\ SeqOf(node) \in Nat
    BY NameParts
  <2>2. PICK slot : slot = NewGraph.edges[edge_storage_slot(KindOf(node), dir, e)]
    OBVIOUS
  <2>3. ~ HasOffset(slot, SeqOf(node))
    BY <1>1, <1>10, <2>1, <2>2 DEF HasOffset
  <2> QED BY <2>2, <2>3 DEF AlikeIn, Alike, Run
<1>12. \A e \in EdgeKinds : Balanced(NewGraph.edges, Everywhere, e)
  BY <1>11 DEF Balanced, Directions
<1>13. \A dir \in Directions, e \in EdgeKinds : SoundSlots(NewGraph, dir, e)
  BY <1>8, <1>10 DEF SoundSlots, EdgeSlotWhole
<1>14. Whole(NewGraph)
  BY <1>8, <1>9, <1>10, <1>12, <1>13 DEF Whole
<1>15. TotalNodes(NewGraph) <= MaxNodes
  <2>1. \A k \in NodeKinds : {k} \X DOMAIN NewGraph.nodes[k] = {}
    <3>1. \A k \in NodeKinds : DOMAIN NewGraph.nodes[k] = {}
      BY <1>1, <1>5
    <3> QED BY <3>1
  <2>2. UNION {{k} \X DOMAIN NewGraph.nodes[k] : k \in NodeKinds} = {}
    BY <2>1
  <2>3. TotalNodes(NewGraph) = 0
    BY <2>2, FS_EmptySet DEF TotalNodes
  <2> QED BY <2>3, NodesAssumption
<1> QED BY <1>6, <1>7, <1>14, <1>15, IntegrityTold

LEMMA InitRawInv == Init => RawInv
<1> SUFFICES ASSUME Init PROVE RawInv
  OBVIOUS
<1>1. fields \in Graph /\ check_integrity(fields) = Ok
  BY RawAssumption, NewGraphWhole DEF Init
<1>2. /\ \A s \in EdgeSlots : NoItems(fields.edges[s].values)
      /\ \A s \in PropertySlots : NoItems(fields.properties[s].values)
  BY RawAssumption, NewGraphWhole DEF Init
<1>3. fields \in RawFields
  BY <1>1, <1>2, GraphIsRaw
<1> QED BY <1>1, <1>3, RawAssumption DEF Init, RawInv, Results, Errors

LEMMA NextRawInv == RawInv /\ [Next]_vars => RawInv'
<1> SUFFICES ASSUME RawInv, [Next]_vars PROVE RawInv'
  OBVIOUS
<1>1. CASE from
  BY <1>1 DEF from, RawInv, Results, Errors
<1>2. CASE try_from
  <2>1. check_integrity(fields) \in Results
    BY ResultNamed
  <2>2. check_integrity(fields) = Ok => check_storage_sizes(fields) = Ok
    BY DEF check_integrity, Both
  <2>3. check_integrity(fields) = Ok => fields \in Graph
    BY <2>2, RawIsGraph DEF RawInv
  <2> QED BY <1>2, <2>1, <2>3 DEF try_from, RawInv
<1>3. CASE UNCHANGED vars
  BY <1>3 DEF vars, RawInv
<1> QED
  BY <1>1, <1>2, <1>3, WriteEdgeListKeepsInv, WriteOffsetsKeepsInv, WriteNodesKeepsInv,
     WriteStringsKeepsInv,
     EditValuesKeepInv, ResizeStorageKeepsInv DEF Next

LEMMA AlwaysRawInv == Spec => []RawInv
BY InitRawInv, NextRawInv, PTL DEF Spec

\* Whatever the caller writes into the arrays of a RawGraph, they keep their types; and
\* only what has a slot for each place of the schema becomes a Graph.
THEOREM RawTypeAlwaysOK == Spec => []TypeOK
<1>1. RawInv => TypeOK
  BY FieldWritten, FieldArrays, SlotsChanged DEF RawInv, TypeOK, Results, EdgeFields, PropertyFields
<1> QED BY <1>1, AlwaysRawInv, PTL

(***************************************************************************)
(* A graph that passes its check is read whole                              *)
(***************************************************************************)
\* The half-edges of a kind and a direction that the nodes of a kind give.
LEMMA ReadOnce ==
  ASSUME Whole(fields), NEW k \in NodeKinds, NEW dir \in Directions, NEW e \in EdgeKinds,
         NEW slot, slot = fields.edges[edge_storage_slot(k, dir, e)]
  PROVE  /\ Cardinality(ReadFrom(k, dir, e)) = Len(slot.neighbors)
         /\ \A id \in ReadFrom(k, dir, e) :
              /\ Neighbor(id) \in NodeIds(fields)
              /\ \E value \in Key : get_edge_property(fields, id) = PropertyRead(EdgeProperty[e].typ, value)
<1>1. PICK n \in Nat : n = Len(fields.nodes[k])
  BY DEF Whole
<1>2. /\ EdgeSlotSound(slot, n, EdgeProperty[e].typ)
      /\ AllNamed(slot.neighbors, Counted(fields))
  <2>1. EdgeSlotWhole(fields, k, dir, e)
    BY DEF Whole
  <2> QED BY <1>1, <2>1 DEF EdgeSlotWhole
<1>3. ReadFrom(k, dir, e) = UNION {get_edges_with_deleted(fields, node, e, dir) : node \in {<<k, s>> : s \in 0 .. n - 1}}
  <2>1. {node \in NodeIds(fields) : KindOf(node) = k} = {<<k, s>> : s \in 0 .. n - 1}
    BY <1>1, NodesOf
  <2> QED BY <2>1, Zenon DEF ReadFrom
<1>4. /\ Cardinality(ReadFrom(k, dir, e)) = Len(slot.neighbors)
      /\ \A id \in ReadFrom(k, dir, e) :
           \E s \in 0 .. n - 1 : \E p \in Run(slot, s) : id = IdAt(slot, <<k, s>>, e, dir, p)
  <2>1. PICK ids : ids = ReadFrom(k, dir, e)
    OBVIOUS
  <2>2. ids = UNION {get_edges_with_deleted(fields, node, e, dir) : node \in {<<k, s>> : s \in 0 .. n - 1}}
    BY <1>3, <2>1, Zenon
  <2>3. EdgesMetOnce(fields, k, dir, e, n)
    BY <1>2, EdgesReadOnce
  <2>4. /\ Cardinality(ids) = Len(slot.neighbors)
        /\ \A id \in ids : \E s \in 0 .. n - 1 : \E p \in Run(slot, s) : id = IdAt(slot, <<k, s>>, e, dir, p)
    BY <2>2, <2>3, Zenon DEF EdgesMetOnce
  <2> QED BY <2>1, <2>4, Zenon
<1>5. ASSUME NEW id \in ReadFrom(k, dir, e)
      PROVE  /\ Neighbor(id) \in NodeIds(fields)
             /\ \E value \in Key : get_edge_property(fields, id) = PropertyRead(EdgeProperty[e].typ, value)
  <2>1. PICK s \in 0 .. n - 1 : \E p \in Run(slot, s) : id = IdAt(slot, <<k, s>>, e, dir, p)
    BY <1>4
  <2>2. PICK p \in Run(slot, s) : id = IdAt(slot, <<k, s>>, e, dir, p)
    BY <2>1
  <2>3. PICK node \in NodeNames : node = <<k, s>> /\ KindOf(node) = k /\ SeqOf(node) = s /\ s \in Nat
    <3>1. k \in Nat /\ s \in Nat
      BY <1>1, SchemaAssumption DEF NodeKinds
    <3>2. KindOf(<<k, s>>) = k /\ SeqOf(<<k, s>>) = s
      BY DEF KindOf, SeqOf
    <3> QED BY <3>1, <3>2 DEF NodeNames, RawNodeId
  <2>4. slot = EdgeSlotOf(fields, node, e, dir)
    BY <2>3 DEF EdgeSlotOf
  <2>5. p \in Run(slot, SeqOf(node)) /\ id = IdAt(slot, node, e, dir, p)
    BY <2>2, <2>3
  <2>6. /\ Describes(id, slot, node, e, dir, p)
        /\ get_edge_property(fields, id) = {ReadAt(slot, EdgeProperty[e].typ, p)}
        /\ slot.neighbors[p] \in RawNodeId
    BY <1>2, <2>4, <2>5, IdRead
  <2>7. /\ p \in 1 .. Len(slot.neighbors)
        /\ EdgeProperty[e].typ # "None" => slot.values.items[p] \in Key
    BY <1>2, <2>2, <2>3, RunPlaces DEF Within
  <2>8. Named(slot.neighbors[p], Counted(fields))
    BY <1>2, <2>7 DEF AllNamed
  <2>9. Neighbor(id) = slot.neighbors[p]
    BY <2>6 DEF Describes
  <2>10. Neighbor(id) \in NodeIds(fields)
    BY <2>6, <2>8, <2>9, NodesOf
  <2>11. \E value \in Key : get_edge_property(fields, id) = PropertyRead(EdgeProperty[e].typ, value)
    <3>1. CASE EdgeProperty[e].typ = "None"
      <4>1. NoKey \in Key
        BY EmptySeq DEF NoKey, Key
      <4> QED BY <2>6, <3>1, <4>1 DEF PropertyRead, ReadAt
    <3>2. CASE EdgeProperty[e].typ # "None"
      BY <2>6, <2>7, <3>2 DEF PropertyRead, ReadAt
    <3> QED BY <3>1, <3>2
  <2> QED BY <2>10, <2>11
<1> QED BY <1>4, <1>5

\* A whole graph gives every half-edge it stores once, and all of them name a node ...
LEMMA WholeHalvesRead ==
  ASSUME Whole(fields)
  PROVE  HalvesRead
<1>1. ASSUME NEW k \in NodeKinds, NEW dir \in Directions, NEW e \in EdgeKinds
      PROVE  LET ids == ReadFrom(k, dir, e)
             IN  /\ Cardinality(ids) = Len(fields.edges[edge_storage_slot(k, dir, e)].neighbors)
                 /\ \A id \in ids : Neighbor(id) \in NodeIds(fields)
                 /\ EdgeProperty[e].typ # "None" =>
                      \A id \in ids : UNION get_edge_property(fields, id) # {}
  <2> DEFINE ids == ReadFrom(k, dir, e)
  <2>1. /\ Cardinality(ids) = Len(fields.edges[edge_storage_slot(k, dir, e)].neighbors)
        /\ \A id \in ids : /\ Neighbor(id) \in NodeIds(fields)
                           /\ \E value \in Key : get_edge_property(fields, id) = PropertyRead(EdgeProperty[e].typ, value)
    BY ReadOnce
  <2>2. \A value : EdgeProperty[e].typ # "None" => UNION PropertyRead(EdgeProperty[e].typ, value) # {}
    BY DEF PropertyRead
  <2> HIDE DEF ids
  <2> QED BY <2>1, <2>2 DEF ids
<1> QED BY <1>1, Zenon DEF HalvesRead

\* ... tells the same of an edge from both of its ends ...
LEMMA WholeHalvesPaired ==
  ASSUME Whole(fields)
  PROVE  HalvesPaired
<1>1. NodeIds(fields) \subseteq NodeNames
  BY NodesOf
<1>2. ASSUME NEW dir \in Directions, NEW e \in EdgeKinds
      PROVE  UNION {ReadFrom(k, dir, e) : k \in NodeKinds} = Seen(fields, NodeIds(fields), e, dir)
  <2>1. \A node \in NodeIds(fields) : KindOf(node) \in NodeKinds
    BY <1>1 DEF NodeNames
  <2>2. UNION {ReadFrom(k, dir, e) : k \in NodeKinds}
          = UNION {get_edges_with_deleted(fields, node, e, dir) : node \in NodeIds(fields)}
    BY <2>1 DEF ReadFrom
  <2>3. \A k \in NodeKinds : \A id \in ReadFrom(k, dir, e) : Neighbor(id) \in NodeIds(fields)
    BY ReadOnce
  <2> QED BY <2>2, <2>3 DEF Seen
<1>3. ASSUME NEW e \in EdgeKinds,
             NEW id \in Seen(fields, NodeIds(fields), e, Out) \cup Seen(fields, NodeIds(fields), e, In)
      PROVE  Cardinality(SameRead(fields, Seen(fields, NodeIds(fields), e, Out), id))
               = Cardinality(SameRead(fields, Seen(fields, NodeIds(fields), e, In), id))
  <2>1. (\A dir \in Directions : SoundSlots(fields, dir, e)) /\ Balanced(fields.edges, Everywhere, e)
    BY DEF Whole
  <2> QED BY <1>1, <2>1, SeenAlike
<1>4. Out \in Directions /\ In \in Directions
  BY DEF Directions, In, Out
<1>5. ASSUME NEW e \in EdgeKinds
      PROVE  LET outs == UNION {ReadFrom(k, Out, e) : k \in NodeKinds}
                 ins == UNION {ReadFrom(k, In, e) : k \in NodeKinds}
                 same(id, ids) == {i \in ids : /\ i.src = id.src /\ i.dst = id.dst
                                               /\ get_edge_property(fields, i) = get_edge_property(fields, id)}
             IN  \A id \in outs \cup ins : Cardinality(same(id, outs)) = Cardinality(same(id, ins))
  <2>1. /\ UNION {ReadFrom(k, Out, e) : k \in NodeKinds} = Seen(fields, NodeIds(fields), e, Out)
        /\ UNION {ReadFrom(k, In, e) : k \in NodeKinds} = Seen(fields, NodeIds(fields), e, In)
    BY <1>2, <1>4
  <2> QED BY <1>3, <2>1, Zenon DEF SameRead
<1> QED BY <1>5, Zenon DEF HalvesPaired

\* ... gives every value it stores once, and strings that are there ...
LEMMA WholeValuesRead ==
  ASSUME Whole(fields)
  PROVE  ValuesRead
<1>1. ASSUME NEW k \in NodeKinds, NEW p \in PropertyKinds
      PROVE  LET read == UNION {UNION {{<<node, i, run[i]>> : i \in DOMAIN run} :
                                         run \in get_node_property(fields, node, p)} :
                                  node \in {node \in NodeIds(fields) : KindOf(node) = k}}
             IN  /\ Cardinality(read) = Len(fields.properties[property_storage_slot(k, p)].values.items)
                 /\ \A r \in read : r[3].typ = "String" => r[3].key[1] < Len(fields.strings)
  <2>1. PICK n \in Nat : n = Len(fields.nodes[k])
    BY DEF Whole
  <2>2. PICK slot : slot = fields.properties[property_storage_slot(k, p)]
    OBVIOUS
  <2>3. /\ PropertySlotSound(slot, n, NodeProperty[p].typ)
        /\ AllContentPasses(fields, slot.values, NodeProperty[p].enum)
    <3>1. PropertySlotWhole(fields, k, p)
      BY DEF Whole
    <3> QED BY <2>1, <2>2, <3>1 DEF PropertySlotWhole
  <2>4. PICK read : read = UNION {UNION {{<<node, i, run[i]>> : i \in DOMAIN run} :
                                           run \in get_node_property(fields, node, p)} :
                                    node \in {node \in NodeIds(fields) : KindOf(node) = k}}
    OBVIOUS
  <2>5. read = UNION {UNION {{<<node, i, run[i]>> : i \in DOMAIN run} :
                               run \in get_node_property(fields, node, p)} :
                        node \in {<<k, s>> : s \in 0 .. n - 1}}
    <3>1. {node \in NodeIds(fields) : KindOf(node) = k} = {<<k, s>> : s \in 0 .. n - 1}
      BY <2>1, NodesOf
    <3> QED BY <2>4, <3>1, Zenon
  <2>6. NodeProperty[p].typ # "None"
    BY NodePropertyAssumption
  <2>7. /\ Cardinality(read) = Len(slot.values.items)
        /\ \A r \in read : \E i \in 1 .. Len(slot.values.items) : r[3] = ValueAt(slot, i)
    <3>1. ValuesMetOnce(fields, k, p, n)
      BY <2>2, <2>3, <2>6, ValuesReadOnce
    <3> QED BY <2>2, <2>5, <3>1, Zenon DEF ValuesMetOnce
  <2>8. ASSUME NEW r \in read, r[3].typ = "String" PROVE r[3].key[1] < Len(fields.strings)
    <3>1. PICK i \in 1 .. Len(slot.values.items) : r[3] = ValueAt(slot, i)
      BY <2>7
    <3>2. slot.values.typ = "String" /\ r[3].key = slot.values.items[i]
      BY <2>8, <3>1 DEF ValueAt
    <3>3. ContentPasses(fields, slot.values.typ, slot.values.items[i], NodeProperty[p].enum)
      BY <2>3, <3>1 DEF AllContentPasses
    <3>4. check_string_id(fields, r[3].key[1]) = Ok
      BY <3>2, <3>3 DEF ContentPasses
    <3> QED BY <3>4 DEF check_string_id, Ok
  <2> QED BY <2>2, <2>4, <2>7, <2>8, Zenon
<1> QED BY <1>1, Zenon DEF ValuesRead

\* ... and counts what a walk meets.
LEMMA WholeCountsAgree ==
  ASSUME fields \in Graph, Whole(fields)
  PROVE  CountsAgree
<1>1. node_count(fields) = Cardinality(UNION {nodes_by_kind(fields, kind) : kind \in NodeKinds})
  BY NodesCounted
<1>2. ASSUME NEW kind \in NodeKinds,
             NEW node \in {<<kind, seq>> : seq \in 0 .. node_count_by_kind_with_deleted(fields, kind)},
             NEW e \in EdgeKinds, NEW dir \in Directions
      PROVE  LET all == get_edges_with_deleted(fields, node, e, dir)
                 gone == {id \in all : node_is_deleted(fields, Neighbor(id))}
             IN  /\ get_edges_count_with_deleted(fields, node, e, dir) = {Cardinality(all)}
                 /\ get_edges_count(fields, node, e, dir) = Cardinality(all) - Cardinality(gone)
                 /\ \A id \in all : EdgeIdOf(RawEdgeIdOf(id)) = {id}
  <2>1. PICK n \in Nat : n = Len(fields.nodes[kind])
    BY DEF Whole
  <2>2. node \in NodeNames /\ KindOf(node) = kind
    BY <2>1, SchemaAssumption DEF node_count_by_kind_with_deleted, NodeNames, RawNodeId, NodeKinds, KindOf
  <2>3. PICK slot : slot = EdgeSlotOf(fields, node, e, dir)
    OBVIOUS
  <2>4. /\ EdgeSlotSound(slot, n, EdgeProperty[e].typ)
        /\ AllNamed(slot.neighbors, Counted(fields))
    <3>1. EdgeSlotWhole(fields, kind, dir, e)
      BY DEF Whole
    <3> QED BY <2>1, <2>2, <2>3, <3>1 DEF EdgeSlotWhole, EdgeSlotOf
  <2>5. PICK all : all = get_edges_with_deleted(fields, node, e, dir)
    OBVIOUS
  <2>6. /\ get_edges_count_with_deleted(fields, node, e, dir) = {Cardinality(all)}
        /\ get_edges_count(fields, node, e, dir)
             = Cardinality(all) - Cardinality({id \in all : node_is_deleted(fields, Neighbor(id))})
    <3>1. EdgesCountedRight(fields, node, e, dir)
      BY <2>2, <2>3, <2>4, EdgesCounted
    <3> QED BY <2>5, <3>1, Zenon DEF EdgesCountedRight
  <2>7. ASSUME NEW id \in all PROVE EdgeIdOf(RawEdgeIdOf(id)) = {id}
    <3>1. PICK p \in Run(slot, SeqOf(node)) : id = IdAt(slot, node, e, dir, p)
      BY <2>2, <2>3, <2>4, <2>5, EdgesRead
    <3>2. p \in 1 .. Len(slot.neighbors)
      BY <2>2, <2>4, <3>1, NameParts, RunPlaces DEF Within
    <3>3. KindOf(slot.neighbors[p]) \in NodeKinds
      BY <2>4, <3>2 DEF AllNamed, Named
    <3>4. /\ id = [src |-> IF dir = Out THEN node ELSE slot.neighbors[p],
                   dst |-> IF dir = Out THEN slot.neighbors[p] ELSE node,
                   kind |-> e, dir |-> dir, seq |-> p - Start(slot, SeqOf(node)) - 1]
      BY <3>1 DEF IdAt, from_half
    <3>5. ResolvesNodeKind(id.src) /\ ResolvesNodeKind(id.dst)
      BY <2>2, <3>3, <3>4 DEF ResolvesNodeKind
    <3>6. id = [src |-> id.src, dst |-> id.dst, kind |-> id.kind, dir |-> id.dir, seq |-> id.seq]
          /\ id.kind = e /\ id.dir = dir
      BY <3>4
    <3> QED BY <3>5, <3>6 DEF EdgeIdOf, RawEdgeIdOf
  <2> QED BY <2>5, <2>6, <2>7, Zenon
<1> QED BY <1>1, <1>2, Zenon DEF CountsAgree

\* However the arrays were edited by hand, a Graph that try_from made of them answers:
\* each half-edge and each value stored is read once and from one node, names what is
\* there, both ends of an edge tell the same, and counts agree with walks.
THEOREM GraphsAlwaysReadWhole == Spec => []GraphsReadWhole
<1>1. RawInv => GraphsReadWhole
  <2> SUFFICES ASSUME RawInv, form = "Graph" PROVE HalvesRead /\ HalvesPaired /\ ValuesRead /\ CountsAgree
    BY DEF GraphsReadWhole
  <2>1. fields \in Graph /\ check_integrity(fields) = Ok
    BY DEF RawInv
  <2>2. Whole(fields)
    BY <2>1, IntegrityTold
  <2> QED BY <2>1, <2>2, WholeHalvesRead, WholeHalvesPaired, WholeValuesRead, WholeCountsAgree
<1> QED BY <1>1, AlwaysRawInv, PTL

(***************************************************************************)
(* An edit leaves what it does not touch                                    *)
(***************************************************************************)
\* The items of a sequence cut at two places with others put between.
CutTo(s, mid, p, q, new) ==
  /\ new \in Seq(Key) /\ Len(new) = p + Len(mid) + (Len(s) - q)
  /\ \A i \in 1 .. p : new[i] = s[i]
  /\ \A i \in q + 1 .. Len(s) : new[i + (p + Len(mid) - q)] = s[i]

LEMMA CutAndPut ==
  ASSUME NEW s \in Seq(Key), NEW mid \in Seq(Key), NEW p \in Nat, NEW q \in Nat, p <= q, q <= Len(s),
         NEW new, new = SubSeq(s, 1, p) \o mid \o SubSeq(s, q + 1, Len(s))
  PROVE  CutTo(s, mid, p, q, new)
<1> DEFINE n == Len(s)
           m == Len(mid)
           a == SubSeq(s, 1, p)
           b == SubSeq(s, q + 1, n)
<1>1. n \in Nat /\ m \in Nat /\ DOMAIN s = 1 .. n /\ \A i \in 1 .. n : s[i] \in Key
  BY LenProperties
<1>2. a \in Seq(Key) /\ Len(a) = p /\ \A i \in 1 .. p : a[i] = s[i]
  <2>1. \A i \in 1 .. p : s[i] \in Key
    BY <1>1
  <2>2. /\ a \in Seq(Key) /\ Len(a) = IF 1 <= p THEN p - 1 + 1 ELSE 0
        /\ \A i \in 1 .. p - 1 + 1 : a[i] = s[1 + i - 1]
    BY <2>1, SubSeqProperties
  <2>3. p - 1 + 1 = p /\ (p < 1 => p = 0) /\ (1 <= p \/ p < 1) /\ \A i \in 1 .. p : 1 + i - 1 = i
    OBVIOUS
  <2> HIDE DEF a
  <2>4. Len(a) = p
    BY <2>2, <2>3
  <2>5. ASSUME NEW i \in 1 .. p PROVE a[i] = s[i]
    BY <2>2, <2>3
  <2> QED BY <2>2, <2>4, <2>5
<1>3. b \in Seq(Key) /\ Len(b) = n - q /\ \A i \in 1 .. n - q : b[i] = s[q + i]
  <2>1. \A i \in q + 1 .. n : s[i] \in Key
    BY <1>1
  <2>2. q + 1 \in Int /\ n \in Int
    BY <1>1
  <2>3. /\ b \in Seq(Key) /\ Len(b) = IF q + 1 <= n THEN n - (q + 1) + 1 ELSE 0
        /\ \A i \in 1 .. n - (q + 1) + 1 : b[i] = s[q + 1 + i - 1]
    BY <2>1, <2>2, SubSeqProperties
  <2> HIDE DEF b, n
  <2>4. n - (q + 1) + 1 = n - q /\ \A i \in 1 .. n - q : q + 1 + i - 1 = q + i
    BY <1>1
  <2>5. q <= n
    BY DEF n
  <2>6. Len(b) = n - q
    BY <1>1, <2>3, <2>4, <2>5
  <2>7. ASSUME NEW i \in 1 .. n - q PROVE b[i] = s[q + i]
    <3>1. b[i] = s[q + 1 + i - 1]
      BY <2>3, <2>4
    <3> QED BY <2>4, <3>1
  <2> QED BY <2>3, <2>6, <2>7
<1>4. new = a \o mid \o b
  OBVIOUS
<1> HIDE DEF a, b, n, m
<1>5. PICK c : c = a \o mid
  OBVIOUS
<1>6. c \in Seq(Key) /\ Len(c) = p + m /\ \A i \in 1 .. p : c[i] = s[i]
  <2>1. /\ c \in Seq(Key) /\ Len(c) = Len(a) + Len(mid)
        /\ \A i \in 1 .. Len(a) + Len(mid) : c[i] = IF i <= Len(a) THEN a[i] ELSE mid[i - Len(a)]
    BY <1>2, <1>5, ConcatProperties
  <2>2. \A i \in 1 .. p : i \in 1 .. p + m /\ i <= p
    BY <1>1
  <2> QED BY <1>2, <2>1, <2>2 DEF m
<1>7. /\ new \in Seq(Key) /\ Len(new) = (p + m) + (n - q)
      /\ \A i \in 1 .. (p + m) + (n - q) : new[i] = IF i <= p + m THEN c[i] ELSE b[i - (p + m)]
  <2>1. new = c \o b
    BY <1>4, <1>5
  <2>2. /\ c \o b \in Seq(Key) /\ Len(c \o b) = Len(c) + Len(b)
        /\ \A i \in 1 .. Len(c) + Len(b) : (c \o b)[i] = IF i <= Len(c) THEN c[i] ELSE b[i - Len(c)]
    BY <1>3, <1>6, ConcatProperties
  <2> QED BY <1>3, <1>6, <2>1, <2>2
<1>8. ASSUME NEW i \in 1 .. p PROVE new[i] = s[i]
  <2>1. i \in 1 .. (p + m) + (n - q) /\ i <= p + m
    BY <1>1 DEF n
  <2> QED BY <1>6, <1>7, <2>1
<1>9. ASSUME NEW i \in q + 1 .. n PROVE new[i + (p + m - q)] = s[i]
  <2>1. PICK j : j = i + (p + m - q)
    OBVIOUS
  <2>2. /\ j \in 1 .. (p + m) + (n - q) /\ ~ (j <= p + m)
        /\ j - (p + m) = i - q /\ i - q \in 1 .. n - q /\ q + (i - q) = i
    BY <1>1, <2>1
  <2>3. new[j] = b[j - (p + m)]
    BY <1>7, <2>2
  <2>4. b[i - q] = s[q + (i - q)]
    BY <1>3, <2>2
  <2> QED BY <2>1, <2>2, <2>3, <2>4
<1> QED BY <1>7, <1>8, <1>9 DEF n, m, CutTo

\* An array with its items written anew.
LEMMA ItemsWritten ==
  ASSUME NEW array \in Arrays, NEW items
  PROVE  /\ Done(array, items).array.items = items /\ Done(array, items).array.typ = array.typ
         /\ items = array.items => Done(array, items).array = array
         /\ array.items \in Seq(Key)
BY DEF Arrays, StorageArray, Done

\* What is put in, taken out or replaced by nothing is a patch.
LEMMA CutIsPatch ==
  ASSUME NEW array \in Arrays, NEW mid \in Seq(Key), NEW p \in Nat, NEW q \in Nat,
         p <= q, q <= Len(array.items), p = q \/ mid = <<>>,
         NEW items, items = SubSeq(array.items, 1, p) \o mid \o SubSeq(array.items, q + 1, Len(array.items))
  PROVE  Patched(array, Done(array, items).array)
<1>1. PICK s : s = array.items
  OBVIOUS
<1>2. PICK new : new = Done(array, items).array
  OBVIOUS
<1>3. /\ s \in Seq(Key) /\ Len(s) \in Nat /\ Len(mid) \in Nat
      /\ new.items = items /\ (items = s => new = array)
  BY <1>1, <1>2, ItemsWritten, LenProperties
<1>4. /\ items \in Seq(Key) /\ Len(items) = p + Len(mid) + (Len(s) - q)
      /\ \A i \in 1 .. p : items[i] = s[i]
      /\ \A i \in q + 1 .. Len(s) : items[i + (p + Len(mid) - q)] = s[i]
  <2>1. items = SubSeq(s, 1, p) \o mid \o SubSeq(s, q + 1, Len(s))
    BY <1>1
  <2>2. q <= Len(s) /\ p <= q
    BY <1>1
  <2>3. CutTo(s, mid, p, q, items)
    BY <1>3, <2>1, <2>2, CutAndPut, Zenon
  <2> QED BY <2>3 DEF CutTo
<1>5. PICK m : m = Len(mid)
  OBVIOUS
<1>6. PICK n : n = Len(s)
  OBVIOUS
<1>7. PICK grown : grown = Len(new.items) - Len(array.items)
  OBVIOUS
<1>8. grown = p + m - q /\ m \in Nat /\ n \in Nat /\ q <= n
  <2>1. q <= n /\ m \in Nat /\ n \in Nat
    BY <1>1, <1>3, <1>5, <1>6
  <2>2. grown = (p + m + (n - q)) - n
    BY <1>1, <1>3, <1>4, <1>5, <1>6, <1>7
  <2> QED BY <2>1, <2>2
<1>9. p = q \/ m = 0
  <2>1. Len(<<>>) = 0
    OBVIOUS
  <2> QED BY <1>5, <2>1
<1>10. CASE grown = 0
  <2>1. p = q
    <3>1. CASE m = 0
      <4>1. p + m - q = 0 /\ p \in Nat /\ q \in Nat
        BY <1>8, <1>10
      <4> QED BY <3>1, <4>1
    <3> QED BY <1>9, <3>1
  <2>2. Len(items) = n /\ m = 0
    <3>1. p + m - q = 0 /\ p \in Nat /\ q \in Nat /\ m \in Nat /\ n \in Nat
      BY <1>8, <1>10
    <3>2. m = 0
      BY <2>1, <3>1
    <3>3. Len(items) = p + m + (n - q)
      BY <1>4, <1>5, <1>6
    <3>4. p + m + (n - q) = n
      <4>1. \A x \in Nat, y \in Nat : x + 0 + (y - x) = y
        OBVIOUS
      <4> QED BY <2>1, <3>1, <3>2, <4>1
    <3> QED BY <3>2, <3>3, <3>4
  <2>3. ASSUME NEW i \in 1 .. n PROVE items[i] = s[i]
    <3>1. CASE i \in 1 .. p
      BY <1>4, <3>1
    <3>2. CASE i \notin 1 .. p
      <4>1. i \in q + 1 .. Len(s) /\ i + (p + Len(mid) - q) = i
        BY <1>5, <1>6, <1>8, <2>1, <2>2, <3>2
      <4> QED BY <1>4, <4>1
    <3> QED BY <3>1, <3>2
  <2>4. items = s
    BY <1>3, <1>4, <1>6, <2>2, <2>3, SeqEqual
  <2> QED BY <1>2, <1>3, <2>4 DEF Patched
<1>11. CASE grown # 0
  <2>1. PICK taken : taken = IF grown < 0 THEN - grown ELSE 0
    OBVIOUS
  <2>2. taken = q - p
    BY <1>8, <1>9, <1>11, <2>1
  <2>3. p \in 0 .. Len(array.items) - taken
    BY <1>1, <1>6, <1>8, <2>2
  <2>4. \A i \in 1 .. p : new.items[i] = array.items[i]
    BY <1>1, <1>3, <1>4
  <2>5. \A i \in p + taken + 1 .. Len(array.items) : new.items[i + grown] = array.items[i]
    <3>1. p + taken + 1 = q + 1
      BY <2>2
    <3> QED BY <1>1, <1>3, <1>4, <1>5, <1>8, <3>1
  <2>6. taken = IF grown = 0 THEN 1 ELSE IF grown < 0 THEN - grown ELSE 0
    BY <1>11, <2>1
  <2>7. PICK old : old = array.items
    OBVIOUS
  <2>8. \E x \in 0 .. Len(old) - taken :
           /\ \A i \in 1 .. x : new.items[i] = old[i]
           /\ \A i \in x + taken + 1 .. Len(old) : new.items[i + grown] = old[i]
    BY <2>3, <2>4, <2>5, <2>7
  <2> QED BY <1>2, <1>7, <2>6, <2>7, <2>8 DEF Patched
<1> QED BY <1>10, <1>11

\* So every helper patches the array it is given.
LEMMA EditedPatched ==
  ASSUME NEW array \in Arrays, NEW edited \in Edited(array)
  PROVE  Patched(array, edited.array)
<1> DEFINE s == array.items
           n == Len(array.items)
           positions == 0 .. Len(array.items) + 1
<1>1. s \in Seq(Key) /\ n \in Nat /\ array \in StorageArray
  BY ItemsWritten, LenProperties DEF Arrays
<1>2. ASSUME NEW outcome PROVE Patched(array, Refused(array, outcome).array)
  <2>1. Refused(array, outcome).array = array
    BY DEF Refused
  <2> QED BY <2>1 DEF Patched
<1>3. SubSeq(s, 1, n) = s /\ SubSeq(s, n + 1, n) = <<>>
  BY <1>1, SubSeqFull, SubSeqEmpty
<1>4. ASSUME NEW mid \in Seq(Key) PROVE Patched(array, Done(array, s \o mid).array)
  <2>1. s \o mid \in Seq(Key)
    BY <1>1, ConcatProperties
  <2>2. s \o mid = SubSeq(s, 1, n) \o mid \o SubSeq(s, n + 1, n)
    <3>1. (s \o mid) \o <<>> = s \o mid
      BY <2>1, ConcatEmptySeq
    <3> QED BY <1>3, <3>1
  <2>3. n \in Nat /\ n <= n
    BY <1>1
  <2>4. PICK items : items = s \o mid
    OBVIOUS
  <2>5. items = SubSeq(array.items, 1, n) \o mid \o SubSeq(array.items, n + 1, Len(array.items))
    BY <2>2, <2>4
  <2>6. n <= Len(array.items)
    BY <2>3
  <2> HIDE DEF n, s
  <2>7. Patched(array, Done(array, items).array)
    BY <2>3, <2>5, <2>6, CutIsPatch
  <2> QED BY <2>4, <2>7
<1>5. \A p \in Items : p.typ # "None" /\ p.key \in Key
  BY RawAssumption DEF StoredProperty
<1>6. \A b \in Batches : b.items \in Seq(Key)
  BY RawAssumption DEF StorageArray
<1>7. ASSUME NEW p \in Items, edited = try_push(array, p) PROVE Patched(array, edited.array)
  <2>1. <<p.key>> \in Seq(Key) /\ Append(s, p.key) = s \o <<p.key>>
    BY <1>1, <1>5, AppendIsConcat
  <2> HIDE DEF s
  <2>2. Patched(array, Done(array, Append(s, p.key)).array)
    BY <1>4, <2>1
  <2> QED BY <1>2, <1>7, <2>2 DEF try_push, s
<1>8. ASSUME NEW b \in Batches, edited = try_append(array, b) PROVE Patched(array, edited.array)
  BY <1>2, <1>4, <1>6, <1>8 DEF try_append
<1>9. ASSUME NEW at \in positions, NEW mid \in Seq(Key), at <= n
      PROVE  Patched(array, Done(array, SubSeq(s, 1, at) \o mid \o SubSeq(s, at + 1, n)).array)
  <2>1. at \in Nat /\ at <= at
    OBVIOUS
  <2> QED BY <1>1, <1>9, <2>1, CutIsPatch
<1>10. ASSUME NEW at \in positions, NEW b \in Batches, edited = try_splice(array, at, b)
       PROVE  Patched(array, edited.array)
  <2>1. at > n \/ at <= n
    BY <1>1
  <2>2. at > n => edited = Refused(array, "InvalidPropertyType") \/ edited = Refused(array, "panic")
    BY <1>10 DEF try_splice
  <2>3. ~ (at > n) => edited = Refused(array, "InvalidPropertyType")
                      \/ edited = Done(array, SubSeq(s, 1, at) \o b.items \o SubSeq(s, at + 1, n))
    BY <1>10 DEF try_splice
  <2> HIDE DEF s, n
  <2> QED BY <1>1, <1>2, <1>6, <1>9, <2>1, <2>2, <2>3
<1>11. ASSUME NEW i \in positions, NEW p \in Items, edited = try_insert(array, i, p)
       PROVE  Patched(array, edited.array)
  <2>1. i > n \/ i <= n
    BY <1>1
  <2>2. i > n => edited = Refused(array, "InvalidPropertyType") \/ edited = Refused(array, "panic")
    BY <1>11 DEF try_insert
  <2>3. ~ (i > n) => edited = Refused(array, "InvalidPropertyType")
                      \/ edited = Done(array, SubSeq(s, 1, i) \o <<p.key>> \o SubSeq(s, i + 1, n))
    BY <1>11 DEF try_insert
  <2>4. <<p.key>> \in Seq(Key)
    BY <1>5
  <2> HIDE DEF s, n
  <2> QED BY <1>1, <1>2, <1>9, <2>1, <2>2, <2>3, <2>4
<1>12. ASSUME NEW i \in positions, NEW j \in positions, edited = try_drain(array, i, j)
       PROVE  Patched(array, edited.array)
  <2>1. CASE array.typ = "None"
    <3>1. edited.array = array
      BY <1>12, <2>1, ItemsWritten DEF try_drain
    <3> QED BY <3>1 DEF Patched
  <2>2. CASE array.typ # "None" /\ (i > j \/ j > n)
    BY <1>2, <1>12, <2>2 DEF try_drain
  <2>3. CASE array.typ # "None" /\ ~ (i > j \/ j > n)
    <3>1. edited = Done(array, SubSeq(s, 1, i) \o SubSeq(s, j + 1, n))
      BY <1>12, <2>3 DEF try_drain
    <3>2. i \in Nat /\ j \in Nat /\ i <= j /\ j <= n
      BY <1>1, <2>3
    <3>3. SubSeq(s, 1, i) \in Seq(Key)
      <4>1. \A k \in 1 .. i : s[k] \in Key
        BY <1>1, <3>2
      <4> QED BY <3>2, <4>1, SubSeqProperties
    <3>4. <<>> \in Seq(Key) /\ SubSeq(s, 1, i) \o <<>> = SubSeq(s, 1, i)
      BY <3>3, ConcatEmptySeq
    <3>5. SubSeq(s, 1, i) \o SubSeq(s, j + 1, n) = SubSeq(s, 1, i) \o <<>> \o SubSeq(s, j + 1, n)
      BY <3>4
    <3> QED BY <3>1, <3>2, <3>4, <3>5, CutIsPatch
  <2> QED BY <2>1, <2>2, <2>3
<1>13. ASSUME NEW i \in positions, NEW p \in Items, edited = try_as_mut(array, i, p)
       PROVE  Patched(array, edited.array)
  <2>1. CASE i >= n \/ p.typ # array.typ
    BY <1>2, <1>13, <2>1 DEF try_as_mut
  <2>2. CASE ~ (i >= n) /\ p.typ = array.typ
    <3>1. PICK items : items = [s EXCEPT ![i + 1] = p.key]
      OBVIOUS
    <3>2. edited = Done(array, items)
      BY <1>13, <2>2, <3>1 DEF try_as_mut
    <3>3. i \in Nat /\ i + 1 \in 1 .. n /\ p.key \in Key
      BY <1>1, <1>5, <2>2
    <3>4. /\ Len(items) = n
          /\ \A k \in 1 .. n : items[k] = IF k = i + 1 THEN p.key ELSE s[k]
      BY <1>1, <3>1, <3>3, ExceptSeq
    <3>5. PICK new : new = edited.array
      OBVIOUS
    <3>6. new.items = items
      BY <3>2, <3>5, ItemsWritten
    <3> HIDE DEF s, n
    <3>7. i \in 0 .. n - 1 /\ Len(new.items) - n = 0
      BY <1>1, <3>3, <3>4, <3>6
    <3>8. \A k \in 1 .. i : new.items[k] = s[k]
      <4>1. \A k \in 1 .. i : k \in 1 .. n /\ k # i + 1
        BY <1>1, <3>3
      <4> QED BY <3>4, <3>6, <4>1
    <3>9. \A k \in i + 1 + 1 .. n : new.items[k + 0] = s[k]
      <4>1. \A k \in i + 1 + 1 .. n : k \in 1 .. n /\ k # i + 1 /\ k + 0 = k
        BY <1>1, <3>3
      <4> QED BY <3>4, <3>6, <4>1
    <3>10. \E x \in 0 .. n - 1 :
             /\ \A k \in 1 .. x : new.items[k] = s[k]
             /\ \A k \in x + 1 + 1 .. n : new.items[k + 0] = s[k]
      BY <3>7, <3>8, <3>9
    <3>11. PICK grown : grown = Len(new.items) - Len(array.items)
      OBVIOUS
    <3>12. grown = 0
      BY <3>7, <3>11 DEF n
    <3>13. PICK taken : taken = IF grown = 0 THEN 1 ELSE IF grown < 0 THEN - grown ELSE 0
      OBVIOUS
    <3>14. taken = 1
      BY <3>12, <3>13
    <3>15. \E x \in 0 .. Len(array.items) - taken :
             /\ \A k \in 1 .. x : new.items[k] = array.items[k]
             /\ \A k \in x + taken + 1 .. Len(array.items) : new.items[k + grown] = array.items[k]
      BY <3>10, <3>12, <3>14 DEF n, s
    <3> QED BY <3>5, <3>11, <3>13, <3>15 DEF Patched
  <2> QED BY <2>1, <2>2
<1>14. \/ \E p \in Items : edited = try_push(array, p)
       \/ \E b \in Batches : edited = try_append(array, b)
       \/ \E at \in positions, b \in Batches : edited = try_splice(array, at, b)
       \/ \E i \in positions, p \in Items : edited = try_insert(array, i, p)
       \/ \E i \in positions, j \in positions : edited = try_drain(array, i, j)
       \/ \E i \in positions, p \in Items : edited = try_as_mut(array, i, p)
  BY DEF Edited
<1> QED BY <1>7, <1>8, <1>10, <1>11, <1>12, <1>13, <1>14

\* What of the values of two storages that have the place in common stays, and what of
\* those of two graphs.
Stays(old, new) == \A s \in DOMAIN old \cap DOMAIN new : Patched(old[s].values, new[s].values)
FieldsStay(f, g) == Stays(f.edges, g.edges) /\ Stays(f.properties, g.properties)

LEMMA UnchangedStays ==
  ASSUME NEW old, NEW new, \A s \in DOMAIN old \cap DOMAIN new : new[s].values = old[s].values
  PROVE  Stays(old, new)
BY DEF Stays, Patched

\* A storage once a slot is written; once it is longer or shorter.
LEMMA SlotStays ==
  ASSUME NEW S, NEW old \in Slots(S), NEW s \in DOMAIN old, NEW slot, Patched(old[s].values, slot.values)
  PROVE  Stays(old, [old EXCEPT ![s] = slot])
<1>1. PICK n \in Nat : old \in [0 .. n - 1 -> S]
  BY DEF Slots
<1>2. PICK new : new = [old EXCEPT ![s] = slot]
  OBVIOUS
<1>3. \A i \in DOMAIN old : new[i] = IF i = s THEN slot ELSE old[i]
  BY <1>1, <1>2
<1>4. ASSUME NEW i \in DOMAIN old PROVE Patched(old[i].values, new[i].values)
  <2>1. CASE i = s
    BY <1>3, <2>1
  <2>2. CASE i # s
    <3>1. new[i] = old[i]
      BY <1>3, <2>2
    <3> QED BY <3>1 DEF Patched
  <2> QED BY <2>1, <2>2
<1> QED BY <1>2, <1>4 DEF Stays

LEMMA ResizedStays ==
  ASSUME NEW S, NEW slots \in Slots(S), NEW new, NEW len, len = Cardinality(DOMAIN slots)
  PROVE  /\ Stays(slots, [s \in 0 .. len |-> IF s < len THEN slots[s] ELSE new])
         /\ len > 0 => Stays(slots, [s \in 0 .. len - 2 |-> slots[s]])
<1>1. PICK n \in Nat : DOMAIN slots = 0 .. n - 1 /\ Cardinality(DOMAIN slots) = n
  BY SlotsChanged
<1>2. PICK longer : longer = [s \in 0 .. len |-> IF s < len THEN slots[s] ELSE new]
  OBVIOUS
<1>3. PICK shorter : shorter = [s \in 0 .. len - 2 |-> slots[s]]
  OBVIOUS
<1>4. \A s \in DOMAIN slots \cap DOMAIN longer : longer[s] = slots[s]
  BY <1>1, <1>2
<1>5. \A s \in DOMAIN slots \cap DOMAIN shorter : shorter[s] = slots[s]
  BY <1>1, <1>3
<1>6. Stays(slots, longer) /\ Stays(slots, shorter)
  BY <1>4, <1>5, UnchangedStays
<1> QED BY <1>2, <1>3, <1>6

\* The fields once one of them is written.
LEMMA FieldStays ==
  ASSUME NEW f \in RawFields, NEW new
  PROVE  /\ FieldsStay(f, f) /\ FieldsStay(f, [f EXCEPT !.nodes = new])
         /\ Stays(f.edges, new) => FieldsStay(f, [f EXCEPT !.edges = new])
         /\ Stays(f.properties, new) => FieldsStay(f, [f EXCEPT !.properties = new])
<1>1. Stays(f.edges, f.edges) /\ Stays(f.properties, f.properties)
  BY UnchangedStays
<1>2. /\ [f EXCEPT !.nodes = new].edges = f.edges /\ [f EXCEPT !.nodes = new].properties = f.properties
      /\ [f EXCEPT !.edges = new].edges = new /\ [f EXCEPT !.edges = new].properties = f.properties
      /\ [f EXCEPT !.properties = new].edges = f.edges /\ [f EXCEPT !.properties = new].properties = new
  BY DEF RawFields
<1> QED BY <1>1, <1>2 DEF FieldsStay

\* Values of a slot of edges, of properties, exchanged for a patch of them.
LEMMA ValuesStay ==
  ASSUME RawInv
  PROVE  /\ \A s \in DOMAIN fields.edges : \A values : Patched(fields.edges[s].values, values)
              => FieldsStay(fields, [fields EXCEPT !.edges[s].values = values])
         /\ \A s \in DOMAIN fields.properties : \A values : Patched(fields.properties[s].values, values)
              => FieldsStay(fields, [fields EXCEPT !.properties[s].values = values])
<1>1. fields \in RawFields /\ fields.edges \in Slots(EdgeFields) /\ fields.properties \in Slots(PropertyFields)
  BY FieldWritten DEF RawInv
<1>2. ASSUME NEW s \in DOMAIN fields.edges, NEW values, Patched(fields.edges[s].values, values)
      PROVE  FieldsStay(fields, [fields EXCEPT !.edges[s].values = values])
  <2>1. PICK slot : slot = [fields.edges[s] EXCEPT !.values = values]
    OBVIOUS
  <2>2. slot.values = values
    BY <2>1, FieldArrays DEF EdgeFields, EdgeStorageSlot
  <2>3. Stays(fields.edges, [fields.edges EXCEPT ![s] = slot])
    BY <1>1, <1>2, <2>2, SlotStays
  <2>4. [fields EXCEPT !.edges[s].values = values] = [fields EXCEPT !.edges = [fields.edges EXCEPT ![s] = slot]]
    BY <1>1, <2>1 DEF RawFields
  <2> QED BY <1>1, <2>3, <2>4, FieldStays
<1>3. ASSUME NEW s \in DOMAIN fields.properties, NEW values, Patched(fields.properties[s].values, values)
      PROVE  FieldsStay(fields, [fields EXCEPT !.properties[s].values = values])
  <2>1. PICK slot : slot = [fields.properties[s] EXCEPT !.values = values]
    OBVIOUS
  <2>2. slot.values = values
    BY <2>1, FieldArrays DEF PropertyFields, PropertyStorageSlot
  <2>3. Stays(fields.properties, [fields.properties EXCEPT ![s] = slot])
    BY <1>1, <1>3, <2>2, SlotStays
  <2>4. [fields EXCEPT !.properties[s].values = values]
          = [fields EXCEPT !.properties = [fields.properties EXCEPT ![s] = slot]]
    BY <1>1, <2>1 DEF RawFields
  <2> QED BY <1>1, <2>3, <2>4, FieldStays
<1> QED BY <1>2, <1>3

LEMMA WritingStays ==
  ASSUME RawInv, WriteEdgeList \/ WriteOffsets \/ WriteNodes \/ WriteStrings
  PROVE  FieldsStay(fields, fields')
<1>1. fields \in RawFields /\ fields.edges \in Slots(EdgeFields) /\ fields.properties \in Slots(PropertyFields)
  BY FieldWritten DEF RawInv
<1>2. CASE WriteEdgeList
  <2>1. PICK s \in DOMAIN fields.edges, l \in EdgeLists :
          fields' = [fields EXCEPT !.edges[s].offsets = l.offsets, !.edges[s].neighbors = l.neighbors]
    BY <1>2 DEF WriteEdgeList, Edit
  <2>2. PICK slot : slot = [fields.edges[s] EXCEPT !.offsets = l.offsets, !.neighbors = l.neighbors]
    OBVIOUS
  <2>3. slot.values = fields.edges[s].values
    BY <2>2, FieldArrays DEF EdgeFields, EdgeStorageSlot
  <2>4. Patched(fields.edges[s].values, slot.values)
    BY <2>3 DEF Patched
  <2>5. Stays(fields.edges, [fields.edges EXCEPT ![s] = slot])
    BY <1>1, <2>4, SlotStays
  <2>6. fields' = [fields EXCEPT !.edges = [fields.edges EXCEPT ![s] = slot]]
    BY <1>1, <2>1, <2>2 DEF RawFields
  <2> QED BY <1>1, <2>5, <2>6, FieldStays
<1>3. CASE WriteOffsets
  <2>1. PICK s \in DOMAIN fields.properties, offsets \in OffsetLists :
          fields' = [fields EXCEPT !.properties[s].offsets = offsets]
    BY <1>3 DEF WriteOffsets, Edit
  <2>2. PICK slot : slot = [fields.properties[s] EXCEPT !.offsets = offsets]
    OBVIOUS
  <2>3. slot.values = fields.properties[s].values
    BY <2>2, FieldArrays DEF PropertyFields, PropertyStorageSlot
  <2>4. Patched(fields.properties[s].values, slot.values)
    BY <2>3 DEF Patched
  <2>5. Stays(fields.properties, [fields.properties EXCEPT ![s] = slot])
    BY <1>1, <2>4, SlotStays
  <2>6. fields' = [fields EXCEPT !.properties = [fields.properties EXCEPT ![s] = slot]]
    BY <1>1, <2>1, <2>2 DEF RawFields
  <2> QED BY <1>1, <2>5, <2>6, FieldStays
<1>4. CASE WriteNodes
  <2>1. PICK k \in DOMAIN fields.nodes : \/ fields' = [fields EXCEPT !.nodes[k] = Append(@, FALSE)]
                                         \/ fields' = [fields EXCEPT !.nodes[k] = SubSeq(@, 1, Len(@) - 1)]
    BY <1>4 DEF WriteNodes, Edit
  <2>2. fields'.edges = fields.edges /\ fields'.properties = fields.properties
    BY <1>1, <2>1 DEF RawFields
  <2> QED BY <2>2, UnchangedStays DEF FieldsStay
<1>5. CASE WriteStrings
  <2>1. PICK pool \in Pools : fields' = [fields EXCEPT !.strings = pool]
    BY <1>5 DEF WriteStrings, Edit
  <2>2. fields'.edges = fields.edges /\ fields'.properties = fields.properties
    BY <1>1, <2>1 DEF RawFields
  <2> QED BY <2>2, UnchangedStays DEF FieldsStay
<1> QED BY <1>2, <1>3, <1>4, <1>5

LEMMA EditingStays ==
  ASSUME RawInv, EditEdgeValues \/ EditPropertyValues \/ ReplaceValues PROVE FieldsStay(fields, fields')
<1>1. CASE EditEdgeValues
  <2>1. PICK s \in DOMAIN fields.edges : \E edited \in Edited(fields.edges[s].values) :
          fields' = [fields EXCEPT !.edges[s].values = edited.array]
    BY <1>1 DEF EditEdgeValues, Edit
  <2>2. PICK edited \in Edited(fields.edges[s].values) : fields' = [fields EXCEPT !.edges[s].values = edited.array]
    BY <2>1
  <2>3. Patched(fields.edges[s].values, edited.array)
    BY FieldArrays, EditedPatched
  <2> QED BY <2>2, <2>3, ValuesStay
<1>2. CASE EditPropertyValues
  <2>1. PICK s \in DOMAIN fields.properties : \E edited \in Edited(fields.properties[s].values) :
          fields' = [fields EXCEPT !.properties[s].values = edited.array]
    BY <1>2 DEF EditPropertyValues, Edit
  <2>2. PICK edited \in Edited(fields.properties[s].values) :
          fields' = [fields EXCEPT !.properties[s].values = edited.array]
    BY <2>1
  <2>3. Patched(fields.properties[s].values, edited.array)
    BY FieldArrays, EditedPatched
  <2> QED BY <2>2, <2>3, ValuesStay
<1>3. CASE ReplaceValues
  <2>1. PICK b \in Batches :
          \/ \E s \in DOMAIN fields.edges : /\ b.typ # fields.edges[s].values.typ
                                            /\ fields' = [fields EXCEPT !.edges[s].values = b]
          \/ \E s \in DOMAIN fields.properties : /\ b.typ # fields.properties[s].values.typ
                                                 /\ fields' = [fields EXCEPT !.properties[s].values = b]
    BY <1>3 DEF ReplaceValues, Edit
  <2>2. \A old : b.typ # old.typ => Patched(old, b)
    BY DEF Patched
  <2> QED BY <2>1, <2>2, ValuesStay
<1> QED BY <1>1, <1>2, <1>3

LEMMA ResizingStays == ASSUME RawInv, ResizeStorage PROVE FieldsStay(fields, fields')
<1>1. fields \in RawFields /\ fields.edges \in Slots(EdgeFields) /\ fields.properties \in Slots(PropertyFields)
  BY FieldWritten DEF RawInv
<1> DEFINE Longer(slots, new) == [s \in 0 .. Cardinality(DOMAIN slots) |->
                                    IF s < Cardinality(DOMAIN slots) THEN slots[s] ELSE new]
           Shorter(slots) == [s \in 0 .. Cardinality(DOMAIN slots) - 2 |-> slots[s]]
<1>2. ASSUME NEW S, NEW slots \in Slots(S), NEW new
      PROVE  Stays(slots, Longer(slots, new)) /\ (Cardinality(DOMAIN slots) > 0 => Stays(slots, Shorter(slots)))
  BY <1>2, ResizedStays
<1>3. PICK storage \in DOMAIN DefaultSlots :
        \/ fields' = [fields EXCEPT ![storage] = Longer(fields[storage], DefaultSlots[storage])]
        \/ /\ Cardinality(DOMAIN fields[storage]) > 0
           /\ fields' = [fields EXCEPT ![storage] = Shorter(fields[storage])]
  BY DEF ResizeStorage, Edit
<1> HIDE DEF Longer, Shorter
<1>4. CASE storage = "nodes"
  <2>1. \/ fields' = [fields EXCEPT !.nodes = Longer(fields.nodes, DefaultSlots.nodes)]
        \/ fields' = [fields EXCEPT !.nodes = Shorter(fields.nodes)]
    BY <1>3, <1>4
  <2> QED BY <1>1, <2>1, FieldStays
<1>5. CASE storage = "edges"
  <2>1. \/ fields' = [fields EXCEPT !.edges = Longer(fields.edges, DefaultSlots.edges)]
        \/ /\ Cardinality(DOMAIN fields.edges) > 0
           /\ fields' = [fields EXCEPT !.edges = Shorter(fields.edges)]
    BY <1>3, <1>5
  <2> QED BY <1>1, <1>2, <2>1, FieldStays
<1>6. CASE storage = "properties"
  <2>1. \/ fields' = [fields EXCEPT !.properties = Longer(fields.properties, DefaultSlots.properties)]
        \/ /\ Cardinality(DOMAIN fields.properties) > 0
           /\ fields' = [fields EXCEPT !.properties = Shorter(fields.properties)]
    BY <1>3, <1>6
  <2> QED BY <1>1, <1>2, <2>1, FieldStays
<1> QED BY <1>3, <1>4, <1>5, <1>6, DefaultsTyped

\* Whatever is written into a graph by hand, and whatever becomes of the call, a helper
\* moves items of the array it is given only as a whole, behind the place it was given:
\* none is lost, doubled or exchanged, and those of other slots are as they were.
THEOREM ItemsAlwaysStay == Spec => ItemsStay
<1>1. ASSUME RawInv, [Next]_vars PROVE FieldsStay(fields, fields')
  <2>1. CASE from \/ try_from \/ UNCHANGED vars
    <3>1. fields' = fields
      BY <2>1 DEF from, try_from, vars
    <3>2. FieldsStay(fields, fields)
      BY UnchangedStays DEF FieldsStay
    <3> QED BY <3>1, <3>2
  <2> QED BY <1>1, <2>1, WritingStays, EditingStays, ResizingStays DEF Next
<1>2. ASSUME RawInv, [Next]_vars
      PROVE  [/\ \A s \in DOMAIN fields.edges \cap DOMAIN fields'.edges :
                   Patched(fields.edges[s].values, fields'.edges[s].values)
              /\ \A s \in DOMAIN fields.properties \cap DOMAIN fields'.properties :
                   Patched(fields.properties[s].values, fields'.properties[s].values)]_vars
  BY <1>1, <1>2 DEF FieldsStay, Stays
<1> QED BY <1>2, AlwaysRawInv, PTL DEF Spec, ItemsStay
================================================================================
