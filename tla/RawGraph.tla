-------------------------------- MODULE RawGraph --------------------------------
(***************************************************************************)
(* A graph taken apart into its flat arrays, edited by hand and put together *)
(* again.  RawGraph opens every field: the caller writes offsets and          *)
(* neighbors directly, edits values through the helpers of StorageArray, which *)
(* know its element type, or writes another array over them.  Only try_from   *)
(* stands between the arrays and a Graph, and it consumes what it refuses.    *)
(***************************************************************************)
EXTENDS GraphQueries

CONSTANTS
  Seeds,        \* the graphs the caller starts from
  EdgeLists,    \* the offsets and neighbors the caller writes into an edge slot
  OffsetLists,  \* the offsets the caller writes into a property slot
  Items,        \* the stored properties the caller puts into arrays
  Batches,      \* the arrays the caller puts into arrays
  Pools,        \* the string pools the caller puts in the place of the graph's own
  MaxItems,     \* bound: items in an array
  MaxEdits      \* bound: edits

\* An array without values has room for none.
NoItems(array) == array.typ = "None" => array.items = <<>>

ASSUME RawAssumption ==
  /\ Seeds \subseteq Graph /\ \A g \in Seeds : check_integrity(g) = Ok
  /\ \A g \in Seeds :
       /\ \A s \in EdgeSlots : NoItems(g.edges[s].values)
       /\ \A s \in PropertySlots : NoItems(g.properties[s].values)
  /\ \A l \in EdgeLists : l.offsets \in Seq(0 .. MaxOffset) /\ l.neighbors \in Seq(RawNodeId)
  /\ OffsetLists \subseteq Seq(0 .. MaxOffset)
  /\ Items \subseteq StoredProperty /\ Batches \subseteq StorageArray
  /\ \A b \in Batches : NoItems(b)
  /\ Pools \subseteq Seq(Texts)
  /\ MaxItems \in Nat /\ MaxEdits \in Nat

VARIABLES
  form,    \* "Graph", "RawGraph", or "lost" when a conversion was refused
  fields,  \* the four storages, whatever they are wrapped in
  result,  \* what the last call returned
  edits    \* edits so far

vars == <<form, fields, result, edits>>

(***************************************************************************)
(* The helpers of StorageArray.  A position past the end panics before       *)
(* anything is written.                                                     *)
(***************************************************************************)
Done(array, items) == [outcome |-> Ok, array |-> [array EXCEPT !.items = items]]
Refused(array, outcome) == [outcome |-> outcome, array |-> array]

\* Mutant: an array without values takes whatever it is given.
MutantTryPush(array, prop) ==
  IF prop.typ = array.typ \/ array.typ = "None" THEN Done(array, Append(array.items, prop.key))
  ELSE Refused(array, "InvalidPropertyType")

try_push(array, prop) ==
  IF prop.typ = array.typ THEN Done(array, Append(array.items, prop.key))
  ELSE Refused(array, "InvalidPropertyType")

\* Two arrays without values append to one without values.
try_append(array, other) ==
  IF other.typ = array.typ THEN Done(array, array.items \o other.items)
  ELSE Refused(array, "InvalidPropertyType")

\* Mutant: the items from at on are overwritten, not moved up.
MutantTrySplice(array, at, other) ==
  IF other.typ # array.typ \/ array.typ = "None" THEN Refused(array, "InvalidPropertyType")
  ELSE IF at > Len(array.items) THEN Refused(array, "panic")
  ELSE Done(array, SubSeq(array.items, 1, at) \o other.items
                     \o SubSeq(array.items, at + Len(other.items) + 1, Len(array.items)))

\* Unlike try_append, an array without values takes not even another one.
try_splice(array, at, other) ==
  IF other.typ # array.typ \/ array.typ = "None" THEN Refused(array, "InvalidPropertyType")
  ELSE IF at > Len(array.items) THEN Refused(array, "panic")
  ELSE Done(array, SubSeq(array.items, 1, at) \o other.items
                     \o SubSeq(array.items, at + 1, Len(array.items)))

try_insert(array, i, prop) ==
  IF prop.typ # array.typ THEN Refused(array, "InvalidPropertyType")
  ELSE IF i > Len(array.items) THEN Refused(array, "panic")
  ELSE Done(array, SubSeq(array.items, 1, i) \o <<prop.key>>
                     \o SubSeq(array.items, i + 1, Len(array.items)))

\* Draining an array without values does nothing, whatever the range.
try_drain(array, start, end) ==
  IF array.typ = "None" THEN Done(array, array.items)
  ELSE IF start > end \/ end > Len(array.items) THEN Refused(array, "panic")
  ELSE Done(array, SubSeq(array.items, 1, start) \o SubSeq(array.items, end + 1, Len(array.items)))

\* try_as_bool_mut and its siblings: the items themselves, of the type asked for;
\* the caller writes one of them.
try_as_mut(array, i, prop) ==
  IF prop.typ # array.typ THEN Refused(array, "InvalidPropertyType")
  ELSE IF i >= Len(array.items) THEN Refused(array, "panic")
  ELSE Done(array, [array.items EXCEPT ![i + 1] = prop.key])

\* All the helpers can make of array.
Edited(array) ==
  LET positions == 0 .. Len(array.items) + 1
  IN  {try_push(array, p) : p \in Items}
      \cup {try_append(array, b) : b \in Batches}
      \cup {try_splice(array, at, b) : at \in positions, b \in Batches}
      \cup {try_insert(array, i, p) : i \in positions, p \in Items}
      \cup {try_drain(array, i, j) : i \in positions, j \in positions}
      \cup {try_as_mut(array, i, p) : i \in positions, p \in Items}

(***************************************************************************)
(* The life of a graph                                                     *)
(***************************************************************************)
Init ==
  /\ fields \in Seeds \cup {NewGraph}
  /\ form \in {"Graph", "RawGraph"} /\ (form = "RawGraph" => fields = NewGraph)
  /\ result = Ok /\ edits = 0

\* RawGraph::from: never fails, writes nothing.
from ==
  /\ form = "Graph" /\ form' = "RawGraph" /\ result' = Ok
  /\ UNCHANGED <<fields, edits>>

Edit(changed, outcome) ==
  /\ form = "RawGraph" /\ edits < MaxEdits
  /\ edits' = edits + 1
  /\ fields' = changed /\ result' = outcome
  /\ UNCHANGED form

WriteEdgeList ==
  \E s \in DOMAIN fields.edges, l \in EdgeLists :
    Edit([fields EXCEPT !.edges[s].offsets = l.offsets, !.edges[s].neighbors = l.neighbors], Ok)

WriteOffsets ==
  \E s \in DOMAIN fields.properties, offsets \in OffsetLists :
    Edit([fields EXCEPT !.properties[s].offsets = offsets], Ok)

WriteNodes ==
  \E k \in DOMAIN fields.nodes :
    \/ Edit([fields EXCEPT !.nodes[k] = Append(@, FALSE)], Ok)
    \/ /\ fields.nodes[k] # <<>>
       /\ Edit([fields EXCEPT !.nodes[k] = SubSeq(@, 1, Len(@) - 1)], Ok)

\* Handles are not told from those of another pool.
WriteStrings == \E pool \in Pools : Edit([fields EXCEPT !.strings = pool], Ok)

Fits(edited) == Len(edited.array.items) <= MaxItems

EditEdgeValues ==
  \E s \in DOMAIN fields.edges : \E edited \in {e \in Edited(fields.edges[s].values) : Fits(e)} :
    Edit([fields EXCEPT !.edges[s].values = edited.array], edited.outcome)

EditPropertyValues ==
  \E s \in DOMAIN fields.properties : \E edited \in {e \in Edited(fields.properties[s].values) : Fits(e)} :
    Edit([fields EXCEPT !.properties[s].values = edited.array], edited.outcome)

\* An array of another element type, written over the one in the slot; what one of
\* the same type would hold is what draining and appending make.
ReplaceValues ==
  \E b \in Batches :
    \/ \E s \in DOMAIN fields.edges :
         /\ b.typ # fields.edges[s].values.typ
         /\ Edit([fields EXCEPT !.edges[s].values = b], Ok)
    \/ \E s \in DOMAIN fields.properties :
         /\ b.typ # fields.properties[s].values.typ
         /\ Edit([fields EXCEPT !.properties[s].values = b], Ok)

\* The storages are vectors of slots and can be made longer or shorter; a slot that
\* is pushed is a default one, without element type.
DefaultSlots ==
  [nodes |-> <<>>,
   edges |-> [offsets |-> <<>>, neighbors |-> <<>>, values |-> NewArray("None")],
   properties |-> [offsets |-> <<>>, values |-> NewArray("None")]]

Lengths == [nodes |-> NodeKindCount, edges |-> edge_storage_size, properties |-> property_storage_size]

ResizeStorage ==
  \E storage \in DOMAIN DefaultSlots :
    LET slots == fields[storage]
        len == Cardinality(DOMAIN slots)
    IN  \/ /\ len <= Lengths[storage]
           /\ Edit([fields EXCEPT ![storage] =
                [s \in 0 .. len |-> IF s < len THEN slots[s] ELSE DefaultSlots[storage]]], Ok)
        \/ /\ len > 0
           /\ Edit([fields EXCEPT ![storage] = [s \in 0 .. len - 2 |-> slots[s]]], Ok)

\* A refused RawGraph was moved into the call and goes with it.
try_from ==
  /\ form = "RawGraph"
  /\ result' = check_integrity(fields)
  /\ form' = IF result' = Ok THEN "Graph" ELSE "lost"
  /\ UNCHANGED <<fields, edits>>

Next ==
  \/ from \/ WriteEdgeList \/ WriteOffsets \/ WriteNodes \/ WriteStrings
  \/ EditEdgeValues \/ EditPropertyValues \/ ReplaceValues \/ ResizeStorage \/ try_from

Spec == Init /\ [][Next]_vars

(***************************************************************************)
(* Properties                                                              *)
(***************************************************************************)
\* Type invariant; only a RawGraph may have more or less slots than the schema has
\* places for.
TypeOK ==
  /\ form \in {"Graph", "RawGraph", "lost"}
  /\ form = "Graph" => fields \in Graph
  /\ \A k \in DOMAIN fields.nodes : fields.nodes[k] \in Seq(BOOLEAN)
  /\ \A s \in DOMAIN fields.edges : fields.edges[s] \in EdgeStorageSlot
  /\ \A s \in DOMAIN fields.properties : fields.properties[s] \in PropertyStorageSlot
  /\ \A s \in DOMAIN fields.edges : NoItems(fields.edges[s].values)
  /\ \A s \in DOMAIN fields.properties : NoItems(fields.properties[s].values)
  /\ result \in Errors \cup {"StorageSizeMismatch", "panic"}
  /\ edits \in 0 .. MaxEdits

ReadFrom(kind, dir, edge) ==
  UNION {get_edges_with_deleted(fields, node, edge, dir) :
           node \in {node \in NodeIds(fields) : KindOf(node) = kind}}

\* Every half-edge stored is read once, from one node, and names a node; a kind
\* with a value gives it one.
HalvesRead ==
  \A k \in NodeKinds, dir \in Directions, e \in EdgeKinds :
    LET ids == ReadFrom(k, dir, e)
    IN  /\ Cardinality(ids) = Len(fields.edges[edge_storage_slot(k, dir, e)].neighbors)
        /\ \A id \in ids : Neighbor(id) \in NodeIds(fields)
        /\ EdgeProperty[e].typ # "None" =>
             \A id \in ids : UNION get_edge_property(fields, id) # {}

\* As many edges of each value lead from a node to another as come in from it.
HalvesPaired ==
  \A e \in EdgeKinds :
    LET outs == UNION {ReadFrom(k, Out, e) : k \in NodeKinds}
        ins == UNION {ReadFrom(k, In, e) : k \in NodeKinds}
        same(id, ids) == {i \in ids : /\ i.src = id.src /\ i.dst = id.dst
                                      /\ get_edge_property(fields, i) = get_edge_property(fields, id)}
    IN  \A id \in outs \cup ins : Cardinality(same(id, outs)) = Cardinality(same(id, ins))

\* Every value stored is read once, from one node, and a string is one of the pool.
ValuesRead ==
  \A k \in NodeKinds, p \in PropertyKinds :
    LET read == UNION {UNION {{<<node, i, run[i]>> : i \in DOMAIN run} :
                               run \in get_node_property(fields, node, p)} :
                         node \in {node \in NodeIds(fields) : KindOf(node) = k}}
    IN  /\ Cardinality(read) = Len(fields.properties[property_storage_slot(k, p)].values.items)
        /\ \A r \in read : r[3].typ = "String" => r[3].key[1] < Len(fields.strings)

\* What counts without walking agrees with the walk, and a count of what is left of
\* a node's edges leaves out exactly those whose other end is deleted.
CountsAgree ==
  /\ node_count(fields)
       = Cardinality(UNION {nodes_by_kind(fields, kind) : kind \in NodeKinds})
  /\ \A kind \in NodeKinds :
       \A node \in {<<kind, seq>> : seq \in 0 .. node_count_by_kind_with_deleted(fields, kind)} :
         \A e \in EdgeKinds, dir \in Directions :
           LET all == get_edges_with_deleted(fields, node, e, dir)
               gone == {id \in all : node_is_deleted(fields, Neighbor(id))}
           IN  /\ get_edges_count_with_deleted(fields, node, e, dir) = {Cardinality(all)}
               /\ get_edges_count(fields, node, e, dir) = Cardinality(all) - Cardinality(gone)
               /\ \A id \in all : EdgeIdOf(RawEdgeIdOf(id)) = {id}

\* However its arrays were edited, a Graph answers: nothing stored in it is out of
\* reach, read twice, counted wrongly or dangling, and both ends of an edge tell the
\* same.
GraphsReadWhole == form = "Graph" => HalvesRead /\ HalvesPaired /\ ValuesRead /\ CountsAgree

\* While it keeps its element type, new is old with some items put in, taken out or,
\* if it is as long, one written.
Patched(old, new) ==
  LET grown == Len(new.items) - Len(old.items)
      taken == IF grown = 0 THEN 1 ELSE IF grown < 0 THEN - grown ELSE 0
  IN  \/ new = old
      \/ new.typ # old.typ
      \/ \E p \in 0 .. Len(old.items) - taken :
           /\ \A i \in 1 .. p : new.items[i] = old.items[i]
           /\ \A i \in p + taken + 1 .. Len(old.items) : new.items[i + grown] = old.items[i]

\* A helper that edits values leaves the items before and behind the place it was
\* given as they were and in their order, whether it succeeds or is refused.
ItemsStay ==
  [][/\ \A s \in DOMAIN fields.edges \cap DOMAIN fields'.edges :
          Patched(fields.edges[s].values, fields'.edges[s].values)
     /\ \A s \in DOMAIN fields.properties \cap DOMAIN fields'.properties :
          Patched(fields.properties[s].values, fields'.properties[s].values)]_vars
=============================================================================
