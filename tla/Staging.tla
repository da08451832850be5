-------------------------------- MODULE Staging --------------------------------
(***************************************************************************)
(* How one storage slot is rebuilt for a diff: the functions of slots.rs    *)
(* and the merge of staged.rs.  Each is given what the diff asks of the     *)
(* slot and returns the arrays the commit will write, next to a predicate   *)
(* for the error it may stop with instead.                                  *)
(***************************************************************************)
EXTENDS GraphQueries

\* Items held by the first i of runs, and all of them in one sequence.
Cumulative(runs, i) ==
  Cardinality(UNION {{<<j, k>> : k \in DOMAIN runs[j]} : j \in 1 .. i})
Concat(runs) ==
  [p \in 1 .. Cumulative(runs, Len(runs)) |->
     LET j == CHOOSE j \in DOMAIN runs :
                Cumulative(runs, j - 1) < p /\ p <= Cumulative(runs, j)
     IN  runs[j][p - Cumulative(runs, j - 1)]]

KeysOf(props, pool) == [i \in DOMAIN props |-> Stored(props[i], pool).key]
AllOfType(props, typ) == \A i \in DOMAIN props : props[i].typ = typ

(***************************************************************************)
(* prepare_property_updates: updates maps each updated node of the slot to  *)
(* its new values; every other node keeps its run.                          *)
(***************************************************************************)
\* The nodes are gone through in order: a node's values are typed before they
\* are counted.
BatchError(typ, baseline, runs, i) ==
  IF ~ AllOfType(runs[i], typ) THEN "InvalidPropertyType"
  ELSE IF baseline + Cumulative(runs, i) > MaxOffset THEN "OffsetOverflow"
  ELSE Ok

UpdateError(slot, updates) ==
  IF DOMAIN updates = {} THEN Ok
  ELSE IF slot.offsets = <<>> THEN "NodeOffsetNotFound"
  ELSE LET kept == [typ |-> slot.values.typ]
           runs == [i \in 1 .. Len(slot.offsets) - 1 |->
                      IF i - 1 \in DOMAIN updates THEN updates[i - 1]
                      ELSE Repeat(kept, Degree(slot, i - 1))]
       IN  FirstError(Len(runs), LAMBDA i : BatchError(slot.values.typ, 0, runs, i))

UpdateTexts(updates, nodes_of_kind) ==
  Concat([i \in 1 .. nodes_of_kind |->
            IF i - 1 \in DOMAIN updates THEN TextsOf(updates[i - 1]) ELSE <<>>])

UpdatedSlot(slot, updates, pool) ==
  LET runs == [i \in 1 .. Len(slot.offsets) - 1 |->
                 IF i - 1 \in DOMAIN updates
                   THEN KeysOf(updates[i - 1], pool)
                   ELSE SubSeq(slot.values.items, Start(slot, i - 1) + 1, End(slot, i - 1))]
  IN  [offsets |-> [i \in 1 .. Len(slot.offsets) |-> Cumulative(runs, i - 1)],
       values |-> [slot.values EXCEPT !.items = Concat(runs)]]

(***************************************************************************)
(* prepare_edge_removals: removals is the set of <<node seq, local seq>>     *)
(* positions to drop.                                                       *)
(***************************************************************************)
\* Mutant: a position past the node's run is not refused.
MutantRemovalError(slot, removals) ==
  IF /\ slot.offsets # <<>>
     /\ \E r \in removals : ~ HasOffset(slot, r[1]) \/ r[2] > Degree(slot, r[1])
    THEN "NodeOffsetNotFound" ELSE Ok

RemovalError(slot, removals) ==
  IF /\ slot.offsets # <<>>
     /\ \E r \in removals : ~ HasOffset(slot, r[1]) \/ r[2] >= Degree(slot, r[1])
    THEN "NodeOffsetNotFound" ELSE Ok

\* Mutant: the removing node's own start moves too.
MutantWithoutEdges(slot, removals) ==
  LET removed == {Start(slot, r[1]) + r[2] + 1 : r \in removals}
  IN  [offsets |-> [i \in DOMAIN slot.offsets |->
                      slot.offsets[i] - Cardinality({r \in removals : r[1] <= i - 1})],
       neighbors |-> Keep(slot.neighbors, DOMAIN slot.neighbors \ removed),
       values |-> [slot.values EXCEPT
                     !.items = Keep(@, DOMAIN slot.values.items \ removed)]]

\* Mutant: offsets are left as they were.
MutantStaleOffsets(slot, removals) ==
  LET removed == {Start(slot, r[1]) + r[2] + 1 : r \in removals}
  IN  [slot EXCEPT !.neighbors = Keep(@, DOMAIN slot.neighbors \ removed),
                   !.values.items = Keep(@, DOMAIN slot.values.items \ removed)]

WithoutEdges(slot, removals) ==
  LET removed == {Start(slot, r[1]) + r[2] + 1 : r \in removals}
  IN  [offsets |-> [i \in DOMAIN slot.offsets |->
                      slot.offsets[i] - Cardinality({r \in removals : r[1] < i - 1})],
       neighbors |-> Keep(slot.neighbors, DOMAIN slot.neighbors \ removed),
       values |-> [slot.values EXCEPT
                     !.items = Keep(@, DOMAIN slot.values.items \ removed)]]

(***************************************************************************)
(* prepare_new_node_properties: lists holds, for each new node of the kind  *)
(* in order, the values it brings for this slot.  offsets are the slot's    *)
(* after the updates above; they are empty when no node has the property.   *)
(***************************************************************************)
\* Mutant: a slot no node has values in is given offsets by any new node.
MutantAppendsNothing(offsets, lists) == lists = <<>>
AppendsNothing(offsets, lists) ==
  lists = <<>> \/ (offsets = <<>> /\ \A i \in DOMAIN lists : lists[i] = <<>>)

AppendError(typ, offsets, lists) ==
  FirstError(Len(lists), LAMBDA i : BatchError(typ, LastOffset(offsets), lists, i))

\* Mutant: nodes older than the slot's first value get no offset.
MutantPropertySlotAppend(typ, offsets, lists, existing, pool) ==
  [values_batch |-> [typ |-> typ, items |-> KeysOf(Concat(lists), pool)],
   offsets_tail |-> (IF offsets = <<>> THEN <<0>> ELSE <<>>)
                    \o [i \in DOMAIN lists |-> LastOffset(offsets) + Cumulative(lists, i)]]

PropertySlotAppend(typ, offsets, lists, existing, pool) ==
  [values_batch |-> [typ |-> typ, items |-> KeysOf(Concat(lists), pool)],
   offsets_tail |-> (IF offsets = <<>> THEN Repeat(0, existing + 1) ELSE <<>>)
                    \o [i \in DOMAIN lists |-> LastOffset(offsets) + Cumulative(lists, i)]]

(***************************************************************************)
(* prepare_new_edges: halves are the slot's new half-edges in the order the *)
(* edges were queued, [seq, neighbor, property]; a property is a set with   *)
(* at most one element.  offsets are the slot's after the removals above.   *)
(***************************************************************************)
Resized(offsets, len) ==
  IF Len(offsets) >= len THEN SubSeq(offsets, 1, len)
  ELSE offsets \o Repeat(LastOffset(offsets), len - Len(offsets))

HalfTypeError(typ, halves) ==
  LET carried == IF typ = "None" THEN {} ELSE {typ}
  IN  IF \A j \in DOMAIN halves : {p.typ : p \in halves[j].property} = carried
        THEN Ok ELSE "InvalidPropertyType"

\* The place of half j among halves after the stable sort by node.
SortedRank(halves, j) ==
  Cardinality({i \in DOMAIN halves : \/ halves[i].seq < halves[j].seq
                                     \/ halves[i].seq = halves[j].seq /\ i <= j})

InsertedOffset(offsets, halves, i) ==
  offsets[i] + Cardinality({j \in DOMAIN halves : halves[j].seq < i - 1})

\* Mutant: offsets wider than their integer pass.
MutantInsertError(typ, offsets, halves) == HalfTypeError(typ, halves)

\* The halves themselves are counted in the offsets' width before their types are read.
InsertError(typ, offsets, halves) ==
  IF Len(halves) > MaxOffset THEN "OffsetOverflow"
  ELSE IF HalfTypeError(typ, halves) # Ok THEN "InvalidPropertyType"
  ELSE IF \E i \in DOMAIN offsets : InsertedOffset(offsets, halves, i) > MaxOffset
    THEN "OffsetOverflow"
  ELSE Ok

\* Mutant: every half goes before the half-edges its node already has.
MutantEdgeSlotInsert(typ, offsets, halves) ==
  [neighbors |-> [j \in DOMAIN halves |-> halves[j].neighbor],
   items |-> IF typ = "None" THEN <<>>
             ELSE [j \in DOMAIN halves |-> Answer(halves[j].property).key],
   at |-> [j \in DOMAIN halves |-> offsets[halves[j].seq + 1] + SortedRank(halves, j)],
   offsets |-> [i \in DOMAIN offsets |-> InsertedOffset(offsets, halves, i)]]

\* Every half goes behind the half-edges its node already has.  at says where
\* in the merged array; it stands for the sorted batch and its (place, count)
\* runs.
EdgeSlotInsert(typ, offsets, halves) ==
  [neighbors |-> [j \in DOMAIN halves |-> halves[j].neighbor],
   items |-> IF typ = "None" THEN <<>>
             ELSE [j \in DOMAIN halves |-> Answer(halves[j].property).key],
   at |-> [j \in DOMAIN halves |-> offsets[halves[j].seq + 2] + SortedRank(halves, j)],
   offsets |-> [i \in DOMAIN offsets |-> InsertedOffset(offsets, halves, i)]]

(***************************************************************************)
(* Commit: the writes into one slot.                                       *)
(***************************************************************************)
Appended(slot, append) ==
  [offsets |-> slot.offsets \o append.offsets_tail,
   values |-> [slot.values EXCEPT !.items = @ \o append.values_batch.items]]

merge_edge_batches(slot, insert) ==
  [offsets |-> insert.offsets,
   neighbors |-> Merge(slot.neighbors, insert.at, insert.neighbors),
   values |-> IF slot.values.typ = "None" THEN slot.values
              ELSE [slot.values EXCEPT !.items = Merge(@, insert.at, insert.items)]]

\* The merge runs without error when no place is behind what it has already
\* copied or past the end of the old arrays.
BatchesFit(slot, insert) ==
  LET at == insert.at
      copied(j) == at[j] - 1 - Cardinality({i \in DOMAIN at : at[i] < at[j]})
  IN  /\ IsInjective(at)
      /\ \A j \in DOMAIN at : copied(j) \in 0 .. Len(slot.neighbors)
      /\ slot.values.typ # "None" => Len(slot.values.items) = Len(slot.neighbors)

AppendFits(slot, append) == slot.values.typ = append.values_batch.typ
=============================================================================
