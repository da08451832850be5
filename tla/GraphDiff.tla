------------------------------- MODULE GraphDiff -------------------------------
(***************************************************************************)
(* Editing a graph.  A caller queues operations in a GraphDiff, prepare      *)
(* turns the queue into a StagedDiff that holds the graph exclusively, and   *)
(* commit writes it; a failing check, or dropping the StagedDiff, leaves the *)
(* graph as it was.  GraphDiff::apply is prepare followed by commit.         *)
(*                                                                          *)
(* prepare is cut into the steps its code runs through: one per queued       *)
(* change, one per prepare_* function, one per queued edge.                  *)
(***************************************************************************)
EXTENDS Staging

CONSTANTS
  Diffs,           \* the GraphDiff values a caller keeps
  Seeds,           \* the graphs a run starts from
  NewNodeInputs,   \* the NewNode values a caller adds
  EdgeEnds,        \* the existing node ids a caller names as an edge's end
  EdgeProps,       \* the properties (at most one, as a set) a caller gives an edge
  RemovedNodes,    \* the node ids a caller asks to remove
  UpdateInputs,    \* the <<node, property kind, values>> a caller asks to write
  RemoveEdges,     \* whether the caller removes edges
  StrayIds,        \* edge ids the caller took from another graph of the schema
  FreshIds,        \* whether the caller follows the advice on EdgeIds, below
  MaxOperations,   \* bound: operations queued in one diff
  MaxCommits       \* bound: commits

\* NewNode::add_property: only property kinds the node kind declares, and one
\* value where the quantity is One.
IsNewNode(n) ==
  /\ n.kind \in NodeKinds
  /\ DOMAIN n.properties \subseteq KindProperties[n.kind]
  /\ \A p \in DOMAIN n.properties :
       /\ n.properties[p] \in Seq(PropertyValue) \ {<<>>}
       /\ p \notin MultiProperties => Len(n.properties[p]) = 1

ASSUME InputAssumption ==
  /\ Diffs # {}
  /\ Seeds \subseteq Graph /\ Seeds # {}
  /\ \A g \in Seeds : check_integrity(g) = Ok
  /\ \A n \in NewNodeInputs : IsNewNode(n)
  /\ EdgeEnds \subseteq RawNodeId /\ RemovedNodes \subseteq RawNodeId
  /\ \A u \in UpdateInputs :
       u[1] \in RawNodeId /\ u[2] \in PropertyKinds /\ u[3] \in Seq(PropertyValue)
  /\ \A props \in EdgeProps : props \subseteq PropertyValue /\ \A p, q \in props : p = q
  /\ RemoveEdges \in BOOLEAN /\ FreshIds \in BOOLEAN
  /\ StrayIds \subseteq EdgeId /\ (FreshIds => StrayIds = {})
  /\ \A id \in StrayIds :
       ResolvesNodeKind(id.src) /\ ResolvesNodeKind(id.dst) /\ id.kind \in EdgeKinds
  /\ MaxOperations \in Nat /\ MaxCommits \in Nat

\* What a GraphDiff queues.
NewOrExistingNode == [ref : {"new"}, index : Nat] \cup [ref : {"existing"}, node : RawNodeId]
QueuedEdge ==
  [src : NewOrExistingNode, dst : NewOrExistingNode, kind : EdgeKinds, property : SUBSET PropertyValue]
QueuedChange ==
       [change : {"RemoveNode"}, node : RawNodeId]
  \cup [change : {"UpdateNodeProperty"}, node : RawNodeId, property : PropertyKinds,
       values : Seq(PropertyValue)]
  \cup [change : {"RemoveEdge"}, edge : EdgeId]
Diff == [new_nodes : Seq(NewNodeInputs), new_edges : Seq(QueuedEdge), changes : Seq(QueuedChange)]

VARIABLES
  nodes, edges, properties, strings,  \* the graph
  diff,          \* what each GraphDiff has queued
  pc,            \* how far prepare has come; "idle" when nothing is staged
  current,       \* the diff being prepared
  cursor,        \* the next change or new edge of that diff
  strings_baseline, node_tombstones, property_updates, edge_removals,
  property_replacements, edge_replacements, property_appends,
  node_remapper, edge_halves, edge_inserts,
  result,        \* what the last prepare returned
  version,       \* commits so far
  pinned         \* the version each diff's first operation was queued at

graph_vars == <<nodes, edges, properties, strings>>
staged_vars == <<strings_baseline, node_tombstones, property_updates, edge_removals,
                 property_replacements, edge_replacements, property_appends,
                 node_remapper, edge_halves, edge_inserts>>
client_vars == <<diff, pinned, version>>
control_vars == <<pc, current, cursor, result>>
vars == <<graph_vars, staged_vars, client_vars, control_vars>>

graph == [nodes |-> nodes, edges |-> edges, properties |-> properties, strings |-> strings]

EmptyDiff == [new_nodes |-> <<>>, new_edges |-> <<>>, changes |-> <<>>]
NoFunction == [x \in {} |-> x]
With(f, x, v) == [y \in DOMAIN f \cup {x} |-> IF y = x THEN v ELSE f[y]]

Init ==
  /\ \E g \in Seeds :
       nodes = g.nodes /\ edges = g.edges /\ properties = g.properties /\ strings = g.strings
  /\ diff = [d \in Diffs |-> EmptyDiff]
  /\ pinned = [d \in Diffs |-> 0]
  /\ version = 0
  /\ pc = "idle" /\ current = (CHOOSE d \in Diffs : TRUE) /\ cursor = 1 /\ result = Ok
  /\ strings_baseline = 0 /\ node_tombstones = {}
  /\ property_updates = [s \in PropertySlots |-> NoFunction]
  /\ edge_removals = [s \in EdgeSlots |-> {}]
  /\ property_replacements = NoFunction /\ edge_replacements = NoFunction
  /\ property_appends = NoFunction /\ node_remapper = <<>>
  /\ edge_halves = [s \in EdgeSlots |-> <<>>] /\ edge_inserts = NoFunction

(***************************************************************************)
(* Queueing.  StagedDiff borrows the graph exclusively, so the ids a caller *)
(* queues are read while nothing is staged.                                 *)
(***************************************************************************)
Operations(d) ==
  Len(diff[d].new_nodes) + Len(diff[d].new_edges) + Len(diff[d].changes)

Queue(d, queued) ==
  /\ pc = "idle"
  /\ version < MaxCommits /\ Operations(d) < MaxOperations
  /\ diff' = [diff EXCEPT ![d] = queued]
  /\ pinned' = [pinned EXCEPT ![d] = IF diff[d] = EmptyDiff THEN version ELSE @]
  /\ result' = Ok
  /\ UNCHANGED <<graph_vars, staged_vars, version, pc, current, cursor>>

New(i) == [ref |-> "new", index |-> i]
Existing(node) == [ref |-> "existing", node |-> node]
NodeRefs(d) ==
  {New(i) : i \in 0 .. Len(diff[d].new_nodes)} \cup {Existing(node) : node \in EdgeEnds}

add_node(d) ==
  \E n \in NewNodeInputs :
    Queue(d, [diff[d] EXCEPT !.new_nodes = Append(@, n)])

add_edge(d) ==
  \E src, dst \in NodeRefs(d), kind \in EdgeKinds, property \in EdgeProps :
    Queue(d, [diff[d] EXCEPT !.new_edges =
                Append(@, [src |-> src, dst |-> dst, kind |-> kind, property |-> property])])

remove_node(d) ==
  \E node \in RemovedNodes :
    Queue(d, [diff[d] EXCEPT !.changes = Append(@, [change |-> "RemoveNode", node |-> node])])

update_node_property(d) ==
  \E u \in UpdateInputs :
    Queue(d, [diff[d] EXCEPT !.changes =
                Append(@, [change |-> "UpdateNodeProperty",
                           node |-> u[1], property |-> u[2], values |-> u[3]])])

\* The advice of the builder's NOTE: build a diff from the graph it is applied to.
StillFresh(d) == diff[d] # EmptyDiff => pinned[d] = version
RemovesEdges(d) == \E i \in DOMAIN diff[d].changes : diff[d].changes[i].change = "RemoveEdge"

remove_edge(d) ==
  /\ RemoveEdges
  /\ FreshIds => StillFresh(d)
  /\ \E id \in EdgeIds(graph) \cup StrayIds :
       Queue(d, [diff[d] EXCEPT !.changes = Append(@, [change |-> "RemoveEdge", edge |-> id])])

DropDiff(d) ==
  /\ pc = "idle" /\ diff[d] # EmptyDiff
  /\ diff' = [diff EXCEPT ![d] = EmptyDiff]
  /\ result' = Ok
  /\ UNCHANGED <<graph_vars, staged_vars, pinned, version, pc, current, cursor>>

(***************************************************************************)
(* prepare, and what ends it                                               *)
(***************************************************************************)
BeginPrepare(d) ==
  /\ pc = "idle" /\ version < MaxCommits
  /\ FreshIds /\ RemovesEdges(d) => StillFresh(d)
  /\ pc' = "changes" /\ current' = d /\ cursor' = 1 /\ result' = Ok
  /\ strings_baseline' = Len(strings)
  /\ UNCHANGED <<graph_vars, client_vars, node_tombstones, property_updates, edge_removals,
                 property_replacements, edge_replacements, property_appends,
                 node_remapper, edge_halves, edge_inserts>>

Release ==
  /\ pc' = "idle" /\ cursor' = 1
  /\ strings_baseline' = 0 /\ node_tombstones' = {}
  /\ property_updates' = [s \in PropertySlots |-> NoFunction]
  /\ edge_removals' = [s \in EdgeSlots |-> {}]
  /\ property_replacements' = NoFunction /\ edge_replacements' = NoFunction
  /\ property_appends' = NoFunction /\ node_remapper' = <<>>
  /\ edge_halves' = [s \in EdgeSlots |-> <<>>] /\ edge_inserts' = NoFunction
  /\ UNCHANGED current

\* The strings a failing step had already interned go with the rest.
RollBack(outcome) ==
  /\ Release
  /\ result' = outcome
  /\ strings' = truncate(strings, strings_baseline)
  /\ UNCHANGED <<nodes, edges, properties, client_vars>>

(***************************************************************************)
(* classify_changes: one step per queued change.                           *)
(***************************************************************************)
Change == diff[current].changes[cursor]
AtChange(name) ==
  /\ pc = "changes" /\ cursor <= Len(diff[current].changes) /\ Change.change = name
NextChange ==
  /\ cursor' = cursor + 1
  /\ UNCHANGED <<graph_vars, client_vars, pc, current, result, strings_baseline,
                 property_replacements, edge_replacements, property_appends,
                 node_remapper, edge_halves, edge_inserts>>

Exists(node) == SeqOf(node) < Len(nodes[KindOf(node)])

\* A seq that was never created is ignored.
ClassifyRemoveNode ==
  /\ AtChange("RemoveNode")
  /\ \/ /\ ~ ResolvesNodeKind(Change.node)
        /\ RollBack("UnresolvedNodeKind")
     \/ /\ ResolvesNodeKind(Change.node)
        /\ NextChange
        /\ node_tombstones' =
             IF Exists(Change.node) THEN node_tombstones \cup {Change.node} ELSE node_tombstones
        /\ UNCHANGED <<property_updates, edge_removals>>

\* A later update of the same property replaces an earlier one.
ClassifyUpdate ==
  /\ AtChange("UpdateNodeProperty")
  /\ \/ /\ ~ ResolvesNodeKind(Change.node)
        /\ RollBack("UnresolvedNodeKind")
     \/ /\ ResolvesNodeKind(Change.node) /\ ~ Exists(Change.node)
        /\ RollBack("NodeOffsetNotFound")
     \/ /\ ResolvesNodeKind(Change.node) /\ Exists(Change.node)
        /\ NextChange
        /\ property_updates' =
             [property_updates EXCEPT
                ![property_storage_slot(KindOf(Change.node), Change.property)] =
                   With(@, SeqOf(Change.node), Change.values)]
        /\ UNCHANGED <<node_tombstones, edge_removals>>

\* half_edge_value_key: the value of the half that is named, as a set.
WantedKey(slot, seq, local) ==
  IF slot.values.typ # "None" /\ HasOffset(slot, seq) /\ Start(slot, seq) + local < End(slot, seq)
    THEN {ValueKey(slot.values, Start(slot, seq) + local)}
    ELSE {}

\* Mutant: any parallel edge will do, whatever its value.
MutantReverseHalf(slot, seq, target, claimed, wanted) ==
  LET run == get_neighbors(slot, Start(slot, seq), End(slot, seq))
      candidates == {l \in 0 .. Len(run) - 1 : run[l + 1] = target /\ l \notin claimed}
  IN  IF candidates # {} THEN {Lowest(candidates)} ELSE {}

\* find_reverse_edge_seq: the half taken for the reverse one, as a set.
ReverseHalf(slot, seq, target, claimed, wanted) ==
  LET run == get_neighbors(slot, Start(slot, seq), End(slot, seq))
      candidates == {l \in 0 .. Len(run) - 1 : run[l + 1] = target /\ l \notin claimed}
      matching == {l \in candidates : ValueKey(slot.values, Start(slot, seq) + l) \in wanted}
  IN  IF matching # {} THEN {Lowest(matching)}
      ELSE IF candidates # {} THEN {Lowest(candidates)}
      ELSE {}

\* An edge is queued twice when the half its id names was claimed before.
MutantClaimed(removals, seq, local) == FALSE
Claimed(removals, seq, local) == <<seq, local>> \in removals

\* The half the id names is claimed first; when it already was, the edge is
\* taken to be queued twice.  An id of a node this graph does not have indexes
\* past the node's bucket and unwinds out of prepare.
ClassifyRemoveEdge ==
  /\ AtChange("RemoveEdge")
  /\ LET id == Change.edge
         ends == orient_edge(id.dir, id.src, id.dst)
         near == SeqOf(ends.primary)
         far == SeqOf(ends.secondary)
         near_slot == edge_storage_slot(KindOf(ends.primary), ends.dir, id.kind)
         far_slot == edge_storage_slot(KindOf(ends.secondary), ends.reverse, id.kind)
         claimed == {r[2] : r \in {r \in edge_removals[far_slot] : r[1] = far}}
         reverse == ReverseHalf(edges[far_slot], far, ends.primary, claimed,
                                WantedKey(edges[near_slot], near, id.seq))
         unclaimed == Exists(ends.primary) /\ ~ Claimed(edge_removals[near_slot], near, id.seq)
     IN  \/ /\ ~ Exists(ends.primary)
            /\ RollBack("Panic")
         \/ /\ Claimed(edge_removals[near_slot], near, id.seq)
            /\ NextChange
            /\ UNCHANGED <<node_tombstones, property_updates, edge_removals>>
         \/ /\ unclaimed /\ ~ HasOffset(edges[far_slot], far)
            /\ RollBack("NodeOffsetNotFound")
         \/ /\ unclaimed /\ HasOffset(edges[far_slot], far) /\ reverse = {}
            /\ RollBack("ReverseEdgeNotFound")
         \/ /\ unclaimed /\ HasOffset(edges[far_slot], far)
            /\ \E local \in reverse :
                 edge_removals' = [edge_removals EXCEPT ![near_slot] = @ \cup {<<near, id.seq>>},
                                                        ![far_slot] = @ \cup {<<far, local>>}]
            /\ NextChange
            /\ UNCHANGED <<node_tombstones, property_updates>>

(***************************************************************************)
(* The prepare_* functions, in the order stage calls them.  Each goes       *)
(* through the slots by number and stops at the first that has an error.    *)
(***************************************************************************)
FirstFailing(slots, Check(_)) == Lowest({s \in slots : Check(s) # Ok})
AllPass(slots, Check(_)) == \A s \in slots : Check(s) = Ok

UpdateCheck(s) == UpdateError(properties[s], property_updates[s])

PreparePropertyUpdates ==
  /\ pc = "changes" /\ cursor > Len(diff[current].changes)
  /\ \/ /\ ~ AllPass(PropertySlots, UpdateCheck)
        /\ RollBack(UpdateCheck(FirstFailing(PropertySlots, UpdateCheck)))
     \/ /\ AllPass(PropertySlots, UpdateCheck)
        /\ strings' = Interned(strings,
             Concat([i \in 1 .. property_storage_size |->
                       UpdateTexts(property_updates[i - 1], Len(nodes[SlotNodeKind(i - 1)]))]))
        /\ property_replacements' =
             [s \in {s \in PropertySlots : DOMAIN property_updates[s] # {}} |->
                UpdatedSlot(properties[s], property_updates[s], strings')]
        /\ pc' = "removals"
        /\ UNCHANGED <<nodes, edges, properties, client_vars, current, cursor, result,
                       strings_baseline, node_tombstones, property_updates, edge_removals,
                       edge_replacements, property_appends, node_remapper, edge_halves,
                       edge_inserts>>

RemovalCheck(s) == RemovalError(edges[s], edge_removals[s])

PrepareEdgeRemovals ==
  /\ pc = "removals"
  /\ \/ /\ ~ AllPass(EdgeSlots, RemovalCheck)
        /\ RollBack(RemovalCheck(FirstFailing(EdgeSlots, RemovalCheck)))
     \/ /\ AllPass(EdgeSlots, RemovalCheck)
        /\ edge_replacements' =
             [s \in {s \in EdgeSlots : edge_removals[s] # {} /\ edges[s].offsets # <<>>} |->
                WithoutEdges(edges[s], edge_removals[s])]
        /\ pc' = "new nodes"
        /\ UNCHANGED <<graph_vars, client_vars, current, cursor, result,
                       strings_baseline, node_tombstones, property_updates, edge_removals,
                       property_replacements, property_appends, node_remapper, edge_halves,
                       edge_inserts>>

\* The diff's new nodes of one kind, as positions in its queue.
NewOfKind(kind) ==
  {i \in DOMAIN diff[current].new_nodes : diff[current].new_nodes[i].kind = kind}
NewCount(kind) == Cardinality(NewOfKind(kind))

\* What each new node of a slot's kind brings for the slot.
NewValues(s) ==
  [i \in 1 .. NewCount(SlotNodeKind(s)) |->
     LET new == diff[current].new_nodes[Nth(NewOfKind(SlotNodeKind(s)), i)]
     IN  IF SlotPropertyKind(s) \in DOMAIN new.properties
           THEN new.properties[SlotPropertyKind(s)]
           ELSE <<>>]

\* The slot's offsets once the replacements staged so far are written.
PropertyOffsets(s) ==
  IF s \in DOMAIN property_replacements
    THEN property_replacements[s].offsets ELSE properties[s].offsets
EdgeOffsets(s) ==
  IF s \in DOMAIN edge_replacements THEN edge_replacements[s].offsets ELSE edges[s].offsets

AppendCheck(s) == AppendError(properties[s].values.typ, PropertyOffsets(s), NewValues(s))

PrepareNewNodes ==
  /\ pc = "new nodes"
  /\ \/ /\ ~ AllPass(PropertySlots, AppendCheck)
        /\ RollBack(AppendCheck(FirstFailing(PropertySlots, AppendCheck)))
     \/ /\ AllPass(PropertySlots, AppendCheck)
        /\ strings' = Interned(strings,
             Concat([i \in 1 .. property_storage_size |-> TextsOf(Concat(NewValues(i - 1)))]))
        /\ property_appends' =
             [s \in {s \in PropertySlots : ~ AppendsNothing(PropertyOffsets(s), NewValues(s))} |->
                PropertySlotAppend(properties[s].values.typ, PropertyOffsets(s), NewValues(s),
                                   Len(nodes[SlotNodeKind(s)]), strings')]
        /\ node_remapper' =
             [i \in DOMAIN diff[current].new_nodes |->
                LET kind == diff[current].new_nodes[i].kind
                IN  <<kind, Len(nodes[kind]) + Cardinality(NewOfKind(kind) \cap 1 .. i - 1)>>]
        /\ pc' = "new edges" /\ cursor' = 1
        /\ UNCHANGED <<nodes, edges, properties, client_vars, current, result,
                       strings_baseline, node_tombstones, property_updates, edge_removals,
                       property_replacements, edge_replacements, edge_halves, edge_inserts>>

NewEdge == diff[current].new_edges[cursor]

\* The node an edge's end names, as a set: an index no add_node returned and a
\* node kind the schema does not have name none.
resolve_node_ref(ref) ==
  IF ref.ref = "new"
    THEN IF ref.index < Len(node_remapper) THEN {node_remapper[ref.index + 1]} ELSE {}
    ELSE IF ResolvesNodeKind(ref.node) THEN {ref.node} ELSE {}

\* Mutant: a node the same diff removes still takes edges.
MutantUsable(node) ==
  /\ SeqOf(node) < Len(nodes[KindOf(node)]) + NewCount(KindOf(node))
  /\ Exists(node) => ~ nodes[KindOf(node)][SeqOf(node) + 1]

\* Nodes of this diff can carry edges; nodes deleted before or by it cannot.
Usable(node) ==
  /\ SeqOf(node) < Len(nodes[KindOf(node)]) + NewCount(KindOf(node))
  /\ Exists(node) => ~ nodes[KindOf(node)][SeqOf(node) + 1] /\ node \notin node_tombstones

\* Mutant: only the destination is asked whether it is deleted.
MutantEdgeUsable ==
  /\ resolve_node_ref(NewEdge.src) # {} /\ resolve_node_ref(NewEdge.dst) # {}
  /\ LET src == Answer(resolve_node_ref(NewEdge.src))
     IN  SeqOf(src) < Len(nodes[KindOf(src)]) + NewCount(KindOf(src))
  /\ Usable(Answer(resolve_node_ref(NewEdge.dst)))

EdgeUsable ==
  /\ resolve_node_ref(NewEdge.src) # {} /\ resolve_node_ref(NewEdge.dst) # {}
  /\ Usable(Answer(resolve_node_ref(NewEdge.src)))
  /\ Usable(Answer(resolve_node_ref(NewEdge.dst)))

\* The property is converted, and its text interned, before the ends are looked at.
StageNewEdge ==
  /\ pc = "new edges" /\ cursor <= Len(diff[current].new_edges)
  /\ LET texts == {p.key[1] : p \in {p \in NewEdge.property : p.typ = "String"}}
     IN  strings' = Interned(strings, [i \in 1 .. Cardinality(texts) |-> Answer(texts)])
  /\ cursor' = cursor + 1
  /\ \/ ~ EdgeUsable /\ UNCHANGED edge_halves
     \/ /\ EdgeUsable
        /\ LET src == Answer(resolve_node_ref(NewEdge.src))
               dst == Answer(resolve_node_ref(NewEdge.dst))
               property == {Stored(p, strings') : p \in NewEdge.property}
               half(node, neighbor) ==
                 [seq |-> SeqOf(node), neighbor |-> neighbor, property |-> property]
           IN  edge_halves' =
                 [edge_halves EXCEPT
                    ![edge_storage_slot(KindOf(src), Out, NewEdge.kind)] = Append(@, half(src, dst)),
                    ![edge_storage_slot(KindOf(dst), In, NewEdge.kind)] = Append(@, half(dst, src))]
  /\ UNCHANGED <<nodes, edges, properties, client_vars, pc, current, result,
                 strings_baseline, node_tombstones, property_updates, edge_removals,
                 property_replacements, edge_replacements, property_appends, node_remapper,
                 edge_inserts>>

\* The slots a diff with new nodes or new edges must touch, and the offsets
\* the new half-edges are placed by.
InsertSlots ==
  {s \in EdgeSlots : \/ edge_halves[s] # <<>>
                     \/ NewCount(SlotNodeKind(s)) > 0 /\ EdgeOffsets(s) # <<>>}
\* Mutant: places are measured against the graph before the diff's removals.
MutantInsertOffsets(s) ==
  LET len == Len(nodes[SlotNodeKind(s)]) + NewCount(SlotNodeKind(s)) + 1
  IN  IF edges[s].offsets = <<>> THEN Repeat(0, len) ELSE Resized(edges[s].offsets, len)
InsertOffsets(s) ==
  LET len == Len(nodes[SlotNodeKind(s)]) + NewCount(SlotNodeKind(s)) + 1
  IN  IF EdgeOffsets(s) = <<>> THEN Repeat(0, len) ELSE Resized(EdgeOffsets(s), len)

InsertCheck(s) == InsertError(edges[s].values.typ, InsertOffsets(s), edge_halves[s])

PrepareNewEdges ==
  /\ pc = "new edges" /\ cursor > Len(diff[current].new_edges)
  /\ \/ /\ ~ AllPass(InsertSlots, InsertCheck)
        /\ RollBack(InsertCheck(FirstFailing(InsertSlots, InsertCheck)))
     \/ /\ AllPass(InsertSlots, InsertCheck)
        /\ edge_inserts' =
             [s \in InsertSlots |->
                EdgeSlotInsert(edges[s].values.typ, InsertOffsets(s), edge_halves[s])]
        /\ pc' = "staged"
        /\ UNCHANGED <<graph_vars, client_vars, current, cursor, result,
                       strings_baseline, node_tombstones, property_updates, edge_removals,
                       property_replacements, edge_replacements, property_appends,
                       node_remapper, edge_halves>>

(***************************************************************************)
(* The StagedDiff                                                          *)
(***************************************************************************)
\* Mutant: the deleted flag is assigned, not raised.
MutantCommittedNodes ==
  [k \in NodeKinds |->
     [i \in DOMAIN nodes[k] |-> <<k, i - 1>> \in node_tombstones]
     \o Repeat(FALSE, Cardinality({i \in DOMAIN node_remapper : KindOf(node_remapper[i]) = k}))]
CommittedNodes ==
  [k \in NodeKinds |->
     [i \in DOMAIN nodes[k] |-> nodes[k][i] \/ <<k, i - 1>> \in node_tombstones]
     \o Repeat(FALSE, Cardinality({i \in DOMAIN node_remapper : KindOf(node_remapper[i]) = k}))]

Replaced(storage, replacements, s) ==
  IF s \in DOMAIN replacements THEN replacements[s] ELSE storage[s]

CommittedProperties ==
  [s \in PropertySlots |->
     LET slot == Replaced(properties, property_replacements, s)
     IN  IF s \in DOMAIN property_appends THEN Appended(slot, property_appends[s]) ELSE slot]

CommittedEdges ==
  [s \in EdgeSlots |->
     LET slot == Replaced(edges, edge_replacements, s)
     IN  IF s \in DOMAIN edge_inserts THEN merge_edge_batches(slot, edge_inserts[s]) ELSE slot]

\* Mutant: the drop at the end of commit still gives the strings back.
MutantCommit ==
  /\ pc = "staged"
  /\ nodes' = CommittedNodes
  /\ properties' = CommittedProperties
  /\ edges' = CommittedEdges
  /\ strings' = truncate(strings, strings_baseline)
  /\ version' = version + 1
  /\ Release
  /\ UNCHANGED <<diff, pinned, result>>

commit ==
  /\ pc = "staged"
  /\ nodes' = CommittedNodes
  /\ properties' = CommittedProperties
  /\ edges' = CommittedEdges
  /\ version' = version + 1
  /\ Release
  /\ UNCHANGED <<strings, diff, pinned, result>>

DropStaged ==
  /\ pc = "staged"
  /\ RollBack(Ok)

Next ==
  \/ \E d \in Diffs :
       \/ add_node(d) \/ add_edge(d) \/ remove_node(d) \/ update_node_property(d)
       \/ remove_edge(d) \/ DropDiff(d) \/ BeginPrepare(d)
  \/ ClassifyRemoveNode \/ ClassifyUpdate \/ ClassifyRemoveEdge
  \/ PreparePropertyUpdates \/ PrepareEdgeRemovals \/ PrepareNewNodes
  \/ StageNewEdge \/ PrepareNewEdges
  \/ commit \/ DropStaged

Spec == Init /\ [][Next]_vars

(***************************************************************************)
(* What a caller has to see to                                             *)
(***************************************************************************)
\* to_stored_property stores a node id or an enum as it comes, so that it names
\* anything is up to the caller: a value of the declared type names a node that is
\* in the graph from the start, or a variant of the declared enum.
ValueResolves(p, decl) ==
  p.typ = decl.typ =>
    /\ p.typ = "NodeId" => p.key \in RawNodeId /\ \A g \in Seeds : check_node_id(g, p.key) = Ok
    /\ p.typ = "Enum" => check_enum_id(p.key[1], p.key[2], decl.enum) = Ok
AllResolve(values, decl) == \A i \in 1 .. Len(values) : ValueResolves(values[i], decl)

InputsResolve ==
  /\ \A u \in UpdateInputs : AllResolve(u[3], NodeProperty[u[2]])
  /\ \A n \in NewNodeInputs : \A p \in DOMAIN n.properties :
       AllResolve(n.properties[p], NodeProperty[p])
  /\ \A props \in EdgeProps : \A p \in props : \A e \in EdgeKinds :
       ValueResolves(p, EdgeProperty[e])
  /\ \A g \in Seeds : /\ \A s \in EdgeSlots : ArrayKeyed(g.edges[s].values)
                      /\ \A s \in PropertySlots : ArrayKeyed(g.properties[s].values)

(***************************************************************************)
(* Properties                                                              *)
(***************************************************************************)
SlotValues(storage) == {storage[s] : s \in DOMAIN storage}

\* Type invariant: every slot holds arrays of its declared element types, offsets
\* fit their width, and what is staged is made of the same parts.
TypeOK ==
  /\ graph \in Graph
  /\ diff \in [Diffs -> Diff]
  /\ \A d \in Diffs : Operations(d) \in 0 .. MaxOperations /\ pinned[d] \in 0 .. version
  /\ version \in 0 .. MaxCommits
  /\ pc \in {"idle", "changes", "removals", "new nodes", "new edges", "staged"}
  /\ current \in Diffs /\ cursor \in 1 .. MaxOperations + 1
  /\ strings_baseline \in 0 .. Len(strings)
  /\ node_tombstones \subseteq RawNodeId
  /\ \A s \in EdgeSlots : edge_removals[s] \subseteq Nat \X Nat
  /\ DOMAIN property_replacements \subseteq PropertySlots
  /\ SlotValues(property_replacements) \subseteq PropertyStorageSlot
  /\ DOMAIN edge_replacements \subseteq EdgeSlots
  /\ SlotValues(edge_replacements) \subseteq EdgeStorageSlot
  /\ DOMAIN property_appends \subseteq PropertySlots
  /\ DOMAIN edge_inserts \subseteq EdgeSlots
  /\ node_remapper \in Seq(RawNodeId)

\* Whatever is committed, the stored graph passes every check of its own
\* integrity checker: a diff whose edge ids are fresh leaves no half-edge
\* without its reverse, no offset astray, no reference dangling.  A graph of more
\* nodes than the checker can number, which no step of prepare counts, would
\* pass all the others.
IntegrityKept ==
  IF TotalNodes(graph) <= MaxNodes
    THEN check_integrity(graph) = Ok
    ELSE CheckSlots(graph) = Ok /\ CheckPairing(graph) = Ok

\* The weaker promise that does not depend on where the edge ids come from:
\* each slot on its own stays well-formed.
SlotsKept == CheckSlots(graph) = Ok

\* A StagedDiff can be committed: the two expect() calls of commit hold, so a
\* graph is never left half written.
CommitCannotPanic ==
  pc = "staged" =>
    /\ \A s \in DOMAIN property_appends :
         AppendFits(Replaced(properties, property_replacements, s), property_appends[s])
    /\ \A s \in DOMAIN edge_inserts :
         BatchesFit(Replaced(edges, edge_replacements, s), edge_inserts[s])

\* Removing edges by fresh ids never fails for want of a reverse half, in
\* whatever combination and order they are queued: the halves one removal
\* claims never include the last one another removal needs.
RemovalsFindTheirReverse == result # "ReverseEdgeNotFound"

\* Node ids stay valid: no step takes a node away or revives a deleted one.
NodeIdsStable ==
  [][\A k \in NodeKinds :
       /\ Len(nodes[k]) <= Len(nodes'[k])
       /\ \A i \in DOMAIN nodes[k] : nodes[k][i] => nodes'[k][i]]_vars

\* A deleted node gains no edge, not even from the diff that deletes it or from
\* one whose edge was queued before the deletion was committed.
DegreeOf(g, node) ==
  Cardinality({id \in EdgeIds(g) : node \in {id.src, id.dst}})
DeletedNodesGainNoEdges ==
  [][\A node \in NodeIds(graph) :
       node_is_deleted(graph', node) => DegreeOf(graph', node) <= DegreeOf(graph, node)]_vars

\* A caller walking the live part of the graph sees the same edges from their
\* sources as from their destinations, however many ends have been deleted.
VisibleEdges(kind, direction) ==
  UNION {get_edges(graph, node, kind, direction) :
           node \in UNION {nodes_by_kind(graph, k) : k \in NodeKinds}}
SameEdge(id, other) ==
  id.src = other.src /\ id.dst = other.dst
  /\ get_edge_property(graph, id) = get_edge_property(graph, other)
BothEndsAgree ==
  \A kind \in EdgeKinds :
    LET outs == VisibleEdges(kind, Out)
        ins == VisibleEdges(kind, In)
    IN  \A id \in outs \cup ins :
          Cardinality({o \in outs : SameEdge(o, id)}) = Cardinality({i \in ins : SameEdge(i, id)})

\* An edge id a caller keeps names the same edge, with the same value, after a commit
\* that removes nothing from the run it counts in: what is added goes behind it, and
\* neither other runs nor other slots move it.  (get_edge_property does not find out
\* that an id has moved, so this is all there is to rely on.)
RunOf(id) == <<IF id.dir = Out THEN id.src ELSE id.dst, id.kind, id.dir>>
RunsRemovedFrom(d) ==
  UNION {{<<diff[d].changes[i].edge.src, diff[d].changes[i].edge.kind, Out>>,
          <<diff[d].changes[i].edge.dst, diff[d].changes[i].edge.kind, In>>} :
         i \in {i \in DOMAIN diff[d].changes : diff[d].changes[i].change = "RemoveEdge"}}
OnlyRemovalsMoveIds ==
  [][\A id \in EdgeIds(graph) :
       RunOf(id) \notin RunsRemovedFrom(current) =>
         /\ id \in EdgeIds(graph')
         /\ get_edge_property(graph', id) = get_edge_property(graph, id)]_graph_vars

\* A handle the graph stores keeps its text: interning never moves a text, and
\* rolling a failed prepare back never cuts one that was there before it began.
InternedTextsStable ==
  [][\A i \in 1 .. (IF pc = "idle" THEN Len(strings) ELSE strings_baseline) :
       i <= Len(strings') /\ strings'[i] = strings[i]]_vars
=============================================================================
