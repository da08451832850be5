---------------------------- MODULE GraphDiffProofs ----------------------------
(***************************************************************************)
(* For every schema, every graph to start from and every sequence of diffs:  *)
(* the stored graph and everything staged for it keep their types and fit    *)
(* together, a StagedDiff can always be committed, handles keep their texts  *)
(* and node ids stay valid; and the graph passes its own integrity check all *)
(* along, where callers write values that resolve and use fresh edge ids.    *)
(***************************************************************************)
EXTENDS Accessors, StagingProofs

(***************************************************************************)
(* The inductive invariant, part by part.                                  *)
(*                                                                          *)
(* It says of the graph what the checks of one slot say (the pairing of the *)
(* two halves of an edge and the values themselves are left out), and of    *)
(* what is staged that writing it leaves such a graph.  A new node counts    *)
(* from the step that stages it on, so what is staged is measured against    *)
(* the nodes there will be.                                                 *)
(***************************************************************************)
Standing == [k \in NodeKinds |-> Len(nodes[k])]
Coming == [k \in NodeKinds |-> Len(nodes[k]) + NewCount(k)]

\* The diffs: an edge carries one property at most, and the edge ids that are queued
\* name kinds of the schema.
EdgeQueued(edge) == \A p, q \in edge.property : p = q
ChangeQueued(change) ==
  change.change = "RemoveEdge" =>
    /\ ResolvesNodeKind(change.edge.src) /\ ResolvesNodeKind(change.edge.dst)
    /\ change.edge.kind \in EdgeKinds
WellQueued(queued) ==
  /\ \A i \in 1 .. Len(queued.new_edges) : EdgeQueued(queued.new_edges[i])
  /\ \A i \in 1 .. Len(queued.changes) : ChangeQueued(queued.changes[i])
QueueFits(d) ==
  Operations(d) <= MaxOperations /\ pinned[d] <= version /\ WellQueued(diff[d])
ClientInv ==
  /\ diff \in [Diffs -> Diff] /\ pinned \in [Diffs -> Nat]
  /\ version \in 0 .. MaxCommits
  /\ \A d \in Diffs : QueueFits(d)

\* The place prepare has reached in the diff it runs through.
ControlInv ==
  /\ pc \in {"idle", "changes", "removals", "new nodes", "new edges", "staged"}
  /\ pc # "idle" => version < MaxCommits
  /\ current \in Diffs /\ cursor \in 1 .. MaxOperations + 1
  /\ pc = "changes" => cursor <= Len(diff[current].changes) + 1
  /\ pc = "new edges" => cursor <= Len(diff[current].new_edges) + 1

\* The graph.
EdgeSlotKept(slot, s, counts) ==
  /\ EdgeSlotSound(slot, counts[SlotNodeKind(s)], EdgeProperty[SlotEdgeKind(s)].typ)
  /\ AllNamed(slot.neighbors, counts)
PropertySlotKept(slot, s, counts) ==
  PropertySlotSound(slot, counts[SlotNodeKind(s)], NodeProperty[SlotPropertyKind(s)].typ)
GraphInv ==
  /\ nodes \in [NodeKinds -> Seq(BOOLEAN)] /\ strings \in Seq(Texts)
  /\ edges \in [EdgeSlots -> EdgeStorageSlot]
  /\ \A s \in EdgeSlots : EdgeSlotKept(edges[s], s, Standing)
  /\ properties \in [PropertySlots -> PropertyStorageSlot]
  /\ \A s \in PropertySlots : PropertySlotKept(properties[s], s, Standing)

\* What classify_changes collects.
ChangesInv ==
  /\ strings_baseline \in 0 .. Len(strings)
  /\ node_tombstones \subseteq RawNodeId
  /\ DOMAIN property_updates = PropertySlots
  /\ \A s \in PropertySlots : UpdatesTyped(property_updates[s], Standing[SlotNodeKind(s)])
  /\ DOMAIN edge_removals = EdgeSlots
  /\ \A s \in EdgeSlots : edge_removals[s] \subseteq Nat \X Nat

\* The slots staged in place of the graph's.
ReplacementsInv ==
  /\ DOMAIN property_replacements \subseteq PropertySlots
  /\ \A s \in DOMAIN property_replacements : PropertySlotKept(property_replacements[s], s, Standing)
  /\ DOMAIN edge_replacements \subseteq EdgeSlots
  /\ \A s \in DOMAIN edge_replacements : EdgeSlotKept(edge_replacements[s], s, Standing)

\* What new nodes bring, once they are staged.
WithNewNodes == pc \in {"new edges", "staged"}
AppendsInv ==
  /\ DOMAIN property_appends \subseteq PropertySlots
  /\ WithNewNodes =>
       /\ \A s \in PropertySlots : PropertySlotKept(CommittedProperties[s], s, Coming)
       /\ \A s \in DOMAIN property_appends :
            AppendFits(Replaced(properties, property_replacements, s), property_appends[s])
RemapperInv ==
  /\ node_remapper \in Seq(RawNodeId)
  /\ WithNewNodes =>
       /\ Len(node_remapper) = Len(diff[current].new_nodes)
       /\ \A i \in 1 .. Len(node_remapper) :
            /\ KindOf(node_remapper[i]) = diff[current].new_nodes[i].kind
            /\ Named(node_remapper[i], Coming)

\* What new edges bring.
HalvesKept(halves, s) ==
  /\ HalvesFit(halves, Coming[SlotNodeKind(s)])
  /\ \A j \in 1 .. Len(halves) : Named(halves[j].neighbor, Coming)
HalvesInv ==
  /\ DOMAIN edge_halves = EdgeSlots
  /\ WithNewNodes => \A s \in EdgeSlots : HalvesKept(edge_halves[s], s)
  /\ ~ WithNewNodes => \A s \in EdgeSlots : edge_halves[s] = <<>>
InsertsInv ==
  /\ DOMAIN edge_inserts \subseteq EdgeSlots
  /\ pc = "staged" =>
       /\ \A s \in EdgeSlots : EdgeSlotKept(CommittedEdges[s], s, Coming)
       /\ \A s \in DOMAIN edge_inserts :
            BatchesFit(Replaced(edges, edge_replacements, s), edge_inserts[s])

StagedInv ==
  ChangesInv /\ ReplacementsInv /\ AppendsInv /\ RemapperInv /\ HalvesInv /\ InsertsInv
IInv == ClientInv /\ ControlInv /\ GraphInv /\ StagedInv

(***************************************************************************)
(* What the parts say, for the provers                                     *)
(***************************************************************************)
LEMMA Bounds == MaxOperations \in Nat /\ MaxCommits \in Nat
BY InputAssumption

\* How many nodes there are and will be.
LEMMA Counts ==
  ASSUME GraphInv, ClientInv, current \in Diffs
  PROVE  /\ \A k \in NodeKinds : nodes[k] \in Seq(BOOLEAN) /\ Len(nodes[k]) \in Nat
         /\ \A k \in NodeKinds : Standing[k] \in Nat /\ Standing[k] = Len(nodes[k])
         /\ \A k \in NodeKinds : /\ NewCount(k) \in Nat /\ Within(NewOfKind(k), Len(diff[current].new_nodes))
                                 /\ Coming[k] \in Nat /\ Coming[k] = Standing[k] + NewCount(k)
         /\ diff[current].new_nodes \in Seq(NewNodeInputs) /\ Len(diff[current].new_nodes) \in Nat
<1>1. \A k \in NodeKinds : nodes[k] \in Seq(BOOLEAN) /\ Len(nodes[k]) \in Nat
  BY DEF GraphInv
<1>2. \A k \in NodeKinds : Standing[k] \in Nat /\ Standing[k] = Len(nodes[k])
  BY <1>1 DEF Standing
<1>3. diff[current].new_nodes \in Seq(NewNodeInputs) /\ Len(diff[current].new_nodes) \in Nat
  <2>1. diff[current] \in Diff
    BY DEF ClientInv
  <2> QED BY <2>1 DEF Diff
<1>4. ASSUME NEW k \in NodeKinds
      PROVE  NewCount(k) \in Nat /\ Within(NewOfKind(k), Len(diff[current].new_nodes))
  <2>1. Within(NewOfKind(k), Len(diff[current].new_nodes))
    BY <1>3 DEF NewOfKind, Within
  <2> QED BY <1>3, <2>1, PositionsFinite DEF NewCount
<1> QED BY <1>1, <1>2, <1>3, <1>4 DEF Coming

\* A queue that starts empty fits.
LEMMA EmptyFits == EmptyDiff \in Diff /\ Len(EmptyDiff.new_edges) = 0 /\ Len(EmptyDiff.changes) = 0
                   /\ Len(EmptyDiff.new_nodes) = 0
BY DEF EmptyDiff, Diff

\* Nothing is staged at first, and once it is released.
NothingStaged ==
  /\ pc = "idle" /\ strings_baseline = 0 /\ node_tombstones = {}
  /\ property_updates = [s \in PropertySlots |-> NoFunction]
  /\ edge_removals = [s \in EdgeSlots |-> {}]
  /\ property_replacements = NoFunction /\ edge_replacements = NoFunction
  /\ property_appends = NoFunction /\ node_remapper = <<>>
  /\ edge_halves = [s \in EdgeSlots |-> <<>>] /\ edge_inserts = NoFunction
\* Where nothing is staged there is nothing to keep.
LEMMA NothingStagedFits == GraphInv /\ NothingStaged => StagedInv
<1> SUFFICES ASSUME GraphInv, NothingStaged PROVE StagedInv
  OBVIOUS
<1> USE DEF NothingStaged
<1>1. DOMAIN NoFunction = {}
  BY DEF NoFunction
<1>2. ChangesInv
  BY <1>1 DEF ChangesInv, GraphInv, UpdatesTyped
<1>3. ReplacementsInv
  BY <1>1 DEF ReplacementsInv
<1>4. AppendsInv /\ RemapperInv /\ HalvesInv /\ InsertsInv
  BY <1>1 DEF AppendsInv, RemapperInv, HalvesInv, InsertsInv, WithNewNodes
<1> QED BY <1>2, <1>3, <1>4 DEF StagedInv

\* A graph that passes check_slots has what GraphInv asks.
LEMMA SlotsOfSeed ==
  ASSUME NEW g \in Graph, CheckSlots(g) = Ok
  PROVE  /\ \A s \in EdgeSlots : EdgeSlotKept(g.edges[s], s, Counted(g))
         /\ \A s \in PropertySlots : PropertySlotKept(g.properties[s], s, Counted(g))
<1>1. \A k \in NodeKinds : Counted(g)[k] = Len(g.nodes[k]) /\ Len(g.nodes[k]) \in Nat
  <2>1. g.nodes \in [NodeKinds -> Seq(BOOLEAN)]
    BY DEF Graph
  <2> QED BY <2>1 DEF Counted
<1>2. /\ \A s \in PropertySlots : check_property_slot(g, s) = Ok
      /\ \A s \in EdgeSlots : check_edge_slot(g, s) = Ok
  BY SlotsCheck
<1>3. ASSUME NEW s \in EdgeSlots PROVE EdgeSlotKept(g.edges[s], s, Counted(g))
  <2>1. SlotNodeKind(s) \in NodeKinds
    BY SlotKinds
  <2> QED BY <1>1, <1>2, <2>1, EdgeSlotCheck DEF EdgeSlotKept
<1>4. ASSUME NEW s \in PropertySlots PROVE PropertySlotKept(g.properties[s], s, Counted(g))
  <2>1. SlotNodeKind(s) \in NodeKinds /\ NodeProperty[SlotPropertyKind(s)].typ # "None"
    BY SlotKinds, NodePropertyAssumption
  <2> QED BY <1>1, <1>2, <2>1, PropertySlotCheck DEF PropertySlotKept
<1> QED BY <1>3, <1>4

\* Each seed passes the integrity checker, which asks of a slot what the invariant does.
LEMMA InitIInv == Init => IInv
<1> SUFFICES ASSUME Init PROVE IInv
  OBVIOUS
<1>1. GraphInv
  <2>1. PICK g \in Seeds : nodes = g.nodes /\ edges = g.edges /\ properties = g.properties
                           /\ strings = g.strings
    BY DEF Init
  <2>2. g \in Graph /\ CheckSlots(g) = Ok
    BY InputAssumption DEF check_integrity, Both
  <2>3. Standing = Counted(g)
    BY <2>1 DEF Standing, Counted
  <2>4. /\ nodes \in [NodeKinds -> Seq(BOOLEAN)] /\ strings \in Seq(Texts)
        /\ edges \in [EdgeSlots -> EdgeStorageSlot] /\ properties \in [PropertySlots -> PropertyStorageSlot]
    BY <2>1, <2>2 DEF Graph
  <2> QED BY <2>1, <2>2, <2>3, <2>4, SlotsOfSeed DEF GraphInv
<1>2. (CHOOSE d \in Diffs : TRUE) \in Diffs
  BY InputAssumption
<1>3. ClientInv
  <2>1. diff = [d \in Diffs |-> EmptyDiff] /\ pinned = [d \in Diffs |-> 0] /\ version = 0
    BY DEF Init
  <2>2. \A d \in Diffs : QueueFits(d)
    <3>1. MaxOperations \in Nat
      BY Bounds
    <3>2. \A d \in Diffs : diff[d] = EmptyDiff /\ pinned[d] = version /\ version \in Nat
      BY <2>1
    <3>3. ASSUME NEW d \in Diffs PROVE QueueFits(d)
      <4>1. diff[d] = EmptyDiff
        BY <3>2
      <4>2. /\ Len(diff[d].new_nodes) = 0 /\ Len(diff[d].new_edges) = 0
            /\ Len(diff[d].changes) = 0
        BY <4>1, EmptyFits
      <4>3. Operations(d) = 0 /\ Len(diff[d].new_edges) = 0 /\ Len(diff[d].changes) = 0
        BY <4>2 DEF Operations
      <4>4. Operations(d) <= MaxOperations /\ pinned[d] <= version
        BY <3>1, <3>2, <4>3
      <4>5. 1 .. 0 = {}
        OBVIOUS
      <4> QED BY <4>3, <4>4, <4>5 DEF QueueFits, WellQueued
    <3> QED BY <3>3
  <2>3. diff \in [Diffs -> Diff] /\ pinned \in [Diffs -> Nat]
    BY <2>1, EmptyFits
  <2> QED BY <2>1, <2>2, <2>3, InputAssumption DEF ClientInv
<1>4. ControlInv
  BY <1>2, InputAssumption DEF Init, ControlInv
<1>5. StagedInv
  BY <1>1, NothingStagedFits DEF Init, NothingStaged
<1> QED BY <1>1, <1>3, <1>4, <1>5 DEF IInv

(***************************************************************************)
(* What a step leaves alone                                                *)
(***************************************************************************)
LEMMA ClientUnchanged == ClientInv /\ UNCHANGED client_vars => ClientInv'
BY DEF ClientInv, client_vars, QueueFits, Operations

\* A step that leaves the graph alone leaves it well-formed.
LEMMA GraphUnchanged == GraphInv /\ UNCHANGED graph_vars => GraphInv'
BY DEF GraphInv, graph_vars, Standing

\* More texts do not disturb the graph.
LEMMA GraphInterned ==
  GraphInv /\ UNCHANGED <<nodes, edges, properties>> /\ strings' \in Seq(Texts) => GraphInv'
BY DEF GraphInv, Standing

\* So it is with what the changes were classified into.
LEMMA ChangesUnchanged ==
  ChangesInv
  /\ UNCHANGED <<nodes, strings, strings_baseline, node_tombstones, property_updates, edge_removals>>
    => ChangesInv'
BY DEF ChangesInv, Standing

\* So with the slots staged in place of stored ones.
LEMMA ReplacementsUnchanged ==
  ReplacementsInv /\ UNCHANGED <<nodes, property_replacements, edge_replacements>> => ReplacementsInv'
BY DEF ReplacementsInv, Standing

\* So with the values of new nodes, unless they only now come to count.
LEMMA AppendsUnchanged ==
  AppendsInv /\ (WithNewNodes' => WithNewNodes)
  /\ UNCHANGED <<nodes, properties, diff, current, property_replacements, property_appends>>
    => AppendsInv'
BY DEF AppendsInv, Coming, NewCount, NewOfKind, CommittedProperties, Replaced

\* So with the ids of new nodes.
LEMMA RemapperUnchanged ==
  RemapperInv /\ (WithNewNodes' => WithNewNodes) /\ UNCHANGED <<nodes, diff, current, node_remapper>>
    => RemapperInv'
BY DEF RemapperInv, Coming, NewCount, NewOfKind

\* So with the halves of new edges.
LEMMA HalvesUnchanged ==
  HalvesInv /\ (WithNewNodes' <=> WithNewNodes) /\ UNCHANGED <<nodes, diff, current, edge_halves>>
    => HalvesInv'
BY DEF HalvesInv, HalvesKept, Coming, NewCount, NewOfKind

\* So with the slots those are merged into.
LEMMA InsertsUnchanged ==
  InsertsInv /\ pc' # "staged" /\ UNCHANGED edge_inserts => InsertsInv'
BY DEF InsertsInv

\* A step that only queues, or runs through changes, stages nothing for the commit.
LEMMA EarlyKeeps ==
  StagedInv /\ ChangesInv' /\ ~ WithNewNodes /\ ~ WithNewNodes'
  /\ UNCHANGED <<nodes, property_replacements, edge_replacements, property_appends, node_remapper,
                 edge_halves, edge_inserts>>
    => StagedInv'
<1> SUFFICES ASSUME StagedInv, ChangesInv', ~ WithNewNodes, ~ WithNewNodes',
                    UNCHANGED <<nodes, property_replacements, edge_replacements, property_appends,
                                node_remapper, edge_halves, edge_inserts>>
             PROVE  StagedInv'
  OBVIOUS
<1>1. ReplacementsInv'
  BY ReplacementsUnchanged DEF StagedInv
<1>2. AppendsInv' /\ RemapperInv' /\ HalvesInv'
  BY DEF StagedInv, AppendsInv, RemapperInv, HalvesInv
<1>3. InsertsInv'
  BY DEF StagedInv, InsertsInv, WithNewNodes
<1> QED BY <1>1, <1>2, <1>3 DEF StagedInv

\* Cutting the pool back to what it was leaves a pool.
LEMMA TruncateIsPool ==
  ASSUME NEW S, NEW pool \in Seq(S), NEW len \in 0 .. Len(pool)
  PROVE  /\ truncate(pool, len) \in Seq(S) /\ Len(truncate(pool, len)) = len
         /\ \A i \in 1 .. len : truncate(pool, len)[i] = pool[i]
<1>1. CASE len = Len(pool)
  BY <1>1 DEF truncate
<1>2. CASE len < Len(pool)
  <2>1. truncate(pool, len) = SubSeq(pool, 1, len)
    BY <1>2 DEF truncate
  <2>2. /\ SubSeq(pool, 1, len) \in Seq(S) /\ Len(SubSeq(pool, 1, len)) = len
        /\ \A i \in 1 .. len : SubSeq(pool, 1, len)[i] = pool[i]
    BY <1>2, SubSeqProperties
  <2> QED BY <2>1, <2>2
<1> QED BY <1>1, <1>2

\* What is left when a StagedDiff is dropped or a step of prepare fails.
LEMMA ReleaseClears == Release => NothingStaged'
BY DEF Release, NothingStaged

\* A roll back cuts the pool where prepare found it, so that the stored graph is as it
\* was.
LEMMA RollBackKeeps == ASSUME IInv, NEW outcome, RollBack(outcome) PROVE IInv'
<1>1. GraphInv'
  <2>1. strings \in Seq(Texts) /\ strings_baseline \in 0 .. Len(strings)
    BY DEF IInv, GraphInv, StagedInv, ChangesInv
  <2>2. strings' \in Seq(Texts)
    BY <2>1, TruncateIsPool DEF RollBack
  <2> QED BY <2>2, GraphInterned DEF IInv, RollBack
<1>2. StagedInv'
  <2>1. NothingStaged'
    BY ReleaseClears DEF RollBack
  <2>2. (GraphInv /\ NothingStaged => StagedInv)'
    BY NothingStagedFits, PTL
  <2> QED BY <1>1, <2>1, <2>2
<1>3. ClientInv'
  BY ClientUnchanged DEF IInv, RollBack
<1>4. ControlInv'
  <2>1. pc' = "idle" /\ cursor' = 1 /\ current' = current
    BY DEF RollBack, Release
  <2>2. 1 \in 1 .. MaxOperations + 1
    BY Bounds
  <2> QED BY <2>1, <2>2 DEF IInv, ControlInv
<1> QED BY <1>1, <1>2, <1>3, <1>4 DEF IInv

(***************************************************************************)
(* Queueing                                                                *)
(***************************************************************************)
OperationsOf(queued) == Len(queued.new_nodes) + Len(queued.new_edges) + Len(queued.changes)

\* A diff's queues have lengths.
LEMMA DiffLengths ==
  ASSUME NEW q \in Diff
  PROVE  Len(q.new_nodes) \in Nat /\ Len(q.new_edges) \in Nat /\ Len(q.changes) \in Nat
BY DEF Diff

\* A queue is no longer than all a diff's operations.
LEMMA OperationsCounted ==
  ASSUME NEW q \in Diff
  PROVE  /\ OperationsOf(q) \in Nat
         /\ Len(q.new_edges) <= OperationsOf(q) /\ Len(q.changes) <= OperationsOf(q)
<1> DEFINE n == q.new_nodes
           e == q.new_edges
           c == q.changes
<1>1. OperationsOf(q) = Len(n) + Len(e) + Len(c)
  BY Zenon DEF OperationsOf
<1>2. Len(n) \in Nat /\ Len(e) \in Nat /\ Len(c) \in Nat
  BY DiffLengths
<1> HIDE DEF n, e, c
<1>3. OperationsOf(q) \in Nat /\ Len(e) <= OperationsOf(q) /\ Len(c) <= OperationsOf(q)
  BY <1>1, <1>2
<1> QED BY <1>3 DEF e, c

\* One list of a queue is longer by one, and the others are as they were.
LEMMA OperationAdded ==
  ASSUME NEW q \in Diff, NEW p \in Diff,
         \/ /\ Len(p.new_nodes) = Len(q.new_nodes) + 1
            /\ Len(p.new_edges) = Len(q.new_edges) /\ Len(p.changes) = Len(q.changes)
         \/ /\ Len(p.new_edges) = Len(q.new_edges) + 1
            /\ Len(p.new_nodes) = Len(q.new_nodes) /\ Len(p.changes) = Len(q.changes)
         \/ /\ Len(p.changes) = Len(q.changes) + 1
            /\ Len(p.new_nodes) = Len(q.new_nodes) /\ Len(p.new_edges) = Len(q.new_edges)
  PROVE  OperationsOf(p) = OperationsOf(q) + 1
<1> DEFINE n == q.new_nodes
           e == q.new_edges
           c == q.changes
           pn == p.new_nodes
           pe == p.new_edges
           changed == p.changes
<1>1. OperationsOf(q) = Len(n) + Len(e) + Len(c) /\ OperationsOf(p) = Len(pn) + Len(pe) + Len(changed)
  BY Zenon DEF OperationsOf
<1>2. Len(n) \in Nat /\ Len(e) \in Nat /\ Len(c) \in Nat
  BY DiffLengths
<1> HIDE DEF n, e, c, pn, pe, changed
<1>3. \/ Len(pn) = Len(n) + 1 /\ Len(pe) = Len(e) /\ Len(changed) = Len(c)
      \/ Len(pe) = Len(e) + 1 /\ Len(pn) = Len(n) /\ Len(changed) = Len(c)
      \/ Len(changed) = Len(c) + 1 /\ Len(pn) = Len(n) /\ Len(pe) = Len(e)
  BY Zenon DEF n, e, c, pn, pe, changed
<1> QED BY <1>1, <1>2, <1>3, SMTT(30)

\* Queueing in a diff, or emptying it, while nothing is staged.
LEMMA ClientStepKeeps ==
  ASSUME IInv, pc = "idle", NEW d \in Diffs, NEW queued \in Diff, WellQueued(queued),
         diff' = [diff EXCEPT ![d] = queued], OperationsOf(queued) <= MaxOperations,
         pinned' \in [Diffs -> Nat], \A e \in Diffs : pinned'[e] <= version,
         UNCHANGED <<graph_vars, staged_vars, version, pc, current, cursor>>
  PROVE  IInv'
<1>1. diff' \in [Diffs -> Diff] /\ \A e \in Diffs : diff'[e] = IF e = d THEN queued ELSE diff[e]
  BY DEF IInv, ClientInv
<1>2. ClientInv'
  <2>1. \A e \in Diffs : QueueFits(e)'
    <3> TAKE e \in Diffs
    <3>1. CASE e = d
      BY <1>1, <3>1 DEF QueueFits, Operations, OperationsOf
    <3>2. CASE e # d
      BY <1>1, <3>2 DEF QueueFits, Operations, IInv, ClientInv
    <3> QED BY <3>1, <3>2
  <2> QED BY <1>1, <2>1 DEF IInv, ClientInv
<1>3. GraphInv'
  BY GraphUnchanged DEF IInv
<1>4. StagedInv'
  <2>1. ChangesInv'
    BY ChangesUnchanged DEF IInv, StagedInv, graph_vars, staged_vars
  <2>2. ~ WithNewNodes /\ ~ WithNewNodes'
    BY DEF WithNewNodes
  <2> QED BY <2>1, <2>2, EarlyKeeps DEF IInv, graph_vars, staged_vars
<1>5. ControlInv'
  BY DEF IInv, ControlInv
<1> QED BY <1>2, <1>3, <1>4, <1>5 DEF IInv

\* One more operation, on a diff that has room for it.
LEMMA QueueKeeps ==
  ASSUME IInv, NEW d \in Diffs, NEW queued \in Diff, WellQueued(queued), Queue(d, queued),
         OperationsOf(queued) = OperationsOf(diff[d]) + 1
  PROVE  IInv'
<1>1. OperationsOf(queued) <= MaxOperations
  <2>1. OperationsOf(diff[d]) < MaxOperations
    BY DEF Queue, Operations, OperationsOf
  <2>2. OperationsOf(diff[d]) \in Nat
    <3>1. diff[d] \in Diff
      BY DEF IInv, ClientInv
    <3> QED BY <3>1, OperationsCounted
  <2> QED BY <2>1, <2>2, Bounds
<1>2. pinned' \in [Diffs -> Nat] /\ \A e \in Diffs : pinned'[e] <= version
  <2>1. version \in Nat /\ pinned \in [Diffs -> Nat] /\ \A e \in Diffs : pinned[e] <= version
    BY DEF IInv, ClientInv, QueueFits
  <2>2. pinned' = [pinned EXCEPT ![d] = IF diff[d] = EmptyDiff THEN version ELSE @]
    BY DEF Queue
  <2> QED BY <2>1, <2>2
<1> QED BY <1>1, <1>2, ClientStepKeeps DEF Queue

\* What one operation adds to a queue.
LEMMA DiffParts ==
  ASSUME NEW q \in Diff
  PROVE  /\ q.new_nodes \in Seq(NewNodeInputs) /\ q.new_edges \in Seq(QueuedEdge)
         /\ q.changes \in Seq(QueuedChange)
         /\ \A s \in Seq(NewNodeInputs) : [q EXCEPT !.new_nodes = s] \in Diff
         /\ \A s \in Seq(QueuedEdge) : [q EXCEPT !.new_edges = s] \in Diff
         /\ \A s \in Seq(QueuedChange) : [q EXCEPT !.changes = s] \in Diff
BY DEF Diff

\* A sequence with one more item.
LEMMA OneMore ==
  ASSUME NEW S, NEW s \in Seq(S), NEW x \in S
  PROVE  /\ Append(s, x) \in Seq(S) /\ Len(Append(s, x)) = Len(s) + 1
         /\ \A i \in 1 .. Len(Append(s, x)) : Append(s, x)[i] = x \/ (i \in 1 .. Len(s) /\ Append(s, x)[i] = s[i])
BY AppendProperties

\* A diff with a new node queued, or an edge, or a change: add_node, add_edge, and the
\* rest.
LEMMA NodeQueued ==
  ASSUME NEW q \in Diff, WellQueued(q), NEW n \in NewNodeInputs
  PROVE  LET queued == [q EXCEPT !.new_nodes = Append(@, n)]
         IN  queued \in Diff /\ WellQueued(queued) /\ OperationsOf(queued) = OperationsOf(q) + 1
<1> DEFINE queued == [q EXCEPT !.new_nodes = Append(@, n)]
<1>1. Append(q.new_nodes, n) \in Seq(NewNodeInputs) /\ Len(Append(q.new_nodes, n)) = Len(q.new_nodes) + 1
  BY DiffParts, OneMore
<1>2. /\ queued.new_nodes = Append(q.new_nodes, n) /\ queued.new_edges = q.new_edges
      /\ queued.changes = q.changes
  BY DEF Diff
<1>3. queued \in Diff
  BY <1>1, DiffParts
<1> HIDE DEF queued
<1>4. WellQueued(queued)
  BY <1>2 DEF WellQueued
<1>5. OperationsOf(queued) = OperationsOf(q) + 1
  BY <1>1, <1>2, <1>3, OperationAdded
<1> QED BY <1>3, <1>4, <1>5 DEF queued

\* A new edge names nodes queued so far, or any there are.
LEMMA EdgeIsQueued ==
  ASSUME NEW q \in Diff, WellQueued(q), NEW e \in QueuedEdge, EdgeQueued(e)
  PROVE  LET queued == [q EXCEPT !.new_edges = Append(@, e)]
         IN  queued \in Diff /\ WellQueued(queued) /\ OperationsOf(queued) = OperationsOf(q) + 1
<1> DEFINE queued == [q EXCEPT !.new_edges = Append(@, e)]
<1>1. /\ Append(q.new_edges, e) \in Seq(QueuedEdge)
      /\ Len(Append(q.new_edges, e)) = Len(q.new_edges) + 1
      /\ \A i \in 1 .. Len(Append(q.new_edges, e)) :
           Append(q.new_edges, e)[i] = e
           \/ (i \in 1 .. Len(q.new_edges) /\ Append(q.new_edges, e)[i] = q.new_edges[i])
  BY DiffParts, OneMore
<1>2. /\ queued.new_edges = Append(q.new_edges, e) /\ queued.new_nodes = q.new_nodes
      /\ queued.changes = q.changes
  BY DEF Diff
<1>3. queued \in Diff
  BY <1>1, DiffParts
<1> HIDE DEF queued
<1>4. WellQueued(queued)
  BY <1>1, <1>2 DEF WellQueued
<1>5. OperationsOf(queued) = OperationsOf(q) + 1
  BY <1>1, <1>2, <1>3, OperationAdded
<1> QED BY <1>3, <1>4, <1>5 DEF queued

\* A change of an edge names kinds the schema has.
LEMMA ChangeIsQueued ==
  ASSUME NEW q \in Diff, WellQueued(q), NEW c \in QueuedChange, ChangeQueued(c)
  PROVE  LET queued == [q EXCEPT !.changes = Append(@, c)]
         IN  queued \in Diff /\ WellQueued(queued) /\ OperationsOf(queued) = OperationsOf(q) + 1
<1> DEFINE queued == [q EXCEPT !.changes = Append(@, c)]
<1>1. /\ Append(q.changes, c) \in Seq(QueuedChange)
      /\ Len(Append(q.changes, c)) = Len(q.changes) + 1
      /\ \A i \in 1 .. Len(Append(q.changes, c)) :
           Append(q.changes, c)[i] = c
           \/ (i \in 1 .. Len(q.changes) /\ Append(q.changes, c)[i] = q.changes[i])
  BY DiffParts, OneMore
<1>2. /\ queued.changes = Append(q.changes, c) /\ queued.new_nodes = q.new_nodes
      /\ queued.new_edges = q.new_edges
  BY DEF Diff
<1>3. queued \in Diff
  BY <1>1, DiffParts
<1> HIDE DEF queued
<1>4. WellQueued(queued)
  BY <1>1, <1>2 DEF WellQueued
<1>5. OperationsOf(queued) = OperationsOf(q) + 1
  BY <1>1, <1>2, <1>3, OperationAdded
<1> QED BY <1>3, <1>4, <1>5 DEF queued

\* Every edge id the graph gives out names kinds of the schema, and the half it is.
LEMMA EdgeIdsResolve ==
  ASSUME GraphInv, NEW id \in EdgeIds(graph)
  PROVE  /\ id \in EdgeId /\ id.kind \in EdgeKinds
         /\ ResolvesNodeKind(id.src) /\ ResolvesNodeKind(id.dst)
<1>1. PICK node \in NodeIds(graph), kind \in EdgeKinds, direction \in Directions :
        id \in get_edges_with_deleted(graph, node, kind, direction)
  BY DEF EdgeIds
<1>2. node \in RawNodeId /\ KindOf(node) \in NodeKinds
  <2>1. PICK k \in NodeKinds : \E s \in 0 .. Len(graph.nodes[k]) - 1 : node = <<k, s>>
    BY <1>1 DEF NodeIds
  <2>2. PICK s \in 0 .. Len(graph.nodes[k]) - 1 : node = <<k, s>>
    BY <2>1
  <2>3. k \in Nat /\ s \in Nat
    BY <2>1 DEF NodeKinds
  <2> QED BY <2>1, <2>2, <2>3 DEF RawNodeId, KindOf
<1> DEFINE slot == edges[edge_storage_slot(KindOf(node), direction, kind)]
<1>3. EdgeSlotOf(graph, node, kind, direction) = slot
  BY DEF EdgeSlotOf, graph
<1>4. slot \in EdgeStorageSlot /\ AllNamed(slot.neighbors, Standing)
  BY <1>2, EdgeSlotOfKinds DEF GraphInv, EdgeSlotKept, EdgeSlotSound
<1>5. slot.neighbors \in Seq(RawNodeId) /\ slot.offsets \in Seq(0 .. MaxOffset)
  BY <1>4 DEF EdgeStorageSlot
<1> HIDE DEF slot
<1>6. PICK range \in get_edges_offset(slot, node) :
        \E i \in DOMAIN get_neighbors(slot, range[1], range[2]) :
          id = from_half(node, get_neighbors(slot, range[1], range[2])[i], kind, direction, i - 1)
  BY <1>1, <1>3 DEF get_edges_with_deleted
<1>7. range[1] \in Nat /\ range[2] \in Nat
  <2>1. SeqOf(node) \in Nat
    BY <1>2 DEF RawNodeId, SeqOf
  <2>2. CASE slot.offsets = <<>>
    BY <1>6, <2>2 DEF get_edges_offset
  <2>3. CASE slot.offsets # <<>>
    <3>1. HasOffset(slot, SeqOf(node)) /\ range = <<Start(slot, SeqOf(node)), End(slot, SeqOf(node))>>
      BY <1>6, <2>3 DEF get_edges_offset, Nothing
    <3>2. SeqOf(node) + 1 \in 1 .. Len(slot.offsets) /\ SeqOf(node) + 2 \in 1 .. Len(slot.offsets)
      BY <1>5, <2>1, <3>1 DEF HasOffset
    <3>3. slot.offsets[SeqOf(node) + 1] \in Nat /\ slot.offsets[SeqOf(node) + 2] \in Nat
      BY <1>5, <3>2, StorageAssumption
    <3> QED BY <3>1, <3>3 DEF Start, End
  <2> QED BY <2>2, <2>3
<1>8. PICK i \in DOMAIN get_neighbors(slot, range[1], range[2]) :
        id = from_half(node, get_neighbors(slot, range[1], range[2])[i], kind, direction, i - 1)
  BY <1>6
<1> DEFINE neighbor == get_neighbors(slot, range[1], range[2])[i]
<1>9. neighbor \in RawNodeId /\ KindOf(neighbor) \in NodeKinds /\ i - 1 \in Nat
  <2>1. range[1] + i \in 1 .. Len(slot.neighbors) /\ neighbor = slot.neighbors[range[1] + i] /\ i - 1 \in Nat
    BY <1>5, <1>7, <1>8, RunItems
  <2> QED BY <1>4, <1>5, <2>1 DEF AllNamed, Named
<1> HIDE DEF neighbor
<1>10. id = from_half(node, neighbor, kind, direction, i - 1)
  BY <1>8 DEF neighbor
<1>11. kind \in Nat
  BY <1>1 DEF EdgeKinds
<1> QED BY <1>1, <1>2, <1>9, <1>10, <1>11 DEF from_half, EdgeId, ResolvesNodeKind

\* The steps of a caller keep the invariant.
LEMMA ClientKeeps ==
  ASSUME IInv, NEW d \in Diffs,
         \/ add_node(d) \/ add_edge(d) \/ remove_node(d) \/ update_node_property(d)
         \/ remove_edge(d) \/ DropDiff(d)
  PROVE  IInv'
<1>1. diff[d] \in Diff /\ WellQueued(diff[d])
  BY DEF IInv, ClientInv, QueueFits
<1>2. CASE add_node(d)
  <2>1. PICK n \in NewNodeInputs : Queue(d, [diff[d] EXCEPT !.new_nodes = Append(@, n)])
    BY <1>2 DEF add_node
  <2> QED BY <1>1, <2>1, NodeQueued, QueueKeeps
<1>3. CASE add_edge(d)
  <2>1. PICK src \in NodeRefs(d), dst \in NodeRefs(d), kind \in EdgeKinds, property \in EdgeProps :
          Queue(d, [diff[d] EXCEPT !.new_edges =
                      Append(@, [src |-> src, dst |-> dst, kind |-> kind, property |-> property])])
    BY <1>3 DEF add_edge
  <2> DEFINE e == [src |-> src, dst |-> dst, kind |-> kind, property |-> property]
  <2>2. NodeRefs(d) \subseteq NewOrExistingNode
    BY InputAssumption DEF NodeRefs, NewOrExistingNode, New, Existing
  <2>3. property \subseteq PropertyValue /\ \A p, q \in property : p = q
    BY <2>1, InputAssumption
  <2>4. e \in QueuedEdge /\ EdgeQueued(e)
    BY <2>1, <2>2, <2>3 DEF QueuedEdge, EdgeQueued
  <2> HIDE DEF e
  <2>5. Queue(d, [diff[d] EXCEPT !.new_edges = Append(@, e)])
    BY <2>1 DEF e
  <2> QED BY <1>1, <2>4, <2>5, EdgeIsQueued, QueueKeeps
<1>4. ASSUME NEW c \in QueuedChange, ChangeQueued(c),
             Queue(d, [diff[d] EXCEPT !.changes = Append(@, c)])
      PROVE  IInv'
  BY <1>1, <1>4, ChangeIsQueued, QueueKeeps
<1>5. CASE remove_node(d)
  <2>1. PICK node \in RemovedNodes :
          Queue(d, [diff[d] EXCEPT !.changes = Append(@, [change |-> "RemoveNode", node |-> node])])
    BY <1>5 DEF remove_node
  <2>2. [change |-> "RemoveNode", node |-> node] \in QueuedChange
    BY <2>1, InputAssumption DEF QueuedChange
  <2>3. ChangeQueued([change |-> "RemoveNode", node |-> node])
    BY DEF ChangeQueued
  <2> QED BY <2>1, <2>2, <2>3, <1>4
<1>6. CASE update_node_property(d)
  <2>1. PICK u \in UpdateInputs :
          Queue(d, [diff[d] EXCEPT !.changes =
                      Append(@, [change |-> "UpdateNodeProperty",
                                 node |-> u[1], property |-> u[2], values |-> u[3]])])
    BY <1>6 DEF update_node_property
  <2> DEFINE c == [change |-> "UpdateNodeProperty", node |-> u[1], property |-> u[2], values |-> u[3]]
  <2>2. u[1] \in RawNodeId /\ u[2] \in PropertyKinds /\ u[3] \in Seq(PropertyValue)
    BY <2>1, InputAssumption
  <2>3. c \in QueuedChange /\ ChangeQueued(c)
    BY <2>2 DEF QueuedChange, ChangeQueued
  <2> QED BY <2>1, <2>3, <1>4
<1>7. CASE remove_edge(d)
  <2>1. PICK id \in EdgeIds(graph) \cup StrayIds :
          Queue(d, [diff[d] EXCEPT !.changes = Append(@, [change |-> "RemoveEdge", edge |-> id])])
    BY <1>7 DEF remove_edge
  <2> DEFINE c == [change |-> "RemoveEdge", edge |-> id]
  <2>2. id \in EdgeId /\ id.kind \in EdgeKinds /\ ResolvesNodeKind(id.src) /\ ResolvesNodeKind(id.dst)
    <3>1. CASE id \in EdgeIds(graph)
      BY <3>1, EdgeIdsResolve DEF IInv
    <3>2. CASE id \in StrayIds
      BY <3>2, InputAssumption
    <3> QED BY <2>1, <3>1, <3>2
  <2>3. c \in QueuedChange /\ ChangeQueued(c)
    BY <2>2 DEF QueuedChange, ChangeQueued
  <2> QED BY <2>1, <2>3, <1>4
<1>8. CASE DropDiff(d)
  <2>1. OperationsOf(EmptyDiff) <= MaxOperations /\ WellQueued(EmptyDiff) /\ EmptyDiff \in Diff
    <3>1. OperationsOf(EmptyDiff) = 0
      BY EmptyFits DEF OperationsOf
    <3>2. 1 .. 0 = {}
      OBVIOUS
    <3>3. WellQueued(EmptyDiff)
      BY <3>2, EmptyFits DEF WellQueued
    <3> QED BY <3>1, <3>3, EmptyFits, Bounds
  <2>2. pinned' \in [Diffs -> Nat] /\ \A e \in Diffs : pinned'[e] <= version
    BY <1>8 DEF DropDiff, IInv, ClientInv, QueueFits
  <2> QED BY <1>8, <2>1, <2>2, ClientStepKeeps DEF DropDiff
<1> QED BY <1>2, <1>3, <1>5, <1>6, <1>7, <1>8

(***************************************************************************)
(* classify_changes                                                        *)
(***************************************************************************)
LEMMA BeginPrepareKeeps == ASSUME IInv, NEW d \in Diffs, BeginPrepare(d) PROVE IInv'
<1>1. ClientInv' /\ GraphInv'
  BY ClientUnchanged, GraphUnchanged DEF IInv, BeginPrepare
<1>2. ControlInv'
  <2>1. 1 \in 1 .. MaxOperations + 1
    BY Bounds
  <2>2. Len(diff[d].changes) \in Nat
    BY DiffLengths DEF IInv, ClientInv
  <2>3. /\ pc' = "changes" /\ current' = d /\ cursor' = 1 /\ version' = version /\ diff' = diff
        /\ version < MaxCommits
    BY DEF BeginPrepare, client_vars
  <2> QED BY <2>1, <2>2, <2>3 DEF ControlInv
<1>3. ChangesInv'
  <2>1. Len(strings) \in 0 .. Len(strings)
    BY DEF IInv, GraphInv
  <2> QED BY <2>1 DEF IInv, StagedInv, ChangesInv, Standing, BeginPrepare, graph_vars
<1>4. StagedInv'
  BY <1>3, EarlyKeeps DEF IInv, BeginPrepare, graph_vars, WithNewNodes
<1> QED BY <1>1, <1>2, <1>4 DEF IInv

\* To take the next change is to keep what earlier ones were classified into.
LEMMA NextChangeKeeps ==
  ASSUME IInv, pc = "changes", cursor <= Len(diff[current].changes), NextChange, ChangesInv'
  PROVE  IInv'
<1>1. ClientInv' /\ GraphInv'
  BY ClientUnchanged, GraphUnchanged DEF IInv, NextChange
<1>2. ControlInv'
  <2>1. current \in Diffs /\ cursor \in 1 .. MaxOperations + 1
    BY DEF IInv, ControlInv
  <2>2. diff[current] \in Diff /\ Operations(current) <= MaxOperations
    BY <2>1 DEF IInv, ClientInv, QueueFits
  <2>3. Operations(current) = OperationsOf(diff[current])
    BY DEF Operations, OperationsOf
  <2>4. Len(diff[current].changes) \in Nat /\ Len(diff[current].changes) <= MaxOperations
    BY <2>2, <2>3, OperationsCounted, DiffLengths, Bounds
  <2>5. /\ pc' = pc /\ current' = current /\ cursor' = cursor + 1 /\ version' = version
        /\ diff' = diff
    BY DEF NextChange, client_vars
  <2>6. cursor + 1 \in 1 .. MaxOperations + 1 /\ cursor + 1 <= Len(diff[current].changes) + 1
    BY <2>1, <2>4, Bounds
  <2>7. pc # "idle" => version < MaxCommits
    BY DEF IInv, ControlInv
  <2> QED BY <2>1, <2>5, <2>6, <2>7 DEF ControlInv
<1>3. StagedInv'
  BY EarlyKeeps DEF IInv, NextChange, graph_vars, WithNewNodes
<1> QED BY <1>1, <1>2, <1>3 DEF IInv

\* prepare is at a place of one of the diffs.
LEMMA AtCursor == ASSUME IInv PROVE current \in Diffs /\ cursor \in Nat /\ 1 <= cursor
<1>1. current \in Diffs /\ cursor \in 1 .. MaxOperations + 1
  BY DEF IInv, ControlInv
<1> QED BY <1>1, Bounds

\* The change prepare looks at.
LEMMA ChangeIs ==
  ASSUME IInv, pc = "changes", cursor <= Len(diff[current].changes)
  PROVE  Change \in QueuedChange /\ ChangeQueued(Change)
<1>1. current \in Diffs /\ cursor \in Nat /\ 1 <= cursor
  BY Bounds DEF IInv, ControlInv
<1>2. diff[current] \in Diff /\ WellQueued(diff[current])
  BY <1>1 DEF IInv, ClientInv, QueueFits
<1>3. diff[current].changes \in Seq(QueuedChange) /\ cursor \in 1 .. Len(diff[current].changes)
  BY <1>1, <1>2, DiffParts, DiffLengths
<1> QED BY <1>2, <1>3 DEF Change, WellQueued

\* remove_node leaves only tombstones.
LEMMA ClassifyRemoveNodeKeeps == ASSUME IInv, ClassifyRemoveNode PROVE IInv'
<1>1. CASE RollBack("UnresolvedNodeKind")
  BY <1>1, RollBackKeeps
<1>2. CASE /\ NextChange
           /\ node_tombstones' =
                IF Exists(Change.node) THEN node_tombstones \cup {Change.node} ELSE node_tombstones
           /\ UNCHANGED <<property_updates, edge_removals>>
  <2>1. Change \in QueuedChange /\ Change.change = "RemoveNode"
    BY ChangeIs DEF ClassifyRemoveNode, AtChange
  <2>2. Change.node \in RawNodeId
    BY <2>1 DEF QueuedChange
  <2>3. ChangesInv'
    BY <1>2, <2>2 DEF IInv, StagedInv, ChangesInv, Standing, NextChange, graph_vars
  <2> QED BY <1>2, <2>3, NextChangeKeeps DEF ClassifyRemoveNode, AtChange
<1> QED BY <1>1, <1>2 DEF ClassifyRemoveNode

\* update_node_property leaves updates of nodes that are there.
LEMMA ClassifyUpdateKeeps == ASSUME IInv, ClassifyUpdate PROVE IInv'
<1>1. CASE RollBack("UnresolvedNodeKind") \/ RollBack("NodeOffsetNotFound")
  BY <1>1, RollBackKeeps
<1> DEFINE slot == property_storage_slot(KindOf(Change.node), Change.property)
<1>2. CASE /\ ResolvesNodeKind(Change.node) /\ Exists(Change.node)
           /\ NextChange
           /\ property_updates' =
                [property_updates EXCEPT ![slot] = With(@, SeqOf(Change.node), Change.values)]
           /\ UNCHANGED <<node_tombstones, edge_removals>>
  <2>1. Change \in QueuedChange /\ Change.change = "UpdateNodeProperty"
    BY ChangeIs DEF ClassifyUpdate, AtChange
  <2>2. /\ Change.node \in RawNodeId /\ Change.property \in PropertyKinds
        /\ Change.values \in Seq(PropertyValue)
    BY <2>1 DEF QueuedChange
  <2>3. KindOf(Change.node) \in NodeKinds /\ SeqOf(Change.node) \in Nat
    BY <1>2, <2>2 DEF ResolvesNodeKind, RawNodeId, SeqOf
  <2>4. slot \in PropertySlots /\ SlotNodeKind(slot) = KindOf(Change.node)
    BY <2>2, <2>3, PropertySlotOfKinds
  <2>5. SeqOf(Change.node) \in 0 .. Standing[KindOf(Change.node)] - 1
    <3>1. /\ Len(nodes[KindOf(Change.node)]) \in Nat
          /\ Standing[KindOf(Change.node)] = Len(nodes[KindOf(Change.node)])
      BY <2>3 DEF IInv, GraphInv, Standing
    <3> QED BY <1>2, <2>3, <3>1 DEF Exists
  <2> HIDE DEF slot
  <2>6. ASSUME NEW s \in PropertySlots
        PROVE  UpdatesTyped(property_updates'[s], Standing[SlotNodeKind(s)])
    <3>1. DOMAIN property_updates = PropertySlots
          /\ UpdatesTyped(property_updates[s], Standing[SlotNodeKind(s)])
      BY DEF IInv, StagedInv, ChangesInv
    <3>2. CASE s # slot
      BY <1>2, <3>1, <3>2
    <3>3. CASE s = slot
      <4> DEFINE updates == property_updates[s]
                 seq == SeqOf(Change.node)
                 values == Change.values
      <4>1. property_updates'[s] = With(updates, seq, values)
        BY <1>2, <2>4, <3>1, <3>3
      <4>2. seq \in 0 .. Standing[SlotNodeKind(s)] - 1 /\ values \in Seq(PropertyValue)
        BY <2>2, <2>4, <2>5, <3>3
      <4>3. UpdatesTyped(updates, Standing[SlotNodeKind(s)])
        BY <3>1
      <4> HIDE DEF updates, seq, values
      <4>4. UpdatesTyped(With(updates, seq, values), Standing[SlotNodeKind(s)])
        BY <4>2, <4>3 DEF UpdatesTyped, With
      <4> QED BY <4>1, <4>4
    <3> QED BY <3>2, <3>3
  <2>7. DOMAIN property_updates' = PropertySlots
    BY <1>2 DEF IInv, StagedInv, ChangesInv
  <2>8. ChangesInv'
    <3>1. Standing' = Standing
      BY <1>2 DEF Standing, NextChange, graph_vars
    <3> QED BY <1>2, <2>6, <2>7, <3>1 DEF IInv, StagedInv, ChangesInv, NextChange, graph_vars
  <2> QED BY <1>2, <2>8, NextChangeKeeps DEF ClassifyUpdate, AtChange
<1> QED BY <1>1, <1>2 DEF ClassifyUpdate

\* The half that is claimed has a place in its node's run.
LEMMA ReverseIsPlace ==
  ASSUME NEW slot, NEW seq, NEW target, NEW claimed, NEW wanted
  PROVE  ReverseHalf(slot, seq, target, claimed, wanted) \subseteq Nat
<1> DEFINE run == get_neighbors(slot, Start(slot, seq), End(slot, seq))
           candidates == {l \in 0 .. Len(run) - 1 : run[l + 1] = target /\ l \notin claimed}
           matching == {l \in candidates : ValueKey(slot.values, Start(slot, seq) + l) \in wanted}
<1>1. candidates \subseteq Nat /\ matching \subseteq Nat
  OBVIOUS
<1>2. ReverseHalf(slot, seq, target, claimed, wanted) =
        IF matching # {} THEN {Lowest(matching)} ELSE IF candidates # {} THEN {Lowest(candidates)} ELSE {}
  BY DEF ReverseHalf
<1> HIDE DEF candidates, matching
<1> QED BY <1>1, <1>2, LowestIsLeast

\* remove_edge leaves removals from nodes that are there, or unwinds.
LEMMA ClassifyRemoveEdgeKeeps == ASSUME IInv, ClassifyRemoveEdge PROVE IInv'
<1> DEFINE id == Change.edge
           ends == orient_edge(id.dir, id.src, id.dst)
           near == SeqOf(ends.primary)
           far == SeqOf(ends.secondary)
           near_slot == edge_storage_slot(KindOf(ends.primary), ends.dir, id.kind)
           far_slot == edge_storage_slot(KindOf(ends.secondary), ends.reverse, id.kind)
           claimed == {r[2] : r \in {r \in edge_removals[far_slot] : r[1] = far}}
           reverse == ReverseHalf(edges[far_slot], far, ends.primary, claimed,
                                  WantedKey(edges[near_slot], near, id.seq))
<1>1. pc = "changes" /\ cursor <= Len(diff[current].changes) /\ Change.change = "RemoveEdge"
  BY DEF ClassifyRemoveEdge, AtChange
<1>2. Change \in QueuedChange
  BY <1>1, ChangeIs
<1>3. id \in EdgeId
  BY <1>1, <1>2 DEF QueuedChange
<1>4. ends.primary \in RawNodeId /\ ends.secondary \in RawNodeId /\ id.seq \in Nat
  BY <1>3 DEF EdgeId, orient_edge
<1>5. near \in Nat /\ far \in Nat /\ id.seq \in Nat
  BY <1>4 DEF RawNodeId, SeqOf
<1>6. reverse \subseteq Nat
  BY ReverseIsPlace, SMTT(30)
<1>7. \/ \E outcome : RollBack(outcome)
      \/ NextChange /\ UNCHANGED <<node_tombstones, property_updates, edge_removals>>
      \/ /\ \E local \in reverse :
              edge_removals' = [edge_removals EXCEPT ![near_slot] = @ \cup {<<near, id.seq>>},
                                                     ![far_slot] = @ \cup {<<far, local>>}]
         /\ NextChange
         /\ UNCHANGED <<node_tombstones, property_updates>>
  BY DEF ClassifyRemoveEdge
<1> HIDE DEF id, near, far, near_slot, far_slot, reverse
<1>8. CASE \E outcome : RollBack(outcome)
  BY <1>8, RollBackKeeps
<1>9. CASE NextChange /\ UNCHANGED <<node_tombstones, property_updates, edge_removals>>
  <2>1. ChangesInv'
    BY <1>9, ChangesUnchanged DEF IInv, StagedInv, NextChange, graph_vars
  <2> QED BY <1>1, <1>9, <2>1, NextChangeKeeps
<1>10. CASE /\ \E local \in reverse :
                 edge_removals' = [edge_removals EXCEPT ![near_slot] = @ \cup {<<near, id.seq>>},
                                                        ![far_slot] = @ \cup {<<far, local>>}]
            /\ NextChange
            /\ UNCHANGED <<node_tombstones, property_updates>>
  <2>1. PICK local \in reverse :
          edge_removals' = [edge_removals EXCEPT ![near_slot] = @ \cup {<<near, id.seq>>},
                                                 ![far_slot] = @ \cup {<<far, local>>}]
    BY <1>10
  <2>2. <<near, id.seq>> \in Nat \X Nat /\ <<far, local>> \in Nat \X Nat
    BY <1>5, <1>6
  <2>3. DOMAIN edge_removals = EdgeSlots /\ \A s \in EdgeSlots : edge_removals[s] \subseteq Nat \X Nat
    BY DEF IInv, StagedInv, ChangesInv
  <2>4. DOMAIN edge_removals' = EdgeSlots
    BY <2>1, <2>3
  <2>5. ASSUME NEW s \in EdgeSlots PROVE edge_removals'[s] \subseteq Nat \X Nat
    <3>1. edge_removals'[s] \subseteq edge_removals[s] \cup {<<near, id.seq>>, <<far, local>>}
      BY <2>1, <2>3
    <3> QED BY <2>2, <2>3, <3>1
  <2>6. ChangesInv'
    BY <1>10, <2>4, <2>5 DEF IInv, StagedInv, ChangesInv, Standing, NextChange, graph_vars
  <2> QED BY <1>1, <1>10, <2>6, NextChangeKeeps
<1> QED BY <1>7, <1>8, <1>9, <1>10

(***************************************************************************)
(* prepare_property_updates                                                *)
(***************************************************************************)
\* A step of prepare that interns texts.
LEMMA InterningKeeps ==
  ASSUME GraphInv, ChangesInv, NEW texts \in Seq(Texts), strings' = Interned(strings, texts),
         UNCHANGED <<nodes, edges, properties, strings_baseline, node_tombstones, property_updates,
                     edge_removals>>
  PROVE  strings' \in Seq(Texts) /\ GraphInv' /\ ChangesInv'
<1>1. strings \in Seq(Texts) /\ strings_baseline \in 0 .. Len(strings)
  BY DEF GraphInv, ChangesInv
<1>2. /\ strings' \in Seq(Texts) /\ Len(strings) \in Nat /\ Len(strings') \in Nat
      /\ Len(strings) <= Len(strings')
  BY <1>1, InternedItems
<1>3. GraphInv'
  BY <1>2, GraphInterned
<1>4. strings_baseline' \in 0 .. Len(strings')
  BY <1>1, <1>2
<1>5. ChangesInv'
  BY <1>4 DEF ChangesInv, Standing
<1> QED BY <1>2, <1>3, <1>5

\* Nothing moves from one step of prepare to the next but pc.
LEMMA NextStepKeeps ==
  ASSUME IInv, pc # "idle", pc' \in {"removals", "new nodes", "staged"},
         UNCHANGED <<client_vars, current, cursor>>
  PROVE  ClientInv' /\ ControlInv'
<1>1. ClientInv'
  BY ClientUnchanged DEF IInv
<1>2. ControlInv'
  BY DEF IInv, ControlInv, client_vars
<1> QED BY <1>1, <1>2

\* The texts of the slots are interned one slot after the other; a value whose text
\* is among those of its slot finds it in the pool.
LEMMA SlotTextsInPool ==
  ASSUME NEW pool \in Seq(Texts), NEW runs \in ListOf(Seq(Texts), property_storage_size),
         NEW s \in PropertySlots, NEW props, TextsMentioned(props, runs[s + 1])
  PROVE  Concat(runs) \in Seq(Texts) /\ AllInPool(props, Interned(pool, Concat(runs)))
<1>1. property_storage_size \in Nat /\ s + 1 \in 1 .. property_storage_size
  BY SchemaAssumption DEF PropertySlots, property_storage_size
<1>2. /\ Concat(runs) \in Seq(Texts)
      /\ \A t : Mentions(runs[s + 1], t) => Mentions(Concat(runs), t)
  BY <1>1, ConcatMentions
<1>3. TextsMentioned(props, Concat(runs))
  BY <1>2 DEF TextsMentioned
<1> QED BY <1>2, <1>3, AllInPoolInterned

\* The pool holds every text that is written next, behind the texts it held before.
PoolGrown(pool, longer) ==
  /\ longer \in Seq(Texts) /\ Len(longer) \in Nat /\ Len(pool) <= Len(longer)
  /\ \A i \in 1 .. Len(pool) : longer[i] = pool[i]
\* Interning adds to the pool.
LEMMA InterningGrows ==
  ASSUME NEW pool \in Seq(Texts), NEW texts \in Seq(Texts)
  PROVE  PoolGrown(pool, Interned(pool, texts))
BY InternedItems DEF PoolGrown

TextsOfUpdates ==
  [i \in 1 .. property_storage_size |->
     UpdateTexts(property_updates[i - 1], Len(nodes[SlotNodeKind(i - 1)]))]
\* Every text the updates bring is interned before they are written.
LEMMA UpdatesInPool ==
  ASSUME IInv
  PROVE  /\ Concat(TextsOfUpdates) \in Seq(Texts)
         /\ \A s \in PropertySlots : \A seq \in DOMAIN property_updates[s] :
              AllInPool(property_updates[s][seq], Interned(strings, Concat(TextsOfUpdates)))
<1>1. \A s \in PropertySlots : UpdatesTyped(property_updates[s], Standing[SlotNodeKind(s)])
  BY DEF IInv, StagedInv, ChangesInv
<1>2. \A s \in PropertySlots :
        /\ SlotNodeKind(s) \in NodeKinds /\ Standing[SlotNodeKind(s)] \in Nat
        /\ Standing[SlotNodeKind(s)] = Len(nodes[SlotNodeKind(s)])
  BY SlotKinds, Counts DEF IInv, ControlInv
<1>3. property_storage_size \in Nat
  BY SchemaAssumption DEF property_storage_size
<1>4. \A s \in PropertySlots : s + 1 \in 1 .. property_storage_size /\ (s + 1) - 1 = s
  BY <1>3 DEF PropertySlots
<1>5. \A s \in PropertySlots :
        /\ UpdateTexts(property_updates[s], Len(nodes[SlotNodeKind(s)])) \in Seq(Texts)
        /\ \A seq \in DOMAIN property_updates[s] :
             TextsMentioned(property_updates[s][seq],
                            UpdateTexts(property_updates[s], Len(nodes[SlotNodeKind(s)])))
  BY <1>1, <1>2, UpdateTextsMention
<1>6. TextsOfUpdates \in ListOf(Seq(Texts), property_storage_size)
  <2>1. \A i \in 1 .. property_storage_size : i - 1 \in PropertySlots
    BY <1>3 DEF PropertySlots
  <2> QED BY <1>5, <2>1 DEF ListOf, TextsOfUpdates
<1>7. \A s \in PropertySlots :
        TextsOfUpdates[s + 1] = UpdateTexts(property_updates[s], Len(nodes[SlotNodeKind(s)]))
  BY <1>4 DEF TextsOfUpdates
<1>8. Concat(TextsOfUpdates) \in Seq(Texts)
  BY <1>3, <1>6, ConcatMentions
<1>9. strings \in Seq(Texts)
  BY DEF IInv, GraphInv
<1>10. ASSUME NEW s \in PropertySlots, NEW seq \in DOMAIN property_updates[s]
       PROVE  AllInPool(property_updates[s][seq], Interned(strings, Concat(TextsOfUpdates)))
  BY <1>5, <1>6, <1>7, <1>9, SlotTextsInPool
<1> QED BY <1>8, <1>10

\* prepare_property_updates stages slots that are well-formed for as many nodes.
LEMMA PreparePropertyUpdatesKeeps == ASSUME IInv, PreparePropertyUpdates PROVE IInv'
<1> DEFINE updated == {s \in PropertySlots : DOMAIN property_updates[s] # {}}
<1>1. CASE \E outcome : RollBack(outcome)
  BY <1>1, RollBackKeeps
<1>2. CASE /\ AllPass(PropertySlots, UpdateCheck)
           /\ strings' = Interned(strings, Concat(TextsOfUpdates))
           /\ property_replacements' =
                [s \in updated |-> UpdatedSlot(properties[s], property_updates[s], strings')]
           /\ pc' = "removals"
           /\ UNCHANGED <<nodes, edges, properties, client_vars, current, cursor, result,
                       strings_baseline, node_tombstones, property_updates, edge_removals,
                       edge_replacements, property_appends, node_remapper, edge_halves,
                       edge_inserts>>
  <2>1. ClientInv' /\ ControlInv'
    BY <1>2, NextStepKeeps DEF PreparePropertyUpdates
  <2>2. \A s \in PropertySlots : UpdatesTyped(property_updates[s], Standing[SlotNodeKind(s)])
    BY DEF IInv, StagedInv, ChangesInv
  <2>3. \A s \in PropertySlots :
          /\ SlotNodeKind(s) \in NodeKinds /\ Standing[SlotNodeKind(s)] \in Nat
          /\ Standing[SlotNodeKind(s)] = Len(nodes[SlotNodeKind(s)])
    BY SlotKinds, Counts DEF IInv, ControlInv
  <2>4. /\ Concat(TextsOfUpdates) \in Seq(Texts)
        /\ \A s \in PropertySlots : \A seq \in DOMAIN property_updates[s] :
             AllInPool(property_updates[s][seq], strings')
    BY <1>2, UpdatesInPool
  <2>5. strings' \in Seq(Texts) /\ GraphInv' /\ ChangesInv'
    BY <1>2, <2>4, InterningKeeps DEF IInv, StagedInv
  <2>6. ASSUME NEW s \in PropertySlots, DOMAIN property_updates[s] # {}
         PROVE  PropertySlotKept(UpdatedSlot(properties[s], property_updates[s], strings'), s, Standing)
    <3> DEFINE n == Standing[SlotNodeKind(s)]
               typ == NodeProperty[SlotPropertyKind(s)].typ
               slot == properties[s]
               updates == property_updates[s]
    <3>1. \A seq \in DOMAIN updates : AllInPool(updates[seq], strings')
      BY <2>4
    <3>2. PropertySlotSound(slot, n, typ) /\ n \in Nat /\ UpdatesTyped(updates, n)
      BY <2>2, <2>3 DEF IInv, GraphInv, PropertySlotKept
    <3>3. UpdateError(slot, updates) = Ok
      BY <1>2 DEF AllPass, UpdateCheck
    <3> HIDE DEF n, typ, slot, updates
    <3>4. DOMAIN updates # {}
      BY <2>6 DEF updates
    <3>5. PropertySlotSound(UpdatedSlot(slot, updates, strings'), n, typ)
      BY <2>5, <3>1, <3>2, <3>3, <3>4, UpdatedSlotSound
    <3> QED BY <3>5 DEF PropertySlotKept, n, typ, slot, updates
  <2>7. ReplacementsInv'
    <3>1. Standing' = Standing
      BY <1>2 DEF Standing
    <3>2. /\ DOMAIN edge_replacements' \subseteq EdgeSlots
          /\ \A s \in DOMAIN edge_replacements' : EdgeSlotKept(edge_replacements'[s], s, Standing)
      BY <1>2 DEF IInv, StagedInv, ReplacementsInv
    <3>3. DOMAIN property_replacements' = updated
      BY <1>2
    <3>4. \A s \in updated : PropertySlotKept(property_replacements'[s], s, Standing)
      BY <1>2, <2>6
    <3> QED BY <3>1, <3>2, <3>3, <3>4 DEF ReplacementsInv
  <2>8. AppendsInv' /\ RemapperInv' /\ HalvesInv'
    BY <1>2 DEF IInv, StagedInv, AppendsInv, RemapperInv, HalvesInv, WithNewNodes,
                PreparePropertyUpdates
  <2>9. InsertsInv'
    BY <1>2, InsertsUnchanged DEF IInv, StagedInv
  <2> QED BY <2>1, <2>5, <2>7, <2>8, <2>9 DEF IInv, StagedInv
<1> QED BY <1>1, <1>2 DEF PreparePropertyUpdates, TextsOfUpdates

(***************************************************************************)
(* prepare_edge_removals                                                   *)
(***************************************************************************)
\* Removals that pass name half-edges of the slot.
LEMMA RemovalPasses ==
  ASSUME NEW n \in Nat, NEW typ, NEW slot, EdgeSlotSound(slot, n, typ), slot.offsets # <<>>,
         NEW removals, removals \subseteq Nat \X Nat, RemovalError(slot, removals) = Ok
  PROVE  RemovalsFit(slot, removals)
<1>1. \A r \in removals : HasOffset(slot, r[1]) /\ ~ (r[2] >= Degree(slot, r[1]))
  BY DEF RemovalError, Ok
<1>2. slot.offsets \in Seq(0 .. MaxOffset) /\ Shaped(slot.offsets, n)
  BY DEF EdgeSlotSound, EdgeStorageSlot
<1>3. ASSUME NEW r \in removals PROVE r[2] < Degree(slot, r[1])
  <2>1. r[1] \in Nat /\ r[2] \in Nat
    OBVIOUS
  <2>2. Start(slot, r[1]) \in Nat /\ End(slot, r[1]) \in Nat
    BY <1>1, <1>2, <2>1, RunWithin
  <2> QED BY <1>1, <2>1, <2>2 DEF Degree
<1> QED BY <1>1, <1>3 DEF RemovalsFit

\* prepare_edge_removals does.
LEMMA PrepareEdgeRemovalsKeeps == ASSUME IInv, PrepareEdgeRemovals PROVE IInv'
<1> DEFINE removed == {s \in EdgeSlots : edge_removals[s] # {} /\ edges[s].offsets # <<>>}
<1>1. CASE \E outcome : RollBack(outcome)
  BY <1>1, RollBackKeeps
<1>2. CASE /\ AllPass(EdgeSlots, RemovalCheck)
           /\ edge_replacements' = [s \in removed |-> WithoutEdges(edges[s], edge_removals[s])]
           /\ pc' = "new nodes"
           /\ UNCHANGED <<graph_vars, client_vars, current, cursor, result,
                       strings_baseline, node_tombstones, property_updates, edge_removals,
                       property_replacements, property_appends, node_remapper, edge_halves,
                       edge_inserts>>
  <2>1. ClientInv' /\ ControlInv'
    BY <1>2, NextStepKeeps DEF PrepareEdgeRemovals
  <2>2. GraphInv'
    BY <1>2, GraphUnchanged DEF IInv
  <2>3. ChangesInv'
    BY <1>2, ChangesUnchanged DEF IInv, StagedInv, graph_vars
  <2>4. ASSUME NEW s \in removed
        PROVE  EdgeSlotKept(WithoutEdges(edges[s], edge_removals[s]), s, Standing)
    <3> DEFINE n == Standing[SlotNodeKind(s)]
               typ == EdgeProperty[SlotEdgeKind(s)].typ
               slot == edges[s]
               removals == edge_removals[s]
               without == WithoutEdges(slot, removals)
    <3>1. n \in Nat
      BY SlotKinds, Counts DEF IInv, ControlInv
    <3>2. EdgeSlotSound(slot, n, typ) /\ AllNamed(slot.neighbors, Standing)
      BY DEF IInv, GraphInv, EdgeSlotKept
    <3>3. slot.offsets # <<>> /\ removals \subseteq Nat \X Nat
      BY DEF IInv, StagedInv, ChangesInv
    <3>4. RemovalError(slot, removals) = Ok
      BY <1>2 DEF AllPass, RemovalCheck
    <3> HIDE DEF n, typ, slot, removals
    <3>5. RemovalsFit(slot, removals)
      BY <3>1, <3>2, <3>3, <3>4, RemovalPasses
    <3>6. /\ EdgeSlotSound(without, n, typ)
          /\ \A p \in 1 .. Len(without.neighbors) :
               \E q \in 1 .. Len(slot.neighbors) : without.neighbors[p] = slot.neighbors[q]
      BY <3>1, <3>2, <3>3, <3>5, WithoutEdgesSound
    <3> HIDE DEF without
    <3>7. AllNamed(without.neighbors, Standing)
      BY <3>2, <3>6 DEF AllNamed
    <3> QED BY <3>6, <3>7 DEF EdgeSlotKept, n, typ, slot, removals, without
  <2>5. ReplacementsInv'
    <3>1. Standing' = Standing
      BY <1>2 DEF Standing, graph_vars
    <3>2. /\ DOMAIN property_replacements' \subseteq PropertySlots
          /\ \A s \in DOMAIN property_replacements' :
               PropertySlotKept(property_replacements'[s], s, Standing)
      BY <1>2 DEF IInv, StagedInv, ReplacementsInv
    <3>3. DOMAIN edge_replacements' = removed
      BY <1>2
    <3>4. \A s \in removed : EdgeSlotKept(edge_replacements'[s], s, Standing)
      BY <1>2, <2>4
    <3> QED BY <3>1, <3>2, <3>3, <3>4 DEF ReplacementsInv
  <2>6. AppendsInv' /\ RemapperInv' /\ HalvesInv'
    BY <1>2 DEF IInv, StagedInv, AppendsInv, RemapperInv, HalvesInv, WithNewNodes,
                PrepareEdgeRemovals
  <2>7. InsertsInv'
    BY <1>2, InsertsUnchanged DEF IInv, StagedInv
  <2> QED BY <2>1, <2>2, <2>3, <2>5, <2>6, <2>7 DEF IInv, StagedInv
<1> QED BY <1>1, <1>2 DEF PrepareEdgeRemovals

(***************************************************************************)
(* prepare_new_nodes                                                       *)
(***************************************************************************)
\* A new node brings the values its kind declares.
LEMMA NewNodeIs ==
  ASSUME NEW n \in NewNodeInputs
  PROVE  n.kind \in NodeKinds /\ \A p \in DOMAIN n.properties : n.properties[p] \in Seq(PropertyValue)
BY InputAssumption DEF IsNewNode

\* A slot has a list of values for each new node of its kind.
LEMMA NewValuesAre ==
  ASSUME IInv, NEW s \in PropertySlots
  PROVE  /\ NewValues(s) \in Seq(Seq(PropertyValue))
         /\ Len(NewValues(s)) = NewCount(SlotNodeKind(s))
<1> DEFINE kind == SlotNodeKind(s)
           m == NewCount(kind)
           queue == diff[current].new_nodes
           new(i) == queue[Nth(NewOfKind(kind), i)]
           values(i) == IF SlotPropertyKind(s) \in DOMAIN new(i).properties
                          THEN new(i).properties[SlotPropertyKind(s)] ELSE <<>>
<1>1. kind \in NodeKinds
  BY SlotKinds
<1>2. /\ m \in Nat /\ Within(NewOfKind(kind), Len(queue)) /\ queue \in Seq(NewNodeInputs)
      /\ Len(queue) \in Nat /\ m = Cardinality(NewOfKind(kind))
  BY <1>1, Counts DEF IInv, ControlInv, NewCount
<1>3. ASSUME NEW i \in 1 .. m PROVE values(i) \in Seq(PropertyValue)
  <2>1. Nth(NewOfKind(kind), i) \in NewOfKind(kind)
    BY <1>2, NthFound
  <2>2. Nth(NewOfKind(kind), i) \in 1 .. Len(queue)
    BY <1>2, <2>1 DEF Within
  <2>3. new(i) \in NewNodeInputs
    BY <1>2, <2>2
  <2> HIDE DEF new
  <2>4. <<>> \in Seq(PropertyValue)
    OBVIOUS
  <2> QED BY <2>3, <2>4, NewNodeIs
<1>4. NewValues(s) = [i \in 1 .. m |-> values(i)]
  BY DEF NewValues
<1> HIDE DEF values, m
<1>5. NewValues(s) \in ListOf(Seq(PropertyValue), m)
  BY <1>3, <1>4 DEF ListOf
<1>6. NewValues(s) \in Seq(Seq(PropertyValue)) /\ Len(NewValues(s)) = m
  BY <1>2, <1>5, ListIsSeq
<1> QED BY <1>6 DEF m

\* What is in the pool with all the lists is with each.
LEMMA ListsInPool ==
  ASSUME NEW lists \in Seq(Seq(PropertyValue)), NEW pool, AllInPool(Concat(lists), pool)
  PROVE  \A i \in 1 .. Len(lists) : AllInPool(lists[i], pool)
<1>1. ASSUME NEW i \in 1 .. Len(lists) PROVE AllInPool(lists[i], pool)
  <2>1. lists[i] \in Seq(PropertyValue)
    OBVIOUS
  <2>2. /\ Len(Concat(lists)) = Cumulative(lists, Len(lists))
        /\ \A k \in 1 .. Len(lists[i]) :
             /\ Cumulative(lists, i - 1) + k \in 1 .. Cumulative(lists, Len(lists))
             /\ Concat(lists)[Cumulative(lists, i - 1) + k] = lists[i][k]
    BY ConcatItems
  <2>3. ASSUME NEW k \in 1 .. Len(lists[i]) PROVE InPool(lists[i][k], pool)
    <3>1. PICK p \in 1 .. Len(Concat(lists)) : Concat(lists)[p] = lists[i][k]
      BY <2>2
    <3> QED BY <3>1 DEF AllInPool
  <2> QED BY <2>3 DEF AllInPool
<1> QED BY <1>1

\* What is appended to one slot leaves it sound for the nodes there will be, whether
\* there is anything to append or not.
LEMMA SlotAppended ==
  ASSUME NEW n \in Nat, NEW typ, NEW slot, PropertySlotSound(slot, n, typ), NEW pool \in Seq(Texts),
         NEW lists \in Seq(Seq(PropertyValue)), AppendError(typ, slot.offsets, lists) = Ok,
         AllInPool(Concat(lists), pool)
  PROVE  /\ AppendsNothing(slot.offsets, lists) => PropertySlotSound(slot, n + Len(lists), typ)
         /\ LET append == PropertySlotAppend(typ, slot.offsets, lists, n, pool)
            IN  AppendFits(slot, append) /\ PropertySlotSound(Appended(slot, append), n + Len(lists), typ)
<1>1. ASSUME AppendsNothing(slot.offsets, lists) PROVE PropertySlotSound(slot, n + Len(lists), typ)
  <2>1. CASE lists = <<>>
    <3>1. n + Len(lists) = n
      BY <2>1
    <3> QED BY <3>1
  <2>2. CASE slot.offsets = <<>>
    BY <2>2 DEF PropertySlotSound, Shaped
  <2> QED BY <1>1, <2>1, <2>2 DEF AppendsNothing
<1>2. \A i \in 1 .. Len(lists) : AllInPool(lists[i], pool)
  BY ListsInPool
<1>3. PropertySlotSound(Appended(slot, PropertySlotAppend(typ, slot.offsets, lists, n, pool)),
                        n + Len(lists), typ)
  BY <1>2, AppendedSound
<1>4. AppendFits(slot, PropertySlotAppend(typ, slot.offsets, lists, n, pool))
  BY DEF AppendFits, PropertySlotAppend, PropertySlotSound
<1> QED BY <1>1, <1>3, <1>4

\* The parts of a node id.
LEMMA IdParts == ASSUME NEW k, NEW s PROVE KindOf(<<k, s>>) = k /\ SeqOf(<<k, s>>) = s
BY DEF KindOf, SeqOf

\* The remapper gives every new node the next free place of its kind.
LEMMA RemapperFits ==
  ASSUME IInv,
         NEW remapper,
         remapper = [i \in DOMAIN diff[current].new_nodes |->
                       LET kind == diff[current].new_nodes[i].kind
                       IN  <<kind, Len(nodes[kind]) + Cardinality(NewOfKind(kind) \cap 1 .. i - 1)>>]
  PROVE  /\ remapper \in Seq(RawNodeId) /\ Len(remapper) = Len(diff[current].new_nodes)
         /\ \A i \in 1 .. Len(remapper) :
              /\ KindOf(remapper[i]) = diff[current].new_nodes[i].kind
              /\ Named(remapper[i], Coming)
<1> DEFINE queue == diff[current].new_nodes
           n == Len(queue)
<1>1. queue \in Seq(NewNodeInputs) /\ n \in Nat /\ DOMAIN queue = 1 .. n
  <2>1. queue \in Seq(NewNodeInputs)
    BY Counts DEF IInv, ControlInv
  <2> QED BY <2>1, LenProperties
<1>2. ASSUME NEW i \in 1 .. n
      PROVE  /\ remapper[i] \in RawNodeId /\ KindOf(remapper[i]) = queue[i].kind
             /\ Named(remapper[i], Coming)
  <2> DEFINE kind == queue[i].kind
             earlier == NewOfKind(kind) \cap 1 .. i - 1
  <2>1. kind \in NodeKinds
    BY <1>1, NewNodeIs
  <2>2. remapper[i] = <<kind, Len(nodes[kind]) + Cardinality(earlier)>>
    BY <1>1
  <2>3. /\ Within(NewOfKind(kind), n) /\ Len(nodes[kind]) \in Nat
        /\ Coming[kind] = Len(nodes[kind]) + Cardinality(NewOfKind(kind))
    BY <2>1, Counts DEF IInv, ControlInv, NewCount
  <2>4. i \in NewOfKind(kind)
    BY <1>1 DEF NewOfKind
  <2>5. IsFiniteSet(NewOfKind(kind)) /\ Cardinality(NewOfKind(kind)) \in Nat
    BY <1>1, <2>3, PositionsFinite
  <2>6. earlier \in SUBSET (NewOfKind(kind) \ {i})
    OBVIOUS
  <2> HIDE DEF earlier
  <2>7. /\ IsFiniteSet(NewOfKind(kind) \ {i})
        /\ Cardinality(NewOfKind(kind) \ {i}) = Cardinality(NewOfKind(kind)) - 1
    BY <2>4, <2>5, FS_RemoveElement
  <2>8. /\ IsFiniteSet(earlier) /\ Cardinality(earlier) \in Nat
        /\ Cardinality(earlier) <= Cardinality(NewOfKind(kind)) - 1
    BY <2>6, <2>7, FS_Subset, FS_CardinalityType
  <2> HIDE DEF kind
  <2>9. kind \in Nat
    BY <2>1 DEF NodeKinds
  <2>10. PICK place \in Nat : place = Len(nodes[kind]) + Cardinality(earlier)
    BY <2>3, <2>8
  <2>11. remapper[i] = <<kind, place>>
    BY <2>2, <2>10
  <2>12. KindOf(remapper[i]) = kind /\ SeqOf(remapper[i]) = place
    BY <2>11, IdParts, Zenon
  <2>13. remapper[i] \in RawNodeId
    BY <2>9, <2>11 DEF RawNodeId
  <2>14. place < Coming[kind]
    <3>1. PICK stand \in Nat : stand = Len(nodes[kind])
      BY <2>3
    <3>2. PICK new \in Nat : new = Cardinality(NewOfKind(kind))
      BY <2>5
    <3>3. PICK before \in Nat : before = Cardinality(earlier)
      BY <2>8
    <3>4. place = stand + before /\ before <= new - 1 /\ Coming[kind] = stand + new
      BY <2>3, <2>8, <2>10, <3>1, <3>2, <3>3
    <3> QED BY <3>4
  <2>15. Named(remapper[i], Coming)
    BY <2>1, <2>12, <2>14 DEF Named
  <2> QED BY <2>12, <2>13, <2>15 DEF kind
<1>3. remapper = [i \in 1 .. n |-> remapper[i]]
  BY <1>1
<1>4. remapper \in ListOf(RawNodeId, n)
  BY <1>2, <1>3 DEF ListOf
<1>5. remapper \in Seq(RawNodeId) /\ Len(remapper) = n
  BY <1>1, <1>4, ListIsSeq
<1> QED BY <1>2, <1>5

\* The texts of the new nodes, likewise.
TextsOfNewNodes == [i \in 1 .. property_storage_size |-> TextsOf(Concat(NewValues(i - 1)))]
\* Every text the new nodes bring is interned before it is written.
LEMMA NewNodesInPool ==
  ASSUME IInv
  PROVE  /\ Concat(TextsOfNewNodes) \in Seq(Texts)
         /\ \A s \in PropertySlots :
              AllInPool(Concat(NewValues(s)), Interned(strings, Concat(TextsOfNewNodes)))
<1>1. \A s \in PropertySlots :
        /\ Concat(NewValues(s)) \in Seq(PropertyValue)
        /\ TextsOf(Concat(NewValues(s))) \in Seq(Texts)
        /\ TextsMentioned(Concat(NewValues(s)), TextsOf(Concat(NewValues(s))))
  BY NewValuesAre, ConcatItems, TextsOfMentions
<1>2. property_storage_size \in Nat
  BY SchemaAssumption DEF property_storage_size
<1>3. \A s \in PropertySlots : s + 1 \in 1 .. property_storage_size /\ (s + 1) - 1 = s
  BY <1>2 DEF PropertySlots
<1>4. TextsOfNewNodes \in ListOf(Seq(Texts), property_storage_size)
  <2>1. \A i \in 1 .. property_storage_size : i - 1 \in PropertySlots
    BY <1>2 DEF PropertySlots
  <2> QED BY <1>1, <2>1 DEF ListOf, TextsOfNewNodes
<1>5. \A s \in PropertySlots : TextsOfNewNodes[s + 1] = TextsOf(Concat(NewValues(s)))
  BY <1>3 DEF TextsOfNewNodes
<1>6. Concat(TextsOfNewNodes) \in Seq(Texts)
  BY <1>2, <1>4, ConcatMentions
<1>7. strings \in Seq(Texts)
  BY DEF IInv, GraphInv
<1>8. ASSUME NEW s \in PropertySlots
      PROVE  AllInPool(Concat(NewValues(s)), Interned(strings, Concat(TextsOfNewNodes)))
  BY <1>1, <1>4, <1>5, <1>7, SlotTextsInPool
<1> QED BY <1>6, <1>8

\* prepare_new_nodes stages runs that go behind those of the slot, and ids behind those
\* there are.
LEMMA PrepareNewNodesKeeps == ASSUME IInv, PrepareNewNodes PROVE IInv'
<1> DEFINE growing == {s \in PropertySlots : ~ AppendsNothing(PropertyOffsets(s), NewValues(s))}
<1>1. CASE \E outcome : RollBack(outcome)
  BY <1>1, RollBackKeeps
<1>2. CASE /\ AllPass(PropertySlots, AppendCheck)
           /\ strings' = Interned(strings, Concat(TextsOfNewNodes))
           /\ property_appends' =
                [s \in growing |->
                   PropertySlotAppend(properties[s].values.typ, PropertyOffsets(s), NewValues(s),
                                      Len(nodes[SlotNodeKind(s)]), strings')]
           /\ node_remapper' =
                [i \in DOMAIN diff[current].new_nodes |->
                   LET kind == diff[current].new_nodes[i].kind
                   IN  <<kind, Len(nodes[kind]) + Cardinality(NewOfKind(kind) \cap 1 .. i - 1)>>]
           /\ pc' = "new edges" /\ cursor' = 1
           /\ UNCHANGED <<nodes, edges, properties, client_vars, current, result,
                       strings_baseline, node_tombstones, property_updates, edge_removals,
                       property_replacements, edge_replacements, edge_halves, edge_inserts>>
  <2>1. ClientInv'
    BY <1>2, ClientUnchanged DEF IInv
  <2>2. ControlInv'
    <3>1. 1 \in 1 .. MaxOperations + 1
      BY Bounds
    <3>2. Len(diff[current].new_edges) \in Nat
      BY DiffLengths DEF IInv, ClientInv, ControlInv
    <3>3. version < MaxCommits
      BY DEF PrepareNewNodes, IInv, ControlInv
    <3>4. /\ pc' = "new edges" /\ cursor' = 1 /\ current' = current /\ version' = version
          /\ diff' = diff
      BY <1>2 DEF client_vars
    <3>5. current \in Diffs
      BY DEF IInv, ControlInv
    <3>6. 1 <= Len(diff[current].new_edges) + 1
      BY <3>2
    <3> QED BY <3>1, <3>3, <3>4, <3>5, <3>6 DEF ControlInv
  <2>3. \A s \in PropertySlots :
          NewValues(s) \in Seq(Seq(PropertyValue)) /\ Len(NewValues(s)) = NewCount(SlotNodeKind(s))
    BY NewValuesAre
  <2>4. /\ Concat(TextsOfNewNodes) \in Seq(Texts)
        /\ \A s \in PropertySlots : AllInPool(Concat(NewValues(s)), strings')
    BY <1>2, NewNodesInPool
  <2>5. strings' \in Seq(Texts) /\ GraphInv' /\ ChangesInv'
    BY <1>2, <2>4, InterningKeeps DEF IInv, StagedInv
  <2>6. ReplacementsInv'
    BY <1>2, ReplacementsUnchanged DEF IInv, StagedInv
  <2>7. Coming' = Coming
    BY <1>2 DEF Coming, NewCount, NewOfKind, client_vars
  <2>8. ASSUME NEW s \in PropertySlots
         PROVE  /\ PropertySlotKept(CommittedProperties'[s], s, Coming)
                /\ s \in growing =>
                     AppendFits(Replaced(properties, property_replacements, s), property_appends'[s])
    <3> DEFINE kind == SlotNodeKind(s)
               n == Standing[kind]
               typ == NodeProperty[SlotPropertyKind(s)].typ
               slot == Replaced(properties, property_replacements, s)
               lists == NewValues(s)
               append == PropertySlotAppend(typ, slot.offsets, lists, n, strings')
    <3>1. kind \in NodeKinds
      BY SlotKinds
    <3>2. n \in Nat /\ n = Len(nodes[kind]) /\ Coming[kind] = n + Len(lists)
      BY <2>3, <3>1, Counts DEF IInv, ControlInv
    <3>3. PropertySlotSound(slot, n, typ) /\ properties[s].values.typ = typ
      BY DEF IInv, GraphInv, StagedInv, ReplacementsInv, PropertySlotKept, Replaced, PropertySlotSound
    <3>4. PropertyOffsets(s) = slot.offsets
      BY DEF PropertyOffsets, Replaced
    <3>5. AppendError(typ, slot.offsets, lists) = Ok
      BY <1>2, <3>3, <3>4 DEF AllPass, AppendCheck
    <3>6. AllInPool(Concat(lists), strings')
      BY <2>4
    <3>7. s \in growing => property_appends'[s] = append
      BY <1>2, <3>2, <3>3, <3>4
    <3>8. s \notin growing => AppendsNothing(slot.offsets, lists)
      BY <3>4
    <3>9. DOMAIN property_appends' = growing
      BY <1>2
    <3>10. CommittedProperties'[s] = IF s \in growing THEN Appended(slot, property_appends'[s]) ELSE slot
      BY <1>2, <3>9 DEF CommittedProperties, Replaced
    <3>11. lists \in Seq(Seq(PropertyValue))
      BY <2>3
    <3> HIDE DEF kind, n, typ, slot, lists, growing
    <3>12. /\ AppendsNothing(slot.offsets, lists) => PropertySlotSound(slot, n + Len(lists), typ)
           /\ AppendFits(slot, append) /\ PropertySlotSound(Appended(slot, append), n + Len(lists), typ)
      BY <2>5, <3>2, <3>3, <3>5, <3>6, <3>11, SlotAppended
    <3> HIDE DEF append
    <3>13. PropertySlotSound(CommittedProperties'[s], Coming[kind], typ)
      BY <3>2, <3>7, <3>8, <3>10, <3>12
    <3>14. s \in growing => AppendFits(slot, property_appends'[s])
      BY <3>7, <3>12
    <3> QED BY <3>13, <3>14 DEF PropertySlotKept, kind, typ, slot
  <2>9. AppendsInv'
    <3>1. DOMAIN property_appends' = growing /\ growing \subseteq PropertySlots
      BY <1>2
    <3>2. /\ properties' = properties /\ property_replacements' = property_replacements
      BY <1>2
    <3> HIDE DEF growing
    <3> QED BY <2>7, <2>8, <3>1, <3>2 DEF AppendsInv, Replaced
  <2>10. RemapperInv'
    <3>1. /\ node_remapper' \in Seq(RawNodeId) /\ Len(node_remapper') = Len(diff[current].new_nodes)
          /\ \A i \in 1 .. Len(node_remapper') :
               /\ KindOf(node_remapper'[i]) = diff[current].new_nodes[i].kind
               /\ Named(node_remapper'[i], Coming)
      BY <1>2, RemapperFits
    <3>2. diff' = diff /\ current' = current
      BY <1>2 DEF client_vars
    <3> QED BY <2>7, <3>1, <3>2 DEF RemapperInv
  <2>11. HalvesInv'
    <3>1. WithNewNodes' /\ ~ WithNewNodes
      BY <1>2 DEF WithNewNodes, PrepareNewNodes
    <3>2. DOMAIN edge_halves' = EdgeSlots /\ \A s \in EdgeSlots : edge_halves'[s] = <<>>
      BY <1>2, <3>1 DEF IInv, StagedInv, HalvesInv
    <3>3. \A n : HalvesFit(<<>>, n)
      BY DEF HalvesFit
    <3> QED BY <3>1, <3>2, <3>3 DEF HalvesInv, HalvesKept
  <2>12. InsertsInv'
    BY <1>2, InsertsUnchanged DEF IInv, StagedInv
  <2> QED BY <2>1, <2>2, <2>5, <2>6, <2>9, <2>10, <2>11, <2>12 DEF IInv, StagedInv
<1> QED BY <1>1, <1>2 DEF PrepareNewNodes, TextsOfNewNodes

(***************************************************************************)
(* prepare_new_edges, one queued edge                                      *)
(***************************************************************************)
\* The text of an edge's property, if it has one of type String, is the only one that
\* is interned for it.
LEMMA EdgeTexts ==
  ASSUME NEW property \in SUBSET PropertyValue, \A p, q \in property : p = q
  PROVE  LET texts == {p.key[1] : p \in {p \in property : p.typ = "String"}}
             list == [i \in 1 .. Cardinality(texts) |-> Answer(texts)]
         IN  list \in Seq(Texts) /\ \A p \in property : p.typ = "String" => Mentions(list, p.key[1])
<1> DEFINE texts == {p.key[1] : p \in {p \in property : p.typ = "String"}}
           list == [i \in 1 .. Cardinality(texts) |-> Answer(texts)]
<1>1. CASE texts = {}
  <2>1. Cardinality(texts) = 0
    BY <1>1, FS_EmptySet
  <2>2. \A p \in property : p.typ # "String"
    BY <1>1
  <2> HIDE DEF texts
  <2>3. list \in ListOf(Texts, 0)
    BY <2>1 DEF ListOf
  <2> HIDE DEF list
  <2>4. list \in Seq(Texts)
    BY <2>3, ListIsSeq
  <2> QED BY <2>2, <2>4 DEF texts, list
<1>2. CASE texts # {}
  <2>1. PICK p \in property : p.typ = "String"
    BY <1>2
  <2> DEFINE t == p.key[1]
  <2>2. t \in Texts
    BY <2>1 DEF PropertyValue
  <2>3. texts = {t} /\ \A q \in property : q = p
    BY <2>1
  <2> HIDE DEF texts, t
  <2>4. Cardinality(texts) = 1
    BY <2>3, FS_Singleton
  <2>5. Answer(texts) = t
    BY <2>3 DEF Answer
  <2>6. list = [i \in 1 .. 1 |-> t]
    BY <2>4, <2>5
  <2>7. list \in ListOf(Texts, 1) /\ list[1] = t
    BY <2>2, <2>6 DEF ListOf
  <2> HIDE DEF list
  <2>8. list \in Seq(Texts) /\ Len(list) = 1
    BY <2>7, ListIsSeq
  <2>9. Mentions(list, t)
    BY <2>7, <2>8 DEF Mentions
  <2> QED BY <2>3, <2>8, <2>9 DEF texts, list, t
<1> QED BY <1>1, <1>2

\* A 0-based index within a sequence.
LEMMA ItemAt ==
  ASSUME NEW S, NEW seq \in Seq(S), NEW i \in Nat, i < Len(seq)
  PROVE  i + 1 \in 1 .. Len(seq) /\ seq[i + 1] \in S
OBVIOUS

\* An end that can carry an edge names a node there will be.
LEMMA EndIsNamed ==
  ASSUME IInv, pc = "new edges", NEW ref \in NewOrExistingNode, resolve_node_ref(ref) # {},
         NEW node, node = Answer(resolve_node_ref(ref)), Usable(node)
  PROVE  node \in RawNodeId /\ Named(node, Coming)
<1>1. CASE ref.ref = "new"
  <2> DEFINE i == ref.index
  <2>1. /\ i < Len(node_remapper)
        /\ resolve_node_ref(ref) = {node_remapper[i + 1]}
    BY <1>1 DEF resolve_node_ref
  <2>2. i \in Nat
    BY <1>1 DEF NewOrExistingNode
  <2>3. node = node_remapper[i + 1]
    BY <2>1 DEF Answer
  <2>4. /\ node_remapper \in Seq(RawNodeId)
        /\ \A j \in 1 .. Len(node_remapper) : Named(node_remapper[j], Coming)
    BY DEF IInv, StagedInv, RemapperInv, WithNewNodes
  <2> HIDE DEF i
  <2>5. i + 1 \in 1 .. Len(node_remapper) /\ node_remapper[i + 1] \in RawNodeId
    BY <2>1, <2>2, <2>4, ItemAt, Zenon
  <2>6. Named(node_remapper[i + 1], Coming)
    BY <2>4, <2>5, Zenon
  <2> QED BY <2>3, <2>5, <2>6, Zenon
<1>2. CASE ref.ref # "new"
  <2>1. ResolvesNodeKind(ref.node) /\ resolve_node_ref(ref) = {ref.node}
    BY <1>2 DEF resolve_node_ref
  <2>2. ref.node \in RawNodeId
    BY <1>2 DEF NewOrExistingNode
  <2>3. node = ref.node
    BY <2>1 DEF Answer
  <2>4. KindOf(node) \in NodeKinds
    BY <2>1, <2>3 DEF ResolvesNodeKind
  <2>5. Coming[KindOf(node)] = Len(nodes[KindOf(node)]) + NewCount(KindOf(node))
    BY <2>4 DEF Coming
  <2> QED BY <2>2, <2>3, <2>4, <2>5 DEF Named, Usable
<1> QED BY <1>1, <1>2

\* The parts of a half-edge that is staged for a slot.
HalfFits(half, s) ==
  /\ half \in [seq : Nat, neighbor : RawNodeId, property : SUBSET StoredProperty]
  /\ half.seq < Coming[SlotNodeKind(s)] /\ Named(half.neighbor, Coming)

\* One more half of the slot's kind.
LEMMA HalfAdded ==
  ASSUME NEW halves, NEW s, HalvesKept(halves, s), NEW half, HalfFits(half, s)
  PROVE  HalvesKept(Append(halves, half), s)
<1> DEFINE Half == [seq : Nat, neighbor : RawNodeId, property : SUBSET StoredProperty]
<1>1. halves \in Seq(Half) /\ half \in Half
  BY DEF HalvesKept, HalvesFit, HalfFits
<1> HIDE DEF Half
<1>2. /\ Append(halves, half) \in Seq(Half)
      /\ \A i \in 1 .. Len(Append(halves, half)) :
           Append(halves, half)[i] = half
           \/ (i \in 1 .. Len(halves) /\ Append(halves, half)[i] = halves[i])
  BY <1>1, OneMore
<1>3. /\ \A i \in 1 .. Len(halves) :
           halves[i].seq < Coming[SlotNodeKind(s)] /\ Named(halves[i].neighbor, Coming)
      /\ half.seq < Coming[SlotNodeKind(s)] /\ Named(half.neighbor, Coming)
  BY DEF HalvesKept, HalvesFit, HalfFits
<1>4. \A i \in 1 .. Len(Append(halves, half)) :
        /\ Append(halves, half)[i].seq < Coming[SlotNodeKind(s)]
        /\ Named(Append(halves, half)[i].neighbor, Coming)
  BY <1>2, <1>3
<1> QED BY <1>2, <1>4 DEF HalvesKept, HalvesFit, Half

AllHalvesKept(staged) == DOMAIN staged = EdgeSlots /\ \A s \in EdgeSlots : HalvesKept(staged[s], s)
\* A half pushed to its slot.
LEMMA HalfStaged ==
  ASSUME NEW staged, AllHalvesKept(staged), NEW slot \in EdgeSlots, NEW half, HalfFits(half, slot)
  PROVE  AllHalvesKept([staged EXCEPT ![slot] = Append(@, half)])
<1>1. ASSUME NEW s \in EdgeSlots PROVE HalvesKept([staged EXCEPT ![slot] = Append(@, half)][s], s)
  <2>1. CASE s = slot
    BY <2>1, HalfAdded DEF AllHalvesKept
  <2>2. CASE s # slot
    BY <2>2 DEF AllHalvesKept
  <2> QED BY <2>1, <2>2
<1> QED BY <1>1 DEF AllHalvesKept

\* A place up to a bound that is not past the end is within.
LEMMA NoFurther ==
  ASSUME NEW bound \in Nat, NEW i \in 1 .. bound + 1, NEW n \in Nat, i <= n
  PROVE  i \in 1 .. n
OBVIOUS

\* The edge prepare looks at.
LEMMA NewEdgeIs ==
  ASSUME IInv, pc = "new edges", cursor <= Len(diff[current].new_edges)
  PROVE  NewEdge \in QueuedEdge /\ EdgeQueued(NewEdge)
<1> DEFINE queue == diff[current].new_edges
<1>1. current \in Diffs /\ cursor \in 1 .. MaxOperations + 1
  BY DEF IInv, ControlInv
<1>2. diff[current] \in Diff /\ WellQueued(diff[current])
  BY <1>1 DEF IInv, ClientInv, QueueFits
<1>3. /\ queue \in Seq(QueuedEdge) /\ Len(queue) \in Nat /\ cursor <= Len(queue)
      /\ \A i \in 1 .. Len(queue) : EdgeQueued(queue[i])
  BY <1>2, DiffParts, DiffLengths DEF WellQueued
<1>4. NewEdge = queue[cursor]
  BY DEF NewEdge
<1> HIDE DEF queue
<1>5. cursor \in 1 .. Len(queue)
  BY <1>1, <1>3, Bounds, NoFurther, Zenon
<1> QED BY <1>3, <1>4, <1>5, ElementOfSeq, Zenon

\* The halves of an edge whose ends can carry it join those staged before.
LEMMA BothHalvesStaged ==
  ASSUME NEW staged, AllHalvesKept(staged), NEW src, NEW dst, NEW kind \in EdgeKinds,
         NEW property \in SUBSET StoredProperty,
         src \in RawNodeId, Named(src, Coming), dst \in RawNodeId, Named(dst, Coming)
  PROVE  LET half(node, neighbor) ==
               [seq |-> SeqOf(node), neighbor |-> neighbor, property |-> property]
         IN  AllHalvesKept(
               [staged EXCEPT
                  ![edge_storage_slot(KindOf(src), Out, kind)] = Append(@, half(src, dst)),
                  ![edge_storage_slot(KindOf(dst), In, kind)] = Append(@, half(dst, src))])
<1> DEFINE half(node, neighbor) ==
             [seq |-> SeqOf(node), neighbor |-> neighbor, property |-> property]
           out == edge_storage_slot(KindOf(src), Out, kind)
           in == edge_storage_slot(KindOf(dst), In, kind)
           mid == [staged EXCEPT ![out] = Append(@, half(src, dst))]
<1>1. SeqOf(src) \in Nat /\ SeqOf(dst) \in Nat
  BY DEF RawNodeId, SeqOf
<1>2. Out \in Directions /\ In \in Directions
  BY DEF Directions
<1>3. out \in EdgeSlots /\ SlotNodeKind(out) = KindOf(src) /\ SlotDirection(out) = Out
  BY <1>2, EdgeSlotOfKinds DEF Named
<1>4. in \in EdgeSlots /\ SlotNodeKind(in) = KindOf(dst) /\ SlotDirection(in) = In
  BY <1>2, EdgeSlotOfKinds DEF Named
<1>5. HalfFits(half(src, dst), out) /\ HalfFits(half(dst, src), in)
  <2> HIDE DEF out, in
  <2> QED BY <1>1, <1>3, <1>4 DEF HalfFits, Named
<1> HIDE DEF half, out, in
<1>6. AllHalvesKept(mid)
  BY <1>3, <1>5, HalfStaged
<1>7. [staged EXCEPT ![out] = Append(@, half(src, dst)), ![in] = Append(@, half(dst, src))]
        = [mid EXCEPT ![in] = Append(@, half(dst, src))]
  <2>1. out # in
    BY <1>3, <1>4 DEF Out, In
  <2>2. out \in DOMAIN staged /\ in \in DOMAIN staged
    BY <1>3, <1>4 DEF AllHalvesKept
  <2> QED BY <2>1, <2>2
<1> HIDE DEF mid
<1>8. AllHalvesKept([mid EXCEPT ![in] = Append(@, half(dst, src))])
  BY <1>4, <1>5, <1>6, HalfStaged
<1>9. AllHalvesKept(
        [staged EXCEPT ![out] = Append(@, half(src, dst)), ![in] = Append(@, half(dst, src))])
  BY <1>7, <1>8
<1> QED BY <1>9, Zenon DEF out, in, half

\* The property of the new edge, likewise.
TextsOfNewEdge ==
  LET texts == {p.key[1] : p \in {p \in NewEdge.property : p.typ = "String"}}
  IN  [i \in 1 .. Cardinality(texts) |-> Answer(texts)]
\* The text of a new edge is interned before its halves are made.
LEMMA NewEdgeInPool ==
  ASSUME IInv, pc = "new edges", cursor <= Len(diff[current].new_edges)
  PROVE  /\ TextsOfNewEdge \in Seq(Texts)
         /\ \A p \in NewEdge.property :
              p \in PropertyValue /\ InPool(p, Interned(strings, TextsOfNewEdge))
<1>1. NewEdge.property \in SUBSET PropertyValue /\ \A p, q \in NewEdge.property : p = q
  BY NewEdgeIs DEF QueuedEdge, EdgeQueued
<1>2. /\ TextsOfNewEdge \in Seq(Texts)
      /\ \A p \in NewEdge.property : p.typ = "String" => Mentions(TextsOfNewEdge, p.key[1])
  BY <1>1, EdgeTexts DEF TextsOfNewEdge
<1>3. strings \in Seq(Texts)
  BY DEF IInv, GraphInv
<1>4. ASSUME NEW p \in NewEdge.property PROVE InPool(p, Interned(strings, TextsOfNewEdge))
  <2>1. ASSUME p.typ = "String" PROVE Mentions(Interned(strings, TextsOfNewEdge), p.key[1])
    <3> DEFINE t == p.key[1]
    <3>1. Mentions(TextsOfNewEdge, t)
      BY <1>2, <2>1
    <3> HIDE DEF t
    <3>2. Mentions(Interned(strings, TextsOfNewEdge), t)
      BY <1>2, <1>3, <3>1, InternedMentions
    <3> QED BY <3>2 DEF t
  <2> QED BY <2>1, InPoolMentions
<1> QED BY <1>1, <1>2, <1>4

\* An edge that is staged has a half at each of two nodes that will be there.
LEMMA StageNewEdgeKeeps == ASSUME IInv, StageNewEdge PROVE IInv'
<1> DEFINE stored == {Stored(p, strings') : p \in NewEdge.property}
<1>1. /\ pc = "new edges" /\ cursor <= Len(diff[current].new_edges)
      /\ strings' = Interned(strings, TextsOfNewEdge) /\ cursor' = cursor + 1
      /\ UNCHANGED <<nodes, edges, properties, client_vars, pc, current, result,
                     strings_baseline, node_tombstones, property_updates, edge_removals,
                     property_replacements, edge_replacements, property_appends, node_remapper,
                     edge_inserts>>
  BY DEF StageNewEdge, TextsOfNewEdge
<1>2. /\ NewEdge.src \in NewOrExistingNode /\ NewEdge.dst \in NewOrExistingNode
      /\ NewEdge.kind \in EdgeKinds
  BY <1>1, NewEdgeIs DEF QueuedEdge, EdgeQueued
<1>3. /\ TextsOfNewEdge \in Seq(Texts)
      /\ \A p \in NewEdge.property : p \in PropertyValue /\ InPool(p, strings')
  BY <1>1, NewEdgeInPool
<1>4. strings' \in Seq(Texts) /\ GraphInv' /\ ChangesInv'
  BY <1>1, <1>3, InterningKeeps DEF IInv, StagedInv
<1>5. ClientInv'
  BY <1>1, ClientUnchanged DEF IInv
<1>6. ControlInv'
  <2>1. current \in Diffs /\ cursor \in 1 .. MaxOperations + 1 /\ version < MaxCommits
    BY <1>1 DEF IInv, ControlInv
  <2>2. diff[current] \in Diff /\ Operations(current) <= MaxOperations
    BY <2>1 DEF IInv, ClientInv, QueueFits
  <2>3. Operations(current) = OperationsOf(diff[current])
    BY DEF Operations, OperationsOf
  <2>4. Len(diff[current].new_edges) \in Nat /\ Len(diff[current].new_edges) <= MaxOperations
    BY <2>2, <2>3, OperationsCounted, DiffLengths, Bounds
  <2>5. /\ pc' = "new edges" /\ current' = current /\ cursor' = cursor + 1 /\ version' = version
        /\ diff' = diff
    BY <1>1 DEF client_vars
  <2> DEFINE len == Len(diff[current].new_edges)
  <2>6. len \in Nat /\ len <= MaxOperations /\ cursor <= len
    BY <1>1, <2>4
  <2> HIDE DEF len
  <2>7. cursor + 1 \in 1 .. MaxOperations + 1 /\ cursor + 1 <= len + 1
    BY <2>1, <2>6, Bounds
  <2> QED BY <2>1, <2>5, <2>7 DEF ControlInv, len
<1>7. WithNewNodes /\ WithNewNodes' /\ pc' # "staged"
  BY <1>1 DEF WithNewNodes
<1>8. diff' = diff /\ current' = current
  BY <1>1 DEF client_vars
<1>9. ReplacementsInv' /\ AppendsInv' /\ RemapperInv' /\ InsertsInv'
  BY <1>1, <1>7, <1>8, ReplacementsUnchanged, AppendsUnchanged, RemapperUnchanged, InsertsUnchanged
  DEF IInv, StagedInv
<1>10. stored \in SUBSET StoredProperty
  <2>1. ASSUME NEW p \in NewEdge.property PROVE Stored(p, strings') \in StoredProperty
    <3>1. p \in PropertyValue /\ InPool(p, strings')
      BY <1>3
    <3>2. Stored(p, strings').typ = p.typ /\ Stored(p, strings').key \in Key
      BY <1>4, <3>1, StoredKey
    <3>3. p.typ \in PropertyType \ {"None"}
      BY <3>1 DEF PropertyValue, PropertyType
    <3>4. Stored(p, strings') = [typ |-> Stored(p, strings').typ, key |-> Stored(p, strings').key]
      BY <3>1 DEF Stored, PropertyValue
    <3> QED BY <3>2, <3>3, <3>4 DEF StoredProperty
  <2> QED BY <2>1
<1>11. AllHalvesKept(edge_halves)
  BY <1>7 DEF IInv, StagedInv, HalvesInv, AllHalvesKept
<1>12. AllHalvesKept(edge_halves')
  <2>1. CASE UNCHANGED edge_halves
    BY <1>11, <2>1
  <2>2. CASE EdgeUsable /\ ~ UNCHANGED edge_halves
    <3> DEFINE src == Answer(resolve_node_ref(NewEdge.src))
               dst == Answer(resolve_node_ref(NewEdge.dst))
               half(node, neighbor) ==
                 [seq |-> SeqOf(node), neighbor |-> neighbor, property |-> stored]
    <3>1. /\ src \in RawNodeId /\ Named(src, Coming)
          /\ dst \in RawNodeId /\ Named(dst, Coming)
      BY <1>1, <1>2, <2>2, EndIsNamed DEF EdgeUsable
    <3>2. edge_halves' =
            [edge_halves EXCEPT
               ![edge_storage_slot(KindOf(src), Out, NewEdge.kind)] = Append(@, half(src, dst)),
               ![edge_storage_slot(KindOf(dst), In, NewEdge.kind)] = Append(@, half(dst, src))]
      BY <2>2, Zenon DEF StageNewEdge
    <3> HIDE DEF src, dst, stored
    <3> QED BY <1>2, <1>10, <1>11, <3>1, <3>2, BothHalvesStaged, Zenon
  <2> QED BY <2>1, <2>2 DEF StageNewEdge
<1>13. HalvesInv'
  <2>1. Coming' = Coming
    BY <1>1, <1>8 DEF Coming, NewCount, NewOfKind
  <2> QED BY <1>7, <1>12, <2>1 DEF HalvesInv, HalvesKept, AllHalvesKept
<1> QED BY <1>4, <1>5, <1>6, <1>9, <1>13 DEF IInv, StagedInv

(***************************************************************************)
(* prepare_new_edges, the rest                                             *)
(***************************************************************************)
\* A node there is, there will be.
LEMMA NamedLater ==
  ASSUME IInv, NEW node \in RawNodeId, Named(node, Standing)
  PROVE  Named(node, Coming)
<1>1. KindOf(node) \in NodeKinds
  BY DEF Named
<1> DEFINE k == KindOf(node)
           n == Standing[k]
           m == NewCount(k)
<1>2. n \in Nat /\ m \in Nat /\ Coming[k] = n + m
  BY <1>1, Counts DEF IInv, ControlInv
<1>3. SeqOf(node) < n
  BY DEF Named
<1>4. SeqOf(node) \in Nat
  BY DEF RawNodeId, SeqOf
<1>5. SeqOf(node) < Coming[k]
  <2> HIDE DEF n, m, k
  <2> QED BY <1>2, <1>3, <1>4
<1> QED BY <1>1, <1>5 DEF Named

\* A slot that new edges or new nodes touch takes them without an error; a slot they
\* do not touch is sound for the nodes there will be as it is.
LEMMA SlotInserted ==
  ASSUME NEW n \in Nat, NEW m \in Nat, NEW typ, NEW slot, EdgeSlotSound(slot, n, typ),
         NEW halves, HalvesFit(halves, n + m)
  PROVE  /\ InsertError(typ, Grown(slot.offsets, n + m + 1), halves) = Ok =>
              MergedWell(slot, EdgeSlotInsert(typ, Grown(slot.offsets, n + m + 1), halves),
                         halves, n + m, typ)
         /\ m = 0 \/ slot.offsets = <<>> => EdgeSlotSound(slot, n + m, typ)
<1> DEFINE offsets == Grown(slot.offsets, n + m + 1)
<1>1. /\ slot \in EdgeStorageSlot /\ Shaped(slot.offsets, n) /\ Paired(slot, typ)
      /\ LastOffset(slot.offsets) = Len(slot.neighbors)
  BY DEF EdgeSlotSound, Paired
<1>2. slot.offsets \in Seq(0 .. MaxOffset)
  BY <1>1 DEF EdgeStorageSlot
<1>3. /\ offsets \in Seq(0 .. MaxOffset) /\ Shaped(offsets, n + m) /\ offsets # <<>>
      /\ LastOffset(offsets) = LastOffset(slot.offsets)
  BY <1>1, <1>2, GrownShaped
<1> HIDE DEF offsets
<1>4. EndsWith(offsets, slot.neighbors) /\ n + m \in Nat
  BY <1>1, <1>3 DEF EndsWith
<1>5. ASSUME InsertError(typ, offsets, halves) = Ok
      PROVE  MergedWell(slot, EdgeSlotInsert(typ, offsets, halves), halves, n + m, typ)
  BY <1>1, <1>3, <1>4, <1>5, InsertedSound
<1>6. ASSUME m = 0 \/ slot.offsets = <<>> PROVE EdgeSlotSound(slot, n + m, typ)
  <2>1. CASE m = 0
    <3>1. n + m = n
      BY <2>1
    <3> QED BY <3>1
  <2>2. CASE slot.offsets = <<>>
    <3>1. Shaped(slot.offsets, n + m)
      BY <2>2 DEF Shaped
    <3> QED BY <3>1 DEF EdgeSlotSound
  <2> QED BY <1>6, <2>1, <2>2
<1> QED BY <1>5, <1>6, Zenon DEF offsets

\* prepare_new_edges stages slots that are well-formed for the nodes there will be.
LEMMA PrepareNewEdgesKeeps == ASSUME IInv, PrepareNewEdges PROVE IInv'
<1>1. CASE \E outcome : RollBack(outcome)
  BY <1>1, RollBackKeeps
<1>2. CASE /\ AllPass(InsertSlots, InsertCheck)
           /\ edge_inserts' =
                [s \in InsertSlots |->
                   EdgeSlotInsert(edges[s].values.typ, InsertOffsets(s), edge_halves[s])]
           /\ pc' = "staged"
           /\ UNCHANGED <<graph_vars, client_vars, current, cursor, result,
                          strings_baseline, node_tombstones, property_updates, edge_removals,
                          property_replacements, edge_replacements, property_appends,
                          node_remapper, edge_halves>>
  <2>1. pc = "new edges"
    BY DEF PrepareNewEdges
  <2>2. ClientInv' /\ ControlInv' /\ GraphInv'
    BY <1>2, <2>1, NextStepKeeps, GraphUnchanged DEF IInv
  <2>3. WithNewNodes /\ WithNewNodes'
    BY <1>2, <2>1 DEF WithNewNodes
  <2>4. /\ nodes' = nodes /\ edges' = edges /\ properties' = properties /\ strings' = strings
        /\ diff' = diff /\ current' = current
    BY <1>2 DEF graph_vars, client_vars
  <2>5. ChangesInv' /\ ReplacementsInv' /\ AppendsInv' /\ RemapperInv' /\ HalvesInv'
    BY <1>2, <2>3, <2>4, ChangesUnchanged, ReplacementsUnchanged, AppendsUnchanged,
       RemapperUnchanged, HalvesUnchanged
    DEF IInv, StagedInv
  <2>6. Coming' = Coming
    BY <2>4 DEF Coming, NewCount, NewOfKind
  <2>7. DOMAIN edge_inserts' = InsertSlots /\ InsertSlots \subseteq EdgeSlots
    BY <1>2 DEF InsertSlots
  <2>8. ASSUME NEW s \in EdgeSlots
        PROVE  /\ EdgeSlotKept(CommittedEdges'[s], s, Coming)
               /\ s \in InsertSlots =>
                    BatchesFit(Replaced(edges, edge_replacements, s), edge_inserts'[s])
    <3> DEFINE kind == SlotNodeKind(s)
               n == Standing[kind]
               m == NewCount(kind)
               typ == EdgeProperty[SlotEdgeKind(s)].typ
               slot == Replaced(edges, edge_replacements, s)
               halves == edge_halves[s]
               offsets == Grown(slot.offsets, n + m + 1)
               insert == EdgeSlotInsert(typ, offsets, halves)
               merged == merge_edge_batches(slot, insert)
    <3>1. kind \in NodeKinds
      BY SlotKinds
    <3>2. /\ n \in Nat /\ m \in Nat /\ n = Len(nodes[kind]) /\ Coming[kind] = n + m
      BY <3>1, Counts DEF IInv, ControlInv
    <3>3. EdgeSlotSound(slot, n, typ) /\ AllNamed(slot.neighbors, Standing)
          /\ edges[s].values.typ = typ
      BY DEF IInv, GraphInv, StagedInv, ReplacementsInv, EdgeSlotKept, Replaced, EdgeSlotSound
    <3>4. HalvesFit(halves, n + m) /\ \A j \in 1 .. Len(halves) : Named(halves[j].neighbor, Coming)
      BY <2>3, <3>2 DEF IInv, StagedInv, HalvesInv, HalvesKept
    <3>5. EdgeOffsets(s) = slot.offsets
      BY DEF EdgeOffsets, Replaced
    <3>6. InsertOffsets(s) = offsets
      BY <3>2, <3>5 DEF InsertOffsets, Grown
    <3>7. CommittedEdges'[s] = IF s \in InsertSlots THEN merge_edge_batches(slot, edge_inserts'[s]) ELSE slot
      BY <1>2, <2>4, <2>7 DEF CommittedEdges, Replaced
    <3>8. \A i \in 1 .. Len(slot.neighbors) : Named(slot.neighbors[i], Coming)
      <4>1. slot.neighbors \in Seq(RawNodeId)
        BY <3>3 DEF EdgeSlotSound, EdgeStorageSlot
      <4> HIDE DEF slot
      <4> QED BY <3>3, <4>1, NamedLater, ElementOfSeq DEF AllNamed
    <3>9. CASE s \in InsertSlots
      <4>1. edge_inserts'[s] = insert
        BY <1>2, <3>3, <3>6, <3>9
      <4>2. InsertError(typ, offsets, halves) = Ok
        BY <1>2, <3>3, <3>6, <3>9 DEF AllPass, InsertCheck
      <4> HIDE DEF kind, n, m, typ, slot, halves
      <4>3. MergedWell(slot, insert, halves, n + m, typ)
        BY <3>2, <3>3, <3>4, <4>2, SlotInserted, Zenon
      <4> HIDE DEF insert
      <4>4. /\ BatchesFit(slot, insert) /\ EdgeSlotSound(merged, n + m, typ)
            /\ TakesHalves(merged, slot, halves, typ)
        BY <4>3, Zenon DEF MergedWell
      <4> HIDE DEF merged
      <4>5. AllNamed(merged.neighbors, Coming)
        BY <3>4, <3>8, <4>4, Zenon DEF AllNamed, TakesHalves
      <4>6. CommittedEdges'[s] = merged
        BY <3>7, <3>9, <4>1 DEF merged
      <4>7. EdgeSlotKept(CommittedEdges'[s], s, Coming)
        BY <3>2, <4>5, <4>6, <4>4 DEF EdgeSlotKept, kind, typ
      <4> QED BY <4>1, <4>7, <4>4 DEF slot
    <3>10. CASE s \notin InsertSlots
      <4>1. m = 0 \/ slot.offsets = <<>>
        <5>1. ~ (m > 0 /\ slot.offsets # <<>>)
          BY <3>5, <3>10 DEF InsertSlots
        <5> HIDE DEF m
        <5> QED BY <3>2, <5>1
      <4> HIDE DEF kind, n, m, typ, slot, halves
      <4>2. EdgeSlotSound(slot, n + m, typ)
        BY <3>2, <3>3, <3>4, <4>1, SlotInserted, Zenon
      <4>3. AllNamed(slot.neighbors, Coming)
        BY <3>8 DEF AllNamed
      <4>4. CommittedEdges'[s] = slot
        BY <3>7, <3>10
      <4> QED BY <3>2, <3>10, <4>2, <4>3, <4>4 DEF EdgeSlotKept, kind, typ
    <3> QED BY <3>9, <3>10
  <2>9. InsertsInv'
    <3>1. edge_replacements' = edge_replacements
      BY <1>2
    <3> QED BY <2>4, <2>6, <2>7, <2>8, <3>1 DEF InsertsInv, Replaced
  <2> QED BY <2>2, <2>5, <2>9 DEF IInv, StagedInv
<1> QED BY <1>1, <1>2 DEF PrepareNewEdges

(***************************************************************************)
(* commit                                                                  *)
(***************************************************************************)
LEMMA ConcatExtends ==
  ASSUME NEW S, NEW s \in Seq(S), NEW t \in Seq(S)
  PROVE  /\ s \o t \in Seq(S) /\ Len(s \o t) = Len(s) + Len(t)
         /\ \A i \in 1 .. Len(s) : (s \o t)[i] = s[i]
BY ConcatProperties

\* The deleted flags of one kind after commit: the old ones, each raised or left,
\* with the new nodes' behind them.
LEMMA CommittedKind ==
  ASSUME IInv, pc = "staged", NEW k \in NodeKinds
  PROVE  /\ CommittedNodes[k] \in Seq(BOOLEAN)
         /\ Len(nodes[k]) \in Nat /\ Len(nodes[k]) <= Len(CommittedNodes[k])
         /\ Len(CommittedNodes[k]) = Coming[k]
         /\ \A i \in DOMAIN nodes[k] : nodes[k][i] => CommittedNodes[k][i]
         /\ \A i \in DOMAIN nodes[k] :
              CommittedNodes[k][i] => nodes[k][i] \/ <<k, i - 1>> \in node_tombstones
<1> DEFINE old == [i \in DOMAIN nodes[k] |-> nodes[k][i] \/ <<k, i - 1>> \in node_tombstones]
           mine == {i \in DOMAIN node_remapper : KindOf(node_remapper[i]) = k}
           added == Cardinality(mine)
           new == Repeat(FALSE, added)
<1>1. nodes[k] \in Seq(BOOLEAN) /\ DOMAIN nodes[k] = 1 .. Len(nodes[k]) /\ Len(nodes[k]) \in Nat
  BY DEF IInv, GraphInv
<1>2. old \in Seq(BOOLEAN) /\ Len(old) = Len(nodes[k])
  <2>1. old \in [1 .. Len(nodes[k]) -> BOOLEAN]
    BY <1>1
  <2> QED BY <1>1, <2>1, IsASeq, LenProperties
<1>3. mine = NewOfKind(k)
  <2>1. /\ node_remapper \in Seq(RawNodeId)
        /\ Len(node_remapper) = Len(diff[current].new_nodes)
        /\ \A i \in 1 .. Len(node_remapper) : KindOf(node_remapper[i]) = diff[current].new_nodes[i].kind
    BY DEF IInv, StagedInv, RemapperInv, WithNewNodes
  <2>2. diff[current].new_nodes \in Seq(NewNodeInputs)
    BY Counts DEF IInv, ControlInv
  <2>3. DOMAIN node_remapper = 1 .. Len(node_remapper) /\ DOMAIN diff[current].new_nodes = 1 .. Len(node_remapper)
    BY <2>1, <2>2, LenProperties
  <2> QED BY <2>1, <2>3 DEF NewOfKind
<1>4. added = NewCount(k)
  BY <1>3, Zenon DEF NewCount
<1>5. NewCount(k) \in Nat /\ Coming[k] = Len(nodes[k]) + NewCount(k)
  BY Counts DEF IInv, ControlInv, Coming
<1>6. CommittedNodes[k] = old \o new
  BY DEF CommittedNodes
<1> HIDE DEF added
<1>7. new \in Seq(BOOLEAN) /\ Len(new) = NewCount(k)
  BY <1>4, <1>5, RepeatIsList
<1> HIDE DEF old, new
<1>8. /\ old \o new \in Seq(BOOLEAN) /\ Len(old \o new) = Len(old) + Len(new)
      /\ \A i \in 1 .. Len(old) : (old \o new)[i] = old[i]
  BY <1>2, <1>7, ConcatExtends, Zenon
<1>9. \A i \in DOMAIN nodes[k] :
        /\ nodes[k][i] => old[i]
        /\ old[i] => nodes[k][i] \/ <<k, i - 1>> \in node_tombstones
  BY Zenon DEF old
<1>10. \A i \in DOMAIN nodes[k] : CommittedNodes[k][i] <=> old[i]
  BY <1>1, <1>2, <1>6, <1>8
<1>11. \A i \in DOMAIN nodes[k] :
         /\ nodes[k][i] => CommittedNodes[k][i]
         /\ CommittedNodes[k][i] => nodes[k][i] \/ <<k, i - 1>> \in node_tombstones
  BY <1>9, <1>10, Zenon
<1>12. /\ CommittedNodes[k] \in Seq(BOOLEAN)
       /\ Len(nodes[k]) \in Nat /\ Len(nodes[k]) <= Len(CommittedNodes[k])
       /\ Len(CommittedNodes[k]) = Coming[k]
  BY <1>1, <1>2, <1>5, <1>6, <1>7, <1>8
<1> QED BY <1>11, <1>12, Zenon

\* The next version is within the bound, and no diff is newer than it.
LEMMA NextVersionKeeps ==
  ASSUME ClientInv, version < MaxCommits, version' = version + 1, UNCHANGED <<diff, pinned>>
  PROVE  ClientInv'
<1>1. version + 1 \in 0 .. MaxCommits /\ version \in Nat
  BY Bounds DEF ClientInv
<1>2. \A d \in Diffs : pinned[d] \in Nat /\ Operations(d) <= MaxOperations /\ pinned[d] <= version /\ WellQueued(diff[d])
  BY DEF ClientInv, QueueFits
<1>3. \A d \in Diffs : pinned[d] <= version + 1
  BY <1>1, <1>2
<1>4. \A d \in Diffs : QueueFits(d)'
  BY <1>2, <1>3 DEF QueueFits, Operations
<1> QED BY <1>1, <1>4 DEF ClientInv

\* What is staged is well-formed together with the nodes that are added.
LEMMA CommitKeeps == ASSUME IInv, commit PROVE IInv'
<1>1. /\ pc = "staged" /\ nodes' = CommittedNodes /\ properties' = CommittedProperties
      /\ edges' = CommittedEdges /\ version' = version + 1 /\ Release
      /\ strings' = strings /\ diff' = diff /\ pinned' = pinned
  BY DEF commit
<1>2. ClientInv'
  <2>1. version < MaxCommits
    BY <1>1 DEF IInv, ControlInv
  <2> QED BY <1>1, <2>1, NextVersionKeeps DEF IInv
<1>3. ControlInv'
  <2>1. pc' = "idle" /\ cursor' = 1 /\ current' = current
    BY <1>1 DEF Release
  <2>2. 1 \in 1 .. MaxOperations + 1
    BY Bounds
  <2> QED BY <2>1, <2>2 DEF IInv, ControlInv
<1>4. nodes' \in [NodeKinds -> Seq(BOOLEAN)]
  <2>1. CommittedNodes = [k \in NodeKinds |-> CommittedNodes[k]]
    BY DEF CommittedNodes
  <2> QED BY <1>1, <2>1, CommittedKind
<1>5. Standing' = Coming
  <2>1. Standing' = [k \in NodeKinds |-> Len(CommittedNodes[k])]
    BY <1>1 DEF Standing
  <2>2. \A k \in NodeKinds : Len(CommittedNodes[k]) = Len(nodes[k]) + NewCount(k)
    BY <1>1, CommittedKind DEF Coming
  <2> QED BY <2>1, <2>2, Zenon DEF Coming
<1>6. \A s \in EdgeSlots : EdgeSlotKept(CommittedEdges[s], s, Coming)
  BY <1>1 DEF IInv, StagedInv, InsertsInv
<1>7. \A s \in PropertySlots : PropertySlotKept(CommittedProperties[s], s, Coming)
  BY <1>1 DEF IInv, StagedInv, AppendsInv, WithNewNodes
<1>8. GraphInv'
  <2>1. edges' \in [EdgeSlots -> EdgeStorageSlot]
    <3>1. CommittedEdges = [s \in EdgeSlots |-> CommittedEdges[s]]
      BY DEF CommittedEdges
    <3>2. \A s \in EdgeSlots : CommittedEdges[s] \in EdgeStorageSlot
      BY <1>6 DEF EdgeSlotKept, EdgeSlotSound
    <3> QED BY <1>1, <3>1, <3>2
  <2>2. properties' \in [PropertySlots -> PropertyStorageSlot]
    <3>1. CommittedProperties = [s \in PropertySlots |-> CommittedProperties[s]]
      BY DEF CommittedProperties
    <3>2. \A s \in PropertySlots : CommittedProperties[s] \in PropertyStorageSlot
      BY <1>7 DEF PropertySlotKept, PropertySlotSound
    <3> QED BY <1>1, <3>1, <3>2
  <2>3. strings' \in Seq(Texts)
    BY <1>1 DEF IInv, GraphInv
  <2>4. /\ \A s \in EdgeSlots : EdgeSlotKept(edges'[s], s, Standing')
        /\ \A s \in PropertySlots : PropertySlotKept(properties'[s], s, Standing')
    BY <1>1, <1>5, <1>6, <1>7
  <2> QED BY <1>4, <2>1, <2>2, <2>3, <2>4 DEF GraphInv
<1>9. StagedInv'
  <2>1. NothingStaged'
    BY <1>1, ReleaseClears
  <2>2. (GraphInv /\ NothingStaged => StagedInv)'
    BY NothingStagedFits, PTL
  <2> QED BY <1>8, <2>1, <2>2
<1> QED BY <1>2, <1>3, <1>8, <1>9 DEF IInv

\* No step, and no stutter, breaks the invariant.
LEMMA StepIInv == IInv /\ [Next]_vars => IInv'
<1> SUFFICES ASSUME IInv, [Next]_vars PROVE IInv'
  OBVIOUS
<1>1. CASE UNCHANGED vars
  <2>1. ClientInv' /\ GraphInv'
    BY <1>1, ClientUnchanged, GraphUnchanged DEF vars, IInv
  <2>2. ControlInv'
    BY <1>1 DEF vars, client_vars, control_vars, IInv, ControlInv
  <2>3. /\ UNCHANGED <<graph_vars, client_vars, staged_vars, control_vars>>
    BY <1>1 DEF vars
  <2>4. /\ UNCHANGED <<nodes, edges, properties, strings>>
        /\ UNCHANGED <<strings_baseline, node_tombstones, property_updates, edge_removals,
                       property_replacements, edge_replacements, property_appends,
                       node_remapper, edge_halves, edge_inserts>>
        /\ UNCHANGED <<diff, pinned, version, pc, current, cursor, result>>
    BY <2>3 DEF graph_vars, client_vars, staged_vars, control_vars
  <2>5. WithNewNodes' <=> WithNewNodes
    BY <2>4 DEF WithNewNodes
  <2>6. ChangesInv' /\ ReplacementsInv' /\ AppendsInv' /\ RemapperInv' /\ HalvesInv'
    BY <2>4, <2>5, ChangesUnchanged, ReplacementsUnchanged, AppendsUnchanged, RemapperUnchanged,
       HalvesUnchanged
    DEF IInv, StagedInv
  <2>7. InsertsInv'
    BY <2>4 DEF IInv, StagedInv, InsertsInv, CommittedEdges, Replaced, Coming, NewCount, NewOfKind
  <2> QED BY <2>1, <2>2, <2>6, <2>7 DEF IInv, StagedInv
<1>2. ASSUME NEW d \in Diffs,
             \/ add_node(d) \/ add_edge(d) \/ remove_node(d) \/ update_node_property(d)
             \/ remove_edge(d) \/ DropDiff(d) \/ BeginPrepare(d)
      PROVE  IInv'
  BY <1>2, ClientKeeps, BeginPrepareKeeps
<1>3. CASE ClassifyRemoveNode \/ ClassifyUpdate \/ ClassifyRemoveEdge
  BY <1>3, ClassifyRemoveNodeKeeps, ClassifyUpdateKeeps, ClassifyRemoveEdgeKeeps
<1>4. CASE PreparePropertyUpdates \/ PrepareEdgeRemovals \/ PrepareNewNodes \/ StageNewEdge
           \/ PrepareNewEdges
  BY <1>4, PreparePropertyUpdatesKeeps, PrepareEdgeRemovalsKeeps, PrepareNewNodesKeeps,
     StageNewEdgeKeeps, PrepareNewEdgesKeeps
<1>5. CASE commit \/ DropStaged
  BY <1>5, CommitKeeps, RollBackKeeps DEF DropStaged
<1> QED BY <1>1, <1>2, <1>3, <1>4, <1>5 DEF Next

\* The invariant holds all along.
LEMMA AlwaysIInv == Spec => []IInv
BY InitIInv, StepIInv, PTL DEF Spec

(***************************************************************************)
(* What follows                                                            *)
(***************************************************************************)
\* Whatever diffs are applied, in whatever order and however they fail, every slot of
\* the graph and of what is staged for it holds arrays of its declared types with
\* offsets that fit their width.
THEOREM TypeAlwaysOK == Spec => []TypeOK
<1>1. IInv => TypeOK
  <2> SUFFICES ASSUME IInv PROVE TypeOK
    OBVIOUS
  <2>1. graph \in Graph
    BY DEF IInv, GraphInv, graph, Graph
  <2>2. diff \in [Diffs -> Diff] /\ version \in 0 .. MaxCommits
    BY DEF IInv, ClientInv
  <2>3. ASSUME NEW d \in Diffs PROVE Operations(d) \in 0 .. MaxOperations /\ pinned[d] \in 0 .. version
    <3>1. /\ diff[d] \in Diff /\ pinned[d] \in Nat /\ version \in Nat
          /\ Operations(d) <= MaxOperations /\ pinned[d] <= version
      BY DEF IInv, ClientInv, QueueFits
    <3>2. Operations(d) = OperationsOf(diff[d])
      BY DEF Operations, OperationsOf
    <3>3. Operations(d) \in Nat
      BY <3>1, <3>2, OperationsCounted
    <3> QED BY <3>1, <3>3, Bounds
  <2>4. /\ pc \in {"idle", "changes", "removals", "new nodes", "new edges", "staged"}
        /\ current \in Diffs /\ cursor \in 1 .. MaxOperations + 1
    BY DEF IInv, ControlInv
  <2>5. /\ strings_baseline \in 0 .. Len(strings) /\ node_tombstones \subseteq RawNodeId
        /\ \A s \in EdgeSlots : edge_removals[s] \subseteq Nat \X Nat
    BY DEF IInv, StagedInv, ChangesInv
  <2>6. /\ DOMAIN property_replacements \subseteq PropertySlots
        /\ SlotValues(property_replacements) \subseteq PropertyStorageSlot
        /\ DOMAIN edge_replacements \subseteq EdgeSlots
        /\ SlotValues(edge_replacements) \subseteq EdgeStorageSlot
    BY DEF IInv, StagedInv, ReplacementsInv, PropertySlotKept, PropertySlotSound, EdgeSlotKept,
           EdgeSlotSound, SlotValues
  <2>7. /\ DOMAIN property_appends \subseteq PropertySlots /\ DOMAIN edge_inserts \subseteq EdgeSlots
        /\ node_remapper \in Seq(RawNodeId)
    BY DEF IInv, StagedInv, AppendsInv, InsertsInv, RemapperInv
  <2> QED BY <2>1, <2>2, <2>3, <2>4, <2>5, <2>6, <2>7 DEF TypeOK
<1> QED BY <1>1, AlwaysIInv, PTL

\* A StagedDiff that prepare returns can be committed: the two expect() calls of commit
\* hold, whatever the diff and the graph it was prepared for.
THEOREM CommitNeverPanics == Spec => []CommitCannotPanic
<1>1. IInv => CommitCannotPanic
  BY DEF IInv, StagedInv, AppendsInv, InsertsInv, WithNewNodes, CommitCannotPanic
<1> QED BY <1>1, AlwaysIInv, PTL

\* Only commit writes the nodes and the edges.
LEMMA GraphWritten == ASSUME Next PROVE commit \/ UNCHANGED <<nodes, edges>>
<1>1. \A outcome : RollBack(outcome) => UNCHANGED <<nodes, edges>>
  BY DEF RollBack
<1>2. NextChange => UNCHANGED <<nodes, edges>>
  BY DEF NextChange, graph_vars
<1>3. ASSUME NEW d \in Diffs, NEW queued, Queue(d, queued) PROVE UNCHANGED <<nodes, edges>>
  BY <1>3 DEF Queue, graph_vars
<1>4. ASSUME NEW d \in Diffs,
             \/ add_node(d) \/ add_edge(d) \/ remove_node(d) \/ update_node_property(d)
             \/ remove_edge(d) \/ DropDiff(d) \/ BeginPrepare(d)
      PROVE  UNCHANGED <<nodes, edges>>
  BY <1>3, <1>4 DEF add_node, add_edge, remove_node, update_node_property, remove_edge, DropDiff,
                    BeginPrepare, graph_vars
<1>5. ASSUME ClassifyRemoveNode \/ ClassifyUpdate \/ ClassifyRemoveEdge PROVE UNCHANGED <<nodes, edges>>
  BY <1>1, <1>2, <1>5 DEF ClassifyRemoveNode, ClassifyUpdate, ClassifyRemoveEdge
<1>6. ASSUME \/ PreparePropertyUpdates \/ PrepareEdgeRemovals \/ PrepareNewNodes
             \/ StageNewEdge \/ PrepareNewEdges \/ DropStaged
      PROVE  UNCHANGED <<nodes, edges>>
  BY <1>1, <1>6 DEF PreparePropertyUpdates, PrepareEdgeRemovals, PrepareNewNodes, StageNewEdge,
                    PrepareNewEdges, DropStaged, graph_vars
<1> QED BY <1>4, <1>5, <1>6 DEF Next

\* No diff, applied in whatever state, takes a node id away or brings a deleted
\* node back.
THEOREM NodeIdsAlwaysStable == Spec => NodeIdsStable
<1> DEFINE StillThere == \A k \in NodeKinds :
                           /\ Len(nodes[k]) <= Len(nodes'[k])
                           /\ \A i \in DOMAIN nodes[k] : nodes[k][i] => nodes'[k][i]
<1>1. ASSUME IInv, commit PROVE StillThere
  BY <1>1, CommittedKind DEF commit
<1>2. ASSUME IInv, UNCHANGED nodes PROVE StillThere
  <2>1. \A k \in NodeKinds : Len(nodes[k]) \in Nat
    BY <1>2 DEF IInv, GraphInv
  <2> QED BY <1>2, <2>1
<1>3. IInv /\ [Next]_vars => [StillThere]_vars
  BY <1>1, <1>2, GraphWritten
<1> QED BY <1>3, AlwaysIInv, PTL DEF Spec, NodeIdsStable

\* What a step does to the pool of texts: it grows, or goes back to what it was when
\* prepare began.
PoolStep ==
  \/ UNCHANGED strings
  \/ PoolGrown(strings, strings')
  \/ pc # "idle" /\ strings' = truncate(strings, strings_baseline)
\* The pool grows while a diff is prepared, and otherwise only a roll back writes it.
LEMMA StringsWritten == ASSUME IInv, Next PROVE PoolStep
<1>1. strings \in Seq(Texts)
  BY DEF IInv, GraphInv
<1>2. ASSUME pc # "idle", NEW outcome, RollBack(outcome) PROVE PoolStep
  BY <1>2 DEF PoolStep, RollBack
<1>3. NextChange => UNCHANGED strings
  BY DEF NextChange, graph_vars
<1>4. ASSUME NEW d \in Diffs, NEW queued, Queue(d, queued) PROVE UNCHANGED strings
  BY <1>4 DEF Queue, graph_vars
<1>5. ASSUME NEW d \in Diffs,
             \/ add_node(d) \/ add_edge(d) \/ remove_node(d) \/ update_node_property(d)
             \/ remove_edge(d) \/ DropDiff(d) \/ BeginPrepare(d)
      PROVE  UNCHANGED strings
  BY <1>4, <1>5, ZenonT(30)
     DEF add_node, add_edge, remove_node, update_node_property, remove_edge, DropDiff, BeginPrepare,
         graph_vars
<1>6. ASSUME ClassifyRemoveNode \/ ClassifyUpdate \/ ClassifyRemoveEdge PROVE PoolStep
  <2>1. pc # "idle"
    BY <1>6 DEF ClassifyRemoveNode, ClassifyUpdate, ClassifyRemoveEdge, AtChange
  <2> QED BY <1>2, <1>3, <1>6, <2>1, ZenonT(30)
          DEF ClassifyRemoveNode, ClassifyUpdate, ClassifyRemoveEdge, PoolStep
<1>7. CASE PreparePropertyUpdates
  <2>1. PoolGrown(strings, Interned(strings, Concat(TextsOfUpdates)))
    BY <1>1, UpdatesInPool, InterningGrows
  <2>2. pc # "idle"
    BY <1>7 DEF PreparePropertyUpdates
  <2>3. (\E outcome : RollBack(outcome)) \/ strings' = Interned(strings, Concat(TextsOfUpdates))
    BY <1>7 DEF PreparePropertyUpdates, TextsOfUpdates
  <2> QED BY <1>2, <2>1, <2>2, <2>3 DEF PoolStep
<1>8. CASE PrepareNewNodes
  <2>1. PoolGrown(strings, Interned(strings, Concat(TextsOfNewNodes)))
    BY <1>1, NewNodesInPool, InterningGrows
  <2>2. pc # "idle"
    BY <1>8 DEF PrepareNewNodes
  <2>3. (\E outcome : RollBack(outcome)) \/ strings' = Interned(strings, Concat(TextsOfNewNodes))
    BY <1>8 DEF PrepareNewNodes, TextsOfNewNodes
  <2> QED BY <1>2, <2>1, <2>2, <2>3 DEF PoolStep
<1>9. CASE StageNewEdge
  <2>1. pc = "new edges" /\ cursor <= Len(diff[current].new_edges)
        /\ strings' = Interned(strings, TextsOfNewEdge)
    BY <1>9 DEF StageNewEdge, TextsOfNewEdge
  <2> QED BY <1>1, <2>1, NewEdgeInPool, InterningGrows DEF PoolStep
<1>10. CASE PrepareEdgeRemovals \/ PrepareNewEdges \/ DropStaged
  <2>1. pc # "idle"
    BY <1>10 DEF PrepareEdgeRemovals, PrepareNewEdges, DropStaged
  <2>2. (\E outcome : RollBack(outcome)) \/ UNCHANGED strings
    BY <1>10 DEF PrepareEdgeRemovals, PrepareNewEdges, DropStaged, graph_vars
  <2> QED BY <1>2, <2>1, <2>2 DEF PoolStep
<1>11. CASE commit
  BY <1>11 DEF commit, PoolStep
<1> QED BY <1>5, <1>6, <1>7, <1>8, <1>9, <1>10, <1>11 DEF Next, PoolStep

\* Interning moves no text, and giving up a diff cuts none that was there before it was
\* prepared: the handles the graph stores keep their texts.
THEOREM InternedTextsAlwaysStable == Spec => InternedTextsStable
<1> DEFINE settled == IF pc = "idle" THEN Len(strings) ELSE strings_baseline
           StillRead == \A i \in 1 .. settled : i <= Len(strings') /\ strings'[i] = strings[i]
<1>1. ASSUME IInv, PoolStep PROVE StillRead
  <2>1. strings \in Seq(Texts) /\ strings_baseline \in 0 .. Len(strings) /\ Len(strings) \in Nat
    BY <1>1 DEF IInv, GraphInv, StagedInv, ChangesInv
  <2>2. settled \in Nat /\ settled <= Len(strings)
    BY <2>1
  <2>3. CASE UNCHANGED strings
    BY <2>1, <2>2, <2>3
  <2>4. CASE PoolGrown(strings, strings')
    <3> HIDE DEF settled
    <3> QED BY <2>1, <2>2, <2>4 DEF PoolGrown
  <2>5. CASE pc # "idle" /\ strings' = truncate(strings, strings_baseline)
    <3>1. Len(strings') = strings_baseline
          /\ \A i \in 1 .. strings_baseline : strings'[i] = strings[i]
      BY <2>1, <2>5, TruncateIsPool
    <3> QED BY <2>1, <2>5, <3>1
  <2> QED BY <1>1, <2>3, <2>4, <2>5 DEF PoolStep
<1>2. IInv /\ [Next]_vars => [StillRead]_vars
  BY <1>1, StringsWritten
<1> QED BY <1>2, AlwaysIInv, PTL DEF Spec, InternedTextsStable

(***************************************************************************)
(* The values the graph stores                                             *)
(*                                                                          *)
(* check_slots also asks that each value resolves.  The graph can only       *)
(* promise that of what it is given: to_stored_property interns a text, but   *)
(* stores a node id or an enum as it comes.  When what the caller writes      *)
(* resolves in the graphs a run starts from, everything stored does.         *)
(***************************************************************************)
\* The invariant: every value stored or staged resolves among the nodes of the seed g,
\* and, where it is a text, among as many texts as its place can rely on.  What the
\* graph stores relies on those that a roll back leaves.
KeyFits(g, decl, key, texts) ==
  /\ decl.typ = "NodeId" => key \in RawNodeId /\ Named(key, Counted(g))
  /\ decl.typ = "String" => key[1] \in Nat /\ key[1] < texts
  /\ decl.typ = "Enum" => check_enum_id(key[1], key[2], decl.enum) = Ok
ItemsFit(g, array, decl, texts) ==
  \A i \in 1 .. Len(array.items) : KeyFits(g, decl, array.items[i], texts)
HalvesResolve(g, halves, decl, texts) ==
  \A j \in 1 .. Len(halves) : \A v \in halves[j].property :
    v.typ = decl.typ => KeyFits(g, decl, v.key, texts)

EdgeDecl(s) == EdgeProperty[SlotEdgeKind(s)]
PropertyDeclOf(s) == NodeProperty[SlotPropertyKind(s)]
Settled == IF pc = "idle" THEN Len(strings) ELSE strings_baseline

ChangeResolves(c) ==
  c.change = "UpdateNodeProperty" => AllResolve(c.values, NodeProperty[c.property])
EdgeResolves(e) == \A p \in e.property : ValueResolves(p, EdgeProperty[e.kind])
QueueResolves(q) ==
  /\ \A i \in 1 .. Len(q.changes) : ChangeResolves(q.changes[i])
  /\ \A i \in 1 .. Len(q.new_edges) : EdgeResolves(q.new_edges[i])
QueuesResolve == \A d \in Diffs : QueueResolves(diff[d])

OutOf(g) == \A k \in NodeKinds : Counted(g)[k] \in Nat /\ Counted(g)[k] <= Standing[k]
GraphFits(g) ==
  /\ \A s \in EdgeSlots : ItemsFit(g, edges[s].values, EdgeDecl(s), Settled)
  /\ \A s \in PropertySlots : ItemsFit(g, properties[s].values, PropertyDeclOf(s), Settled)
UpdatesResolve ==
  \A s \in PropertySlots : \A seq \in DOMAIN property_updates[s] :
    AllResolve(property_updates[s][seq], PropertyDeclOf(s))
ReplacementsFit(g) ==
  /\ \A s \in DOMAIN property_replacements :
       ItemsFit(g, property_replacements[s].values, PropertyDeclOf(s), Len(strings))
  /\ \A s \in DOMAIN edge_replacements :
       ItemsFit(g, edge_replacements[s].values, EdgeDecl(s), Len(strings))
NewNodesFit(g) ==
  WithNewNodes => \A s \in PropertySlots :
    ItemsFit(g, CommittedProperties[s].values, PropertyDeclOf(s), Len(strings))
NewHalvesFit(g) ==
  WithNewNodes => \A s \in EdgeSlots :
    HalvesResolve(g, edge_halves[s], EdgeDecl(s), Len(strings))
NewEdgesFit(g) ==
  pc = "staged" => \A s \in EdgeSlots :
    ItemsFit(g, CommittedEdges[s].values, EdgeDecl(s), Len(strings))
Fits(g) ==
  /\ QueuesResolve /\ OutOf(g) /\ GraphFits(g) /\ UpdatesResolve
  /\ ReplacementsFit(g) /\ NewNodesFit(g) /\ NewHalvesFit(g) /\ NewEdgesFit(g)

\* What resolves among some texts resolves among more.
LEMMA MoreTexts ==
  ASSUME NEW g, NEW decl, NEW few \in Nat, NEW many \in Nat, few <= many
  PROVE  /\ \A key : KeyFits(g, decl, key, few) => KeyFits(g, decl, key, many)
         /\ \A array : ItemsFit(g, array, decl, few) => ItemsFit(g, array, decl, many)
         /\ \A halves : HalvesResolve(g, halves, decl, few) => HalvesResolve(g, halves, decl, many)
<1>1. ASSUME NEW key, KeyFits(g, decl, key, few) PROVE KeyFits(g, decl, key, many)
  <2> DEFINE h == key[1]
  <2>1. ASSUME h \in Nat, h < few PROVE h < many
    <3> HIDE DEF h
    <3> QED BY <2>1
  <2> QED BY <1>1, <2>1 DEF KeyFits
<1> QED BY <1>1 DEF ItemsFit, HalvesResolve

\* A value that resolves is stored under a key that does.
LEMMA StoredFits ==
  ASSUME NEW g \in Seeds, NEW decl, NEW pool \in Seq(Texts), NEW p \in PropertyValue,
         InPool(p, pool), ValueResolves(p, decl), p.typ = decl.typ
  PROVE  KeyFits(g, decl, Stored(p, pool).key, Len(pool))
<1>1. /\ p.typ # "String" => Stored(p, pool).key = p.key
      /\ p.typ = "String" => /\ Stored(p, pool).key[1] \in Nat
                             /\ Stored(p, pool).key[1] < Len(pool)
  BY StoredKey
<1>2. CASE p.typ = "String"
  BY <1>1, <1>2 DEF KeyFits
<1>3. CASE p.typ # "String"
  <2>1. /\ p.typ = "NodeId" => p.key \in RawNodeId /\ check_node_id(g, p.key) = Ok
        /\ p.typ = "Enum" => check_enum_id(p.key[1], p.key[2], decl.enum) = Ok
    BY DEF ValueResolves
  <2>2. ASSUME p.key \in RawNodeId, check_node_id(g, p.key) = Ok
        PROVE  Named(p.key, Counted(g))
    <3> DEFINE key == p.key
    <3> HIDE DEF key
    <3>1. ASSUME key \in RawNodeId, check_node_id(g, key) = Ok PROVE Named(key, Counted(g))
      <4>1. g \in Graph
        BY InputAssumption
      <4>2. SeqOf(key) \in Nat
        BY <3>1 DEF RawNodeId, SeqOf
      <4> QED BY <3>1, <4>1, <4>2, NodeIdCheck
    <3> QED BY <2>2, <3>1 DEF key
  <2> QED BY <1>1, <1>3, <2>1, <2>2 DEF KeyFits
<1> QED BY <1>2, <1>3

\* The number of texts the graph can rely on.
LEMMA SettledTexts ==
  ASSUME IInv
  PROVE  Settled \in Nat /\ Len(strings) \in Nat /\ Settled <= Len(strings)
BY DEF IInv, GraphInv, StagedInv, ChangesInv, Settled

\* The seeds are as they should be.
LEMMA SeedsFit ==
  ASSUME InputsResolve, NEW g \in Seeds
  PROVE  /\ \A k \in NodeKinds : Counted(g)[k] \in Nat
         /\ \A s \in EdgeSlots : ItemsFit(g, g.edges[s].values, EdgeDecl(s), Len(g.strings))
         /\ \A s \in PropertySlots :
              ItemsFit(g, g.properties[s].values, PropertyDeclOf(s), Len(g.strings))
<1>1. g \in Graph /\ CheckSlots(g) = Ok
  BY InputAssumption DEF check_integrity, Both
<1>2. \A k \in NodeKinds : Len(g.nodes[k]) \in Nat /\ Counted(g)[k] = Len(g.nodes[k])
  <2>1. g.nodes \in [NodeKinds -> Seq(BOOLEAN)]
    BY <1>1 DEF Graph
  <2> QED BY <2>1 DEF Counted
<1>3. /\ \A s \in PropertySlots : check_property_slot(g, s) = Ok
      /\ \A s \in EdgeSlots : check_edge_slot(g, s) = Ok
  BY <1>1, SlotsCheck
<1>4. ASSUME NEW array, NEW decl, ArrayKeyed(array), array.typ = decl.typ,
             AllContentPasses(g, array, decl.enum)
      PROVE  ItemsFit(g, array, decl, Len(g.strings))
  <2>1. ASSUME NEW i \in 1 .. Len(array.items)
        PROVE  KeyFits(g, decl, array.items[i], Len(g.strings))
    <3> DEFINE key == array.items[i]
    <3>1. /\ decl.typ = "NodeId" => key \in RawNodeId /\ check_node_id(g, key) = Ok
          /\ decl.typ = "String" => key[1] \in Nat /\ check_string_id(g, key[1]) = Ok
          /\ decl.typ = "Enum" => check_enum_id(key[1], key[2], decl.enum) = Ok
      BY <1>4 DEF ArrayKeyed, AllContentPasses, ContentPasses
    <3> HIDE DEF key
    <3>2. ASSUME key \in RawNodeId, check_node_id(g, key) = Ok PROVE Named(key, Counted(g))
      <4>1. SeqOf(key) \in Nat
        BY <3>2 DEF RawNodeId, SeqOf
      <4> QED BY <1>1, <3>2, <4>1, NodeIdCheck
    <3>3. check_string_id(g, key[1]) = Ok => key[1] < Len(g.strings)
      BY DEF check_string_id, Ok
    <3>4. KeyFits(g, decl, key, Len(g.strings))
      BY <3>1, <3>2, <3>3 DEF KeyFits
    <3> QED BY <3>4 DEF key
  <2> QED BY <2>1 DEF ItemsFit
<1>5. ASSUME NEW s \in EdgeSlots
      PROVE  ItemsFit(g, g.edges[s].values, EdgeDecl(s), Len(g.strings))
  <2>1. ArrayKeyed(g.edges[s].values)
    BY DEF InputsResolve
  <2>2. SlotNodeKind(s) \in NodeKinds
    BY SlotKinds
  <2>3. /\ EdgeSlotSound(g.edges[s], Len(g.nodes[SlotNodeKind(s)]), EdgeDecl(s).typ)
        /\ AllContentPasses(g, g.edges[s].values, EdgeDecl(s).enum)
    BY <1>1, <1>2, <1>3, <2>2, EdgeSlotCheck DEF EdgeDecl
  <2> QED BY <1>4, <2>1, <2>3 DEF EdgeSlotSound
<1>6. ASSUME NEW s \in PropertySlots
      PROVE  ItemsFit(g, g.properties[s].values, PropertyDeclOf(s), Len(g.strings))
  <2>1. ArrayKeyed(g.properties[s].values)
    BY DEF InputsResolve
  <2>2. SlotNodeKind(s) \in NodeKinds /\ PropertyDeclOf(s).typ # "None"
    BY SlotKinds, NodePropertyAssumption DEF PropertyDeclOf
  <2>3. /\ PropertySlotSound(g.properties[s], Len(g.nodes[SlotNodeKind(s)]), PropertyDeclOf(s).typ)
        /\ AllContentPasses(g, g.properties[s].values, PropertyDeclOf(s).enum)
    BY <1>1, <1>2, <1>3, <2>2, PropertySlotCheck DEF PropertyDeclOf
  <2> QED BY <1>4, <2>1, <2>3 DEF PropertySlotSound
<1> QED BY <1>2, <1>5, <1>6

\* Updates whose values resolve leave a slot whose values do.
LEMMA UpdatedFits ==
  ASSUME NEW g \in Seeds, NEW n \in Nat, NEW decl, NEW slot, PropertySlotSound(slot, n, decl.typ),
         NEW pool \in Seq(Texts), NEW updates, UpdatesTyped(updates, n), DOMAIN updates # {},
         UpdateError(slot, updates) = Ok,
         \A seq \in DOMAIN updates :
           AllInPool(updates[seq], pool) /\ AllResolve(updates[seq], decl),
         ItemsFit(g, slot.values, decl, Len(pool))
  PROVE  ItemsFit(g, UpdatedSlot(slot, updates, pool).values, decl, Len(pool))
<1> DEFINE updated == UpdatedSlot(slot, updates, pool)
<1>1. \A p \in 1 .. Len(updated.values.items) :
        \/ \E q \in 1 .. Len(slot.values.items) : updated.values.items[p] = slot.values.items[q]
        \/ \E seq \in DOMAIN updates : \E k \in 1 .. Len(updates[seq]) :
             /\ updates[seq][k].typ = decl.typ
             /\ updated.values.items[p] = Stored(updates[seq][k], pool).key
  BY UpdatedSlotSound
<1> HIDE DEF updated
<1>2. ASSUME NEW seq \in DOMAIN updates, NEW k \in 1 .. Len(updates[seq]),
             updates[seq][k].typ = decl.typ
      PROVE  KeyFits(g, decl, Stored(updates[seq][k], pool).key, Len(pool))
  <2>1. updates[seq][k] \in PropertyValue
    BY DEF UpdatesTyped
  <2>2. InPool(updates[seq][k], pool) /\ ValueResolves(updates[seq][k], decl)
    BY DEF AllInPool, AllResolve
  <2> QED BY <1>2, <2>1, <2>2, StoredFits
<1>3. ItemsFit(g, updated.values, decl, Len(pool))
  BY <1>1, <1>2 DEF ItemsFit
<1> QED BY <1>3 DEF updated

\* Likewise what new nodes bring.
LEMMA AppendedFits ==
  ASSUME NEW g \in Seeds, NEW n \in Nat, NEW decl, NEW slot, PropertySlotSound(slot, n, decl.typ),
         NEW pool \in Seq(Texts), NEW lists \in Seq(Seq(PropertyValue)),
         AppendError(decl.typ, slot.offsets, lists) = Ok,
         \A i \in 1 .. Len(lists) : AllInPool(lists[i], pool) /\ AllResolve(lists[i], decl),
         ItemsFit(g, slot.values, decl, Len(pool))
  PROVE  ItemsFit(g, Appended(slot, PropertySlotAppend(decl.typ, slot.offsets, lists, n, pool)).values,
                  decl, Len(pool))
<1> DEFINE appended == Appended(slot, PropertySlotAppend(decl.typ, slot.offsets, lists, n, pool))
<1>1. \A i \in 1 .. Len(lists) : AllInPool(lists[i], pool)
  OBVIOUS
<1>2. TakesValues(appended.values.items, slot.values.items, lists, decl.typ, pool)
  BY <1>1, AppendedSound
<1> HIDE DEF appended
<1>3. ASSUME NEW i \in 1 .. Len(lists), NEW k \in 1 .. Len(lists[i]), lists[i][k].typ = decl.typ
      PROVE  KeyFits(g, decl, Stored(lists[i][k], pool).key, Len(pool))
  <2>1. lists[i] \in Seq(PropertyValue)
    OBVIOUS
  <2>2. lists[i][k] \in PropertyValue
    BY <2>1
  <2>3. InPool(lists[i][k], pool) /\ ValueResolves(lists[i][k], decl)
    BY DEF AllInPool, AllResolve
  <2> QED BY <1>3, <2>2, <2>3, StoredFits
<1>4. ItemsFit(g, appended.values, decl, Len(pool))
  BY <1>2, <1>3 DEF ItemsFit, TakesValues
<1> QED BY <1>4 DEF appended

\* What is left of a slot resolves.
LEMMA WithoutFits ==
  ASSUME NEW g, NEW n \in Nat, NEW decl, NEW slot, EdgeSlotSound(slot, n, decl.typ),
         slot.offsets # <<>>, NEW removals, RemovalsFit(slot, removals),
         NEW texts, ItemsFit(g, slot.values, decl, texts)
  PROVE  ItemsFit(g, WithoutEdges(slot, removals).values, decl, texts)
<1> DEFINE without == WithoutEdges(slot, removals)
<1>1. \A p \in 1 .. Len(without.values.items) :
        \E q \in 1 .. Len(slot.values.items) : without.values.items[p] = slot.values.items[q]
  BY WithoutEdgesSound
<1> HIDE DEF without
<1>2. ItemsFit(g, without.values, decl, texts)
  BY <1>1 DEF ItemsFit
<1> QED BY <1>2 DEF without

\* Likewise what new half-edges bring.
LEMMA MergedFits ==
  ASSUME NEW g, NEW decl, NEW slot, NEW halves, NEW merged, TakesHalves(merged, slot, halves, decl.typ),
         NEW texts, ItemsFit(g, slot.values, decl, texts), HalvesResolve(g, halves, decl, texts)
  PROVE  ItemsFit(g, merged.values, decl, texts)
<1>1. CASE decl.typ = "None"
  BY <1>1 DEF ItemsFit, KeyFits
<1>2. CASE decl.typ # "None"
  <2>1. \A p \in 1 .. Len(merged.values.items) :
          \/ \E q \in 1 .. Len(slot.values.items) : merged.values.items[p] = slot.values.items[q]
          \/ \E j \in 1 .. Len(halves) : \E v \in halves[j].property :
               v.typ = decl.typ /\ merged.values.items[p] = v.key
    BY <1>2 DEF TakesHalves
  <2> QED BY <2>1 DEF ItemsFit, HalvesResolve
<1> QED BY <1>1, <1>2

\* What a step does not touch still resolves; more texts, or those that were settled,
\* are enough.
LEMMA QueuesSame == QueuesResolve /\ UNCHANGED diff => QueuesResolve'
BY DEF QueuesResolve

\* Nodes named in the seed stay named: there are no fewer.
LEMMA OutSame == ASSUME NEW g, OutOf(g), UNCHANGED nodes PROVE OutOf(g)'
BY DEF OutOf, Standing

\* What resolves does so while the graph and its pool stay.
LEMMA GraphSame ==
  ASSUME NEW g, GraphFits(g), UNCHANGED <<edges, properties>>, Settled' = Settled
  PROVE  GraphFits(g)'
BY DEF GraphFits

\* So do the slots that replace stored ones.
LEMMA ReplacementsSame ==
  ASSUME NEW g, ReplacementsFit(g), UNCHANGED <<property_replacements, edge_replacements>>,
         Len(strings) \in Nat, Len(strings') \in Nat, Len(strings) <= Len(strings')
  PROVE  ReplacementsFit(g)'
BY MoreTexts DEF ReplacementsFit

\* So do those with new nodes behind them.
LEMMA NewNodesSame ==
  ASSUME NEW g, NewNodesFit(g), WithNewNodes' => WithNewNodes,
         UNCHANGED <<properties, property_replacements, property_appends>>,
         Len(strings) \in Nat, Len(strings') \in Nat, Len(strings) <= Len(strings')
  PROVE  NewNodesFit(g)'
<1>1. CommittedProperties' = CommittedProperties
  BY DEF CommittedProperties, Replaced
<1> QED BY <1>1, MoreTexts DEF NewNodesFit

\* So do the halves of new edges.
LEMMA NewHalvesSame ==
  ASSUME NEW g, NewHalvesFit(g), WithNewNodes' => WithNewNodes, UNCHANGED edge_halves,
         Len(strings) \in Nat, Len(strings') \in Nat, Len(strings) <= Len(strings')
  PROVE  NewHalvesFit(g)'
BY MoreTexts DEF NewHalvesFit

\* Where nothing is staged, nothing staged can fail to resolve.
LEMMA NothingStagedResolves ==
  ASSUME NEW g, NothingStaged
  PROVE  UpdatesResolve /\ ReplacementsFit(g) /\ NewNodesFit(g) /\ NewHalvesFit(g) /\ NewEdgesFit(g)
<1>1. \A s \in PropertySlots : DOMAIN property_updates[s] = {}
  BY DEF NothingStaged, NoFunction
<1>2. DOMAIN property_replacements = {} /\ DOMAIN edge_replacements = {}
  BY DEF NothingStaged, NoFunction
<1>3. ~ WithNewNodes /\ pc # "staged"
  BY DEF NothingStaged, WithNewNodes
<1> QED BY <1>1, <1>2, <1>3 DEF UpdatesResolve, ReplacementsFit, NewNodesFit, NewHalvesFit, NewEdgesFit

\* A roll back leaves the texts the stored graph relies on, and nothing staged.
LEMMA RollBackFits ==
  ASSUME IInv, NEW g, Fits(g), pc # "idle", NEW outcome, RollBack(outcome)
  PROVE  Fits(g)'
<1>1. QueuesResolve' /\ OutOf(g)'
  BY QueuesSame, OutSame DEF Fits, RollBack, client_vars
<1>2. Settled' = Settled
  <2>1. strings \in Seq(Texts) /\ strings_baseline \in 0 .. Len(strings)
    BY DEF IInv, GraphInv, StagedInv, ChangesInv
  <2>2. Len(strings') = strings_baseline
    BY <2>1, TruncateIsPool DEF RollBack
  <2>3. pc' = "idle"
    BY DEF RollBack, Release
  <2> QED BY <2>2, <2>3 DEF Settled
<1>3. GraphFits(g)'
  BY <1>2, GraphSame DEF Fits, RollBack
<1>4. NothingStaged'
  BY ReleaseClears DEF RollBack
<1>5. (NothingStaged =>
         UpdatesResolve /\ ReplacementsFit(g) /\ NewNodesFit(g) /\ NewHalvesFit(g) /\ NewEdgesFit(g))'
  BY NothingStagedResolves, PTL
<1> QED BY <1>1, <1>3, <1>4, <1>5 DEF Fits

\* A longer queue resolves when the operation that is added does.
LEMMA QueueFitsStill ==
  ASSUME IInv, NEW g, Fits(g), NEW d \in Diffs, NEW queued, QueueResolves(queued),
         diff' = [diff EXCEPT ![d] = queued], UNCHANGED <<graph_vars, staged_vars, pc>>
  PROVE  Fits(g)'
<1>1. QueuesResolve'
  BY DEF IInv, ClientInv, Fits, QueuesResolve
<1>2. /\ OutOf(g)' /\ Settled' = Settled
      /\ UNCHANGED <<edges, properties, strings, property_updates, property_replacements,
                     edge_replacements, property_appends, edge_halves, edge_inserts>>
  BY OutSame DEF Fits, graph_vars, staged_vars, Settled
<1>3. GraphFits(g)' /\ UpdatesResolve' /\ ReplacementsFit(g)' /\ NewHalvesFit(g)'
  BY <1>2, GraphSame DEF Fits, UpdatesResolve, ReplacementsFit, NewHalvesFit, WithNewNodes
<1>4. CommittedProperties' = CommittedProperties /\ CommittedEdges' = CommittedEdges
  BY <1>2 DEF CommittedProperties, CommittedEdges, Replaced
<1>5. NewNodesFit(g)' /\ NewEdgesFit(g)'
  BY <1>2, <1>4 DEF Fits, NewNodesFit, NewEdgesFit, WithNewNodes
<1> QED BY <1>1, <1>2, <1>3, <1>5 DEF Fits

\* A change whose values resolve is queued behind others.
LEMMA ChangeQueuedResolves ==
  ASSUME NEW q \in Diff, QueueResolves(q), NEW c \in QueuedChange, ChangeResolves(c)
  PROVE  QueueResolves([q EXCEPT !.changes = Append(@, c)])
<1> DEFINE queued == [q EXCEPT !.changes = Append(@, c)]
<1>1. \A i \in 1 .. Len(Append(q.changes, c)) :
        Append(q.changes, c)[i] = c
        \/ (i \in 1 .. Len(q.changes) /\ Append(q.changes, c)[i] = q.changes[i])
  BY DiffParts, OneMore
<1>2. queued.changes = Append(q.changes, c) /\ queued.new_edges = q.new_edges
  BY DEF Diff
<1> HIDE DEF queued
<1>3. QueueResolves(queued)
  BY <1>1, <1>2 DEF QueueResolves
<1> QED BY <1>3 DEF queued

\* So is an edge.
LEMMA EdgeQueuedResolves ==
  ASSUME NEW q \in Diff, QueueResolves(q), NEW e \in QueuedEdge, EdgeResolves(e)
  PROVE  QueueResolves([q EXCEPT !.new_edges = Append(@, e)])
<1> DEFINE queued == [q EXCEPT !.new_edges = Append(@, e)]
<1>1. \A i \in 1 .. Len(Append(q.new_edges, e)) :
        Append(q.new_edges, e)[i] = e
        \/ (i \in 1 .. Len(q.new_edges) /\ Append(q.new_edges, e)[i] = q.new_edges[i])
  BY DiffParts, OneMore
<1>2. queued.new_edges = Append(q.new_edges, e) /\ queued.changes = q.changes
  BY DEF Diff
<1> HIDE DEF queued
<1>3. QueueResolves(queued)
  BY <1>1, <1>2 DEF QueueResolves
<1> QED BY <1>3 DEF queued

\* What a caller queues resolves, by the hypothesis.
LEMMA ClientFits ==
  ASSUME InputsResolve, IInv, NEW g, Fits(g), NEW d \in Diffs,
         \/ add_node(d) \/ add_edge(d) \/ remove_node(d) \/ update_node_property(d)
         \/ remove_edge(d) \/ DropDiff(d)
  PROVE  Fits(g)'
<1>1. diff[d] \in Diff /\ QueueResolves(diff[d])
  BY DEF IInv, ClientInv, Fits, QueuesResolve
<1>2. ASSUME NEW queued, QueueResolves(queued), Queue(d, queued) PROVE Fits(g)'
  BY <1>2, QueueFitsStill DEF Queue
<1>3. CASE add_node(d)
  <2>1. PICK n \in NewNodeInputs : Queue(d, [diff[d] EXCEPT !.new_nodes = Append(@, n)])
    BY <1>3 DEF add_node
  <2>2. QueueResolves([diff[d] EXCEPT !.new_nodes = Append(@, n)])
    BY <1>1 DEF QueueResolves, Diff
  <2> QED BY <1>2, <2>1, <2>2
<1>4. CASE add_edge(d)
  <2>1. PICK src \in NodeRefs(d), dst \in NodeRefs(d), kind \in EdgeKinds, property \in EdgeProps :
          Queue(d, [diff[d] EXCEPT !.new_edges =
                      Append(@, [src |-> src, dst |-> dst, kind |-> kind, property |-> property])])
    BY <1>4 DEF add_edge
  <2> DEFINE e == [src |-> src, dst |-> dst, kind |-> kind, property |-> property]
  <2>2. NodeRefs(d) \subseteq NewOrExistingNode /\ property \subseteq PropertyValue
    BY <2>1, InputAssumption DEF NodeRefs, NewOrExistingNode, New, Existing
  <2>3. e \in QueuedEdge /\ EdgeResolves(e)
    BY <2>1, <2>2 DEF QueuedEdge, EdgeResolves, InputsResolve
  <2> HIDE DEF e
  <2>4. Queue(d, [diff[d] EXCEPT !.new_edges = Append(@, e)])
    BY <2>1 DEF e
  <2> QED BY <1>1, <1>2, <2>3, <2>4, EdgeQueuedResolves
<1>5. ASSUME NEW c \in QueuedChange, ChangeResolves(c),
             Queue(d, [diff[d] EXCEPT !.changes = Append(@, c)])
      PROVE  Fits(g)'
  BY <1>1, <1>2, <1>5, ChangeQueuedResolves
<1>6. CASE remove_node(d)
  <2>1. PICK node \in RemovedNodes :
          Queue(d, [diff[d] EXCEPT !.changes = Append(@, [change |-> "RemoveNode", node |-> node])])
    BY <1>6 DEF remove_node
  <2>2. [change |-> "RemoveNode", node |-> node] \in QueuedChange
    BY <2>1, InputAssumption DEF QueuedChange
  <2>3. ChangeResolves([change |-> "RemoveNode", node |-> node])
    BY DEF ChangeResolves
  <2> QED BY <1>5, <2>1, <2>2, <2>3
<1>7. CASE update_node_property(d)
  <2>1. PICK u \in UpdateInputs :
          Queue(d, [diff[d] EXCEPT !.changes =
                      Append(@, [change |-> "UpdateNodeProperty",
                                 node |-> u[1], property |-> u[2], values |-> u[3]])])
    BY <1>7 DEF update_node_property
  <2> DEFINE c == [change |-> "UpdateNodeProperty", node |-> u[1], property |-> u[2], values |-> u[3]]
  <2>2. u[1] \in RawNodeId /\ u[2] \in PropertyKinds /\ u[3] \in Seq(PropertyValue)
    BY <2>1, InputAssumption
  <2>3. c \in QueuedChange /\ ChangeResolves(c)
    BY <2>1, <2>2 DEF QueuedChange, ChangeResolves, InputsResolve
  <2> QED BY <1>5, <2>1, <2>3
<1>8. CASE remove_edge(d)
  <2>1. PICK id \in EdgeIds(graph) \cup StrayIds :
          Queue(d, [diff[d] EXCEPT !.changes = Append(@, [change |-> "RemoveEdge", edge |-> id])])
    BY <1>8 DEF remove_edge
  <2> DEFINE c == [change |-> "RemoveEdge", edge |-> id]
  <2>2. id \in EdgeId
    <3>1. CASE id \in EdgeIds(graph)
      BY <3>1, EdgeIdsResolve DEF IInv
    <3>2. CASE id \in StrayIds
      BY <3>2, InputAssumption
    <3> QED BY <2>1, <3>1, <3>2
  <2>3. c \in QueuedChange /\ ChangeResolves(c)
    BY <2>2 DEF QueuedChange, ChangeResolves
  <2> QED BY <1>5, <2>1, <2>3
<1>9. CASE DropDiff(d)
  <2>1. 1 .. 0 = {}
    OBVIOUS
  <2>2. QueueResolves(EmptyDiff)
    BY <2>1, EmptyFits DEF QueueResolves
  <2> QED BY <1>9, <2>2, QueueFitsStill DEF DropDiff
<1> QED BY <1>3, <1>4, <1>6, <1>7, <1>8, <1>9

\* From here on the stored graph relies on the texts there are now.
LEMMA BeginPrepareFits ==
  ASSUME IInv, NEW g, Fits(g), NEW d \in Diffs, BeginPrepare(d)
  PROVE  Fits(g)'
<1>1. QueuesResolve' /\ OutOf(g)' /\ Settled' = Settled
  BY QueuesSame, OutSame DEF Fits, BeginPrepare, client_vars, graph_vars, Settled
<1>2. Len(strings) \in Nat /\ strings' = strings /\ ~ WithNewNodes'
  BY SettledTexts DEF BeginPrepare, graph_vars, WithNewNodes
<1>3. GraphFits(g)' /\ UpdatesResolve' /\ ReplacementsFit(g)'
  BY <1>1, <1>2, GraphSame DEF Fits, BeginPrepare, graph_vars, UpdatesResolve, ReplacementsFit
<1>4. NewNodesFit(g)' /\ NewHalvesFit(g)' /\ NewEdgesFit(g)'
  BY <1>2 DEF NewNodesFit, NewHalvesFit, NewEdgesFit, WithNewNodes
<1> QED BY <1>1, <1>3, <1>4 DEF Fits

\* Taking the next change writes no value.
LEMMA NextChangeFits ==
  ASSUME IInv, NEW g, Fits(g), pc = "changes", NextChange, UpdatesResolve'
  PROVE  Fits(g)'
<1>1. QueuesResolve' /\ OutOf(g)' /\ Settled' = Settled
  BY QueuesSame, OutSame DEF Fits, NextChange, client_vars, graph_vars, Settled
<1>2. strings' = strings /\ ~ WithNewNodes'
  BY DEF NextChange, graph_vars, WithNewNodes
<1>3. GraphFits(g)' /\ ReplacementsFit(g)'
  BY <1>1, <1>2, GraphSame DEF Fits, NextChange, graph_vars, ReplacementsFit
<1>4. NewNodesFit(g)' /\ NewHalvesFit(g)' /\ NewEdgesFit(g)'
  BY <1>2 DEF NewNodesFit, NewHalvesFit, NewEdgesFit, WithNewNodes
<1> QED BY <1>1, <1>3, <1>4 DEF Fits

\* Nor does classifying a removal.
LEMMA ClassifyRemovalsFit ==
  ASSUME IInv, NEW g, Fits(g), ClassifyRemoveNode \/ ClassifyRemoveEdge
  PROVE  Fits(g)'
<1>1. pc = "changes"
  BY DEF ClassifyRemoveNode, ClassifyRemoveEdge, AtChange
<1>2. CASE \E outcome : RollBack(outcome)
  BY <1>1, <1>2, RollBackFits
<1>3. CASE NextChange /\ UNCHANGED property_updates
  <2>1. UpdatesResolve'
    BY <1>3 DEF Fits, UpdatesResolve
  <2> QED BY <1>1, <1>3, <2>1, NextChangeFits
<1> QED BY <1>2, <1>3, ZenonT(30) DEF ClassifyRemoveNode, ClassifyRemoveEdge

\* The values of an update are resolved for the property they are written to.
LEMMA ClassifyUpdateFits ==
  ASSUME IInv, NEW g, Fits(g), ClassifyUpdate
  PROVE  Fits(g)'
<1>1. pc = "changes" /\ cursor <= Len(diff[current].changes) /\ Change.change = "UpdateNodeProperty"
  BY DEF ClassifyUpdate, AtChange
<1>2. CASE \E outcome : RollBack(outcome)
  BY <1>1, <1>2, RollBackFits
<1> DEFINE slot == property_storage_slot(KindOf(Change.node), Change.property)
<1>3. CASE /\ ResolvesNodeKind(Change.node)
           /\ NextChange
           /\ property_updates' =
                [property_updates EXCEPT ![slot] = With(@, SeqOf(Change.node), Change.values)]
  <2>1. Change \in QueuedChange
    BY <1>1, ChangeIs
  <2>2. Change.property \in PropertyKinds /\ KindOf(Change.node) \in NodeKinds
    BY <1>1, <1>3, <2>1 DEF QueuedChange, ResolvesNodeKind
  <2>3. slot \in PropertySlots /\ SlotPropertyKind(slot) = Change.property
    BY <2>2, PropertySlotOfKinds
  <2>4. AllResolve(Change.values, NodeProperty[Change.property])
    <3>1. current \in Diffs /\ cursor \in Nat /\ 1 <= cursor
      BY AtCursor
    <3>2. diff[current] \in Diff /\ QueueResolves(diff[current])
      BY <3>1 DEF IInv, ClientInv, Fits, QueuesResolve
    <3>3. cursor \in 1 .. Len(diff[current].changes)
      BY <1>1, <3>1, <3>2, DiffLengths
    <3>4. ChangeResolves(Change)
      BY <3>2, <3>3 DEF QueueResolves, Change
    <3> QED BY <1>1, <3>4 DEF ChangeResolves
  <2>5. DOMAIN property_updates = PropertySlots
    BY DEF IInv, StagedInv, ChangesInv
  <2> HIDE DEF slot
  <2>6. ASSUME NEW s \in PropertySlots, NEW seq \in DOMAIN property_updates'[s]
        PROVE  AllResolve(property_updates'[s][seq], PropertyDeclOf(s))
    <3> DEFINE updates == property_updates[s]
    <3>1. \A x \in DOMAIN updates : AllResolve(updates[x], PropertyDeclOf(s))
      BY DEF Fits, UpdatesResolve
    <3>2. CASE s # slot
      <4>1. property_updates'[s] = property_updates[s]
        BY <1>3, <2>5, <3>2
      <4> QED BY <3>1, <4>1
    <3>3. CASE s = slot
      <4>1. property_updates'[s] = With(updates, SeqOf(Change.node), Change.values)
        BY <1>3, <2>3, <2>5, <3>3
      <4>2. PropertyDeclOf(s) = NodeProperty[Change.property]
        BY <2>3, <3>3 DEF PropertyDeclOf
      <4> HIDE DEF updates
      <4> QED BY <2>4, <3>1, <4>1, <4>2 DEF With
    <3> QED BY <3>2, <3>3
  <2>7. UpdatesResolve'
    BY <2>6 DEF UpdatesResolve, PropertyDeclOf
  <2> QED BY <1>1, <1>3, <2>7, NextChangeFits
<1> QED BY <1>2, <1>3 DEF ClassifyUpdate

\* prepare_property_updates stages slots whose values resolve.
LEMMA PreparePropertyUpdatesFits ==
  ASSUME IInv, NEW g \in Seeds, Fits(g), PreparePropertyUpdates
  PROVE  Fits(g)'
<1> DEFINE updated == {s \in PropertySlots : DOMAIN property_updates[s] # {}}
<1>1. pc = "changes"
  BY DEF PreparePropertyUpdates
<1>2. CASE \E outcome : RollBack(outcome)
  BY <1>1, <1>2, RollBackFits
<1>3. CASE /\ AllPass(PropertySlots, UpdateCheck)
           /\ strings' = Interned(strings, Concat(TextsOfUpdates))
           /\ property_replacements' =
                [s \in updated |-> UpdatedSlot(properties[s], property_updates[s], strings')]
           /\ pc' = "removals"
           /\ UNCHANGED <<nodes, edges, properties, diff, strings_baseline, property_updates,
                          edge_replacements>>
  <2>1. /\ Concat(TextsOfUpdates) \in Seq(Texts)
        /\ \A s \in PropertySlots : \A seq \in DOMAIN property_updates[s] :
             AllInPool(property_updates[s][seq], strings')
    BY <1>3, UpdatesInPool
  <2>2. /\ strings' \in Seq(Texts) /\ Len(strings) \in Nat /\ Len(strings') \in Nat
        /\ Len(strings) <= Len(strings')
    <3>1. strings \in Seq(Texts) /\ Len(strings) \in Nat
      BY DEF IInv, GraphInv
    <3> QED BY <1>3, <2>1, <3>1, InterningGrows DEF PoolGrown
  <2>3. QueuesResolve' /\ OutOf(g)' /\ Settled' = Settled
    BY <1>1, <1>3, QueuesSame, OutSame DEF Fits, Settled
  <2>4. GraphFits(g)' /\ UpdatesResolve'
    BY <1>3, <2>3, GraphSame DEF Fits, UpdatesResolve
  <2>5. ASSUME NEW s \in PropertySlots, DOMAIN property_updates[s] # {}
        PROVE  ItemsFit(g, UpdatedSlot(properties[s], property_updates[s], strings').values,
                        PropertyDeclOf(s), Len(strings'))
    <3> DEFINE n == Standing[SlotNodeKind(s)]
               slot == properties[s]
               updates == property_updates[s]
    <3>1. PropertySlotSound(slot, n, PropertyDeclOf(s).typ) /\ n \in Nat /\ UpdatesTyped(updates, n)
      <4>1. SlotNodeKind(s) \in NodeKinds
        BY SlotKinds
      <4>2. n \in Nat
        BY <4>1, Counts DEF IInv, ControlInv
      <4> QED BY <4>2 DEF IInv, GraphInv, PropertySlotKept, StagedInv, ChangesInv, PropertyDeclOf
    <3>2. UpdateError(slot, updates) = Ok
      BY <1>3 DEF AllPass, UpdateCheck
    <3>3. \A seq \in DOMAIN updates :
            AllInPool(updates[seq], strings') /\ AllResolve(updates[seq], PropertyDeclOf(s))
      BY <2>1 DEF Fits, UpdatesResolve
    <3>4. ItemsFit(g, slot.values, PropertyDeclOf(s), Len(strings'))
      <4>1. ItemsFit(g, slot.values, PropertyDeclOf(s), Settled)
        BY DEF Fits, GraphFits
      <4>2. Settled \in Nat /\ Settled <= Len(strings)
        BY SettledTexts
      <4>3. Settled <= Len(strings')
        BY <2>2, <4>2
      <4> QED BY <2>2, <4>1, <4>2, <4>3, MoreTexts
    <3>5. DOMAIN updates # {}
      BY <2>5
    <3> HIDE DEF n, slot, updates
    <3>6. ItemsFit(g, UpdatedSlot(slot, updates, strings').values, PropertyDeclOf(s), Len(strings'))
      BY <2>2, <3>1, <3>2, <3>3, <3>4, <3>5, UpdatedFits
    <3> QED BY <3>6 DEF slot, updates
  <2>6. ReplacementsFit(g)'
    <3>1. DOMAIN property_replacements' = updated
          /\ \A s \in updated : property_replacements'[s]
                = UpdatedSlot(properties[s], property_updates[s], strings')
      BY <1>3
    <3>2. \A s \in DOMAIN property_replacements' :
            ItemsFit(g, property_replacements'[s].values, PropertyDeclOf(s), Len(strings'))
      BY <2>5, <3>1
    <3>3. \A s \in DOMAIN edge_replacements' :
            ItemsFit(g, edge_replacements'[s].values, EdgeDecl(s), Len(strings'))
      BY <1>3, <2>2, MoreTexts DEF Fits, ReplacementsFit
    <3> QED BY <3>2, <3>3 DEF ReplacementsFit, PropertyDeclOf, EdgeDecl
  <2>7. NewNodesFit(g)' /\ NewHalvesFit(g)' /\ NewEdgesFit(g)'
    BY <1>3 DEF NewNodesFit, NewHalvesFit, NewEdgesFit, WithNewNodes
  <2> QED BY <2>3, <2>4, <2>6, <2>7 DEF Fits
<1> QED BY <1>2, <1>3 DEF PreparePropertyUpdates, TextsOfUpdates, client_vars

\* prepare_edge_removals stages slots whose values resolve.
LEMMA PrepareEdgeRemovalsFits ==
  ASSUME IInv, NEW g, Fits(g), PrepareEdgeRemovals
  PROVE  Fits(g)'
<1> DEFINE removed == {s \in EdgeSlots : edge_removals[s] # {} /\ edges[s].offsets # <<>>}
<1>1. pc = "removals"
  BY DEF PrepareEdgeRemovals
<1>2. CASE \E outcome : RollBack(outcome)
  BY <1>1, <1>2, RollBackFits
<1>3. CASE /\ AllPass(EdgeSlots, RemovalCheck)
           /\ edge_replacements' = [s \in removed |-> WithoutEdges(edges[s], edge_removals[s])]
           /\ pc' = "new nodes"
           /\ UNCHANGED <<nodes, edges, properties, strings, diff, strings_baseline,
                          property_updates, property_replacements>>
  <2>1. QueuesResolve' /\ OutOf(g)' /\ Settled' = Settled
    BY <1>1, <1>3, QueuesSame, OutSame DEF Fits, Settled
  <2>2. GraphFits(g)' /\ UpdatesResolve'
    BY <1>3, <2>1, GraphSame DEF Fits, UpdatesResolve
  <2>3. ASSUME NEW s \in EdgeSlots, edge_removals[s] # {} /\ edges[s].offsets # <<>>
        PROVE  ItemsFit(g, WithoutEdges(edges[s], edge_removals[s]).values, EdgeDecl(s), Len(strings))
    <3> DEFINE n == Standing[SlotNodeKind(s)]
               slot == edges[s]
               removals == edge_removals[s]
    <3>1. n \in Nat
      BY SlotKinds, Counts DEF IInv, ControlInv
    <3>2. EdgeSlotSound(slot, n, EdgeDecl(s).typ)
      BY DEF IInv, GraphInv, EdgeSlotKept, EdgeDecl
    <3>3. slot.offsets # <<>> /\ removals \subseteq Nat \X Nat
      BY <2>3 DEF IInv, StagedInv, ChangesInv
    <3>4. RemovalError(slot, removals) = Ok
      BY <1>3 DEF AllPass, RemovalCheck
    <3>5. ItemsFit(g, slot.values, EdgeDecl(s), Len(strings))
      <4>1. ItemsFit(g, slot.values, EdgeDecl(s), Settled)
        BY DEF Fits, GraphFits
      <4> QED BY <4>1, SettledTexts, MoreTexts
    <3> HIDE DEF n, slot, removals
    <3>6. RemovalsFit(slot, removals)
      BY <3>1, <3>2, <3>3, <3>4, RemovalPasses
    <3>7. ItemsFit(g, WithoutEdges(slot, removals).values, EdgeDecl(s), Len(strings))
      BY <3>1, <3>2, <3>3, <3>5, <3>6, WithoutFits
    <3> QED BY <3>7 DEF slot, removals
  <2>4. ReplacementsFit(g)'
    <3>1. DOMAIN edge_replacements' = removed
          /\ \A s \in removed : edge_replacements'[s] = WithoutEdges(edges[s], edge_removals[s])
      BY <1>3
    <3>2. \A s \in DOMAIN edge_replacements' :
            ItemsFit(g, edge_replacements'[s].values, EdgeDecl(s), Len(strings))
      BY <2>3, <3>1
    <3> QED BY <1>3, <3>2 DEF Fits, ReplacementsFit, EdgeDecl, PropertyDeclOf
  <2>5. NewNodesFit(g)' /\ NewHalvesFit(g)' /\ NewEdgesFit(g)'
    BY <1>3 DEF NewNodesFit, NewHalvesFit, NewEdgesFit, WithNewNodes
  <2> QED BY <2>1, <2>2, <2>4, <2>5 DEF Fits
<1> QED BY <1>2, <1>3 DEF PrepareEdgeRemovals, client_vars, graph_vars

\* The values new nodes bring for a slot resolve for its property.
LEMMA NewValuesResolve ==
  ASSUME InputsResolve, IInv, NEW s \in PropertySlots
  PROVE  \A i \in 1 .. Len(NewValues(s)) : AllResolve(NewValues(s)[i], PropertyDeclOf(s))
<1> DEFINE kind == SlotNodeKind(s)
           m == NewCount(kind)
           queue == diff[current].new_nodes
           new(i) == queue[Nth(NewOfKind(kind), i)]
           values(i) == IF SlotPropertyKind(s) \in DOMAIN new(i).properties
                          THEN new(i).properties[SlotPropertyKind(s)] ELSE <<>>
<1>1. kind \in NodeKinds
  BY SlotKinds
<1>2. /\ m \in Nat /\ Within(NewOfKind(kind), Len(queue)) /\ queue \in Seq(NewNodeInputs)
      /\ Len(queue) \in Nat /\ m = Cardinality(NewOfKind(kind))
  BY <1>1, Counts DEF IInv, ControlInv, NewCount
<1>3. ASSUME NEW i \in 1 .. m PROVE AllResolve(values(i), PropertyDeclOf(s))
  <2>1. Nth(NewOfKind(kind), i) \in NewOfKind(kind)
    BY <1>2, NthFound
  <2>2. Nth(NewOfKind(kind), i) \in 1 .. Len(queue)
    BY <1>2, <2>1 DEF Within
  <2>3. new(i) \in NewNodeInputs
    BY <1>2, <2>2
  <2> HIDE DEF new
  <2>4. AllResolve(<<>>, PropertyDeclOf(s))
    BY DEF AllResolve
  <2>5. SlotPropertyKind(s) \in DOMAIN new(i).properties =>
          AllResolve(new(i).properties[SlotPropertyKind(s)], PropertyDeclOf(s))
    BY <2>3 DEF InputsResolve, PropertyDeclOf
  <2> QED BY <2>4, <2>5
<1>4. NewValues(s) = [i \in 1 .. m |-> values(i)]
  BY DEF NewValues
<1>5. Len(NewValues(s)) = m
  BY NewValuesAre
<1> HIDE DEF values, m
<1> QED BY <1>3, <1>4, <1>5

\* prepare_new_nodes stages values that resolve.
LEMMA PrepareNewNodesFits ==
  ASSUME InputsResolve, IInv, NEW g \in Seeds, Fits(g), PrepareNewNodes
  PROVE  Fits(g)'
<1> DEFINE growing == {s \in PropertySlots : ~ AppendsNothing(PropertyOffsets(s), NewValues(s))}
<1>1. pc = "new nodes"
  BY DEF PrepareNewNodes
<1>2. CASE \E outcome : RollBack(outcome)
  BY <1>1, <1>2, RollBackFits
<1>3. CASE /\ AllPass(PropertySlots, AppendCheck)
           /\ strings' = Interned(strings, Concat(TextsOfNewNodes))
           /\ property_appends' =
                [s \in growing |->
                   PropertySlotAppend(properties[s].values.typ, PropertyOffsets(s), NewValues(s),
                                      Len(nodes[SlotNodeKind(s)]), strings')]
           /\ pc' = "new edges"
           /\ UNCHANGED <<nodes, edges, properties, diff, strings_baseline, property_updates,
                          property_replacements, edge_replacements, edge_halves>>
  <2>1. /\ Concat(TextsOfNewNodes) \in Seq(Texts)
        /\ \A s \in PropertySlots : AllInPool(Concat(NewValues(s)), strings')
    BY <1>3, NewNodesInPool
  <2>2. /\ strings' \in Seq(Texts) /\ Len(strings) \in Nat /\ Len(strings') \in Nat
        /\ Len(strings) <= Len(strings')
    <3>1. strings \in Seq(Texts) /\ Len(strings) \in Nat
      BY DEF IInv, GraphInv
    <3> QED BY <1>3, <2>1, <3>1, InterningGrows DEF PoolGrown
  <2>3. QueuesResolve' /\ OutOf(g)' /\ Settled' = Settled
    BY <1>1, <1>3, QueuesSame, OutSame DEF Fits, Settled
  <2>4. GraphFits(g)' /\ UpdatesResolve'
    BY <1>3, <2>3, GraphSame DEF Fits, UpdatesResolve
  <2>5. ReplacementsFit(g)'
    BY <1>3, <2>2, ReplacementsSame DEF Fits
  <2>6. ASSUME NEW s \in PropertySlots
        PROVE  ItemsFit(g, CommittedProperties'[s].values, PropertyDeclOf(s), Len(strings'))
    <3> DEFINE kind == SlotNodeKind(s)
               n == Standing[kind]
               decl == PropertyDeclOf(s)
               slot == Replaced(properties, property_replacements, s)
               lists == NewValues(s)
               append == PropertySlotAppend(decl.typ, slot.offsets, lists, n, strings')
    <3>1. n \in Nat /\ n = Len(nodes[kind])
      BY SlotKinds, Counts DEF IInv, ControlInv
    <3>2. PropertySlotSound(slot, n, decl.typ) /\ properties[s].values.typ = decl.typ
      BY DEF IInv, GraphInv, StagedInv, ReplacementsInv, PropertySlotKept, Replaced,
             PropertySlotSound, PropertyDeclOf
    <3>3. PropertyOffsets(s) = slot.offsets
      BY DEF PropertyOffsets, Replaced
    <3>4. AppendError(decl.typ, slot.offsets, lists) = Ok
      BY <1>3, <3>2, <3>3 DEF AllPass, AppendCheck
    <3>5. lists \in Seq(Seq(PropertyValue)) /\ AllInPool(Concat(lists), strings')
      BY <2>1, NewValuesAre
    <3>6. \A i \in 1 .. Len(lists) : AllResolve(lists[i], decl)
      BY NewValuesResolve
    <3>7. s \in growing => property_appends'[s] = append
      BY <1>3, <3>1, <3>2, <3>3
    <3>8. CommittedProperties'[s] = IF s \in growing THEN Appended(slot, property_appends'[s]) ELSE slot
      BY <1>3 DEF CommittedProperties, Replaced
    <3>9. ItemsFit(g, slot.values, decl, Len(strings'))
      <4>1. Settled \in Nat /\ Settled <= Len(strings)
        BY SettledTexts
      <4>2. ItemsFit(g, slot.values, decl, Settled) \/ ItemsFit(g, slot.values, decl, Len(strings))
        BY DEF Fits, GraphFits, ReplacementsFit, Replaced
      <4>3. Settled <= Len(strings')
        BY <2>2, <4>1
      <4> QED BY <2>2, <4>1, <4>2, <4>3, MoreTexts
    <3> HIDE DEF kind, n, decl, slot, lists, growing
    <3>10. \A i \in 1 .. Len(lists) : AllInPool(lists[i], strings') /\ AllResolve(lists[i], decl)
      BY <3>5, <3>6, ListsInPool
    <3>11. ItemsFit(g, Appended(slot, append).values, decl, Len(strings'))
      BY <2>2, <3>1, <3>2, <3>4, <3>5, <3>9, <3>10, AppendedFits
    <3> HIDE DEF append
    <3>12. ItemsFit(g, CommittedProperties'[s].values, decl, Len(strings'))
      BY <3>7, <3>8, <3>9, <3>11
    <3> QED BY <3>12 DEF decl
  <2>7. NewNodesFit(g)'
    BY <2>6 DEF NewNodesFit, PropertyDeclOf
  <2>8. NewHalvesFit(g)'
    <3>1. \A s \in EdgeSlots : edge_halves'[s] = <<>>
      BY <1>1, <1>3 DEF IInv, StagedInv, HalvesInv, WithNewNodes
    <3> QED BY <3>1 DEF NewHalvesFit, HalvesResolve
  <2>9. NewEdgesFit(g)'
    BY <1>3 DEF NewEdgesFit
  <2> QED BY <2>3, <2>4, <2>5, <2>7, <2>8, <2>9 DEF Fits
<1> QED BY <1>2, <1>3 DEF PrepareNewNodes, TextsOfNewNodes, client_vars

\* A half-edge that joins those staged resolves with them.
AllHalvesResolve(g, staged, texts) ==
  \A s \in EdgeSlots : HalvesResolve(g, staged[s], EdgeDecl(s), texts)
ValuesFit(g, values, decl, texts) ==
  \A v \in values : v.typ = decl.typ => KeyFits(g, decl, v.key, texts)
\* A half whose value resolves is pushed to its slot.
LEMMA HalfStagedResolves ==
  ASSUME NEW g, NEW texts, NEW staged, AllHalvesKept(staged), AllHalvesResolve(g, staged, texts),
         NEW slot \in EdgeSlots, NEW half, HalfFits(half, slot),
         ValuesFit(g, half.property, EdgeDecl(slot), texts)
  PROVE  AllHalvesResolve(g, [staged EXCEPT ![slot] = Append(@, half)], texts)
<1> DEFINE longer == [staged EXCEPT ![slot] = Append(@, half)]
           halves == staged[slot]
           Half == [seq : Nat, neighbor : RawNodeId, property : SUBSET StoredProperty]
<1>1. DOMAIN staged = EdgeSlots /\ halves \in Seq(Half) /\ half \in Half
  BY DEF AllHalvesKept, HalvesKept, HalvesFit, HalfFits
<1>2. \A s \in EdgeSlots : s # slot => longer[s] = staged[s]
  BY <1>1
<1>3. longer[slot] = Append(halves, half)
  BY <1>1
<1> HIDE DEF longer, Half
<1>4. HalvesResolve(g, Append(halves, half), EdgeDecl(slot), texts)
  <2>1. HalvesResolve(g, halves, EdgeDecl(slot), texts)
    BY DEF AllHalvesResolve
  <2>2. \A i \in 1 .. Len(Append(halves, half)) :
          Append(halves, half)[i] = half
          \/ (i \in 1 .. Len(halves) /\ Append(halves, half)[i] = halves[i])
    BY <1>1, OneMore
  <2> HIDE DEF halves
  <2> QED BY <2>1, <2>2 DEF HalvesResolve, ValuesFit
<1>5. AllHalvesResolve(g, longer, texts)
  BY <1>2, <1>3, <1>4 DEF AllHalvesResolve
<1> QED BY <1>5 DEF longer

\* Both halves of an edge bring the value its kind declares.
LEMMA BothHalvesResolve ==
  ASSUME NEW g, NEW texts, NEW staged, AllHalvesKept(staged), AllHalvesResolve(g, staged, texts),
         NEW src, NEW dst, NEW kind \in EdgeKinds, NEW property \in SUBSET StoredProperty,
         src \in RawNodeId, Named(src, Coming), dst \in RawNodeId, Named(dst, Coming),
         ValuesFit(g, property, EdgeProperty[kind], texts)
  PROVE  LET half(node, neighbor) ==
               [seq |-> SeqOf(node), neighbor |-> neighbor, property |-> property]
         IN  AllHalvesResolve(g,
               [staged EXCEPT
                  ![edge_storage_slot(KindOf(src), Out, kind)] = Append(@, half(src, dst)),
                  ![edge_storage_slot(KindOf(dst), In, kind)] = Append(@, half(dst, src))],
               texts)
<1> DEFINE half(node, neighbor) ==
             [seq |-> SeqOf(node), neighbor |-> neighbor, property |-> property]
           out == edge_storage_slot(KindOf(src), Out, kind)
           in == edge_storage_slot(KindOf(dst), In, kind)
           mid == [staged EXCEPT ![out] = Append(@, half(src, dst))]
<1>1. SeqOf(src) \in Nat /\ SeqOf(dst) \in Nat
  BY DEF RawNodeId, SeqOf
<1>2. Out \in Directions /\ In \in Directions
  BY DEF Directions
<1>3. /\ out \in EdgeSlots /\ SlotNodeKind(out) = KindOf(src) /\ SlotDirection(out) = Out
      /\ SlotEdgeKind(out) = kind
  BY <1>2, EdgeSlotOfKinds DEF Named
<1>4. /\ in \in EdgeSlots /\ SlotNodeKind(in) = KindOf(dst) /\ SlotDirection(in) = In
      /\ SlotEdgeKind(in) = kind
  BY <1>2, EdgeSlotOfKinds DEF Named
<1>5. HalfFits(half(src, dst), out) /\ HalfFits(half(dst, src), in)
  <2> HIDE DEF out, in
  <2> QED BY <1>1, <1>3, <1>4 DEF HalfFits, Named
<1>6. half(src, dst).property = property /\ half(dst, src).property = property
  OBVIOUS
<1>7. /\ ValuesFit(g, half(src, dst).property, EdgeDecl(out), texts)
      /\ ValuesFit(g, half(dst, src).property, EdgeDecl(in), texts)
  <2> HIDE DEF out, in, half
  <2> QED BY <1>3, <1>4, <1>6 DEF EdgeDecl
<1> HIDE DEF half, out, in
<1>8. AllHalvesKept(mid) /\ AllHalvesResolve(g, mid, texts)
  BY <1>3, <1>5, <1>7, HalfStaged, HalfStagedResolves
<1>9. [staged EXCEPT ![out] = Append(@, half(src, dst)), ![in] = Append(@, half(dst, src))]
        = [mid EXCEPT ![in] = Append(@, half(dst, src))]
  <2>1. out # in
    BY <1>3, <1>4 DEF Out, In
  <2>2. out \in DOMAIN staged /\ in \in DOMAIN staged
    BY <1>3, <1>4 DEF AllHalvesKept
  <2> QED BY <2>1, <2>2
<1> HIDE DEF mid
<1>10. AllHalvesResolve(g, [mid EXCEPT ![in] = Append(@, half(dst, src))], texts)
  BY <1>4, <1>5, <1>7, <1>8, HalfStagedResolves
<1>11. AllHalvesResolve(g,
         [staged EXCEPT ![out] = Append(@, half(src, dst)), ![in] = Append(@, half(dst, src))],
         texts)
  BY <1>9, <1>10
<1> QED BY <1>11, Zenon DEF out, in, half

\* A queued edge is staged with a value that resolves.
LEMMA StageNewEdgeFits ==
  ASSUME IInv, NEW g \in Seeds, Fits(g), StageNewEdge
  PROVE  Fits(g)'
<1> DEFINE stored == {Stored(p, strings') : p \in NewEdge.property}
<1>1. /\ pc = "new edges" /\ cursor <= Len(diff[current].new_edges)
      /\ strings' = Interned(strings, TextsOfNewEdge)
      /\ UNCHANGED <<nodes, edges, properties, client_vars, pc, strings_baseline,
                     property_updates, property_replacements, edge_replacements, property_appends>>
  BY DEF StageNewEdge, TextsOfNewEdge
<1>2. /\ NewEdge \in QueuedEdge /\ NewEdge.src \in NewOrExistingNode
      /\ NewEdge.dst \in NewOrExistingNode /\ NewEdge.kind \in EdgeKinds
  BY <1>1, NewEdgeIs DEF QueuedEdge
<1>3. /\ TextsOfNewEdge \in Seq(Texts)
      /\ \A p \in NewEdge.property : p \in PropertyValue /\ InPool(p, strings')
  BY <1>1, NewEdgeInPool
<1>4. /\ strings' \in Seq(Texts) /\ Len(strings) \in Nat /\ Len(strings') \in Nat
      /\ Len(strings) <= Len(strings')
  <2>1. strings \in Seq(Texts) /\ Len(strings) \in Nat
    BY DEF IInv, GraphInv
  <2> QED BY <1>1, <1>3, <2>1, InterningGrows DEF PoolGrown
<1>5. QueuesResolve' /\ OutOf(g)' /\ Settled' = Settled /\ WithNewNodes
  BY <1>1, QueuesSame, OutSame DEF Fits, Settled, client_vars, WithNewNodes
<1>6. GraphFits(g)' /\ UpdatesResolve'
  BY <1>1, <1>5, GraphSame DEF Fits, UpdatesResolve
<1>7. ReplacementsFit(g)' /\ NewNodesFit(g)'
  BY <1>1, <1>4, <1>5, ReplacementsSame, NewNodesSame DEF Fits
<1>8. EdgeResolves(NewEdge)
  <2>1. current \in Diffs /\ cursor \in Nat /\ 1 <= cursor
    BY AtCursor
  <2>2. diff[current] \in Diff /\ QueueResolves(diff[current])
    BY <2>1 DEF IInv, ClientInv, Fits, QueuesResolve
  <2>3. cursor \in 1 .. Len(diff[current].new_edges)
    <3> DEFINE len == Len(diff[current].new_edges)
    <3>1. len \in Nat /\ cursor <= len
      BY <1>1, <2>2, DiffLengths
    <3> HIDE DEF len
    <3>2. cursor \in 1 .. len
      BY <2>1, <3>1
    <3> QED BY <3>2 DEF len
  <2> QED BY <2>2, <2>3 DEF QueueResolves, NewEdge
<1>9. stored \in SUBSET StoredProperty /\ ValuesFit(g, stored, EdgeProperty[NewEdge.kind], Len(strings'))
  <2>1. ASSUME NEW p \in NewEdge.property
        PROVE  /\ Stored(p, strings') \in StoredProperty
               /\ Stored(p, strings').typ = EdgeProperty[NewEdge.kind].typ =>
                    KeyFits(g, EdgeProperty[NewEdge.kind], Stored(p, strings').key, Len(strings'))
    <3>1. p \in PropertyValue /\ InPool(p, strings')
      BY <1>3
    <3>2. Stored(p, strings').typ = p.typ /\ Stored(p, strings').key \in Key
      BY <1>4, <3>1, StoredKey
    <3>3. p.typ \in PropertyType \ {"None"}
      BY <3>1 DEF PropertyValue, PropertyType
    <3>4. Stored(p, strings') = [typ |-> Stored(p, strings').typ, key |-> Stored(p, strings').key]
      BY <3>1 DEF Stored, PropertyValue
    <3>5. ValueResolves(p, EdgeProperty[NewEdge.kind])
      BY <1>8 DEF EdgeResolves
    <3>6. p.typ = EdgeProperty[NewEdge.kind].typ =>
            KeyFits(g, EdgeProperty[NewEdge.kind], Stored(p, strings').key, Len(strings'))
      BY <1>4, <3>1, <3>5, StoredFits
    <3> QED BY <3>2, <3>3, <3>4, <3>6 DEF StoredProperty
  <2> QED BY <2>1 DEF ValuesFit
<1>10. AllHalvesKept(edge_halves)
  BY <1>5 DEF IInv, StagedInv, HalvesInv, AllHalvesKept
<1>11. AllHalvesResolve(g, edge_halves, Len(strings'))
  BY <1>4, <1>5, MoreTexts DEF Fits, NewHalvesFit, AllHalvesResolve
<1>12. AllHalvesResolve(g, edge_halves', Len(strings'))
  <2>1. CASE UNCHANGED edge_halves
    BY <1>11, <2>1
  <2>2. CASE EdgeUsable /\ ~ UNCHANGED edge_halves
    <3> DEFINE src == Answer(resolve_node_ref(NewEdge.src))
               dst == Answer(resolve_node_ref(NewEdge.dst))
               half(node, neighbor) ==
                 [seq |-> SeqOf(node), neighbor |-> neighbor, property |-> stored]
    <3>1. /\ src \in RawNodeId /\ Named(src, Coming)
          /\ dst \in RawNodeId /\ Named(dst, Coming)
      BY <1>1, <1>2, <2>2, EndIsNamed DEF EdgeUsable
    <3>2. edge_halves' =
            [edge_halves EXCEPT
               ![edge_storage_slot(KindOf(src), Out, NewEdge.kind)] = Append(@, half(src, dst)),
               ![edge_storage_slot(KindOf(dst), In, NewEdge.kind)] = Append(@, half(dst, src))]
      BY <2>2, Zenon DEF StageNewEdge
    <3> DEFINE texts == Len(strings')
    <3>3. /\ AllHalvesResolve(g, edge_halves, texts)
          /\ ValuesFit(g, stored, EdgeProperty[NewEdge.kind], texts)
      BY <1>9, <1>11
    <3> HIDE DEF src, dst, stored, texts
    <3>4. AllHalvesResolve(g, edge_halves', texts)
      BY <1>2, <1>9, <1>10, <3>1, <3>2, <3>3, BothHalvesResolve, Zenon
    <3> QED BY <3>4 DEF texts
  <2> QED BY <2>1, <2>2 DEF StageNewEdge
<1>13. NewHalvesFit(g)'
  BY <1>12 DEF NewHalvesFit, AllHalvesResolve, EdgeDecl
<1>14. NewEdgesFit(g)'
  BY <1>1 DEF NewEdgesFit
<1> QED BY <1>5, <1>6, <1>7, <1>13, <1>14 DEF Fits

\* prepare_new_edges stages slots whose values resolve.
LEMMA PrepareNewEdgesFits ==
  ASSUME IInv, NEW g, Fits(g), PrepareNewEdges
  PROVE  Fits(g)'
<1>1. pc = "new edges"
  BY DEF PrepareNewEdges
<1>2. CASE \E outcome : RollBack(outcome)
  BY <1>1, <1>2, RollBackFits
<1>3. CASE /\ AllPass(InsertSlots, InsertCheck)
           /\ edge_inserts' =
                [s \in InsertSlots |->
                   EdgeSlotInsert(edges[s].values.typ, InsertOffsets(s), edge_halves[s])]
           /\ pc' = "staged"
           /\ UNCHANGED <<nodes, edges, properties, strings, diff, strings_baseline,
                          property_updates, property_replacements, edge_replacements,
                          property_appends, edge_halves>>
  <2>1. WithNewNodes /\ Len(strings) \in Nat /\ Len(strings') \in Nat /\ Len(strings) <= Len(strings')
    <3>1. Len(strings) \in Nat
      BY SettledTexts
    <3>2. strings' = strings
      BY <1>3
    <3>3. WithNewNodes
      BY <1>1 DEF WithNewNodes
    <3> QED BY <3>1, <3>2, <3>3
  <2>2. QueuesResolve' /\ OutOf(g)' /\ Settled' = Settled
    BY <1>1, <1>3, QueuesSame, OutSame DEF Fits, Settled
  <2>3. GraphFits(g)' /\ UpdatesResolve'
    BY <1>3, <2>2, GraphSame DEF Fits, UpdatesResolve
  <2>4. ReplacementsFit(g)' /\ NewNodesFit(g)' /\ NewHalvesFit(g)'
    BY <1>3, <2>1, ReplacementsSame, NewNodesSame, NewHalvesSame DEF Fits
  <2>5. ASSUME NEW s \in EdgeSlots
        PROVE  ItemsFit(g, CommittedEdges'[s].values, EdgeDecl(s), Len(strings'))
    <3> DEFINE kind == SlotNodeKind(s)
               n == Standing[kind]
               m == NewCount(kind)
               decl == EdgeDecl(s)
               slot == Replaced(edges, edge_replacements, s)
               halves == edge_halves[s]
               offsets == Grown(slot.offsets, n + m + 1)
               insert == EdgeSlotInsert(decl.typ, offsets, halves)
               merged == merge_edge_batches(slot, insert)
    <3>1. /\ n \in Nat /\ m \in Nat /\ n = Len(nodes[kind]) /\ Coming[kind] = n + m
      BY SlotKinds, Counts DEF IInv, ControlInv
    <3>2. EdgeSlotSound(slot, n, decl.typ) /\ edges[s].values.typ = decl.typ
      BY DEF IInv, GraphInv, StagedInv, ReplacementsInv, EdgeSlotKept, Replaced, EdgeSlotSound, EdgeDecl
    <3>3. HalvesFit(halves, n + m)
      BY <2>1, <3>1 DEF IInv, StagedInv, HalvesInv, HalvesKept
    <3>4. InsertOffsets(s) = offsets
      BY <3>1 DEF InsertOffsets, EdgeOffsets, Grown, Replaced
    <3>5. CommittedEdges'[s] = IF s \in InsertSlots THEN merge_edge_batches(slot, edge_inserts'[s]) ELSE slot
      BY <1>3 DEF CommittedEdges, Replaced
    <3>6. ItemsFit(g, slot.values, decl, Len(strings)) /\ HalvesResolve(g, halves, decl, Len(strings))
      <4>1. ItemsFit(g, slot.values, decl, Settled) \/ ItemsFit(g, slot.values, decl, Len(strings))
        BY DEF Fits, GraphFits, ReplacementsFit, Replaced
      <4>2. HalvesResolve(g, halves, decl, Len(strings))
        BY <2>1 DEF Fits, NewHalvesFit
      <4> QED BY <4>1, <4>2, SettledTexts, MoreTexts
    <3>7. CASE s \in InsertSlots
      <4>1. edge_inserts'[s] = insert /\ InsertError(decl.typ, offsets, halves) = Ok
        BY <1>3, <3>2, <3>4, <3>7 DEF AllPass, InsertCheck
      <4> HIDE DEF kind, n, m, decl, slot, halves
      <4>2. MergedWell(slot, insert, halves, n + m, decl.typ)
        BY <3>1, <3>2, <3>3, <4>1, SlotInserted, Zenon
      <4> HIDE DEF insert
      <4>3. TakesHalves(merged, slot, halves, decl.typ)
        BY <4>2, Zenon DEF MergedWell
      <4> HIDE DEF merged
      <4>4. ItemsFit(g, merged.values, decl, Len(strings))
        BY <3>6, <4>3, MergedFits
      <4>5. CommittedEdges'[s] = merged
        BY <3>5, <3>7, <4>1 DEF merged
      <4> QED BY <1>3, <4>4, <4>5 DEF decl
    <3>8. CASE s \notin InsertSlots
      BY <1>3, <3>5, <3>6, <3>8
    <3> QED BY <3>7, <3>8
  <2>6. NewEdgesFit(g)'
    BY <2>5 DEF NewEdgesFit, EdgeDecl
  <2> QED BY <2>2, <2>3, <2>4, <2>6 DEF Fits
<1> QED BY <1>2, <1>3 DEF PrepareNewEdges, client_vars, graph_vars

\* What is committed is what was staged, and the texts stay.
LEMMA CommitFits ==
  ASSUME IInv, NEW g, Fits(g), commit
  PROVE  Fits(g)'
<1>1. /\ pc = "staged" /\ nodes' = CommittedNodes /\ properties' = CommittedProperties
      /\ edges' = CommittedEdges /\ Release /\ strings' = strings /\ diff' = diff
  BY DEF commit
<1>2. QueuesResolve'
  BY <1>1, QueuesSame DEF Fits
<1>3. OutOf(g)'
  <2>1. ASSUME NEW k \in NodeKinds
        PROVE  Counted(g)[k] \in Nat /\ Counted(g)[k] <= Standing'[k]
    <3>1. Counted(g)[k] \in Nat /\ Counted(g)[k] <= Len(nodes[k])
      BY DEF Fits, OutOf, Standing
    <3>2. /\ Len(nodes[k]) \in Nat /\ Len(nodes[k]) <= Len(CommittedNodes[k])
          /\ CommittedNodes[k] \in Seq(BOOLEAN)
      BY <1>1, CommittedKind
    <3>3. Standing'[k] = Len(CommittedNodes[k])
      BY <1>1 DEF Standing
    <3>4. Len(CommittedNodes[k]) \in Nat
      BY <3>2
    <3> QED BY <3>1, <3>2, <3>3, <3>4
  <2> QED BY <2>1 DEF OutOf
<1>4. NothingStaged'
  BY <1>1, ReleaseClears
<1>5. (NothingStaged =>
         UpdatesResolve /\ ReplacementsFit(g) /\ NewNodesFit(g) /\ NewHalvesFit(g) /\ NewEdgesFit(g))'
  BY NothingStagedResolves, PTL
<1>6. GraphFits(g)'
  <2>1. Settled' = Len(strings)
    BY <1>1 DEF Settled, Release
  <2>2. /\ \A s \in EdgeSlots : ItemsFit(g, edges'[s].values, EdgeDecl(s), Len(strings))
        /\ \A s \in PropertySlots : ItemsFit(g, properties'[s].values, PropertyDeclOf(s), Len(strings))
    BY <1>1 DEF Fits, NewEdgesFit, NewNodesFit, WithNewNodes
  <2> QED BY <2>1, <2>2 DEF GraphFits, EdgeDecl, PropertyDeclOf
<1> QED BY <1>2, <1>3, <1>4, <1>5, <1>6 DEF Fits

\* Nothing disturbs what resolves.
LEMMA StepFits ==
  ASSUME InputsResolve, NEW g \in Seeds
  PROVE  IInv /\ Fits(g) /\ [Next]_vars => Fits(g)'
<1> SUFFICES ASSUME IInv, Fits(g), [Next]_vars PROVE Fits(g)'
  OBVIOUS
<1>1. CASE UNCHANGED vars
  <2>1. UNCHANGED <<nodes, edges, properties, strings, diff, pc, strings_baseline,
                    property_updates, property_replacements, edge_replacements,
                    property_appends, edge_halves, edge_inserts>>
    BY <1>1 DEF vars, graph_vars, staged_vars, client_vars, control_vars
  <2>2. CommittedProperties' = CommittedProperties /\ CommittedEdges' = CommittedEdges
    BY <2>1 DEF CommittedProperties, CommittedEdges, Replaced
  <2>3. QueuesResolve' /\ OutOf(g)' /\ GraphFits(g)' /\ UpdatesResolve'
    BY <2>1, QueuesSame, OutSame, GraphSame DEF Fits, Settled, UpdatesResolve
  <2>4. ReplacementsFit(g)' /\ NewNodesFit(g)' /\ NewHalvesFit(g)' /\ NewEdgesFit(g)'
    BY <2>1, <2>2 DEF Fits, ReplacementsFit, NewNodesFit, NewHalvesFit, NewEdgesFit, WithNewNodes
  <2> QED BY <2>3, <2>4 DEF Fits
<1>2. ASSUME NEW d \in Diffs,
             \/ add_node(d) \/ add_edge(d) \/ remove_node(d) \/ update_node_property(d)
             \/ remove_edge(d) \/ DropDiff(d) \/ BeginPrepare(d)
      PROVE  Fits(g)'
  BY <1>2, ClientFits, BeginPrepareFits
<1>3. CASE ClassifyRemoveNode \/ ClassifyUpdate \/ ClassifyRemoveEdge
  BY <1>3, ClassifyRemovalsFit, ClassifyUpdateFits
<1>4. CASE PreparePropertyUpdates \/ PrepareEdgeRemovals \/ PrepareNewNodes \/ StageNewEdge
           \/ PrepareNewEdges
  BY <1>4, PreparePropertyUpdatesFits, PrepareEdgeRemovalsFits, PrepareNewNodesFits,
     StageNewEdgeFits, PrepareNewEdgesFits
<1>5. CASE commit
  BY <1>5, CommitFits
<1>6. CASE DropStaged
  BY <1>6, RollBackFits DEF DropStaged
<1> QED BY <1>1, <1>2, <1>3, <1>4, <1>5, <1>6 DEF Next

\* A run starts from a seed, whose values resolve.
LEMMA InitFits ==
  ASSUME InputsResolve
  PROVE  Init => \E g \in Seeds : Fits(g)
<1> SUFFICES ASSUME Init PROVE \E g \in Seeds : Fits(g)
  OBVIOUS
<1>1. PICK g \in Seeds :
        nodes = g.nodes /\ edges = g.edges /\ properties = g.properties /\ strings = g.strings
  BY DEF Init
<1>2. pc = "idle" /\ NothingStaged /\ diff = [d \in Diffs |-> EmptyDiff]
  BY DEF Init, NothingStaged
<1>3. UpdatesResolve /\ ReplacementsFit(g) /\ NewNodesFit(g) /\ NewHalvesFit(g) /\ NewEdgesFit(g)
  BY <1>2, NothingStagedResolves
<1>4. QueuesResolve
  <2>1. 1 .. 0 = {}
    OBVIOUS
  <2>2. QueueResolves(EmptyDiff)
    BY <2>1, EmptyFits DEF QueueResolves
  <2> QED BY <1>2, <2>2 DEF QueuesResolve
<1>5. GraphFits(g)
  BY <1>1, <1>2, SeedsFit DEF GraphFits, Settled
<1>6. OutOf(g)
  <2>1. \A k \in NodeKinds : Counted(g)[k] \in Nat /\ Standing[k] = Counted(g)[k]
    BY <1>1, SeedsFit DEF Counted, Standing
  <2> QED BY <2>1 DEF OutOf
<1> QED BY <1>3, <1>4, <1>5, <1>6 DEF Fits

\* A graph whose values resolve passes check_slots.
LEMMA FitsPasses ==
  ASSUME IInv, NEW g \in Seeds, Fits(g)
  PROVE  SlotsKept
<1>1. graph \in Graph
  BY DEF IInv, GraphInv, Graph, graph
<1>2. \A k \in NodeKinds : Len(nodes[k]) \in Nat /\ Counted(graph)[k] = Standing[k]
                           /\ Standing[k] = Len(nodes[k])
  BY DEF IInv, GraphInv, Counted, Standing, graph
<1>3. /\ graph.nodes = nodes /\ graph.edges = edges /\ graph.properties = properties
      /\ graph.strings = strings
  BY DEF graph
<1>4. Settled \in Nat /\ Len(strings) \in Nat /\ Settled <= Len(strings)
  BY SettledTexts
<1> HIDE DEF graph
<1>5. ASSUME NEW array, NEW decl, array.typ = decl.typ, ItemsFit(g, array, decl, Settled)
      PROVE  AllContentPasses(graph, array, decl.enum)
  <2>1. ASSUME NEW i \in 1 .. Len(array.items)
        PROVE  ContentPasses(graph, array.typ, array.items[i], decl.enum)
    <3> DEFINE key == array.items[i]
    <3>1. KeyFits(g, decl, key, Settled)
      BY <1>5 DEF ItemsFit
    <3> HIDE DEF key
    <3>2. ASSUME key \in RawNodeId, Named(key, Counted(g)) PROVE check_node_id(graph, key) = Ok
      <4>1. SeqOf(key) \in Nat /\ KindOf(key) \in NodeKinds /\ SeqOf(key) < Counted(g)[KindOf(key)]
        BY <3>2 DEF RawNodeId, SeqOf, Named
      <4> DEFINE k == KindOf(key)
                 few == Counted(g)[k]
                 many == Standing[k]
                 seq == SeqOf(key)
      <4>2. few \in Nat /\ few <= many /\ many \in Nat /\ Counted(graph)[k] = many
        BY <1>2, <4>1 DEF Fits, OutOf
      <4>3. seq < many
        <5>1. seq \in Nat /\ seq < few
          BY <4>1
        <5> HIDE DEF few, many, seq
        <5> QED BY <4>2, <5>1
      <4>4. Named(key, Counted(graph))
        BY <4>1, <4>2, <4>3 DEF Named
      <4> QED BY <1>1, <4>1, <4>4, NodeIdCheck
    <3>3. ASSUME key[1] \in Nat, key[1] < Settled PROVE check_string_id(graph, key[1]) = Ok
      <4> DEFINE h == key[1]
                 len == Len(strings)
      <4>1. h \in Nat /\ h < Settled /\ len \in Nat /\ Settled <= len
        BY <1>4, <3>3
      <4> HIDE DEF h, len
      <4>2. h < len
        BY <1>4, <4>1
      <4> QED BY <1>3, <4>2 DEF check_string_id, h, len
    <3>4. ContentPasses(graph, array.typ, key, decl.enum)
      BY <1>5, <3>1, <3>2, <3>3 DEF KeyFits, ContentPasses
    <3> QED BY <3>4 DEF key
  <2> QED BY <2>1 DEF AllContentPasses
<1>6. ASSUME NEW s \in PropertySlots PROVE check_property_slot(graph, s) = Ok
  <2> DEFINE decl == PropertyDeclOf(s)
             n == Standing[SlotNodeKind(s)]
  <2>1. SlotNodeKind(s) \in NodeKinds /\ decl.typ # "None"
    BY SlotKinds, NodePropertyAssumption DEF PropertyDeclOf
  <2>2. n \in Nat /\ n = Len(graph.nodes[SlotNodeKind(s)])
    BY <1>2, <1>3, <2>1
  <2>3. PropertySlotSound(graph.properties[s], n, decl.typ)
    BY <1>3 DEF IInv, GraphInv, PropertySlotKept, PropertyDeclOf
  <2>4. AllContentPasses(graph, graph.properties[s].values, decl.enum)
    BY <1>3, <1>5, <2>3 DEF Fits, GraphFits, PropertySlotSound
  <2>5. decl = NodeProperty[SlotPropertyKind(s)]
    BY DEF PropertyDeclOf
  <2> HIDE DEF decl, n
  <2> QED BY <1>1, <2>1, <2>2, <2>3, <2>4, <2>5, PropertySlotCheck
<1>7. ASSUME NEW s \in EdgeSlots PROVE check_edge_slot(graph, s) = Ok
  <2> DEFINE decl == EdgeDecl(s)
             n == Standing[SlotNodeKind(s)]
  <2>1. SlotNodeKind(s) \in NodeKinds
    BY SlotKinds
  <2>2. n \in Nat /\ n = Len(graph.nodes[SlotNodeKind(s)])
    BY <1>2, <1>3, <2>1
  <2>3. EdgeSlotSound(graph.edges[s], n, decl.typ) /\ AllNamed(graph.edges[s].neighbors, Standing)
    BY <1>3 DEF IInv, GraphInv, EdgeSlotKept, EdgeDecl
  <2>4. Counted(graph) = Standing
    BY <1>3 DEF Counted, Standing
  <2>5. AllContentPasses(graph, graph.edges[s].values, decl.enum)
    BY <1>3, <1>5, <2>3 DEF Fits, GraphFits, EdgeSlotSound
  <2>6. decl = EdgeProperty[SlotEdgeKind(s)]
    BY DEF EdgeDecl
  <2> HIDE DEF decl, n
  <2> QED BY <1>1, <2>2, <2>3, <2>4, <2>5, <2>6, EdgeSlotCheck
<1> QED BY <1>6, <1>7, SlotsCheck DEF SlotsKept

\* The slots of the graph pass their checks all along, given that what callers write
\* resolves: whatever diffs are applied, stale or not, and whether they go through or
\* fail, the offsets stay in shape, the arrays as long as they say, and every node id,
\* handle of a text and enum variant in them resolves.
THEOREM SlotsAlwaysKept == ASSUME InputsResolve PROVE Spec => []SlotsKept
<1>1. Init => \E g \in Seeds : Fits(g)
  BY InitFits
<1>2. ASSUME NEW g \in Seeds PROVE Spec /\ Fits(g) => []SlotsKept
  <2>1. IInv /\ Fits(g) /\ [Next]_vars => Fits(g)'
    BY StepFits
  <2>2. IInv /\ Fits(g) => SlotsKept
    BY FitsPasses
  <2> QED BY <2>1, <2>2, AlwaysIInv, PTL DEF Spec
<1>3. Spec => \E g \in Seeds : Fits(g)
  BY <1>1, PTL DEF Spec
<1> QED BY <1>2, <1>3

(***************************************************************************)
(* The two halves of every edge                                            *)
(*                                                                          *)
(* When edge ids are fresh, each class of half-edges has as many members at *)
(* its source as at its destination: in the graph, among the half-edges     *)
(* that removals have claimed so far, and among those new edges bring.      *)
(***************************************************************************)
\* The half-edges of a node that its slot's removals already name.
ClaimedOf(removals, seq) == {r[2] : r \in {r \in removals : r[1] = seq}}

\* The values a reverse half may have: any, of an edge kind with no property.
WantedOf(typ, value) == IF typ = "None" THEN {} ELSE {value}

\* While a half-edge to the target with the wanted value is unclaimed, one is found.
LEMMA ReverseFound ==
  ASSUME NEW n \in Nat, NEW typ, NEW slot, EdgeSlotSound(slot, n, typ),
         NEW removals, RemovalsFit(slot, removals), NEW seq \in Nat, NEW target, NEW value,
         NEW q \in Alike(slot, seq, target, value), q \notin RemovedPlaces(slot, removals)
  PROVE  /\ HasOffset(slot, seq)
         /\ ReverseHalf(slot, seq, target, ClaimedOf(removals, seq), WantedOf(typ, value)) # {}
         /\ \A local \in ReverseHalf(slot, seq, target, ClaimedOf(removals, seq), WantedOf(typ, value)) :
              /\ local \in Nat /\ local < Degree(slot, seq)
              /\ RemovedAt(slot, <<seq, local>>) \in Alike(slot, seq, target, value)
              /\ RemovedAt(slot, <<seq, local>>) \notin RemovedPlaces(slot, removals)
<1> DEFINE at(l) == RemovedAt(slot, <<seq, l>>)
<1>1. q \in Run(slot, seq) /\ HasOffset(slot, seq) /\ q \in Start(slot, seq) + 1 .. End(slot, seq)
  BY DEF Alike, Run
<1>2. PICK claimed : claimed = ClaimedOf(removals, seq)
  OBVIOUS
<1>3. PICK wanted : wanted = WantedOf(typ, value)
  OBVIOUS
<1>4. PICK run : run = get_neighbors(slot, Start(slot, seq), End(slot, seq))
  OBVIOUS
<1>5. /\ Start(slot, seq) \in Nat /\ End(slot, seq) \in Nat /\ Start(slot, seq) <= End(slot, seq)
      /\ Len(run) = Degree(slot, seq)
      /\ \A l \in Nat : l < Degree(slot, seq) => run[l + 1] = slot.neighbors[at(l)]
  BY <1>1, <1>4, RunReads
<1>6. Degree(slot, seq) \in Nat
  BY <1>5 DEF Degree
<1> DEFINE candidates == {l \in 0 .. Len(run) - 1 : run[l + 1] = target /\ l \notin claimed}
           matching == {l \in candidates : ValueKey(slot.values, Start(slot, seq) + l) \in wanted}
<1>7. \A l \in Nat : l \in claimed <=> <<seq, l>> \in removals
  <2>1. removals \subseteq Nat \X Nat
    BY DEF RemovalsFit
  <2> QED BY <1>2, <2>1 DEF ClaimedOf
<1>8. ASSUME NEW l \in Nat, l < Degree(slot, seq)
      PROVE  /\ at(l) \in RemovedPlaces(slot, removals) <=> <<seq, l>> \in removals
             /\ at(l) \in Run(slot, seq)
             /\ typ # "None" => ValueKey(slot.values, Start(slot, seq) + l) = slot.values.items[at(l)]
  <2>1. PICK r : r = <<seq, l>>
    OBVIOUS
  <2>2. r \in Nat \X Nat /\ HasOffset(slot, r[1]) /\ r[2] < Degree(slot, r[1]) /\ r[1] = seq
    BY <1>1, <1>8, <2>1
  <2>3. /\ RemovedAt(slot, r) \in RemovedPlaces(slot, removals) <=> r \in removals
        /\ RemovedAt(slot, r) \in Run(slot, r[1])
    BY <2>2, NotRemoved
  <2>4. typ # "None" => ValueKey(slot.values, RemovedAt(slot, r) - 1) = slot.values.items[RemovedAt(slot, r)]
    BY <2>2, <2>3, RunPlaces
  <2>5. RemovedAt(slot, r) - 1 = Start(slot, seq) + l
    BY <1>5, <2>1 DEF RemovedAt
  <2> QED BY <2>1, <2>2, <2>3, <2>4, <2>5
<1>9. \A l : l \in candidates <=>
        l \in Nat /\ l < Degree(slot, seq) /\ slot.neighbors[at(l)] = target /\ <<seq, l>> \notin removals
  <2>1. \A l : l \in candidates <=> l \in 0 .. Len(run) - 1 /\ run[l + 1] = target /\ l \notin claimed
    OBVIOUS
  <2>2. \A l : l \in 0 .. Len(run) - 1 <=> l \in Nat /\ l < Degree(slot, seq)
    BY <1>5, <1>6
  <2> HIDE DEF candidates, at
  <2> QED BY <1>5, <1>7, <2>1, <2>2
<1>10. slot.values.typ = typ
  BY DEF EdgeSlotSound
<1>11. \A l \in candidates : typ = "None" \/ l \in matching =>
        at(l) \in Alike(slot, seq, target, value) /\ at(l) \notin RemovedPlaces(slot, removals)
  <2> HIDE DEF candidates, at
  <2> TAKE l \in candidates
  <2>1. /\ l \in Nat /\ l < Degree(slot, seq) /\ slot.neighbors[at(l)] = target /\ <<seq, l>> \notin removals
    BY <1>9
  <2>2. /\ at(l) \in Run(slot, seq) /\ at(l) \notin RemovedPlaces(slot, removals)
        /\ typ # "None" => ValueKey(slot.values, Start(slot, seq) + l) = slot.values.items[at(l)]
    BY <1>8, <2>1
  <2>3. typ # "None" /\ l \in matching => slot.values.items[at(l)] = value
    BY <1>3, <2>2 DEF WantedOf
  <2> QED BY <1>10, <2>1, <2>2, <2>3 DEF Alike, Leads
<1>12. candidates # {} /\ (typ # "None" => matching # {})
  <2>1. PICK l : l = q - Start(slot, seq) - 1
    OBVIOUS
  <2>2. l \in Nat /\ l < Degree(slot, seq) /\ at(l) = q
    BY <1>1, <1>5, <2>1 DEF Degree, RemovedAt
  <2> HIDE DEF candidates, at
  <2>3. <<seq, l>> \notin removals
    BY <1>8, <2>2
  <2>4. Leads(slot, q, target, value)
    BY DEF Alike
  <2>5. l \in candidates
    BY <1>9, <2>2, <2>3, <2>4 DEF Leads
  <2>6. typ # "None" => ValueKey(slot.values, Start(slot, seq) + l) = value
    BY <1>8, <1>10, <2>2, <2>4 DEF Leads
  <2> QED BY <1>3, <2>5, <2>6 DEF WantedOf
<1>13. candidates \subseteq Nat /\ matching \subseteq candidates
  OBVIOUS
<1>14. ReverseHalf(slot, seq, target, claimed, wanted) =
         IF matching # {} THEN {Lowest(matching)} ELSE IF candidates # {} THEN {Lowest(candidates)} ELSE {}
  BY <1>4 DEF ReverseHalf
<1>15. typ = "None" => matching = {}
  BY <1>3 DEF WantedOf
<1> HIDE DEF candidates, matching, at
<1>16. PICK local : /\ ReverseHalf(slot, seq, target, claimed, wanted) = {local}
                    /\ local \in candidates /\ (typ = "None" \/ local \in matching)
  <2>1. CASE typ = "None"
    <3>1. Lowest(candidates) \in candidates
      BY <1>12, <1>13, LowestIsLeast
    <3> QED BY <1>12, <1>14, <1>15, <2>1, <3>1
  <2>2. CASE typ # "None"
    <3>1. Lowest(matching) \in matching
      BY <1>12, <1>13, <2>2, LowestIsLeast
    <3> QED BY <1>12, <1>13, <1>14, <2>2, <3>1
  <2> QED BY <2>1, <2>2
<1> QED BY <1>1, <1>9, <1>11, <1>16, <1>2, <1>3 DEF at

\* The ids a diff removes edges by name half-edges of the graph for as long as the diff is
\* of the version of the graph.
FreshRemovals(d) ==
  \A i \in 1 .. Len(diff[d].changes) :
    diff[d].changes[i].change = "RemoveEdge" => diff[d].changes[i].edge \in EdgeIds(graph)
FreshInv ==
  /\ \A d \in Diffs : pinned[d] = version => FreshRemovals(d)
  /\ pc # "idle" /\ RemovesEdges(current) => pinned[current] = version

\* The half-edges that removals claim, and the new ones, are in pairs.
Claims(storage, removals) == [s \in EdgeSlots |-> RemovedPlaces(storage[s], removals[s])]
ClaimsPaired(storage, removals) ==
  /\ \A s \in EdgeSlots : RemovalsFit(storage[s], removals[s])
  /\ \A e \in EdgeKinds : Balanced(storage, Claims(storage, removals), e)
Brought(staged, dir, e, node, other, value) ==
  NewAlike(EdgeProperty[e].typ, staged[edge_storage_slot(KindOf(node), dir, e)], SeqOf(node), other, value)
Mirrored(staged) ==
  \A e \in EdgeKinds : \A src, dst \in NodeNames : \A value \in Key :
    Cardinality(Brought(staged, Out, e, src, dst, value))
      = Cardinality(Brought(staged, In, e, dst, src, value))

\* What the last steps of prepare have staged is what they are to stage.
WithRemovals == pc \in {"new nodes", "new edges", "staged"}
RemovedSlots == {s \in EdgeSlots : edge_removals[s] # {} /\ edges[s].offsets # <<>>}
ReplacedInv ==
  WithRemovals =>
    edge_replacements = [s \in RemovedSlots |-> WithoutEdges(edges[s], edge_removals[s])]
InsertedInv ==
  pc = "staged" =>
    /\ \A s \in InsertSlots : InsertCheck(s) = Ok
    /\ edge_inserts = [s \in InsertSlots |->
                         EdgeSlotInsert(edges[s].values.typ, InsertOffsets(s), edge_halves[s])]

AllBalanced(storage) == \A e \in EdgeKinds : Balanced(storage, Everywhere, e)
PairedInv ==
  /\ FreshInv /\ AllBalanced(edges) /\ ClaimsPaired(edges, edge_removals) /\ Mirrored(edge_halves)
  /\ ReplacedInv /\ InsertedInv /\ result # "ReverseEdgeNotFound"

\* The edge ids a graph gives out depend on its nodes and its edges.
LEMMA EdgeIdsSame ==
  ASSUME NEW g, NEW h, g.nodes = h.nodes, g.edges = h.edges
  PROVE  EdgeIds(g) = EdgeIds(h)
<1>1. NodeIds(g) = NodeIds(h)
  BY DEF NodeIds
<1>2. \A node, kind, direction :
        get_edges_with_deleted(g, node, kind, direction) = get_edges_with_deleted(h, node, kind, direction)
  BY DEF get_edges_with_deleted, EdgeSlotOf
<1> QED BY <1>1, <1>2 DEF EdgeIds

\* The half-edge an id names, as a place and the other end of its edge.
NamesHalf(id, storage, primary, dir, secondary) ==
  LET slot == storage[edge_storage_slot(KindOf(primary), dir, id.kind)]
  IN  /\ id.kind \in EdgeKinds /\ id.seq \in Nat
      /\ primary \in NodeNames /\ secondary \in NodeNames
      /\ HasOffset(slot, SeqOf(primary)) /\ id.seq < Degree(slot, SeqOf(primary))
      /\ slot.neighbors[RemovedAt(slot, <<SeqOf(primary), id.seq>>)] = secondary

Opposite(dir, reverse) == (dir = Out /\ reverse = In) \/ (dir = In /\ reverse = Out)
OrientsTo(id, primary, dir, reverse, secondary) ==
  /\ orient_edge(id.dir, id.src, id.dst).primary = primary
  /\ orient_edge(id.dir, id.src, id.dst).secondary = secondary
  /\ orient_edge(id.dir, id.src, id.dst).dir = dir
  /\ orient_edge(id.dir, id.src, id.dst).reverse = reverse

\* A fresh id names a half-edge of a node that is there.
LEMMA FreshIdFound ==
  ASSUME GraphInv, NEW id \in EdgeIds(graph)
  PROVE  \E x, y : \E dir, reverse :
           /\ OrientsTo(id, x, dir, reverse, y) /\ Opposite(dir, reverse)
           /\ NamesHalf(id, edges, x, dir, y) /\ Exists(x)
<1>1. PICK node \in NodeIds(graph), kind \in EdgeKinds, direction \in Directions :
        id \in get_edges_with_deleted(graph, node, kind, direction)
  BY DEF EdgeIds
<1>2. node \in NodeNames /\ Exists(node)
  <2>1. PICK k \in NodeKinds : \E s \in 0 .. Len(graph.nodes[k]) - 1 : node = <<k, s>>
    BY <1>1 DEF NodeIds
  <2>2. PICK s \in 0 .. Len(graph.nodes[k]) - 1 : node = <<k, s>>
    BY <2>1
  <2>3. graph.nodes = nodes /\ Len(nodes[k]) \in Nat
    BY <2>1 DEF GraphInv, graph
  <2>4. k \in Nat /\ s \in Nat /\ s < Len(nodes[k])
    BY <2>1, <2>2, <2>3 DEF NodeKinds
  <2> QED BY <2>1, <2>2, <2>4 DEF RawNodeId, KindOf, SeqOf, NodeNames, Exists
<1>3. PICK slot : slot = edges[edge_storage_slot(KindOf(node), direction, kind)]
  OBVIOUS
<1>4. PICK seq : seq = SeqOf(node)
  OBVIOUS
<1>5. EdgeSlotOf(graph, node, kind, direction) = slot
  BY <1>3 DEF EdgeSlotOf, graph
<1>6. PICK n \in Nat : \E typ : EdgeSlotSound(slot, n, typ) /\ AllNamed(slot.neighbors, Standing)
  <2>1. PICK s \in EdgeSlots : s = edge_storage_slot(KindOf(node), direction, kind)
    BY <1>1, <1>2, NameParts, EdgeSlotOfKinds
  <2>2. EdgeSlotKept(slot, s, Standing) /\ SlotNodeKind(s) \in NodeKinds
    BY <1>3, <2>1, SlotKinds DEF GraphInv
  <2>3. Standing[SlotNodeKind(s)] \in Nat
    BY <2>2 DEF Standing, GraphInv
  <2> QED BY <2>2, <2>3 DEF EdgeSlotKept
<1>7. PICK typ : EdgeSlotSound(slot, n, typ) /\ AllNamed(slot.neighbors, Standing)
  BY <1>6
<1>8. PICK range \in get_edges_offset(slot, node) :
        \E i \in DOMAIN get_neighbors(slot, range[1], range[2]) :
          id = from_half(node, get_neighbors(slot, range[1], range[2])[i], kind, direction, i - 1)
  BY <1>1, <1>5 DEF get_edges_with_deleted
<1>9. PICK i \in DOMAIN get_neighbors(slot, range[1], range[2]) :
        id = from_half(node, get_neighbors(slot, range[1], range[2])[i], kind, direction, i - 1)
  BY <1>8
<1>10. slot.neighbors \in Seq(RawNodeId) /\ slot.offsets \in Seq(0 .. MaxOffset) /\ Shaped(slot.offsets, n)
       /\ LastOffset(slot.offsets) = Len(slot.neighbors) /\ seq \in Nat
  BY <1>2, <1>4, <1>7, NameParts DEF EdgeSlotSound, EdgeStorageSlot
<1>11. HasOffset(slot, seq) /\ range[1] = Start(slot, seq) /\ range[2] = End(slot, seq)
  <2>1. CASE slot.offsets = <<>>
    <3>1. range[1] = 0 /\ range[2] = 0 /\ Len(slot.neighbors) = 0
      BY <1>8, <1>10, <2>1 DEF get_edges_offset, LastOffset
    <3>2. i \in Nat /\ 0 + i \in 1 .. Len(slot.neighbors)
      BY <1>9, <1>10, <3>1, RunItems
    <3> QED BY <3>1, <3>2
  <2>2. CASE slot.offsets # <<>>
    <3>1. HasOffset(slot, seq) /\ range = <<Start(slot, seq), End(slot, seq)>>
      BY <1>4, <1>8, <2>2 DEF get_edges_offset, Nothing
    <3> QED BY <3>1
  <2> QED BY <2>1, <2>2
<1>12. Start(slot, seq) \in Nat /\ End(slot, seq) \in Nat
  BY <1>10, <1>11, RunWithin
<1>13. PICK neighbor : neighbor = get_neighbors(slot, range[1], range[2])[i]
  OBVIOUS
<1>14. /\ i - 1 \in Nat /\ i \in Nat /\ Start(slot, seq) + i <= End(slot, seq)
       /\ Start(slot, seq) + i \in 1 .. Len(slot.neighbors)
       /\ neighbor = slot.neighbors[Start(slot, seq) + i]
  BY <1>9, <1>10, <1>11, <1>12, <1>13, RunItems
<1>15. neighbor \in NodeNames
  <2>1. neighbor \in RawNodeId /\ Named(neighbor, Standing)
    BY <1>7, <1>10, <1>14, ElementOfSeq DEF AllNamed
  <2> QED BY <2>1 DEF Named, NodeNames
<1>16. i - 1 < Degree(slot, seq)
  BY <1>12, <1>14 DEF Degree
<1>17. RemovedAt(slot, <<seq, i - 1>>) = Start(slot, seq) + i
  BY <1>12, <1>14 DEF RemovedAt
<1>18. id = from_half(node, neighbor, kind, direction, i - 1)
  BY <1>9, <1>13
<1>19. direction = Out \/ direction = In
  BY DEF Directions
<1>20. id.kind = kind /\ id.seq = i - 1 /\ id.dir = direction
  BY <1>18 DEF from_half
<1>21. \E reverse : OrientsTo(id, node, direction, reverse, neighbor) /\ Opposite(direction, reverse)
  <2>1. CASE direction = Out
    <3>1. OrientsTo(id, node, direction, In, neighbor)
      BY <1>18, <2>1 DEF from_half, orient_edge, OrientsTo, In, Out
    <3>2. Opposite(direction, In)
      BY <2>1 DEF Opposite
    <3> QED BY <3>1, <3>2
  <2>2. CASE direction = In
    <3>1. OrientsTo(id, node, direction, Out, neighbor)
      BY <1>18, <2>2 DEF from_half, orient_edge, OrientsTo, In, Out
    <3>2. Opposite(direction, Out)
      BY <2>2 DEF Opposite
    <3> QED BY <3>1, <3>2
  <2> QED BY <1>19, <2>1, <2>2
<1>22. NamesHalf(id, edges, node, direction, neighbor)
  BY <1>1, <1>2, <1>3, <1>4, <1>11, <1>14, <1>15, <1>16, <1>17, <1>20 DEF NamesHalf
<1> QED BY <1>2, <1>21, <1>22

\* A step that claims nothing and brings nothing, before any slot is staged.
LEMMA EarlyPaired ==
  ASSUME PairedInv, FreshInv', UNCHANGED <<edges, edge_removals, edge_halves>>, ~ WithRemovals',
         result' # "ReverseEdgeNotFound"
  PROVE  PairedInv'
<1>1. pc' # "staged"
  BY DEF WithRemovals
<1> QED BY <1>1 DEF PairedInv, ReplacedInv, InsertedInv

\* Where the graph, the queues and the diff being prepared stay, ids stay fresh.
LEMMA FreshSame ==
  ASSUME FreshInv, UNCHANGED <<nodes, edges, diff, pinned, version>>,
         pc' # "idle" => pc # "idle" /\ current' = current
  PROVE  FreshInv'
<1>1. EdgeIds(graph)' = EdgeIds(graph)
  <2>1. EdgeIds(graph') = EdgeIds(graph)
    BY EdgeIdsSame DEF graph
  <2> QED BY <2>1
<1> QED BY <1>1 DEF FreshInv, FreshRemovals, RemovesEdges

\* A caller's step: the queue of one diff changes, and what it holds is fresh as long as the
\* diff is.
LEMMA FreshClient ==
  ASSUME ClientInv, PairedInv, pc = "idle", NEW d \in Diffs, NEW queued,
         diff' = [diff EXCEPT ![d] = queued], pinned' \in [Diffs -> Nat],
         \A x \in Diffs : x # d => pinned'[x] = pinned[x],
         pinned'[d] = version =>
           \A i \in 1 .. Len(queued.changes) :
             queued.changes[i].change = "RemoveEdge" => queued.changes[i].edge \in EdgeIds(graph),
         UNCHANGED <<graph_vars, staged_vars, version, pc, current, cursor>>, result' = Ok
  PROVE  PairedInv'
<1>1. UNCHANGED <<nodes, edges>> /\ version' = version /\ pc' = "idle"
      /\ UNCHANGED <<edge_removals, edge_halves>>
  BY DEF graph_vars, staged_vars
<1>2. EdgeIds(graph') = EdgeIds(graph)
  BY <1>1, EdgeIdsSame DEF graph
<1>3. ASSUME NEW x \in Diffs, pinned'[x] = version' PROVE FreshRemovals(x)'
  <2>1. DOMAIN diff = Diffs
    BY DEF ClientInv
  <2>2. CASE x = d
    <3>1. diff'[x] = queued
      BY <2>1, <2>2
    <3> QED BY <1>1, <1>2, <1>3, <2>2, <3>1 DEF FreshRemovals
  <2>3. CASE x # d
    <3>1. diff'[x] = diff[x] /\ pinned[x] = version
      BY <1>1, <1>3, <2>1, <2>3
    <3> QED BY <1>2, <3>1 DEF FreshRemovals, PairedInv, FreshInv
  <2> QED BY <2>2, <2>3
<1>4. FreshInv'
  BY <1>1, <1>3 DEF FreshInv
<1>5. ~ WithRemovals' /\ result' # "ReverseEdgeNotFound"
  BY <1>1 DEF WithRemovals, Ok
<1> QED BY <1>1, <1>4, <1>5, EarlyPaired

\* A longer queue whose new operation is no removal, or one by a fresh id of a fresh diff.
LEMMA FreshQueue ==
  ASSUME IInv, PairedInv, NEW d \in Diffs, NEW queued, Queue(d, queued),
         StillFresh(d) => \A i \in 1 .. Len(queued.changes) :
           \/ i \in 1 .. Len(diff[d].changes) /\ queued.changes[i] = diff[d].changes[i]
           \/ queued.changes[i].change = "RemoveEdge" => queued.changes[i].edge \in EdgeIds(graph)
  PROVE  PairedInv'
<1>1. /\ pc = "idle" /\ diff' = [diff EXCEPT ![d] = queued] /\ result' = Ok
      /\ pinned' = [pinned EXCEPT ![d] = IF diff[d] = EmptyDiff THEN version ELSE @]
      /\ UNCHANGED <<graph_vars, staged_vars, version, pc, current, cursor>>
  BY DEF Queue
<1>2. ClientInv /\ pinned \in [Diffs -> Nat] /\ version \in Nat
  BY Bounds DEF IInv, ClientInv
<1>3. pinned' \in [Diffs -> Nat] /\ \A x \in Diffs : x # d => pinned'[x] = pinned[x]
  BY <1>1, <1>2
<1>4. ASSUME pinned'[d] = version, NEW i \in 1 .. Len(queued.changes), queued.changes[i].change = "RemoveEdge"
      PROVE  queued.changes[i].edge \in EdgeIds(graph)
  <2>1. diff[d] = EmptyDiff \/ pinned[d] = version
    BY <1>1, <1>2, <1>4
  <2>2. StillFresh(d)
    BY <2>1 DEF StillFresh
  <2>3. ASSUME i \in 1 .. Len(diff[d].changes), queued.changes[i] = diff[d].changes[i]
        PROVE  queued.changes[i].edge \in EdgeIds(graph)
    <3>1. CASE diff[d] = EmptyDiff
      <4>1. Len(diff[d].changes) = 0
        BY <3>1, EmptyFits
      <4> QED BY <2>3, <4>1
    <3>2. CASE pinned[d] = version
      BY <1>4, <2>3, <3>2 DEF PairedInv, FreshInv, FreshRemovals
    <3> QED BY <2>1, <3>1, <3>2
  <2> QED BY <1>4, <2>2, <2>3
<1> QED BY <1>1, <1>2, <1>3, <1>4, FreshClient

\* A change queued behind the others.
LEMMA FreshChange ==
  ASSUME IInv, PairedInv, NEW d \in Diffs, NEW c \in QueuedChange,
         Queue(d, [diff[d] EXCEPT !.changes = Append(@, c)]),
         StillFresh(d) /\ c.change = "RemoveEdge" => c.edge \in EdgeIds(graph)
  PROVE  PairedInv'
<1>1. PICK queued : queued = [diff[d] EXCEPT !.changes = Append(@, c)]
  OBVIOUS
<1>2. diff[d] \in Diff
  BY DEF IInv, ClientInv
<1>3. diff[d].changes \in Seq(QueuedChange)
  BY <1>2, DiffParts
<1>4. queued.changes = Append(diff[d].changes, c)
  BY <1>1, <1>2 DEF Diff
<1>5. \A i \in 1 .. Len(queued.changes) :
        queued.changes[i] = c \/ (i \in 1 .. Len(diff[d].changes) /\ queued.changes[i] = diff[d].changes[i])
  BY <1>3, <1>4, OneMore
<1>6. Queue(d, queued)
  BY <1>1
<1>7. StillFresh(d) => \A i \in 1 .. Len(queued.changes) :
        \/ i \in 1 .. Len(diff[d].changes) /\ queued.changes[i] = diff[d].changes[i]
        \/ queued.changes[i].change = "RemoveEdge" => queued.changes[i].edge \in EdgeIds(graph)
  BY <1>5
<1> QED BY <1>6, <1>7, FreshQueue

\* The steps of a caller who follows the advice keep the halves paired.
LEMMA ClientPairs ==
  ASSUME FreshIds, IInv, PairedInv, NEW d \in Diffs,
         \/ add_node(d) \/ add_edge(d) \/ remove_node(d) \/ update_node_property(d)
         \/ remove_edge(d) \/ DropDiff(d)
  PROVE  PairedInv'
<1>1. diff[d] \in Diff
  BY DEF IInv, ClientInv
<1>2. CASE add_node(d)
  <2>1. PICK n \in NewNodeInputs : Queue(d, [diff[d] EXCEPT !.new_nodes = Append(@, n)])
    BY <1>2 DEF add_node
  <2>2. [diff[d] EXCEPT !.new_nodes = Append(@, n)].changes = diff[d].changes
    BY <1>1 DEF Diff
  <2> QED BY <2>1, <2>2, FreshQueue
<1>3. CASE add_edge(d)
  <2>1. PICK e : Queue(d, [diff[d] EXCEPT !.new_edges = Append(@, e)])
    BY <1>3 DEF add_edge
  <2>2. [diff[d] EXCEPT !.new_edges = Append(@, e)].changes = diff[d].changes
    BY <1>1 DEF Diff
  <2> QED BY <2>1, <2>2, FreshQueue
<1>4. CASE remove_node(d)
  <2>1. PICK node \in RemovedNodes :
          Queue(d, [diff[d] EXCEPT !.changes = Append(@, [change |-> "RemoveNode", node |-> node])])
    BY <1>4 DEF remove_node
  <2>2. [change |-> "RemoveNode", node |-> node] \in QueuedChange
    BY <2>1, InputAssumption DEF QueuedChange
  <2> QED BY <2>1, <2>2, FreshChange
<1>5. CASE update_node_property(d)
  <2>1. PICK u \in UpdateInputs :
          Queue(d, [diff[d] EXCEPT !.changes =
                      Append(@, [change |-> "UpdateNodeProperty",
                                 node |-> u[1], property |-> u[2], values |-> u[3]])])
    BY <1>5 DEF update_node_property
  <2> DEFINE c == [change |-> "UpdateNodeProperty", node |-> u[1], property |-> u[2], values |-> u[3]]
  <2>2. u[1] \in RawNodeId /\ u[2] \in PropertyKinds /\ u[3] \in Seq(PropertyValue)
    BY <2>1, InputAssumption
  <2>3. c \in QueuedChange /\ c.change # "RemoveEdge"
    BY <2>2 DEF QueuedChange
  <2> QED BY <2>1, <2>3, FreshChange
<1>6. CASE remove_edge(d)
  <2>1. PICK id \in EdgeIds(graph) \cup StrayIds :
          Queue(d, [diff[d] EXCEPT !.changes = Append(@, [change |-> "RemoveEdge", edge |-> id])])
    BY <1>6 DEF remove_edge
  <2>2. id \in EdgeIds(graph)
    BY <2>1, InputAssumption
  <2>3. id \in EdgeId
    BY <2>2, EdgeIdsResolve DEF IInv
  <2>4. [change |-> "RemoveEdge", edge |-> id] \in QueuedChange
    BY <2>3 DEF QueuedChange
  <2> QED BY <2>1, <2>2, <2>4, FreshChange
<1>7. CASE DropDiff(d)
  <2>1. /\ pc = "idle" /\ diff' = [diff EXCEPT ![d] = EmptyDiff] /\ result' = Ok
        /\ UNCHANGED <<graph_vars, staged_vars, pinned, version, pc, current, cursor>>
    BY <1>7 DEF DropDiff
  <2>2. ClientInv /\ pinned \in [Diffs -> Nat]
    BY DEF IInv, ClientInv
  <2>3. 1 .. Len(EmptyDiff.changes) = {}
    BY EmptyFits
  <2>4. pinned' \in [Diffs -> Nat] /\ \A x \in Diffs : x # d => pinned'[x] = pinned[x]
    BY <2>1, <2>2
  <2> QED BY <2>1, <2>2, <2>3, <2>4, FreshClient
<1> QED BY <1>2, <1>3, <1>4, <1>5, <1>6, <1>7

\* A diff that removes edges is prepared while its ids are fresh.
LEMMA BeginPreparePairs ==
  ASSUME FreshIds, IInv, PairedInv, NEW d \in Diffs, BeginPrepare(d)
  PROVE  PairedInv'
<1>1. /\ pc' = "changes" /\ current' = d /\ result' = Ok /\ (RemovesEdges(d) => StillFresh(d))
      /\ UNCHANGED <<graph_vars, client_vars, edge_removals, edge_halves>>
  BY DEF BeginPrepare
<1>2. UNCHANGED <<nodes, edges, diff, pinned, version>>
  BY <1>1 DEF graph_vars, client_vars
<1>3. EdgeIds(graph') = EdgeIds(graph)
  BY <1>2, EdgeIdsSame DEF graph
<1>4. ASSUME RemovesEdges(d) PROVE pinned[d] = version
  <2>1. diff[d].changes \in Seq(QueuedChange)
    BY DiffParts DEF IInv, ClientInv
  <2>2. DOMAIN diff[d].changes # {}
    BY <1>4 DEF RemovesEdges
  <2>3. Len(diff[d].changes) # 0
    BY <2>1, <2>2
  <2>4. diff[d] # EmptyDiff
    BY <2>3, EmptyFits
  <2> QED BY <1>1, <1>4, <2>4 DEF StillFresh
<1>5. FreshInv'
  BY <1>1, <1>2, <1>3, <1>4 DEF PairedInv, FreshInv, FreshRemovals, RemovesEdges
<1>6. ~ WithRemovals' /\ result' # "ReverseEdgeNotFound"
  BY <1>1 DEF WithRemovals, Ok
<1> QED BY <1>1, <1>2, <1>5, <1>6, EarlyPaired

\* Where nothing is claimed, what is claimed is in pairs.
LEMMA NothingClaimed ==
  ASSUME NEW storage, NEW removals, \A s \in EdgeSlots : removals[s] = {}
  PROVE  ClaimsPaired(storage, removals)
<1>1. \A s \in EdgeSlots : Claims(storage, removals)[s] = {}
  BY DEF Claims, RemovedPlaces
<1>2. ASSUME NEW e \in EdgeKinds, NEW node \in NodeNames, NEW dir \in Directions, NEW other, NEW value
      PROVE  AlikeIn(storage, Claims(storage, removals), dir, e, node, other, value) = {}
  <2>1. PICK s \in EdgeSlots : s = edge_storage_slot(KindOf(node), dir, e)
    BY NameParts, EdgeSlotOfKinds
  <2> QED BY <1>1, <2>1 DEF AlikeIn
<1>3. Out \in Directions /\ In \in Directions
  BY DEF Directions
<1> QED BY <1>2, <1>3 DEF ClaimsPaired, RemovalsFit, Balanced

\* Where no edge is brought, what is brought is in pairs.
LEMMA NothingBrought ==
  ASSUME NEW staged, \A s \in EdgeSlots : staged[s] = <<>>
  PROVE  Mirrored(staged)
<1>1. ASSUME NEW e \in EdgeKinds, NEW node \in NodeNames, NEW dir \in Directions, NEW other, NEW value
      PROVE  Brought(staged, dir, e, node, other, value) = {}
  <2>1. PICK s \in EdgeSlots : s = edge_storage_slot(KindOf(node), dir, e)
    BY NameParts, EdgeSlotOfKinds
  <2> QED BY <2>1 DEF Brought, NewAlike
<1>2. Out \in Directions /\ In \in Directions
  BY DEF Directions
<1> QED BY <1>1, <1>2 DEF Mirrored

\* Once all that was staged is let go, the graph's own halves are what is left to pair.
LEMMA ReleasedPairs ==
  ASSUME AllBalanced(edges'), FreshInv', Release, result' # "ReverseEdgeNotFound"
  PROVE  PairedInv'
<1>1. /\ pc' = "idle" /\ edge_removals' = [s \in EdgeSlots |-> {}]
      /\ edge_halves' = [s \in EdgeSlots |-> <<>>]
  BY DEF Release
<1>2. ClaimsPaired(edges', edge_removals')
  BY <1>1, NothingClaimed
<1>3. Mirrored(edge_halves')
  BY <1>1, NothingBrought
<1>4. AllBalanced(edges)'
  OBVIOUS
<1> QED BY <1>1, <1>2, <1>3, <1>4 DEF PairedInv, ReplacedInv, InsertedInv, WithRemovals

\* Giving up a diff leaves the graph's halves as they were.
LEMMA RollBackPairs ==
  ASSUME PairedInv, NEW outcome, outcome # "ReverseEdgeNotFound", RollBack(outcome)
  PROVE  PairedInv'
<1>1. /\ Release /\ result' = outcome /\ pc' = "idle"
      /\ UNCHANGED <<nodes, edges, diff, pinned, version>>
  BY DEF RollBack, Release, client_vars
<1>2. FreshInv'
  BY <1>1, FreshSame DEF PairedInv
<1>3. AllBalanced(edges')
  BY <1>1 DEF PairedInv
<1> QED BY <1>1, <1>2, <1>3, ReleasedPairs

\* No check of a step but classify_changes ends with an error of that name.
LEMMA OtherErrors ==
  /\ UpdateCheck(FirstFailing(PropertySlots, UpdateCheck)) # "ReverseEdgeNotFound"
  /\ RemovalCheck(FirstFailing(EdgeSlots, RemovalCheck)) # "ReverseEdgeNotFound"
  /\ AppendCheck(FirstFailing(PropertySlots, AppendCheck)) # "ReverseEdgeNotFound"
  /\ InsertCheck(FirstFailing(InsertSlots, InsertCheck)) # "ReverseEdgeNotFound"
<1>1. \A typ, baseline, runs, i : BatchError(typ, baseline, runs, i) # "ReverseEdgeNotFound"
  BY DEF BatchError, Ok
<1>2. ASSUME NEW slot, NEW updates PROVE UpdateError(slot, updates) # "ReverseEdgeNotFound"
  BY <1>1 DEF UpdateError, FirstError, Ok
<1>3. ASSUME NEW typ, NEW offsets, NEW lists PROVE AppendError(typ, offsets, lists) # "ReverseEdgeNotFound"
  BY <1>1 DEF AppendError, FirstError, Ok
<1>4. ASSUME NEW slot, NEW removals PROVE RemovalError(slot, removals) # "ReverseEdgeNotFound"
  BY DEF RemovalError, Ok
<1>5. ASSUME NEW typ, NEW offsets, NEW halves PROVE InsertError(typ, offsets, halves) # "ReverseEdgeNotFound"
  BY DEF InsertError, Ok
<1> QED BY <1>2, <1>3, <1>4, <1>5 DEF UpdateCheck, RemovalCheck, AppendCheck, InsertCheck

\* A step of prepare that stages no edge, and leaves what is claimed and brought alone.
LEMMA OtherStepPairs ==
  ASSUME PairedInv, UNCHANGED <<nodes, edges, diff, pinned, version, current, result, edge_removals,
                               edge_halves, edge_replacements>>,
         pc # "idle", WithRemovals' => WithRemovals, pc' # "staged"
  PROVE  PairedInv'
<1>1. FreshInv'
  BY FreshSame DEF PairedInv
<1>2. ReplacedInv'
  BY DEF PairedInv, ReplacedInv, RemovedSlots
<1> QED BY <1>1, <1>2 DEF PairedInv, InsertedInv

\* classify_changes claims nothing for a node or a property.
LEMMA ClassifyOthersPair ==
  ASSUME PairedInv, ClassifyRemoveNode \/ ClassifyUpdate
  PROVE  PairedInv'
<1>1. pc = "changes"
  BY DEF ClassifyRemoveNode, ClassifyUpdate, AtChange
<1>2. CASE \/ RollBack("UnresolvedNodeKind") \/ RollBack("NodeOffsetNotFound")
  BY <1>2, RollBackPairs
<1>3. CASE NextChange /\ UNCHANGED edge_removals
  <2>1. /\ UNCHANGED <<nodes, edges, diff, pinned, version, current, result, edge_removals,
                       edge_halves, edge_replacements>>
        /\ pc' = "changes"
    BY <1>1, <1>3 DEF NextChange, graph_vars, client_vars
  <2>2. ~ WithRemovals' /\ pc' # "staged" /\ pc # "idle"
    BY <1>1, <2>1 DEF WithRemovals
  <2> QED BY <2>1, <2>2, OtherStepPairs
<1> QED BY <1>2, <1>3 DEF ClassifyRemoveNode, ClassifyUpdate

\* prepare_property_updates stages no edge.
LEMMA PreparePropertyUpdatesPairs == ASSUME PairedInv, PreparePropertyUpdates PROVE PairedInv'
<1>1. CASE RollBack(UpdateCheck(FirstFailing(PropertySlots, UpdateCheck)))
  BY <1>1, OtherErrors, RollBackPairs
<1>2. CASE /\ pc' = "removals"
           /\ UNCHANGED <<nodes, edges, properties, client_vars, current, cursor, result,
                          strings_baseline, node_tombstones, property_updates, edge_removals,
                          edge_replacements, property_appends, node_remapper, edge_halves,
                          edge_inserts>>
  <2>1. UNCHANGED <<nodes, edges, diff, pinned, version, current, result, edge_removals,
                    edge_halves, edge_replacements>>
    BY <1>2 DEF client_vars
  <2>2. ~ WithRemovals' /\ pc' # "staged" /\ pc # "idle"
    BY <1>2 DEF WithRemovals, PreparePropertyUpdates
  <2> QED BY <2>1, <2>2, OtherStepPairs
<1> QED BY <1>1, <1>2 DEF PreparePropertyUpdates

\* Nor does prepare_new_nodes: it stages values, not half-edges.
LEMMA PrepareNewNodesPairs == ASSUME PairedInv, PrepareNewNodes PROVE PairedInv'
<1>1. CASE RollBack(AppendCheck(FirstFailing(PropertySlots, AppendCheck)))
  BY <1>1, OtherErrors, RollBackPairs
<1>2. CASE /\ pc' = "new edges"
           /\ UNCHANGED <<nodes, edges, properties, client_vars, current, result,
                          strings_baseline, node_tombstones, property_updates, edge_removals,
                          property_replacements, edge_replacements, edge_halves, edge_inserts>>
  <2>1. UNCHANGED <<nodes, edges, diff, pinned, version, current, result, edge_removals,
                    edge_halves, edge_replacements>>
    BY <1>2 DEF client_vars
  <2>2. WithRemovals /\ pc' # "staged" /\ pc # "idle"
    BY <1>2 DEF WithRemovals, PrepareNewNodes
  <2> QED BY <2>1, <2>2, OtherStepPairs
<1> QED BY <1>1, <1>2 DEF PrepareNewNodes

\* prepare_edge_removals stages what is left of the slots it takes half-edges out of.
LEMMA PrepareEdgeRemovalsPairs == ASSUME PairedInv, PrepareEdgeRemovals PROVE PairedInv'
<1>1. CASE RollBack(RemovalCheck(FirstFailing(EdgeSlots, RemovalCheck)))
  BY <1>1, OtherErrors, RollBackPairs
<1>2. CASE /\ edge_replacements' =
                [s \in {s \in EdgeSlots : edge_removals[s] # {} /\ edges[s].offsets # <<>>} |->
                   WithoutEdges(edges[s], edge_removals[s])]
           /\ pc' = "new nodes"
           /\ UNCHANGED <<graph_vars, client_vars, current, cursor, result,
                          strings_baseline, node_tombstones, property_updates, edge_removals,
                          property_replacements, property_appends, node_remapper, edge_halves,
                          edge_inserts>>
  <2>1. UNCHANGED <<nodes, edges, diff, pinned, version, current, result, edge_removals, edge_halves>>
    BY <1>2 DEF client_vars, graph_vars
  <2>2. pc # "idle"
    BY DEF PrepareEdgeRemovals
  <2>3. FreshInv'
    BY <2>1, <2>2, FreshSame DEF PairedInv
  <2>4. ReplacedInv'
    BY <1>2, <2>1 DEF ReplacedInv, RemovedSlots
  <2> QED BY <1>2, <2>1, <2>3, <2>4 DEF PairedInv, InsertedInv
<1> QED BY <1>1, <1>2 DEF PrepareEdgeRemovals

\* prepare_new_edges stages what the slots become.
LEMMA PrepareNewEdgesPairs == ASSUME PairedInv, PrepareNewEdges PROVE PairedInv'
<1>1. CASE RollBack(InsertCheck(FirstFailing(InsertSlots, InsertCheck)))
  BY <1>1, OtherErrors, RollBackPairs
<1>2. CASE /\ AllPass(InsertSlots, InsertCheck)
           /\ edge_inserts' =
                [s \in InsertSlots |->
                   EdgeSlotInsert(edges[s].values.typ, InsertOffsets(s), edge_halves[s])]
           /\ pc' = "staged"
           /\ UNCHANGED <<graph_vars, client_vars, current, cursor, result,
                          strings_baseline, node_tombstones, property_updates, edge_removals,
                          property_replacements, edge_replacements, property_appends,
                          node_remapper, edge_halves>>
  <2>1. UNCHANGED <<nodes, edges, diff, pinned, version, current, result, edge_removals, edge_halves,
                    edge_replacements>>
    BY <1>2 DEF client_vars, graph_vars
  <2>2. pc = "new edges"
    BY DEF PrepareNewEdges
  <2>3. FreshInv'
    BY <2>1, <2>2, FreshSame DEF PairedInv
  <2>4. ReplacedInv'
    BY <2>1, <2>2 DEF PairedInv, ReplacedInv, RemovedSlots, WithRemovals
  <2>5. /\ InsertSlots' = InsertSlots
        /\ \A s : InsertOffsets(s)' = InsertOffsets(s) /\ InsertCheck(s)' = InsertCheck(s)
    BY <2>1 DEF InsertSlots, InsertOffsets, InsertCheck, EdgeOffsets, NewCount, NewOfKind
  <2>6. InsertedInv'
    BY <1>2, <2>1, <2>5 DEF InsertedInv, AllPass
  <2> QED BY <1>2, <2>1, <2>3, <2>4, <2>6 DEF PairedInv
<1> QED BY <1>1, <1>2 DEF PrepareNewEdges

\* Balance read from either side.
LEMMA EitherWay ==
  ASSUME NEW storage, NEW P, NEW e, Balanced(storage, P, e), NEW dir, NEW reverse, Opposite(dir, reverse),
         NEW x \in NodeNames, NEW y \in NodeNames, NEW value \in Key
  PROVE  Cardinality(AlikeIn(storage, P, dir, e, x, y, value))
           = Cardinality(AlikeIn(storage, P, reverse, e, y, x, value))
BY DEF Balanced, Opposite

\* Everywhere leaves out no position of a sound storage.
LEMMA NoneLeftOut ==
  ASSUME NEW storage, AllSound(storage), NEW dir \in Directions, NEW e \in EdgeKinds,
         NEW node \in NodeNames, NEW other, NEW value
  PROVE  AlikeIn(storage, Everywhere, dir, e, node, other, value)
           = Alike(storage[edge_storage_slot(KindOf(node), dir, e)], SeqOf(node), other, value)
<1>1. PICK s : s = edge_storage_slot(KindOf(node), dir, e)
  OBVIOUS
<1>2. s \in EdgeSlots /\ SeqOf(node) \in Nat
  BY <1>1, NameParts, EdgeSlotOfKinds
<1>3. PICK n \in Nat : EdgeSlotSound(storage[s], n, EdgeProperty[SlotEdgeKind(s)].typ)
  BY <1>2 DEF AllSound
<1>4. Within(Run(storage[s], SeqOf(node)), Len(storage[s].neighbors)) /\ Len(storage[s].neighbors) \in Nat
  BY <1>2, <1>3, RunPlaces
<1>5. Run(storage[s], SeqOf(node)) \subseteq Nat
  BY <1>4 DEF Within
<1>6. Alike(storage[s], SeqOf(node), other, value) \cap Everywhere[s] = Alike(storage[s], SeqOf(node), other, value)
  BY <1>2, <1>5 DEF Everywhere, Alike
<1> QED BY <1>1, <1>6 DEF AlikeIn

\* While one half of an edge is unclaimed, so is one that pairs with it.
LEMMA UnclaimedReverse ==
  ASSUME NEW storage, AllSound(storage), NEW P, NEW e \in EdgeKinds,
         Balanced(storage, Everywhere, e), Balanced(storage, P, e),
         NEW dir, NEW reverse, Opposite(dir, reverse), NEW x \in NodeNames, NEW y \in NodeNames,
         NEW value \in Key, NEW near, near = edge_storage_slot(KindOf(x), dir, e),
         NEW far, far = edge_storage_slot(KindOf(y), reverse, e),
         NEW p \in Alike(storage[near], SeqOf(x), y, value), p \notin P[near]
  PROVE  \E q \in Alike(storage[far], SeqOf(y), x, value) : q \notin P[far]
<1>1. dir \in Directions /\ reverse \in Directions
  BY DEF Opposite, Directions
<1>2. PICK A : A = Alike(storage[near], SeqOf(x), y, value)
  OBVIOUS
<1>3. PICK B : B = Alike(storage[far], SeqOf(y), x, value)
  OBVIOUS
<1>4. IsFiniteSet(A) /\ IsFiniteSet(B)
  BY <1>1, <1>2, <1>3, AlikeFinite
<1>5. Cardinality(A) = Cardinality(B)
  <2>1. Cardinality(AlikeIn(storage, Everywhere, dir, e, x, y, value))
          = Cardinality(AlikeIn(storage, Everywhere, reverse, e, y, x, value))
    BY EitherWay
  <2>2. AlikeIn(storage, Everywhere, dir, e, x, y, value) = A
    BY <1>1, <1>2, NoneLeftOut
  <2>3. AlikeIn(storage, Everywhere, reverse, e, y, x, value) = B
    BY <1>1, <1>3, NoneLeftOut
  <2> QED BY <2>1, <2>2, <2>3
<1>6. Cardinality(A \cap P[near]) = Cardinality(B \cap P[far])
  <2>1. Cardinality(AlikeIn(storage, P, dir, e, x, y, value))
          = Cardinality(AlikeIn(storage, P, reverse, e, y, x, value))
    BY EitherWay
  <2> QED BY <1>2, <1>3, <2>1 DEF AlikeIn
<1>7. Cardinality(A \cap P[near]) < Cardinality(A)
  <2>1. A \cap P[near] \subseteq A /\ A \cap P[near] # A
    BY <1>2
  <2>2. /\ Cardinality(A \cap P[near]) <= Cardinality(A)
        /\ Cardinality(A \cap P[near]) = Cardinality(A) => A \cap P[near] = A
    BY <1>4, <2>1, FS_Subset
  <2>3. Cardinality(A) \in Nat /\ Cardinality(A \cap P[near]) \in Nat
    BY <1>4, <2>1, FS_Subset, FS_CardinalityType
  <2> QED BY <2>1, <2>2, <2>3
<1>8. B \cap P[far] # B
  <2>1. Cardinality(A) \in Nat /\ Cardinality(B) \in Nat
    BY <1>4, FS_CardinalityType
  <2> QED BY <1>5, <1>6, <1>7, <2>1
<1> QED BY <1>3, <1>8

\* Position p of slot o is a half-edge of the class, and not in P.
UnclaimedHalf(storage, P, o, dir, e, node, other, value, p) ==
  /\ o = edge_storage_slot(KindOf(node), dir, e)
  /\ p \in Alike(storage[o], SeqOf(node), other, value) /\ p \notin P[o]

\* A half-edge claimed on each side, of one class, leaves the claims in pairs, whichever side
\* is named first.
LEMMA EitherClaimed ==
  ASSUME NEW storage, AllSound(storage), NEW e \in EdgeKinds, NEW dir, NEW reverse, Opposite(dir, reverse),
         NEW x \in NodeNames, NEW y \in NodeNames, NEW value,
         NEW P, NEW Q, NEW near, NEW far, NEW p, NEW q,
         UnclaimedHalf(storage, P, near, dir, e, x, y, value, p),
         UnclaimedHalf(storage, P, far, reverse, e, y, x, value, q),
         OneMoreAt(Q, P, dir, near, p), OneMoreAt(Q, P, reverse, far, q),
         NEW k \in EdgeKinds, Balanced(storage, P, k)
  PROVE  Balanced(storage, Q, k)
<1>1. CASE dir = Out /\ reverse = In
  BY <1>1, BalanceClaimed DEF UnclaimedHalf
<1>2. CASE dir = In /\ reverse = Out
  BY <1>2, BalanceClaimed, ZenonT(30) DEF UnclaimedHalf
<1> QED BY <1>1, <1>2 DEF Opposite

\* So it is with what classify_changes adds to the removals of two slots.
LEMMA ClaimsGrow ==
  ASSUME NEW storage, AllSound(storage),
         NEW removals, DOMAIN removals = EdgeSlots, ClaimsPaired(storage, removals),
         NEW e \in EdgeKinds, NEW dir, NEW reverse, Opposite(dir, reverse),
         NEW x \in NodeNames, NEW y \in NodeNames, NEW value,
         NEW near, NEW far,
         NEW r \in Nat \X Nat, HasOffset(storage[near], r[1]), r[2] < Degree(storage[near], r[1]),
         UnclaimedHalf(storage, Claims(storage, removals), near, dir, e, x, y, value, RemovedAt(storage[near], r)),
         NEW c \in Nat \X Nat, HasOffset(storage[far], c[1]), c[2] < Degree(storage[far], c[1]),
         UnclaimedHalf(storage, Claims(storage, removals), far, reverse, e, y, x, value, RemovedAt(storage[far], c))
  PROVE  ClaimsPaired(storage, [removals EXCEPT ![near] = @ \cup {r}, ![far] = @ \cup {c}])
<1>1. dir \in Directions /\ reverse \in Directions /\ dir # reverse
  BY DEF Opposite, Directions, In, Out
<1>2. /\ near \in EdgeSlots /\ SlotEdgeKind(near) = e /\ SlotDirection(near) = dir
      /\ far \in EdgeSlots /\ SlotEdgeKind(far) = e /\ SlotDirection(far) = reverse
  BY <1>1, NameParts, EdgeSlotOfKinds DEF UnclaimedHalf
<1>3. near # far
  BY <1>1, <1>2
<1>4. PICK after : after = [removals EXCEPT ![near] = @ \cup {r}, ![far] = @ \cup {c}]
  OBVIOUS
<1>5. /\ after[near] = removals[near] \cup {r} /\ after[far] = removals[far] \cup {c}
      /\ \A s \in EdgeSlots : s # near /\ s # far => after[s] = removals[s]
  BY <1>2, <1>3, <1>4
<1>6. PICK P : P = Claims(storage, removals)
  OBVIOUS
<1>7. PICK Q : Q = Claims(storage, after)
  OBVIOUS
<1>8. /\ \A s \in EdgeSlots : RemovalsFit(storage[s], removals[s])
      /\ \A k \in EdgeKinds : Balanced(storage, P, k)
  BY <1>6 DEF ClaimsPaired
<1>9. \A s \in EdgeSlots : P[s] = RemovedPlaces(storage[s], removals[s]) /\ Q[s] = RemovedPlaces(storage[s], after[s])
  BY <1>6, <1>7 DEF Claims
<1>10. PICK p : p = RemovedAt(storage[near], r)
  OBVIOUS
<1>11. PICK q : q = RemovedAt(storage[far], c)
  OBVIOUS
<1>12. /\ RemovalsFit(storage[near], after[near]) /\ Q[near] = P[near] \cup {p}
  <2>1. PICK n \in Nat : EdgeSlotSound(storage[near], n, EdgeProperty[e].typ)
    BY <1>2 DEF AllSound
  <2>2. RemovalsFit(storage[near], removals[near])
    BY <1>2, <1>8
  <2>3. /\ RemovalsFit(storage[near], removals[near] \cup {r})
        /\ RemovedPlaces(storage[near], removals[near] \cup {r})
             = RemovedPlaces(storage[near], removals[near]) \cup {RemovedAt(storage[near], r)}
    BY <2>1, <2>2, NotRemoved
  <2> QED BY <1>2, <1>5, <1>9, <1>10, <2>3
<1>13. /\ RemovalsFit(storage[far], after[far]) /\ Q[far] = P[far] \cup {q}
  <2>1. PICK n \in Nat : EdgeSlotSound(storage[far], n, EdgeProperty[e].typ)
    BY <1>2 DEF AllSound
  <2>2. RemovalsFit(storage[far], removals[far])
    BY <1>2, <1>8
  <2>3. /\ RemovalsFit(storage[far], removals[far] \cup {c})
        /\ RemovedPlaces(storage[far], removals[far] \cup {c})
             = RemovedPlaces(storage[far], removals[far]) \cup {RemovedAt(storage[far], c)}
    BY <2>1, <2>2, NotRemoved
  <2> QED BY <1>2, <1>5, <1>9, <1>11, <2>3
<1>14. \A s \in EdgeSlots : s # near /\ s # far => Q[s] = P[s]
  BY <1>5, <1>9
<1>15. /\ UnclaimedHalf(storage, P, near, dir, e, x, y, value, p)
       /\ UnclaimedHalf(storage, P, far, reverse, e, y, x, value, q)
  BY <1>6, <1>10, <1>11
<1>16. OneMoreAt(Q, P, dir, near, p) /\ OneMoreAt(Q, P, reverse, far, q)
  BY <1>1, <1>2, <1>12, <1>13, <1>14 DEF OneMoreAt
<1>17. \A k \in EdgeKinds : Balanced(storage, Q, k)
  BY <1>8, <1>15, <1>16, EitherClaimed
<1>18. \A s \in EdgeSlots : RemovalsFit(storage[s], after[s])
  BY <1>5, <1>8, <1>12, <1>13
<1> QED BY <1>4, <1>7, <1>17, <1>18 DEF ClaimsPaired

\* Removal r of slot near is of the half-edge of x whose other end is y.
NamedHalf(storage, near, dir, e, x, y, r) ==
  /\ near = edge_storage_slot(KindOf(x), dir, e)
  /\ r \in Nat \X Nat /\ r[1] = SeqOf(x) /\ HasOffset(storage[near], r[1])
  /\ r[2] < Degree(storage[near], r[1])
  /\ storage[near].neighbors[RemovedAt(storage[near], r)] = y

\* The half-edge a removal names: where it is, and the value its reverse must have.
LEMMA NamedClaim ==
  ASSUME NEW storage, AllSound(storage),
         NEW removals, DOMAIN removals = EdgeSlots, ClaimsPaired(storage, removals),
         NEW e \in EdgeKinds, NEW dir \in Directions, NEW x \in NodeNames, NEW y,
         NEW near, NEW r, NamedHalf(storage, near, dir, e, x, y, r), r \notin removals[near]
  PROVE  \E value \in Key :
           /\ UnclaimedHalf(storage, Claims(storage, removals), near, dir, e, x, y, value, RemovedAt(storage[near], r))
           /\ WantedKey(storage[near], r[1], r[2]) = WantedOf(EdgeProperty[e].typ, value)
<1>1. near \in EdgeSlots /\ SlotEdgeKind(near) = e /\ SeqOf(x) \in Nat
  BY NameParts, EdgeSlotOfKinds DEF NamedHalf
<1>2. /\ near = edge_storage_slot(KindOf(x), dir, e)
      /\ r \in Nat \X Nat /\ r[1] = SeqOf(x) /\ HasOffset(storage[near], r[1])
      /\ r[2] < Degree(storage[near], r[1])
      /\ storage[near].neighbors[RemovedAt(storage[near], r)] = y
  BY DEF NamedHalf
<1>3. PICK typ : typ = EdgeProperty[e].typ
  OBVIOUS
<1>4. PICK n \in Nat : EdgeSlotSound(storage[near], n, typ)
  BY <1>1, <1>3 DEF AllSound
<1>5. PICK p : p = RemovedAt(storage[near], r)
  OBVIOUS
<1>6. PICK value : value = ValueKey(storage[near].values, p - 1)
  OBVIOUS
<1>7. p \in Run(storage[near], SeqOf(x)) /\ p \notin Claims(storage, removals)[near]
  <2>1. RemovalsFit(storage[near], removals[near])
    BY <1>1 DEF ClaimsPaired
  <2>2. /\ RemovedAt(storage[near], r) \in RemovedPlaces(storage[near], removals[near]) <=> r \in removals[near]
        /\ RemovedAt(storage[near], r) \in Run(storage[near], r[1])
    BY <1>4, <1>2, <2>1, NotRemoved
  <2> QED BY <1>1, <1>5, <1>2, <2>2 DEF Claims
<1>8. storage[near].values.typ = typ
  BY <1>4 DEF EdgeSlotSound
<1>9. value \in Key /\ (typ # "None" => storage[near].values.items[p] = value)
  <2>1. CASE typ = "None"
    <3>1. value = NoKey
      BY <1>6, <1>8, <2>1 DEF ValueKey
    <3> QED BY <2>1, <3>1 DEF NoKey, Key
  <2>2. CASE typ # "None"
    BY <1>1, <1>4, <1>6, <1>7, <1>2, <2>2, RunPlaces
  <2> QED BY <2>1, <2>2
<1>10. p \in Alike(storage[near], SeqOf(x), y, value)
  BY <1>5, <1>7, <1>8, <1>9, <1>2 DEF Alike, Leads
<1>11. WantedKey(storage[near], r[1], r[2]) = WantedOf(typ, value)
  <2>1. /\ storage[near].offsets \in Seq(0 .. MaxOffset) /\ Shaped(storage[near].offsets, n)
    BY <1>4 DEF EdgeSlotSound, EdgeStorageSlot
  <2>2. Start(storage[near], r[1]) \in Nat /\ End(storage[near], r[1]) \in Nat
    BY <1>1, <1>2, <2>1, RunWithin
  <2>3. p - 1 = Start(storage[near], r[1]) + r[2] /\ Start(storage[near], r[1]) + r[2] < End(storage[near], r[1])
    BY <1>5, <1>2, <2>2 DEF RemovedAt, Degree
  <2> QED BY <1>6, <1>8, <1>2, <2>3 DEF WantedKey, WantedOf
<1> QED BY <1>3, <1>5, <1>7, <1>9, <1>10, <1>11, <1>2 DEF UnclaimedHalf

\* A half-edge is claimed together with one that pairs with it, and there always is one.
LEMMA ClaimedBoth ==
  ASSUME NEW storage, AllSound(storage), AllBalanced(storage),
         NEW removals, DOMAIN removals = EdgeSlots, ClaimsPaired(storage, removals),
         NEW e \in EdgeKinds, NEW dir, NEW reverse, Opposite(dir, reverse),
         NEW x \in NodeNames, NEW y \in NodeNames, NEW value \in Key, NEW near,
         NEW far, far = edge_storage_slot(KindOf(y), reverse, e),
         NEW r, NamedHalf(storage, near, dir, e, x, y, r),
         UnclaimedHalf(storage, Claims(storage, removals), near, dir, e, x, y, value, RemovedAt(storage[near], r)),
         NEW halves, halves = ReverseHalf(storage[far], SeqOf(y), x, ClaimedOf(removals[far], SeqOf(y)),
                                          WantedOf(EdgeProperty[e].typ, value))
  PROVE  /\ HasOffset(storage[far], SeqOf(y)) /\ halves # {}
         /\ \A local \in halves :
              ClaimsPaired(storage, [removals EXCEPT ![near] = @ \cup {r},
                                                     ![far] = @ \cup {<<SeqOf(y), local>>}])
<1>1. reverse \in Directions
  BY DEF Opposite, Directions
<1>2. far \in EdgeSlots /\ SlotEdgeKind(far) = e /\ SeqOf(y) \in Nat
  BY <1>1, NameParts, EdgeSlotOfKinds
<1>3. PICK typ : typ = EdgeProperty[e].typ
  OBVIOUS
<1>4. PICK m \in Nat : EdgeSlotSound(storage[far], m, typ)
  BY <1>2, <1>3 DEF AllSound
<1>5. PICK P : P = Claims(storage, removals)
  OBVIOUS
<1>6. /\ P[far] = RemovedPlaces(storage[far], removals[far]) /\ RemovalsFit(storage[far], removals[far])
      /\ Balanced(storage, P, e) /\ Balanced(storage, Everywhere, e)
  BY <1>2, <1>5 DEF ClaimsPaired, Claims, AllBalanced
<1>7. PICK p : p = RemovedAt(storage[near], r)
  OBVIOUS
<1>8. /\ near = edge_storage_slot(KindOf(x), dir, e)
      /\ p \in Alike(storage[near], SeqOf(x), y, value) /\ p \notin P[near]
  BY <1>5, <1>7 DEF UnclaimedHalf
<1>9. PICK q \in Alike(storage[far], SeqOf(y), x, value) : q \notin P[far]
  BY <1>6, <1>8, UnclaimedReverse
<1>10. /\ HasOffset(storage[far], SeqOf(y)) /\ halves # {}
       /\ \A local \in halves :
            /\ local \in Nat /\ local < Degree(storage[far], SeqOf(y))
            /\ RemovedAt(storage[far], <<SeqOf(y), local>>) \in Alike(storage[far], SeqOf(y), x, value)
            /\ RemovedAt(storage[far], <<SeqOf(y), local>>) \notin RemovedPlaces(storage[far], removals[far])
  <2>1. RemovalsFit(storage[far], removals[far]) /\ q \notin RemovedPlaces(storage[far], removals[far])
    BY <1>6, <1>9
  <2>2. /\ HasOffset(storage[far], SeqOf(y)) /\ ReverseHalf(storage[far], SeqOf(y), x, ClaimedOf(removals[far], SeqOf(y)), WantedOf(typ, value)) # {}
        /\ \A local \in ReverseHalf(storage[far], SeqOf(y), x, ClaimedOf(removals[far], SeqOf(y)), WantedOf(typ, value)) :
             /\ local \in Nat /\ local < Degree(storage[far], SeqOf(y))
             /\ RemovedAt(storage[far], <<SeqOf(y), local>>) \in Alike(storage[far], SeqOf(y), x, value)
             /\ RemovedAt(storage[far], <<SeqOf(y), local>>) \notin RemovedPlaces(storage[far], removals[far])
    BY <1>2, <1>4, <1>9, <2>1, ReverseFound
  <2> QED BY <1>3, <2>2
<1>11. r \in Nat \X Nat /\ HasOffset(storage[near], r[1]) /\ r[2] < Degree(storage[near], r[1])
  BY DEF NamedHalf
<1>12. ASSUME NEW local \in halves
       PROVE  ClaimsPaired(storage, [removals EXCEPT ![near] = @ \cup {r}, ![far] = @ \cup {<<SeqOf(y), local>>}])
  <2>1. PICK c : c = <<SeqOf(y), local>>
    OBVIOUS
  <2>2. /\ c \in Nat \X Nat /\ HasOffset(storage[far], c[1]) /\ c[2] < Degree(storage[far], c[1])
        /\ UnclaimedHalf(storage, Claims(storage, removals), far, reverse, e, y, x, value, RemovedAt(storage[far], c))
    BY <1>2, <1>5, <1>6, <1>10, <2>1 DEF UnclaimedHalf
  <2>3. ClaimsPaired(storage, [removals EXCEPT ![near] = @ \cup {r}, ![far] = @ \cup {c}])
    BY <2>2, <1>11, ClaimsGrow
  <2> QED BY <2>1, <2>3
<1> QED BY <1>10, <1>12

\* The graph's slots are sound.
LEMMA GraphSound == GraphInv => AllSound(edges)
<1>1. SUFFICES ASSUME GraphInv, NEW s \in EdgeSlots
               PROVE  \E n \in Nat : EdgeSlotSound(edges[s], n, EdgeProperty[SlotEdgeKind(s)].typ)
  BY DEF AllSound
<1>2. EdgeSlotSound(edges[s], Standing[SlotNodeKind(s)], EdgeProperty[SlotEdgeKind(s)].typ)
  BY <1>1 DEF GraphInv, EdgeSlotKept
<1>3. Standing[SlotNodeKind(s)] = Len(nodes[SlotNodeKind(s)]) /\ nodes[SlotNodeKind(s)] \in Seq(BOOLEAN)
  BY <1>1, SlotKinds DEF GraphInv, Standing
<1> QED BY <1>2, <1>3, LenProperties

\* A half-edge that is named and not claimed yet finds its reverse, and the two are claimed
\* together.
LEMMA FreshIdClaims ==
  ASSUME GraphInv, AllBalanced(edges), DOMAIN edge_removals = EdgeSlots,
         ClaimsPaired(edges, edge_removals), NEW id, NEW x, NEW y, NEW dir, NEW reverse,
         NamesHalf(id, edges, x, dir, y), Opposite(dir, reverse),
         NEW near, near = edge_storage_slot(KindOf(x), dir, id.kind),
         NEW far, far = edge_storage_slot(KindOf(y), reverse, id.kind),
         <<SeqOf(x), id.seq>> \notin edge_removals[near],
         NEW halves, halves = ReverseHalf(edges[far], SeqOf(y), x, ClaimedOf(edge_removals[far], SeqOf(y)),
                                          WantedKey(edges[near], SeqOf(x), id.seq))
  PROVE  /\ HasOffset(edges[far], SeqOf(y)) /\ halves # {}
         /\ \A local \in halves :
              ClaimsPaired(edges, [edge_removals EXCEPT ![near] = @ \cup {<<SeqOf(x), id.seq>>},
                                                        ![far] = @ \cup {<<SeqOf(y), local>>}])
<1>1. PICK e : e = id.kind
  OBVIOUS
<1>2. PICK r : r = <<SeqOf(x), id.seq>>
  OBVIOUS
<1>3. e \in EdgeKinds /\ x \in NodeNames /\ y \in NodeNames /\ dir \in Directions
  BY <1>1 DEF NamesHalf, Opposite, Directions
<1>4. NamedHalf(edges, near, dir, e, x, y, r)
  <2>1. SeqOf(x) \in Nat
    BY <1>3, NameParts
  <2> QED BY <1>1, <1>2, <2>1 DEF NamesHalf, NamedHalf
<1>5. AllSound(edges)
  BY GraphSound
<1>6. r \notin edge_removals[near]
  BY <1>2
<1>7. PICK value \in Key :
        /\ UnclaimedHalf(edges, Claims(edges, edge_removals), near, dir, e, x, y, value, RemovedAt(edges[near], r))
        /\ WantedKey(edges[near], r[1], r[2]) = WantedOf(EdgeProperty[e].typ, value)
  BY <1>3, <1>4, <1>5, <1>6, NamedClaim
<1>8. halves = ReverseHalf(edges[far], SeqOf(y), x, ClaimedOf(edge_removals[far], SeqOf(y)),
                           WantedOf(EdgeProperty[e].typ, value))
  <2>1. r[1] = SeqOf(x) /\ r[2] = id.seq
    BY <1>2
  <2> QED BY <1>7, <2>1
<1>9. far = edge_storage_slot(KindOf(y), reverse, e)
  BY <1>1
<1>10. /\ HasOffset(edges[far], SeqOf(y)) /\ halves # {}
       /\ \A local \in halves :
            ClaimsPaired(edges, [edge_removals EXCEPT ![near] = @ \cup {r}, ![far] = @ \cup {<<SeqOf(y), local>>}])
  BY <1>3, <1>4, <1>5, <1>7, <1>8, <1>9, ClaimedBoth
<1> QED BY <1>2, <1>10

\* remove_edge claims the two halves of an edge, or finds them claimed already.
LEMMA ClassifyRemoveEdgePairs == ASSUME IInv, PairedInv, ClassifyRemoveEdge PROVE PairedInv'
<1>1. pc = "changes" /\ cursor <= Len(diff[current].changes) /\ Change.change = "RemoveEdge"
  BY DEF ClassifyRemoveEdge, AtChange
<1>2. GraphInv /\ FreshInv /\ AllBalanced(edges) /\ ClaimsPaired(edges, edge_removals)
      /\ DOMAIN edge_removals = EdgeSlots
  BY DEF IInv, StagedInv, ChangesInv, PairedInv
<1>3. PICK id : id = Change.edge
  OBVIOUS
<1>4. id \in EdgeIds(graph)
  <2>1. /\ current \in Diffs /\ cursor \in Nat /\ 1 <= cursor /\ Len(diff[current].changes) \in Nat
    <3>1. current \in Diffs /\ cursor \in 1 .. MaxOperations + 1 /\ diff[current] \in Diff
      BY DEF IInv, ControlInv, ClientInv
    <3> QED BY <3>1, Bounds, DiffLengths
  <2>2. cursor \in 1 .. Len(diff[current].changes)
    BY <1>1, <2>1
  <2>3. RemovesEdges(current)
    BY <1>1, <2>2 DEF RemovesEdges, Change
  <2>4. FreshRemovals(current)
    BY <1>1, <1>2, <2>1, <2>3 DEF FreshInv
  <2> QED BY <1>1, <1>3, <2>2, <2>4 DEF FreshRemovals, Change
<1>5. PICK x, y : \E dir, reverse :
          /\ OrientsTo(id, x, dir, reverse, y) /\ Opposite(dir, reverse)
          /\ NamesHalf(id, edges, x, dir, y) /\ Exists(x)
  BY <1>2, <1>4, FreshIdFound
<1>6. PICK dir, reverse :
         /\ OrientsTo(id, x, dir, reverse, y) /\ Opposite(dir, reverse)
         /\ NamesHalf(id, edges, x, dir, y) /\ Exists(x)
  BY <1>5
<1>7. PICK near : near = edge_storage_slot(KindOf(x), dir, id.kind)
  OBVIOUS
<1>8. PICK far : far = edge_storage_slot(KindOf(y), reverse, id.kind)
  OBVIOUS
<1>9. PICK halves : halves = ReverseHalf(edges[far], SeqOf(y), x, ClaimedOf(edge_removals[far], SeqOf(y)),
                                          WantedKey(edges[near], SeqOf(x), id.seq))
  OBVIOUS
<1>10. \/ ~ Exists(x)
       \/ /\ <<SeqOf(x), id.seq>> \in edge_removals[near]
          /\ NextChange
          /\ UNCHANGED <<node_tombstones, property_updates, edge_removals>>
       \/ /\ <<SeqOf(x), id.seq>> \notin edge_removals[near] /\ ~ HasOffset(edges[far], SeqOf(y))
       \/ /\ <<SeqOf(x), id.seq>> \notin edge_removals[near] /\ halves = {}
       \/ /\ <<SeqOf(x), id.seq>> \notin edge_removals[near]
          /\ \E local \in halves :
               edge_removals' = [edge_removals EXCEPT ![near] = @ \cup {<<SeqOf(x), id.seq>>},
                                                      ![far] = @ \cup {<<SeqOf(y), local>>}]
          /\ NextChange
  <2> DEFINE ends == orient_edge(Change.edge.dir, Change.edge.src, Change.edge.dst)
             here == edge_storage_slot(KindOf(ends.primary), ends.dir, Change.edge.kind)
             there == edge_storage_slot(KindOf(ends.secondary), ends.reverse, Change.edge.kind)
             found == ReverseHalf(edges[there], SeqOf(ends.secondary), ends.primary,
                                  ClaimedOf(edge_removals[there], SeqOf(ends.secondary)),
                                  WantedKey(edges[here], SeqOf(ends.primary), Change.edge.seq))
             named == <<SeqOf(ends.primary), Change.edge.seq>>
  <2>1. \/ ~ Exists(ends.primary)
        \/ /\ named \in edge_removals[here]
           /\ NextChange
           /\ UNCHANGED <<node_tombstones, property_updates, edge_removals>>
        \/ named \notin edge_removals[here] /\ ~ HasOffset(edges[there], SeqOf(ends.secondary))
        \/ named \notin edge_removals[here] /\ found = {}
        \/ /\ named \notin edge_removals[here]
           /\ \E local \in found :
                edge_removals' = [edge_removals EXCEPT ![here] = @ \cup {named},
                                                       ![there] = @ \cup {<<SeqOf(ends.secondary), local>>}]
           /\ NextChange
    BY Zenon DEF ClassifyRemoveEdge, Claimed, ClaimedOf
  <2>2. ends.primary = x /\ ends.secondary = y /\ ends.dir = dir /\ ends.reverse = reverse
    BY <1>3, <1>6 DEF OrientsTo
  <2> HIDE DEF ends
  <2>3. here = near /\ there = far
    BY <1>3, <1>7, <1>8, <2>2
  <2> HIDE DEF here, there
  <2>4. found = halves
    BY <1>3, <1>9, <2>2, <2>3
  <2>5. named = <<SeqOf(x), id.seq>>
    BY <1>3, <2>2
  <2> HIDE DEF found, named
  <2> QED BY <2>1, <2>2, <2>3, <2>4, <2>5
<1>11. CASE /\ <<SeqOf(x), id.seq>> \in edge_removals[near]
            /\ NextChange
            /\ UNCHANGED <<node_tombstones, property_updates, edge_removals>>
  <2>1. /\ UNCHANGED <<nodes, edges, diff, pinned, version, current, result, edge_removals,
                       edge_halves, edge_replacements>>
        /\ pc' = "changes"
    BY <1>1, <1>11 DEF NextChange, graph_vars, client_vars
  <2>2. ~ WithRemovals' /\ pc' # "staged" /\ pc # "idle"
    BY <1>1, <2>1 DEF WithRemovals
  <2> QED BY <2>1, <2>2, OtherStepPairs
<1>12. ASSUME <<SeqOf(x), id.seq>> \notin edge_removals[near]
       PROVE  /\ HasOffset(edges[far], SeqOf(y)) /\ halves # {}
              /\ \A local \in halves :
                   ClaimsPaired(edges, [edge_removals EXCEPT ![near] = @ \cup {<<SeqOf(x), id.seq>>},
                                                             ![far] = @ \cup {<<SeqOf(y), local>>}])
  BY <1>2, <1>6, <1>7, <1>8, <1>9, <1>12, FreshIdClaims
<1>13. CASE /\ <<SeqOf(x), id.seq>> \notin edge_removals[near]
            /\ \E local \in halves :
                 edge_removals' = [edge_removals EXCEPT ![near] = @ \cup {<<SeqOf(x), id.seq>>},
                                                        ![far] = @ \cup {<<SeqOf(y), local>>}]
            /\ NextChange
  <2>1. ClaimsPaired(edges, edge_removals')
    BY <1>12, <1>13
  <2>2. /\ UNCHANGED <<nodes, edges, diff, pinned, version, current, result, edge_halves>>
        /\ pc' = "changes"
    BY <1>1, <1>13 DEF NextChange, graph_vars, client_vars
  <2>3. FreshInv'
    BY <1>1, <1>2, <2>2, FreshSame
  <2>4. ClaimsPaired(edges, edge_removals)'
    BY <2>1, <2>2
  <2> QED BY <2>2, <2>3, <2>4 DEF PairedInv, ReplacedInv, InsertedInv, WithRemovals
<1> QED BY <1>6, <1>10, <1>11, <1>12, <1>13

\* Of the slots of a direction, slot o has one half more staged behind the others.
HalfBehind(after, before, dir, o, half) ==
  \A s \in EdgeSlots : SlotDirection(s) = dir =>
    after[s] = IF s = o THEN Append(before[s], half) ELSE before[s]
HalfOf(half, node, other) == half.seq = SeqOf(node) /\ half.neighbor = other
KeyOf(half) == Answer(half.property).key
InClass(half, typ, seq, other, value) ==
  half.seq = seq /\ half.neighbor = other /\ (typ # "None" => KeyOf(half) = value)

\* A half staged behind the others is one more of its class, and of no other.
LEMMA HalfMore ==
  ASSUME NEW S, NEW halves \in Seq(S), NEW half \in S, NEW typ, NEW seq, NEW other, NEW value
  PROVE  /\ IsFiniteSet(NewAlike(typ, halves, seq, other, value))
         /\ Cardinality(NewAlike(typ, halves, seq, other, value)) \in Nat
         /\ Cardinality(NewAlike(typ, Append(halves, half), seq, other, value))
              = Cardinality(NewAlike(typ, halves, seq, other, value))
                + OneIf(InClass(half, typ, seq, other, value))
<1>1. PICK n \in Nat : n = Len(halves)
  BY LenProperties
<1>2. PICK A : A = NewAlike(typ, halves, seq, other, value)
  OBVIOUS
<1>3. PICK more : more = Append(halves, half)
  OBVIOUS
<1>4. DOMAIN halves = 1 .. n /\ DOMAIN more = 1 .. n + 1 /\ more[n + 1] = half /\ \A j \in 1 .. n : more[j] = halves[j]
  BY <1>1, <1>3, AppendProperties, LenProperties
<1>5. PICK B : B = NewAlike(typ, more, seq, other, value)
  OBVIOUS
<1>6. \A j : j \in A <=> j \in 1 .. n /\ InClass(halves[j], typ, seq, other, value)
  BY <1>2, <1>4 DEF NewAlike, InClass, KeyOf
<1>7. \A j : j \in B <=> j \in 1 .. n + 1 /\ InClass(more[j], typ, seq, other, value)
  BY <1>4, <1>5 DEF NewAlike, InClass, KeyOf
<1>8. \A j \in 1 .. n : j \in B <=> j \in A
  BY <1>4, <1>6, <1>7
<1>9. n + 1 \in B <=> InClass(half, typ, seq, other, value)
  BY <1>4, <1>7
<1>10. \A j \in 1 .. n + 1 : j \in 1 .. n \/ j = n + 1
  OBVIOUS
<1>11. n + 1 \notin A /\ A \subseteq 1 .. n /\ B \subseteq 1 .. n + 1
  <2>1. n + 1 \notin 1 .. n
    OBVIOUS
  <2> QED BY <1>6, <1>7, <2>1
<1>12. IsFiniteSet(A) /\ Cardinality(A) \in Nat
  <2>1. Within(A, n)
    BY <1>11 DEF Within
  <2> QED BY <2>1, PositionsFinite
<1>13. CASE InClass(half, typ, seq, other, value)
  <2>1. B = A \cup {n + 1}
    BY <1>8, <1>9, <1>10, <1>11, <1>13
  <2>2. Cardinality(B) = Cardinality(A) + 1
    BY <1>11, <1>12, <2>1, FS_AddElement
  <2>3. OneIf(InClass(half, typ, seq, other, value)) = 1
    BY <1>13 DEF OneIf
  <2> QED BY <1>2, <1>3, <1>5, <1>12, <2>2, <2>3
<1>14. CASE ~ InClass(half, typ, seq, other, value)
  <2>1. B = A
    BY <1>8, <1>9, <1>10, <1>11, <1>14
  <2>2. OneIf(InClass(half, typ, seq, other, value)) = 0
    BY <1>14 DEF OneIf
  <2> QED BY <1>2, <1>3, <1>5, <1>12, <2>1, <2>2
<1> QED BY <1>13, <1>14

\* One more half on a side is one more of its class and of no other.
LEMMA BroughtSide ==
  ASSUME NEW S, NEW before, NEW after, \A s \in EdgeSlots : before[s] \in Seq(S),
         NEW dir \in Directions, NEW e \in EdgeKinds, NEW node \in NodeNames, NEW other,
         NEW half \in S, HalfOf(half, node, other),
         HalfBehind(after, before, dir, edge_storage_slot(KindOf(node), dir, e), half),
         NEW k \in EdgeKinds, NEW x \in NodeNames, NEW y, NEW v
  PROVE  /\ Cardinality(Brought(before, dir, k, x, y, v)) \in Nat
         /\ Cardinality(Brought(after, dir, k, x, y, v))
              = Cardinality(Brought(before, dir, k, x, y, v))
                + OneIf(SameClass(k, x, y, v, e, node, other, KeyOf(half)))
<1>1. PICK o : o = edge_storage_slot(KindOf(node), dir, e)
  OBVIOUS
<1>2. PICK s : s = edge_storage_slot(KindOf(x), dir, k)
  OBVIOUS
<1>3. /\ s \in EdgeSlots /\ SlotDirection(s) = dir /\ SlotNodeKind(s) = KindOf(x) /\ SlotEdgeKind(s) = k
      /\ o \in EdgeSlots /\ SlotNodeKind(o) = KindOf(node) /\ SlotEdgeKind(o) = e
  BY <1>1, <1>2, NameParts, EdgeSlotOfKinds
<1>4. PICK typ : typ = EdgeProperty[k].typ
  OBVIOUS
<1>5. /\ Brought(before, dir, k, x, y, v) = NewAlike(typ, before[s], SeqOf(x), y, v)
      /\ Brought(after, dir, k, x, y, v) = NewAlike(typ, after[s], SeqOf(x), y, v)
  BY <1>2, <1>4 DEF Brought
<1>6. after[s] = IF s = o THEN Append(before[s], half) ELSE before[s]
  BY <1>1, <1>3 DEF HalfBehind
<1>7. /\ Cardinality(NewAlike(typ, before[s], SeqOf(x), y, v)) \in Nat
      /\ Cardinality(NewAlike(typ, Append(before[s], half), SeqOf(x), y, v))
           = Cardinality(NewAlike(typ, before[s], SeqOf(x), y, v)) + OneIf(InClass(half, typ, SeqOf(x), y, v))
  BY <1>3, HalfMore
<1>8. CASE s = o
  <2>1. KindOf(x) = KindOf(node) /\ k = e
    BY <1>3, <1>8
  <2>2. InClass(half, typ, SeqOf(x), y, v) <=> SameClass(k, x, y, v, e, node, other, KeyOf(half))
    BY <1>4, <2>1, NameParts DEF SameClass, HalfOf, InClass
  <2> QED BY <1>5, <1>6, <1>7, <1>8, <2>2 DEF OneIf
<1>9. CASE s # o
  <2>1. ~ SameClass(k, x, y, v, e, node, other, KeyOf(half))
    BY <1>1, <1>2, <1>9 DEF SameClass
  <2> QED BY <1>5, <1>6, <1>7, <1>9, <2>1 DEF OneIf
<1> QED BY <1>8, <1>9

\* The two halves of a new edge leave what is brought in pairs.
LEMMA EdgeBrought ==
  ASSUME NEW S, NEW before, NEW after, \A s \in EdgeSlots : before[s] \in Seq(S),
         NEW e \in EdgeKinds, NEW src \in NodeNames, NEW dst \in NodeNames,
         NEW there \in S, HalfOf(there, src, dst), NEW back \in S, HalfOf(back, dst, src),
         KeyOf(there) = KeyOf(back),
         HalfBehind(after, before, Out, edge_storage_slot(KindOf(src), Out, e), there),
         HalfBehind(after, before, In, edge_storage_slot(KindOf(dst), In, e), back),
         Mirrored(before)
  PROVE  Mirrored(after)
<1>1. Out \in Directions /\ In \in Directions
  BY DEF Directions
<1>2. ASSUME NEW k \in EdgeKinds, NEW x \in NodeNames, NEW y \in NodeNames, NEW v \in Key
      PROVE  Cardinality(Brought(after, Out, k, x, y, v)) = Cardinality(Brought(after, In, k, y, x, v))
  <2>1. Cardinality(Brought(after, Out, k, x, y, v))
          = Cardinality(Brought(before, Out, k, x, y, v)) + OneIf(SameClass(k, x, y, v, e, src, dst, KeyOf(there)))
    BY <1>1, BroughtSide
  <2>2. Cardinality(Brought(after, In, k, y, x, v))
          = Cardinality(Brought(before, In, k, y, x, v)) + OneIf(SameClass(k, y, x, v, e, dst, src, KeyOf(back)))
    BY <1>1, BroughtSide
  <2>3. SameClass(k, x, y, v, e, src, dst, KeyOf(there)) <=> SameClass(k, y, x, v, e, dst, src, KeyOf(back))
    BY DEF SameClass
  <2>4. Cardinality(Brought(before, Out, k, x, y, v)) = Cardinality(Brought(before, In, k, y, x, v))
    BY DEF Mirrored
  <2> QED BY <2>1, <2>2, <2>3, <2>4 DEF OneIf
<1> QED BY <1>2 DEF Mirrored

\* A step that stages a new edge stages both of its halves.
LEMMA StageNewEdgePairs == ASSUME IInv, PairedInv, StageNewEdge PROVE PairedInv'
<1>1. /\ pc = "new edges" /\ cursor <= Len(diff[current].new_edges)
      /\ UNCHANGED <<nodes, edges, properties, client_vars, pc, current, result,
                     strings_baseline, node_tombstones, property_updates, edge_removals,
                     property_replacements, edge_replacements, property_appends, node_remapper,
                     edge_inserts>>
  BY DEF StageNewEdge
<1>2. /\ NewEdge.src \in NewOrExistingNode /\ NewEdge.dst \in NewOrExistingNode
      /\ NewEdge.kind \in EdgeKinds
  BY <1>1, NewEdgeIs DEF QueuedEdge, EdgeQueued
<1>3. Mirrored(edge_halves')
  <2>1. CASE UNCHANGED edge_halves
    BY <2>1 DEF PairedInv
  <2>2. CASE EdgeUsable /\ ~ UNCHANGED edge_halves
    <3>1. PICK property : property = {Stored(p, strings') : p \in NewEdge.property}
      OBVIOUS
    <3>2. PICK src : src = Answer(resolve_node_ref(NewEdge.src))
      OBVIOUS
    <3>3. PICK dst : dst = Answer(resolve_node_ref(NewEdge.dst))
      OBVIOUS
    <3>4. PICK there : there = [seq |-> SeqOf(src), neighbor |-> dst, property |-> property]
      OBVIOUS
    <3>5. PICK back : back = [seq |-> SeqOf(dst), neighbor |-> src, property |-> property]
      OBVIOUS
    <3>6. edge_halves' =
            [edge_halves EXCEPT
               ![edge_storage_slot(KindOf(src), Out, NewEdge.kind)] = Append(@, there),
               ![edge_storage_slot(KindOf(dst), In, NewEdge.kind)] = Append(@, back)]
      BY <2>2, <3>1, <3>2, <3>3, <3>4, <3>5 DEF StageNewEdge
    <3>7. src \in NodeNames /\ dst \in NodeNames
      <4>1. /\ Answer(resolve_node_ref(NewEdge.src)) \in RawNodeId
            /\ Named(Answer(resolve_node_ref(NewEdge.src)), Coming)
            /\ Answer(resolve_node_ref(NewEdge.dst)) \in RawNodeId
            /\ Named(Answer(resolve_node_ref(NewEdge.dst)), Coming)
        BY <1>1, <1>2, <2>2, EndIsNamed DEF EdgeUsable
      <4> QED BY <3>2, <3>3, <4>1 DEF Named, NodeNames
    <3>8. PICK S : S = [seq : Nat, neighbor : RawNodeId, property : SUBSET StoredProperty] \cup {there, back}
      OBVIOUS
    <3>9. \A s \in EdgeSlots : edge_halves[s] \in Seq(S)
      <4> TAKE s \in EdgeSlots
      <4>1. HalvesFit(edge_halves[s], Coming[SlotNodeKind(s)])
        BY <1>1 DEF IInv, StagedInv, HalvesInv, HalvesKept, WithNewNodes
      <4>2. edge_halves[s] \in Seq([seq : Nat, neighbor : RawNodeId, property : SUBSET StoredProperty])
        BY <4>1 DEF HalvesFit
      <4>3. [seq : Nat, neighbor : RawNodeId, property : SUBSET StoredProperty] \subseteq S
        BY <3>8
      <4> QED BY <4>2, <4>3, SeqMonotonic
    <3>10. HalfOf(there, src, dst) /\ HalfOf(back, dst, src) /\ KeyOf(there) = KeyOf(back) /\ there \in S /\ back \in S
      BY <3>4, <3>5, <3>8 DEF HalfOf, KeyOf
    <3>11. PICK o : o = edge_storage_slot(KindOf(src), Out, NewEdge.kind)
      OBVIOUS
    <3>12. PICK i : i = edge_storage_slot(KindOf(dst), In, NewEdge.kind)
      OBVIOUS
    <3>13. /\ o \in EdgeSlots /\ SlotDirection(o) = Out /\ i \in EdgeSlots /\ SlotDirection(i) = In /\ o # i
           /\ DOMAIN edge_halves = EdgeSlots
      <4>1. Out \in Directions /\ In \in Directions /\ Out # In
        BY DEF Directions, Out, In
      <4>2. DOMAIN edge_halves = EdgeSlots
        BY DEF IInv, StagedInv, HalvesInv
      <4> QED BY <1>2, <3>7, <3>11, <3>12, <4>1, <4>2, NameParts, EdgeSlotOfKinds
    <3>14. /\ HalfBehind(edge_halves', edge_halves, Out, o, there)
           /\ HalfBehind(edge_halves', edge_halves, In, i, back)
      <4>1. Out # In
        BY DEF Out, In
      <4>2. edge_halves' = [edge_halves EXCEPT ![o] = Append(@, there), ![i] = Append(@, back)]
        BY <3>6, <3>11, <3>12
      <4>3. /\ edge_halves'[o] = Append(edge_halves[o], there) /\ edge_halves'[i] = Append(edge_halves[i], back)
            /\ \A s \in EdgeSlots : s # o /\ s # i => edge_halves'[s] = edge_halves[s]
        BY <3>13, <4>2
      <4>4. ASSUME NEW s \in EdgeSlots, SlotDirection(s) = Out
            PROVE  edge_halves'[s] = IF s = o THEN Append(edge_halves[s], there) ELSE edge_halves[s]
        BY <3>13, <4>1, <4>3, <4>4
      <4>5. ASSUME NEW s \in EdgeSlots, SlotDirection(s) = In
            PROVE  edge_halves'[s] = IF s = i THEN Append(edge_halves[s], back) ELSE edge_halves[s]
        BY <3>13, <4>1, <4>3, <4>5
      <4> QED BY <4>4, <4>5 DEF HalfBehind
    <3>15. Mirrored(edge_halves)
      BY DEF PairedInv
    <3> QED BY <1>2, <3>7, <3>9, <3>10, <3>11, <3>12, <3>14, <3>15, EdgeBrought
  <2> QED BY <2>1, <2>2 DEF StageNewEdge
<1>4. UNCHANGED <<nodes, edges, diff, pinned, version, current, result, pc, edge_removals, edge_replacements>>
  BY <1>1 DEF client_vars
<1>5. FreshInv'
  BY <1>4, FreshSame DEF PairedInv
<1>6. ReplacedInv'
  BY <1>4 DEF PairedInv, ReplacedInv, RemovedSlots, WithRemovals
<1> QED BY <1>1, <1>3, <1>4, <1>5, <1>6 DEF PairedInv, InsertedInv

\* What prepare_edge_removals stages for a slot, or leaves of it, lacks the claimed half-edges.
LEMMA ReplacedCount ==
  ASSUME IInv, PairedInv, pc = "staged", NEW s \in EdgeSlots, NEW seq \in Nat, NEW other, NEW value
  PROVE  Cardinality(Alike(Replaced(edges, edge_replacements, s), seq, other, value))
           = Cardinality(Alike(edges[s], seq, other, value) \ RemovedPlaces(edges[s], edge_removals[s]))
<1>1. RemovalsFit(edges[s], edge_removals[s])
  BY DEF PairedInv, ClaimsPaired
<1>2. edge_replacements = [t \in RemovedSlots |-> WithoutEdges(edges[t], edge_removals[t])]
  BY DEF PairedInv, ReplacedInv, WithRemovals
<1>3. CASE s \in RemovedSlots
  <2>1. Replaced(edges, edge_replacements, s) = WithoutEdges(edges[s], edge_removals[s])
    BY <1>2, <1>3 DEF Replaced
  <2>2. EdgeSlotSound(edges[s], Standing[SlotNodeKind(s)], EdgeProperty[SlotEdgeKind(s)].typ)
    BY DEF IInv, GraphInv, EdgeSlotKept
  <2>3. Standing[SlotNodeKind(s)] \in Nat
    BY SlotKinds, Counts DEF IInv, ControlInv
  <2>4. edges[s].offsets # <<>>
    BY <1>3 DEF RemovedSlots
  <2> QED BY <1>1, <2>1, <2>2, <2>3, <2>4, AlikeWithout
<1>4. CASE s \notin RemovedSlots
  <2>1. Replaced(edges, edge_replacements, s) = edges[s]
    BY <1>2, <1>4 DEF Replaced
  <2>2. edge_removals[s] = {}
    <3>1. edge_removals[s] = {} \/ edges[s].offsets = <<>>
      BY <1>4 DEF RemovedSlots
    <3>2. CASE edges[s].offsets = <<>>
      <4>1. ASSUME NEW r \in edge_removals[s] PROVE FALSE
        <5>1. HasOffset(edges[s], r[1]) /\ r[1] \in Nat
          BY <1>1, <4>1 DEF RemovalsFit
        <5>2. Len(edges[s].offsets) = 0
          BY <3>2
        <5> QED BY <5>1, <5>2 DEF HasOffset
      <4> QED BY <4>1
    <3> QED BY <3>1, <3>2
  <2>3. RemovedPlaces(edges[s], edge_removals[s]) = {}
    BY <2>2 DEF RemovedPlaces
  <2>4. \A A : A \ {} = A
    OBVIOUS
  <2> QED BY <2>1, <2>3, <2>4
<1> QED BY <1>3, <1>4

\* A committed slot has the half-edges it had, without the claimed ones and with the new ones.
LEMMA CommittedCount ==
  ASSUME IInv, PairedInv, pc = "staged", NEW s \in EdgeSlots, NEW seq \in Nat, NEW other, NEW value
  PROVE  Cardinality(Alike(CommittedEdges[s], seq, other, value))
           = Cardinality(Alike(edges[s], seq, other, value) \ RemovedPlaces(edges[s], edge_removals[s]))
             + Cardinality(NewAlike(EdgeProperty[SlotEdgeKind(s)].typ, edge_halves[s], seq, other, value))
<1>1. PICK kind : kind = SlotNodeKind(s)
  OBVIOUS
<1>2. PICK n : n = Standing[kind]
  OBVIOUS
<1>3. PICK m : m = NewCount(kind)
  OBVIOUS
<1>4. PICK typ : typ = EdgeProperty[SlotEdgeKind(s)].typ
  OBVIOUS
<1>5. PICK slot : slot = Replaced(edges, edge_replacements, s)
  OBVIOUS
<1>6. PICK halves : halves = edge_halves[s]
  OBVIOUS
<1>7. PICK offsets : offsets = Grown(slot.offsets, n + m + 1)
  OBVIOUS
<1>8. PICK insert : insert = EdgeSlotInsert(typ, offsets, halves)
  OBVIOUS
<1>9. n \in Nat /\ m \in Nat /\ n = Len(nodes[kind]) /\ Coming[kind] = n + m
  BY <1>1, <1>2, <1>3, SlotKinds, Counts DEF IInv, ControlInv
<1>10. /\ EdgeSlotSound(slot, n, typ) /\ edges[s].values.typ = typ
  BY <1>1, <1>2, <1>4, <1>5
  DEF IInv, GraphInv, StagedInv, ReplacementsInv, EdgeSlotKept, Replaced, EdgeSlotSound
<1>11. HalvesFit(halves, n + m)
  BY <1>1, <1>6, <1>9 DEF IInv, StagedInv, HalvesInv, HalvesKept, WithNewNodes
<1>12. InsertOffsets(s) = offsets
  <2>1. EdgeOffsets(s) = slot.offsets
    BY <1>5 DEF EdgeOffsets, Replaced
  <2> QED BY <1>1, <1>3, <1>7, <1>9, <2>1 DEF InsertOffsets, Grown
<1>13. /\ \A t \in InsertSlots : InsertCheck(t) = Ok
       /\ edge_inserts = [t \in InsertSlots |-> EdgeSlotInsert(edges[t].values.typ, InsertOffsets(t), edge_halves[t])]
  BY DEF PairedInv, InsertedInv
<1>14. CommittedEdges[s] = IF s \in InsertSlots THEN merge_edge_batches(slot, insert) ELSE slot
  BY <1>5, <1>6, <1>8, <1>10, <1>12, <1>13 DEF CommittedEdges
<1>15. Cardinality(Alike(CommittedEdges[s], seq, other, value))
         = Cardinality(Alike(slot, seq, other, value)) + Cardinality(NewAlike(typ, halves, seq, other, value))
  <2>1. CASE s \in InsertSlots
    <3>1. InsertError(typ, offsets, halves) = Ok
      BY <1>6, <1>10, <1>12, <1>13, <2>1 DEF InsertCheck
    <3>2. PICK count : count = n + m
      OBVIOUS
    <3>3. InsertsHalves(insert, slot, typ, halves, count)
      BY <1>7, <1>8, <3>1, <3>2 DEF InsertsHalves
    <3>4. count \in Nat /\ n \in Nat /\ n <= count /\ HalvesFit(halves, count) /\ EdgeSlotSound(slot, n, typ)
      BY <1>9, <1>10, <1>11, <3>2
    <3>5. Cardinality(Alike(merge_edge_batches(slot, insert), seq, other, value))
            = Cardinality(Alike(slot, seq, other, value)) + Cardinality(NewAlike(typ, halves, seq, other, value))
      BY <3>3, <3>4, AlikeInserted
    <3> QED BY <1>14, <2>1, <3>5
  <2>2. CASE s \notin InsertSlots
    <3>1. halves = <<>>
      BY <1>6, <2>2 DEF InsertSlots
    <3>2. NewAlike(typ, halves, seq, other, value) = {}
      BY <3>1 DEF NewAlike
    <3>3. Cardinality(NewAlike(typ, halves, seq, other, value)) = 0
      BY <3>2, FS_EmptySet
    <3>4. Cardinality(Alike(slot, seq, other, value)) \in Nat
      <4>1. Within(Run(slot, seq), Len(slot.neighbors)) /\ Len(slot.neighbors) \in Nat
        BY <1>9, <1>10, RunPlaces
      <4>2. Within(Alike(slot, seq, other, value), Len(slot.neighbors))
        BY <4>1 DEF Within, Alike
      <4> QED BY <4>1, <4>2, PositionsFinite
    <3> QED BY <1>14, <2>2, <3>3, <3>4
  <2> QED BY <2>1, <2>2
<1>16. Cardinality(Alike(slot, seq, other, value))
         = Cardinality(Alike(edges[s], seq, other, value) \ RemovedPlaces(edges[s], edge_removals[s]))
  BY <1>5, ReplacedCount
<1> QED BY <1>4, <1>6, <1>15, <1>16

\* What is left and what is brought, on one side.
LEMMA CommittedSide ==
  ASSUME IInv, PairedInv, pc = "staged", AllSound(CommittedEdges),
         NEW dir \in Directions, NEW e \in EdgeKinds, NEW x \in NodeNames, NEW y, NEW v
  PROVE  /\ Cardinality(AlikeIn(CommittedEdges, Everywhere, dir, e, x, y, v))
              = Cardinality(AlikeIn(edges, Everywhere, dir, e, x, y, v))
                - Cardinality(AlikeIn(edges, Claims(edges, edge_removals), dir, e, x, y, v))
                + Cardinality(Brought(edge_halves, dir, e, x, y, v))
<1>1. PICK s : s = edge_storage_slot(KindOf(x), dir, e)
  OBVIOUS
<1>2. s \in EdgeSlots /\ SlotEdgeKind(s) = e /\ SeqOf(x) \in Nat
  BY <1>1, NameParts, EdgeSlotOfKinds
<1>3. PICK seq : seq = SeqOf(x)
  OBVIOUS
<1>4. PICK A : A = Alike(edges[s], seq, y, v)
  OBVIOUS
<1>5. PICK C : C = RemovedPlaces(edges[s], edge_removals[s])
  OBVIOUS
<1>6. AllSound(edges)
  BY GraphSound DEF IInv
<1>7. AlikeIn(CommittedEdges, Everywhere, dir, e, x, y, v) = Alike(CommittedEdges[s], seq, y, v)
  BY <1>1, <1>3, NoneLeftOut
<1>8. AlikeIn(edges, Everywhere, dir, e, x, y, v) = A
  BY <1>1, <1>3, <1>4, <1>6, NoneLeftOut
<1>9. AlikeIn(edges, Claims(edges, edge_removals), dir, e, x, y, v) = A \cap C
  BY <1>1, <1>2, <1>3, <1>4, <1>5 DEF AlikeIn, Claims
<1>10. Brought(edge_halves, dir, e, x, y, v) = NewAlike(EdgeProperty[SlotEdgeKind(s)].typ, edge_halves[s], seq, y, v)
  BY <1>1, <1>2, <1>3 DEF Brought
<1>11. Cardinality(Alike(CommittedEdges[s], seq, y, v))
         = Cardinality(A \ C)
           + Cardinality(NewAlike(EdgeProperty[SlotEdgeKind(s)].typ, edge_halves[s], seq, y, v))
  BY <1>2, <1>3, <1>4, <1>5, CommittedCount
<1>12. IsFiniteSet(A)
  BY <1>1, <1>3, <1>4, <1>6, AlikeFinite
<1>13. Cardinality(A \ C) = Cardinality(A) - Cardinality(A \cap C)
  BY <1>12, FS_Difference
<1> QED BY <1>7, <1>8, <1>9, <1>10, <1>11, <1>13

\* commit writes a graph whose half-edges are in pairs.
LEMMA CommitPairs == ASSUME IInv, PairedInv, commit PROVE PairedInv'
<1>1. /\ pc = "staged" /\ edges' = CommittedEdges /\ version' = version + 1
      /\ Release /\ UNCHANGED <<strings, diff, pinned, result>>
  BY DEF commit
<1>2. AllSound(CommittedEdges)
  <2> SUFFICES ASSUME NEW s \in EdgeSlots
               PROVE  \E n \in Nat : EdgeSlotSound(CommittedEdges[s], n, EdgeProperty[SlotEdgeKind(s)].typ)
    BY DEF AllSound
  <2>1. EdgeSlotSound(CommittedEdges[s], Coming[SlotNodeKind(s)], EdgeProperty[SlotEdgeKind(s)].typ)
    BY <1>1 DEF IInv, StagedInv, InsertsInv, EdgeSlotKept
  <2>2. Coming[SlotNodeKind(s)] \in Nat
    BY SlotKinds, Counts DEF IInv, ControlInv
  <2> QED BY <2>1, <2>2
<1>3. ASSUME NEW e \in EdgeKinds, NEW x \in NodeNames, NEW y \in NodeNames, NEW v \in Key
      PROVE  Cardinality(AlikeIn(CommittedEdges, Everywhere, Out, e, x, y, v))
               = Cardinality(AlikeIn(CommittedEdges, Everywhere, In, e, y, x, v))
  <2>1. Out \in Directions /\ In \in Directions
    BY DEF Directions
  <2>2. Cardinality(AlikeIn(CommittedEdges, Everywhere, Out, e, x, y, v))
          = Cardinality(AlikeIn(edges, Everywhere, Out, e, x, y, v))
            - Cardinality(AlikeIn(edges, Claims(edges, edge_removals), Out, e, x, y, v))
            + Cardinality(Brought(edge_halves, Out, e, x, y, v))
    BY <1>1, <1>2, <2>1, CommittedSide
  <2>3. Cardinality(AlikeIn(CommittedEdges, Everywhere, In, e, y, x, v))
          = Cardinality(AlikeIn(edges, Everywhere, In, e, y, x, v))
            - Cardinality(AlikeIn(edges, Claims(edges, edge_removals), In, e, y, x, v))
            + Cardinality(Brought(edge_halves, In, e, y, x, v))
    BY <1>1, <1>2, <2>1, CommittedSide
  <2>4. Cardinality(AlikeIn(edges, Everywhere, Out, e, x, y, v)) = Cardinality(AlikeIn(edges, Everywhere, In, e, y, x, v))
    BY DEF PairedInv, AllBalanced, Balanced
  <2>5. Cardinality(AlikeIn(edges, Claims(edges, edge_removals), Out, e, x, y, v))
          = Cardinality(AlikeIn(edges, Claims(edges, edge_removals), In, e, y, x, v))
    BY DEF PairedInv, ClaimsPaired, Balanced
  <2>6. Cardinality(Brought(edge_halves, Out, e, x, y, v)) = Cardinality(Brought(edge_halves, In, e, y, x, v))
    BY DEF PairedInv, Mirrored
  <2> QED BY <2>2, <2>3, <2>4, <2>5, <2>6
<1>4. AllBalanced(edges')
  BY <1>1, <1>3 DEF AllBalanced, Balanced
<1>5. FreshInv'
  <2>1. ASSUME NEW d \in Diffs PROVE pinned'[d] # version'
    <3>1. pinned[d] <= version /\ pinned[d] \in Nat /\ version \in Nat
      BY <2>1, Bounds DEF IInv, ClientInv, QueueFits
    <3> QED BY <1>1, <3>1
  <2> QED BY <1>1, <2>1 DEF FreshInv, Release
<1>6. result' # "ReverseEdgeNotFound"
  BY <1>1 DEF PairedInv
<1> QED BY <1>1, <1>4, <1>5, <1>6, ReleasedPairs

\* A StagedDiff that is dropped leaves the graph's half-edges as they were.
LEMMA DropStagedPairs == ASSUME PairedInv, DropStaged PROVE PairedInv'
BY RollBackPairs DEF DropStaged, Ok

\* No step disturbs the pairs, while callers use fresh edge ids.
LEMMA StepPairs ==
  ASSUME FreshIds
  PROVE  IInv /\ PairedInv /\ [Next]_vars => PairedInv'
<1> SUFFICES ASSUME IInv, PairedInv, [Next]_vars PROVE PairedInv'
  OBVIOUS
<1>1. CASE UNCHANGED vars
  <2>1. UNCHANGED <<nodes, edges, diff, pinned, version, pc, current, result, edge_removals,
                    edge_halves, edge_replacements, edge_inserts>>
    BY <1>1 DEF vars, graph_vars, staged_vars, client_vars, control_vars
  <2>2. FreshInv'
    BY <2>1, FreshSame DEF PairedInv
  <2>3. AllBalanced(edges)' /\ ClaimsPaired(edges, edge_removals)' /\ Mirrored(edge_halves)'
    BY <2>1 DEF PairedInv
  <2>4. ReplacedInv' /\ InsertedInv'
    <3>1. \A s \in EdgeSlots : InsertCheck(s)' = InsertCheck(s) /\ InsertOffsets(s)' = InsertOffsets(s)
      BY <2>1 DEF InsertCheck, InsertOffsets, EdgeOffsets, NewCount, NewOfKind
    <3>2. InsertSlots' = InsertSlots /\ InsertSlots \subseteq EdgeSlots
      BY <2>1 DEF InsertSlots, EdgeOffsets, NewCount, NewOfKind
    <3>3. InsertedInv'
      BY <2>1, <3>1, <3>2 DEF PairedInv, InsertedInv
    <3> QED BY <2>1, <3>3 DEF PairedInv, ReplacedInv, RemovedSlots, WithRemovals
  <2> QED BY <2>1, <2>2, <2>3, <2>4 DEF PairedInv
<1>2. ASSUME NEW d \in Diffs,
             \/ add_node(d) \/ add_edge(d) \/ remove_node(d) \/ update_node_property(d)
             \/ remove_edge(d) \/ DropDiff(d) \/ BeginPrepare(d)
      PROVE  PairedInv'
  BY <1>2, ClientPairs, BeginPreparePairs
<1>3. CASE ClassifyRemoveNode \/ ClassifyUpdate \/ ClassifyRemoveEdge
  BY <1>3, ClassifyOthersPair, ClassifyRemoveEdgePairs
<1>4. CASE PreparePropertyUpdates \/ PrepareEdgeRemovals \/ PrepareNewNodes \/ StageNewEdge
           \/ PrepareNewEdges
  BY <1>4, PreparePropertyUpdatesPairs, PrepareEdgeRemovalsPairs, PrepareNewNodesPairs,
     StageNewEdgePairs, PrepareNewEdgesPairs
<1>5. CASE commit \/ DropStaged
  BY <1>5, CommitPairs, DropStagedPairs
<1> QED BY <1>1, <1>2, <1>3, <1>4, <1>5 DEF Next

\* The graph passes the pairing of an edge kind when its two sides are in balance.
LEMMA GraphPairing ==
  ASSUME GraphInv
  PROVE  CheckPairing(graph) = Ok <=> AllBalanced(edges)
<1>1. graph.edges = edges
  BY DEF graph
<1>2. ASSUME NEW e \in EdgeKinds PROVE check_half_edge_pairing(graph, e) = Ok <=> Balanced(edges, Everywhere, e)
  <2>1. ASSUME NEW dir \in Directions, NEW k \in NodeKinds, NEW s, s = edge_storage_slot(k, dir, e)
        PROVE  /\ \E n \in Nat : EdgeSlotSound(edges[s], n, EdgeProperty[e].typ)
               /\ \A i \in 1 .. Len(edges[s].neighbors) : KindOf(edges[s].neighbors[i]) \in NodeKinds
    <3>1. s \in EdgeSlots /\ SlotEdgeKind(s) = e
      BY <2>1, EdgeSlotOfKinds
    <3>2. \E n \in Nat : EdgeSlotSound(edges[s], n, EdgeProperty[e].typ)
      BY <3>1, GraphSound DEF AllSound
    <3>3. AllNamed(edges[s].neighbors, Standing)
      BY <3>1 DEF GraphInv, EdgeSlotKept
    <3> QED BY <3>2, <3>3 DEF AllNamed, Named
  <2>2. \A dir \in Directions : SoundSlots(graph, dir, e)
    BY <1>1, <2>1 DEF SoundSlots
  <2>3. \A dir \in Directions, k \in NodeKinds :
          \A i \in 1 .. Len(graph.edges[edge_storage_slot(k, dir, e)].neighbors) :
            KindOf(graph.edges[edge_storage_slot(k, dir, e)].neighbors[i]) \in NodeKinds
    BY <1>1, <2>1
  <2> QED BY <1>1, <2>2, <2>3, PairingCheck
<1> DEFINE failing == {i \in 1 .. EdgeKindCount : check_half_edge_pairing(graph, i - 1) # Ok}
<1>3. CheckPairing(graph) = IF failing = {} THEN Ok ELSE check_half_edge_pairing(graph, Lowest(failing) - 1)
  BY DEF CheckPairing, FirstError
<1>4. failing # {} => Lowest(failing) \in failing
  BY LowestIsLeast
<1>5. CheckPairing(graph) = Ok <=> failing = {}
  <2> HIDE DEF failing
  <2>1. failing # {} => check_half_edge_pairing(graph, Lowest(failing) - 1) # Ok
    <3> USE DEF failing
    <3> QED BY <1>4
  <2> QED BY <1>3, <2>1
<1>6. failing = {} <=> \A e \in EdgeKinds : check_half_edge_pairing(graph, e) = Ok
  <2>1. EdgeKindCount \in Nat
    BY SchemaAssumption
  <2>2. \A e \in EdgeKinds : \E i \in 1 .. EdgeKindCount : e = i - 1
    <3>1. \A e \in EdgeKinds : e + 1 \in 1 .. EdgeKindCount /\ e = (e + 1) - 1
      BY <2>1 DEF EdgeKinds
    <3> QED BY <3>1
  <2>3. \A i \in 1 .. EdgeKindCount : i - 1 \in EdgeKinds
    BY <2>1 DEF EdgeKinds
  <2>4. ASSUME failing = {}, NEW e \in EdgeKinds PROVE check_half_edge_pairing(graph, e) = Ok
    <3>1. PICK i \in 1 .. EdgeKindCount : e = i - 1
      BY <2>2
    <3>2. check_half_edge_pairing(graph, i - 1) = Ok
      BY <2>4
    <3> QED BY <3>1, <3>2
  <2>5. ASSUME \A e \in EdgeKinds : check_half_edge_pairing(graph, e) = Ok PROVE failing = {}
    BY <2>3, <2>5
  <2> QED BY <2>4, <2>5
<1> QED BY <1>2, <1>5, <1>6 DEF AllBalanced

\* A seed's half-edges are in pairs, as its checks ask, and nothing is claimed or brought yet.
LEMMA InitPairs == Init => PairedInv
<1> SUFFICES ASSUME Init PROVE PairedInv
  OBVIOUS
<1>1. GraphInv
  BY InitIInv DEF IInv
<1>2. PICK g \in Seeds : nodes = g.nodes /\ edges = g.edges /\ properties = g.properties
                         /\ strings = g.strings
  BY DEF Init
<1>3. g \in Graph /\ CheckPairing(g) = Ok
  BY InputAssumption DEF check_integrity, Both
<1>4. graph = g
  BY <1>2, <1>3 DEF graph, Graph
<1>5. AllBalanced(edges)
  BY <1>1, <1>3, <1>4, GraphPairing
<1>6. /\ pc = "idle" /\ result = Ok /\ diff = [d \in Diffs |-> EmptyDiff]
      /\ edge_removals = [s \in EdgeSlots |-> {}] /\ edge_halves = [s \in EdgeSlots |-> <<>>]
  BY DEF Init
<1>7. ClaimsPaired(edges, edge_removals) /\ Mirrored(edge_halves)
  BY <1>6, NothingClaimed, NothingBrought
<1>8. FreshInv
  <2>1. \A d \in Diffs : diff[d] = EmptyDiff
    BY <1>6
  <2>2. Len(EmptyDiff.changes) = 0 /\ 1 .. 0 = {}
    BY EmptyFits
  <2> QED BY <1>6, <2>1, <2>2 DEF FreshInv, FreshRemovals
<1>9. ReplacedInv /\ InsertedInv /\ result # "ReverseEdgeNotFound"
  BY <1>6 DEF ReplacedInv, WithRemovals, InsertedInv, Ok
<1> QED BY <1>5, <1>7, <1>8, <1>9 DEF PairedInv

\* While callers use fresh edge ids, the halves of edges stay paired.
LEMMA AlwaysPaired == ASSUME FreshIds PROVE Spec => []PairedInv
<1>1. IInv /\ PairedInv /\ [Next]_vars => PairedInv'
  BY StepPairs
<1> QED BY <1>1, InitPairs, AlwaysIInv, PTL DEF Spec

\* As long as diffs are built from the graph they are applied to, removing an edge never
\* fails for want of its reverse half: what one removal claims is never the last half
\* another one needs.
THEOREM RemovalsAlwaysFindTheirReverse == ASSUME FreshIds PROVE Spec => []RemovalsFindTheirReverse
<1>1. PairedInv => RemovalsFindTheirReverse
  BY DEF PairedInv, RemovalsFindTheirReverse
<1> QED BY <1>1, AlwaysPaired, PTL

\* The graph passes its own integrity check all along, as long as its nodes can be
\* numbered; a larger one passes every check that looks at its slots.
THEOREM IntegrityAlwaysKept == ASSUME InputsResolve, FreshIds PROVE Spec => []IntegrityKept
<1>1. IInv /\ PairedInv /\ SlotsKept => IntegrityKept
  <2> SUFFICES ASSUME IInv, PairedInv, SlotsKept PROVE IntegrityKept
    OBVIOUS
  <2>1. check_storage_sizes(graph) = Ok
    BY DEF IInv, GraphInv, graph, check_storage_sizes
  <2>2. CheckPairing(graph) = Ok
    BY GraphPairing DEF IInv, PairedInv
  <2>3. TotalNodes(graph) <= MaxNodes => NodeIndexError(graph) = Ok
    BY DEF NodeIndexError
  <2>4. CheckSlots(graph) = Ok
    BY DEF SlotsKept
  <2> QED BY <2>1, <2>2, <2>3, <2>4 DEF IntegrityKept, check_integrity, Both
<1>2. Spec => []SlotsKept
  BY SlotsAlwaysKept
<1> QED BY <1>1, <1>2, AlwaysPaired, AlwaysIInv, PTL

\* The slots of a kind and a direction hold what they should.
LEMMA GraphSlots ==
  ASSUME GraphInv, NEW e \in EdgeKinds, NEW dir \in Directions
  PROVE  SoundSlots(graph, dir, e)
<1>1. ASSUME NEW k \in NodeKinds
      PROVE  \E n \in Nat : EdgeSlotSound(edges[edge_storage_slot(k, dir, e)], n, EdgeProperty[e].typ)
  <2>1. edge_storage_slot(k, dir, e) \in EdgeSlots /\ SlotEdgeKind(edge_storage_slot(k, dir, e)) = e
    BY EdgeSlotOfKinds
  <2> QED BY <2>1, GraphSound DEF AllSound
<1> QED BY <1>1 DEF SoundSlots, graph

\* The nodes of the graph have names, and whoever has one is in the graph.
LEMMA NodesNamed ==
  ASSUME GraphInv
  PROVE  /\ NodeIds(graph) \subseteq NodeNames
         /\ \A node \in NodeNames : node \in NodeIds(graph) <=> Named(node, Standing)
         /\ \A node \in NodeNames : node \in NodeIds(graph) <=> Exists(node)
<1>1. \A k \in NodeKinds : k \in Nat /\ Len(nodes[k]) \in Nat /\ Standing[k] = Len(nodes[k]) /\ graph.nodes[k] = nodes[k]
  <2> TAKE k \in NodeKinds
  <2>1. k \in Nat
    BY SchemaAssumption DEF NodeKinds
  <2>2. nodes[k] \in Seq(BOOLEAN)
    BY DEF GraphInv
  <2> QED BY <2>1, <2>2, LenProperties DEF Standing, graph
<1>2. ASSUME NEW node \in NodeIds(graph) PROVE node \in NodeNames /\ Exists(node)
  <2>1. PICK k \in NodeKinds : \E s \in 0 .. Len(graph.nodes[k]) - 1 : node = <<k, s>>
    BY DEF NodeIds
  <2>2. PICK s \in 0 .. Len(graph.nodes[k]) - 1 : node = <<k, s>>
    BY <2>1
  <2>3. k \in Nat /\ s \in Nat /\ s < Len(nodes[k])
    BY <1>1, <2>1, <2>2
  <2> QED BY <2>1, <2>2, <2>3 DEF RawNodeId, KindOf, SeqOf, NodeNames, Exists
<1>3. ASSUME NEW node \in NodeNames PROVE Named(node, Standing) <=> Exists(node)
  BY <1>1, NameParts DEF Named, Exists
<1>4. ASSUME NEW node \in NodeNames, Exists(node) PROVE node \in NodeIds(graph)
  <2>1. PICK k \in Nat, s \in Nat : node = <<k, s>>
    BY NameParts DEF RawNodeId
  <2>2. k \in NodeKinds /\ s < Len(nodes[k])
    BY <1>4, <2>1, NameParts DEF KindOf, SeqOf, Exists
  <2>3. s \in 0 .. Len(graph.nodes[k]) - 1
    BY <1>1, <2>1, <2>2
  <2> QED BY <2>1, <2>2, <2>3 DEF NodeIds
<1> QED BY <1>2, <1>3, <1>4

\* Every edge of a node leads to a node of the graph.
LEMMA NeighborsThere ==
  ASSUME GraphInv, NEW node \in NodeNames, NEW e \in EdgeKinds, NEW dir \in Directions,
         NEW id \in get_edges_with_deleted(graph, node, e, dir)
  PROVE  Neighbor(id) \in NodeIds(graph)
<1>1. PICK slot : slot = EdgeSlotOf(graph, node, e, dir)
  OBVIOUS
<1>2. PICK s : s = edge_storage_slot(KindOf(node), dir, e)
  OBVIOUS
<1>3. s \in EdgeSlots /\ slot = edges[s] /\ KindOf(node) \in NodeKinds /\ SeqOf(node) \in Nat
  BY <1>1, <1>2, NameParts, EdgeSlotOfKinds DEF EdgeSlotOf, graph
<1>4. PICK n \in Nat : EdgeSlotSound(slot, n, EdgeProperty[e].typ)
  BY <1>1, <1>3, GraphSlots DEF SoundSlots, EdgeSlotOf
<1>5. PICK p \in Run(slot, SeqOf(node)) : id = IdAt(slot, node, e, dir, p)
  BY <1>1, <1>4, EdgesRead
<1>6. Describes(id, slot, node, e, dir, p) /\ slot.neighbors[p] \in RawNodeId
  BY <1>1, <1>4, <1>5, IdRead
<1>7. Within(Run(slot, SeqOf(node)), Len(slot.neighbors))
  BY <1>3, <1>4, RunPlaces
<1>8. Named(slot.neighbors[p], Standing)
  <2>1. AllNamed(slot.neighbors, Standing)
    BY <1>3 DEF GraphInv, EdgeSlotKept
  <2> QED BY <1>5, <1>7, <2>1 DEF AllNamed, Within
<1>9. slot.neighbors[p] \in NodeNames
  BY <1>6, <1>8 DEF Named, NodeNames
<1> QED BY <1>6, <1>8, <1>9, NodesNamed DEF Describes

\* The nodes that are not deleted.
Undeleted == {node \in NodeIds(graph) : ~ node_is_deleted(graph, node)}

\* What a caller sees of the live part of the graph is seen between undeleted nodes.
LEMMA VisibleAreSeen ==
  ASSUME GraphInv, NEW e \in EdgeKinds, NEW dir \in Directions
  PROVE  VisibleEdges(e, dir) = Seen(graph, Undeleted, e, dir)
<1>1. UNION {nodes_by_kind(graph, k) : k \in NodeKinds} = Undeleted
  <2>1. ASSUME NEW node \in NodeIds(graph) PROVE KindOf(node) \in NodeKinds
    BY NodesNamed, NameParts
  <2>2. \A node : node \in UNION {nodes_by_kind(graph, k) : k \in NodeKinds} <=>
                    \E k \in NodeKinds : node \in NodeIds(graph) /\ KindOf(node) = k /\ ~ node_is_deleted(graph, node)
    BY DEF nodes_by_kind
  <2> QED BY <2>1, <2>2 DEF Undeleted
<1>2. ASSUME NEW id
      PROVE  id \in VisibleEdges(e, dir) <=>
               \E node \in Undeleted : id \in get_edges_with_deleted(graph, node, e, dir)
                                       /\ ~ node_is_deleted(graph, Neighbor(id))
  BY <1>1 DEF VisibleEdges, get_edges
<1>3. ASSUME NEW id
      PROVE  id \in Seen(graph, Undeleted, e, dir) <=>
               \E node \in Undeleted : id \in get_edges_with_deleted(graph, node, e, dir) /\ Neighbor(id) \in Undeleted
  BY DEF Seen
<1>4. ASSUME NEW node \in Undeleted, NEW id \in get_edges_with_deleted(graph, node, e, dir)
      PROVE  Neighbor(id) \in Undeleted <=> ~ node_is_deleted(graph, Neighbor(id))
  <2>1. node \in NodeNames
    BY NodesNamed DEF Undeleted
  <2>2. Neighbor(id) \in NodeIds(graph)
    BY <2>1, NeighborsThere
  <2> QED BY <2>2 DEF Undeleted
<1> QED BY <1>2, <1>3, <1>4

\* While callers use fresh edge ids, a caller sees the same edges from their sources as from
\* their destinations, however many nodes have been deleted.
THEOREM BothEndsAlwaysAgree == ASSUME FreshIds PROVE Spec => []BothEndsAgree
<1>1. IInv /\ PairedInv => BothEndsAgree
  <2> SUFFICES ASSUME IInv, PairedInv, NEW e \in EdgeKinds,
                      NEW id \in VisibleEdges(e, Out) \cup VisibleEdges(e, In)
               PROVE  Cardinality({o \in VisibleEdges(e, Out) : SameEdge(o, id)})
                        = Cardinality({i \in VisibleEdges(e, In) : SameEdge(i, id)})
    BY DEF BothEndsAgree
  <2>1. GraphInv /\ Out \in Directions /\ In \in Directions
    BY DEF IInv, Directions
  <2>2. VisibleEdges(e, Out) = Seen(graph, Undeleted, e, Out) /\ VisibleEdges(e, In) = Seen(graph, Undeleted, e, In)
    BY <2>1, VisibleAreSeen
  <2>3. \A dir \in Directions : SoundSlots(graph, dir, e)
    BY <2>1, GraphSlots
  <2>4. Balanced(graph.edges, Everywhere, e)
    BY DEF PairedInv, AllBalanced, graph
  <2>5. Undeleted \subseteq NodeNames
    BY <2>1, NodesNamed DEF Undeleted
  <2>6. \A ids : {i \in ids : SameEdge(i, id)} = SameRead(graph, ids, id)
    BY DEF SameEdge, SameRead
  <2> HIDE DEF graph
  <2>7. Cardinality(SameRead(graph, Seen(graph, Undeleted, e, Out), id))
          = Cardinality(SameRead(graph, Seen(graph, Undeleted, e, In), id))
    BY <2>2, <2>3, <2>4, <2>5, SeenAlike
  <2> QED BY <2>2, <2>6, <2>7
<1> QED BY <1>1, AlwaysPaired, AlwaysIInv, PTL

(***************************************************************************)
(* update_node_property does not ask whether a node's kind declares the      *)
(* property, and nothing in prepare does.  That such a slot stays empty       *)
(* nevertheless rests on two things: an update needs offsets that are there,   *)
(* and offsets come only with a new node, whose builder does ask.             *)
(***************************************************************************)
\* The slots of the properties a node kind does not declare.
UndeclaredSlots ==
  {s \in PropertySlots : SlotPropertyKind(s) \notin KindProperties[SlotNodeKind(s)]}

\* The invariant: they have no offsets, and no diff is about to give them any.
Untouched ==
  \A s \in UndeclaredSlots :
    /\ properties[s].offsets = <<>>
    /\ s \notin DOMAIN property_replacements
    /\ s \notin DOMAIN property_appends

\* What is untouched stays so where neither the graph nor the staged slots change.
LEMMA UntouchedSame ==
  Untouched /\ UNCHANGED <<properties, property_replacements, property_appends>> => Untouched'
BY DEF Untouched

\* Nor does a roll back touch it: nothing is staged after it.
LEMMA RollBackTouchesNothing == ASSUME Untouched, NEW outcome, RollBack(outcome) PROVE Untouched'
<1>1. DOMAIN NoFunction = {}
  BY DEF NoFunction
<1>2. properties' = properties /\ property_replacements' = NoFunction /\ property_appends' = NoFunction
  BY DEF RollBack, Release
<1> QED BY <1>1, <1>2 DEF Untouched

\* A slot without offsets refuses an update, so a prepare that goes on has none for it.
LEMMA UpdatesTouchNothing ==
  ASSUME Untouched, PreparePropertyUpdates PROVE Untouched'
<1>1. CASE \E outcome : RollBack(outcome)
  BY <1>1, RollBackTouchesNothing
<1>2. CASE ~ \E outcome : RollBack(outcome)
  <2>1. AllPass(PropertySlots, UpdateCheck)
    BY <1>2 DEF PreparePropertyUpdates
  <2>2. /\ DOMAIN property_replacements' = {s \in PropertySlots : DOMAIN property_updates[s] # {}}
        /\ properties' = properties /\ property_appends' = property_appends
    BY <1>2 DEF PreparePropertyUpdates
  <2>3. ASSUME NEW s \in UndeclaredSlots PROVE DOMAIN property_updates[s] = {}
    <3>1. s \in PropertySlots /\ properties[s].offsets = <<>>
      BY DEF UndeclaredSlots, Untouched
    <3>2. UpdateError(properties[s], property_updates[s]) = Ok
      BY <2>1, <3>1 DEF AllPass, UpdateCheck
    <3> QED BY <3>1, <3>2 DEF UpdateError, Ok
  <2> QED BY <2>2, <2>3 DEF Untouched
<1> QED BY <1>1, <1>2

\* The builder of a new node takes the properties its kind declares and no other.
LEMMA NothingUndeclared ==
  ASSUME IInv, NEW s \in UndeclaredSlots
  PROVE  \A i \in DOMAIN NewValues(s) : NewValues(s)[i] = <<>>
<1> DEFINE kind == SlotNodeKind(s)
           queue == diff[current].new_nodes
           new(i) == queue[Nth(NewOfKind(kind), i)]
           m == NewCount(kind)
<1>1. s \in PropertySlots /\ kind \in NodeKinds /\ SlotPropertyKind(s) \notin KindProperties[kind]
  BY SlotKinds DEF UndeclaredSlots
<1>2. /\ m \in Nat /\ Within(NewOfKind(kind), Len(queue)) /\ queue \in Seq(NewNodeInputs)
      /\ Len(queue) \in Nat /\ m = Cardinality(NewOfKind(kind))
  BY <1>1, Counts DEF IInv, ControlInv, NewCount
<1>3. ASSUME NEW i \in 1 .. m PROVE SlotPropertyKind(s) \notin DOMAIN new(i).properties
  <2>1. Nth(NewOfKind(kind), i) \in NewOfKind(kind)
    BY <1>2, NthFound
  <2>2. Nth(NewOfKind(kind), i) \in 1 .. Len(queue)
    BY <1>2, <2>1 DEF Within
  <2>3. new(i) \in NewNodeInputs
    BY <1>2, <2>2
  <2>4. new(i).kind = kind
    BY <2>1 DEF NewOfKind
  <2> HIDE DEF new
  <2>5. DOMAIN new(i).properties \subseteq KindProperties[new(i).kind]
    BY <2>3, InputAssumption DEF IsNewNode
  <2> QED BY <1>1, <2>4, <2>5
<1>4. NewValues(s) =
        [i \in 1 .. m |-> IF SlotPropertyKind(s) \in DOMAIN new(i).properties
                            THEN new(i).properties[SlotPropertyKind(s)] ELSE <<>>]
  BY DEF NewValues
<1> HIDE DEF new, m
<1> QED BY <1>3, <1>4

\* So the new nodes of a diff give a slot without offsets none.
LEMMA NewNodesTouchNothing ==
  ASSUME IInv, Untouched, PrepareNewNodes PROVE Untouched'
<1>1. CASE \E outcome : RollBack(outcome)
  BY <1>1, RollBackTouchesNothing
<1>2. CASE ~ \E outcome : RollBack(outcome)
  <2>1. /\ DOMAIN property_appends' =
             {s \in PropertySlots : ~ AppendsNothing(PropertyOffsets(s), NewValues(s))}
        /\ properties' = properties /\ property_replacements' = property_replacements
    BY <1>2 DEF PrepareNewNodes
  <2>2. ASSUME NEW s \in UndeclaredSlots PROVE AppendsNothing(PropertyOffsets(s), NewValues(s))
    <3>1. PropertyOffsets(s) = <<>>
      BY DEF Untouched, PropertyOffsets
    <3> QED BY <3>1, NothingUndeclared DEF AppendsNothing
  <2> QED BY <2>1, <2>2 DEF Untouched
<1> QED BY <1>1, <1>2

\* What a commit writes is what was staged.
LEMMA CommitTouchesNothing == ASSUME Untouched, commit PROVE Untouched'
<1>1. DOMAIN NoFunction = {}
  BY DEF NoFunction
<1>2. /\ properties' = CommittedProperties
      /\ property_replacements' = NoFunction /\ property_appends' = NoFunction
  BY DEF commit, Release
<1>3. ASSUME NEW s \in UndeclaredSlots PROVE CommittedProperties[s] = properties[s]
  <2>1. s \in PropertySlots
    BY DEF UndeclaredSlots
  <2> QED BY <2>1 DEF CommittedProperties, Replaced, Untouched
<1> QED BY <1>1, <1>2, <1>3 DEF Untouched

\* No other step changes a property slot, stored or staged.
LEMMA OthersTouchNothing ==
  ASSUME Untouched, Next,
         ~ PreparePropertyUpdates, ~ PrepareNewNodes, ~ commit
  PROVE  Untouched'
<1>1. CASE \E outcome : RollBack(outcome)
  BY <1>1, RollBackTouchesNothing
<1>2. CASE ~ \E outcome : RollBack(outcome)
  <2> DEFINE Still == UNCHANGED <<properties, property_replacements, property_appends>>
  <2>1. ASSUME NEW d \in Diffs, NEW queued, Queue(d, queued) PROVE Still
    BY <2>1 DEF Queue, graph_vars, staged_vars
  <2>2. ASSUME NEW d \in Diffs,
               \/ add_node(d) \/ add_edge(d) \/ remove_node(d) \/ update_node_property(d)
               \/ remove_edge(d) \/ DropDiff(d) \/ BeginPrepare(d)
        PROVE  Still
    BY <2>1, <2>2 DEF add_node, add_edge, remove_node, update_node_property, remove_edge,
                      DropDiff, BeginPrepare, graph_vars, staged_vars
  <2>3. NextChange => Still
    BY DEF NextChange, graph_vars
  <2>4. ASSUME ClassifyRemoveNode \/ ClassifyUpdate \/ ClassifyRemoveEdge PROVE Still
    BY <1>2, <2>3, <2>4 DEF ClassifyRemoveNode, ClassifyUpdate, ClassifyRemoveEdge
  <2>5. ASSUME PrepareEdgeRemovals \/ StageNewEdge \/ PrepareNewEdges PROVE Still
    BY <1>2, <2>5 DEF PrepareEdgeRemovals, StageNewEdge, PrepareNewEdges, graph_vars
  <2>6. ~ DropStaged
    BY <1>2 DEF DropStaged
  <2>7. Still
    BY <2>2, <2>4, <2>5, <2>6 DEF Next
  <2> QED BY <2>7, UntouchedSame
<1> QED BY <1>1, <1>2

\* A slot is numbered by its node kind and its property.
LEMMA PropertySlotNumbered ==
  ASSUME NEW s \in PropertySlots
  PROVE  property_storage_slot(SlotNodeKind(s), SlotPropertyKind(s)) = s
<1>1. NodeKindCount \in Nat /\ s \in Int /\ 0 <= s
  BY SchemaAssumption DEF PropertySlots, property_storage_size
<1>2. 0 < NodeKindCount
  BY <1>1, SlotKinds DEF NodeKinds
<1>3. s = (s % NodeKindCount) + NodeKindCount * (s \div NodeKindCount)
  BY <1>1, <1>2, Divided
<1> QED BY <1>3 DEF property_storage_slot, SlotNodeKind, SlotPropertyKind

\* A graph that follows the schema has no offsets in the slots of undeclared properties.
LEMMA EmptyIsUndeclared ==
  ASSUME NEW g
  PROVE  UndeclaredEmpty(g) <=> \A s \in UndeclaredSlots : g.properties[s].offsets = <<>>
<1>1. ASSUME UndeclaredEmpty(g), NEW s \in UndeclaredSlots PROVE g.properties[s].offsets = <<>>
  <2>1. /\ SlotNodeKind(s) \in NodeKinds
        /\ SlotPropertyKind(s) \in PropertyKinds \ KindProperties[SlotNodeKind(s)]
        /\ property_storage_slot(SlotNodeKind(s), SlotPropertyKind(s)) = s
    BY SlotKinds, PropertySlotNumbered DEF UndeclaredSlots
  <2> QED BY <1>1, <2>1 DEF UndeclaredEmpty
<1>2. ASSUME \A s \in UndeclaredSlots : g.properties[s].offsets = <<>> PROVE UndeclaredEmpty(g)
  <2>1. ASSUME NEW kind \in NodeKinds, NEW p \in PropertyKinds \ KindProperties[kind]
        PROVE  property_storage_slot(kind, p) \in UndeclaredSlots
    BY PropertySlotOfKinds DEF UndeclaredSlots
  <2> QED BY <1>2, <2>1 DEF UndeclaredEmpty
<1> QED BY <1>1, <1>2

\* Whatever diffs are prepared, dropped and committed, from graphs that follow the
\* schema: no node ever has a value of a property its kind does not declare.
THEOREM UndeclaredAlwaysEmpty == ASSUME SeedsFollowSchema PROVE Spec => []UndeclaredStayEmpty
<1>1. Init => Untouched
  <2> SUFFICES ASSUME Init PROVE Untouched
    OBVIOUS
  <2>1. PICK g \in Seeds : properties = g.properties
    BY DEF Init
  <2>2. \A s \in UndeclaredSlots : properties[s].offsets = <<>>
    BY <2>1, EmptyIsUndeclared DEF SeedsFollowSchema
  <2>3. property_replacements = NoFunction /\ property_appends = NoFunction
    BY DEF Init
  <2> QED BY <2>2, <2>3 DEF Untouched, NoFunction
<1>2. IInv /\ Untouched /\ [Next]_vars => Untouched'
  <2>1. ASSUME IInv, Untouched, Next PROVE Untouched'
    BY <2>1, UpdatesTouchNothing, NewNodesTouchNothing, CommitTouchesNothing, OthersTouchNothing
  <2>2. ASSUME Untouched, UNCHANGED vars PROVE Untouched'
    BY <2>2, UntouchedSame DEF vars, graph_vars, staged_vars
  <2> QED BY <2>1, <2>2
<1>3. Untouched => UndeclaredStayEmpty
  <2>1. ASSUME Untouched PROVE \A s \in UndeclaredSlots : graph.properties[s].offsets = <<>>
    BY <2>1 DEF Untouched, graph
  <2> QED BY <2>1, EmptyIsUndeclared DEF UndeclaredStayEmpty
<1> QED BY <1>1, <1>2, <1>3, AlwaysIInv, PTL DEF Spec

(***************************************************************************)
(* What the generated accessors answer                                      *)
(***************************************************************************)
\* back is the same edge as id, with the same value, met at its other end.
MeetsAgain(g, back, id, node) ==
  /\ Neighbor(back) = node /\ back.kind = id.kind
  /\ get_edge_property(g, back) = get_edge_property(g, id)

\* In a graph whose half-edges pair up, an edge met at one of its nodes is met at the
\* other one too.
LEMMA WayBack ==
  ASSUME NEW g, NEW e \in EdgeKinds, \A dir \in Directions : SoundSlots(g, dir, e),
         Balanced(g.edges, Everywhere, e), NEW dir \in Directions, NEW node \in NodeNames,
         NEW id \in get_edges_with_deleted(g, node, e, dir), Neighbor(id) \in NodeNames
  PROVE  \E back \in get_edges_with_deleted(g, Neighbor(id), e, 1 - dir) : MeetsAgain(g, back, id, node)
<1>0. \A d \in Directions : \A x \in NodeNames : \A y, v :
        AlikeIn(g.edges, Everywhere, d, e, x, y, v)
          = Alike(g.edges[edge_storage_slot(KindOf(x), d, e)], SeqOf(x), y, v)
  <2> TAKE d \in Directions
  <2> TAKE x \in NodeNames
  <2> TAKE y, v
  <2>1. SoundSlots(g, d, e)
    OBVIOUS
  <2>2. PICK slot : slot = g.edges[edge_storage_slot(KindOf(x), d, e)]
    OBVIOUS
  <2>3. AlikeIn(g.edges, Everywhere, d, e, x, y, v) = Alike(slot, SeqOf(x), y, v)
    BY <2>1, <2>2, AlikeEverywhere
  <2> QED BY <2>2, <2>3
<1>1. 1 - dir \in Directions /\ (dir = Out => 1 - dir = In) /\ (dir = In => 1 - dir = Out) /\ (dir = Out \/ dir = In)
  BY DEF Directions, In, Out
<1>2. PICK rev \in Directions : rev = 1 - dir
  BY <1>1
<1>3. PICK other \in NodeNames : other = Neighbor(id)
  OBVIOUS
<1>4. PICK near : near = EdgeSlotOf(g, node, e, dir)
  OBVIOUS
<1>5. PICK far : far = EdgeSlotOf(g, other, e, rev)
  OBVIOUS
<1>6. KindOf(node) \in NodeKinds /\ KindOf(other) \in NodeKinds /\ SeqOf(node) \in Nat /\ SeqOf(other) \in Nat
  BY NameParts
<1>7. PICK n \in Nat : EdgeSlotSound(near, n, EdgeProperty[e].typ)
  BY <1>4, <1>6 DEF SoundSlots, EdgeSlotOf
<1>8. PICK m \in Nat : EdgeSlotSound(far, m, EdgeProperty[e].typ)
  BY <1>5, <1>6 DEF SoundSlots, EdgeSlotOf
<1>9. PICK p \in Run(near, SeqOf(node)) : id = IdAt(near, node, e, dir, p)
  BY <1>4, <1>7, EdgesRead
<1>10. /\ Describes(id, near, node, e, dir, p)
       /\ get_edge_property(g, id) = {ReadAt(near, EdgeProperty[e].typ, p)}
  BY <1>4, <1>7, <1>9, IdRead
<1>11. near.values.typ = EdgeProperty[e].typ /\ far.values.typ = EdgeProperty[e].typ
  BY <1>7, <1>8 DEF EdgeSlotSound
<1>12. PICK value \in Key : EdgeProperty[e].typ # "None" => near.values.items[p] = value
  <2>1. CASE EdgeProperty[e].typ = "None"
    <3>1. NoKey \in Key
      BY EmptySeq DEF NoKey, Key
    <3> QED BY <2>1, <3>1
  <2>2. CASE EdgeProperty[e].typ # "None"
    BY <1>6, <1>7, <1>9, <2>2, RunPlaces
  <2> QED BY <2>1, <2>2
<1> DEFINE A == AlikeIn(g.edges, Everywhere, dir, e, node, other, value)
           B == AlikeIn(g.edges, Everywhere, rev, e, other, node, value)
<1>13. A = Alike(near, SeqOf(node), other, value)
  <2>1. SoundSlots(g, dir, e)
    OBVIOUS
  <2>2. near = g.edges[edge_storage_slot(KindOf(node), dir, e)]
    BY <1>4 DEF EdgeSlotOf
  <2> QED BY <2>1, <2>2, AlikeEverywhere
<1>14. B = Alike(far, SeqOf(other), node, value)
  <2>1. SoundSlots(g, rev, e)
    OBVIOUS
  <2>2. far = g.edges[edge_storage_slot(KindOf(other), rev, e)]
    BY <1>5 DEF EdgeSlotOf
  <2>3. AlikeIn(g.edges, Everywhere, rev, e, other, node, value)
          = Alike(g.edges[edge_storage_slot(KindOf(other), rev, e)], SeqOf(other), node, value)
    BY <1>0
  <2> QED BY <2>2, <2>3
<1>15. Cardinality(A) = Cardinality(B)
  <2>1. CASE dir = Out
    BY <1>1, <1>2, <2>1 DEF Balanced
  <2>2. CASE dir = In
    BY <1>1, <1>2, <2>2 DEF Balanced
  <2> QED BY <1>1, <2>1, <2>2
<1> HIDE DEF A, B
<1>16. p \in A
  <2>1. near.neighbors[p] = other
    BY <1>3, <1>10 DEF Describes
  <2> QED BY <1>9, <1>11, <1>12, <1>13, <2>1 DEF Alike, Leads
<1>17. IsFiniteSet(A) /\ IsFiniteSet(B)
  <2>1. Within(Run(near, SeqOf(node)), Len(near.neighbors)) /\ Len(near.neighbors) \in Nat
    BY <1>6, <1>7, RunPlaces
  <2>2. Within(Run(far, SeqOf(other)), Len(far.neighbors)) /\ Len(far.neighbors) \in Nat
    BY <1>6, <1>8, RunPlaces
  <2>3. Within(A, Len(near.neighbors)) /\ Within(B, Len(far.neighbors))
    BY <1>13, <1>14, <2>1, <2>2 DEF Within, Alike
  <2> QED BY <2>1, <2>2, <2>3, PositionsFinite
<1>18. B # {}
  BY <1>15, <1>16, <1>17, FS_EmptySet
<1>19. PICK q \in Run(far, SeqOf(other)) : Leads(far, q, node, value)
  BY <1>14, <1>18 DEF Alike
<1>20. PICK back : back = IdAt(far, other, e, rev, q)
  OBVIOUS
<1>21. back \in get_edges_with_deleted(g, other, e, rev)
  BY <1>5, <1>8, <1>19, <1>20, EdgesRead
<1>22. /\ Describes(back, far, other, e, rev, q)
       /\ get_edge_property(g, back) = {ReadAt(far, EdgeProperty[e].typ, q)}
  BY <1>5, <1>8, <1>19, <1>20, IdRead
<1>23. ReadAt(far, EdgeProperty[e].typ, q) = ReadAt(near, EdgeProperty[e].typ, p)
  BY <1>11, <1>12, <1>19 DEF ReadAt, Leads
<1>24. MeetsAgain(g, back, id, node)
  BY <1>10, <1>19, <1>22, <1>23 DEF MeetsAgain, Describes, Leads
<1> QED BY <1>2, <1>3, <1>21, <1>24

\* An edge struct stands for the id it was made of.
LEMMA StructOfId ==
  ASSUME NEW g, NEW node, NEW e, NEW dir, NEW id \in get_edges_with_deleted(g, node, e, dir)
  PROVE  /\ edge_id(NewEdgeStruct(id)) = id /\ id.kind = e /\ id.dir = dir
         /\ NewEdgeStruct(id).variant = e /\ NewEdgeStruct(id).direction = dir
<1>1. \E neighbor, seq : id = from_half(node, neighbor, e, dir, seq)
  BY DEF get_edges_with_deleted
<1>2. id = [src |-> id.src, dst |-> id.dst, kind |-> id.kind, dir |-> id.dir, seq |-> id.seq]
      /\ id.kind = e /\ id.dir = dir
  BY <1>1 DEF from_half
<1> QED BY <1>2 DEF edge_id, NewEdgeStruct

\* A value that passes the check reads as declared.
LEMMA ValueReads ==
  ASSUME NEW array, NEW decl, array.typ = decl.typ, NEW i, ContentPasses(graph, array.typ, array.items[i], decl.enum),
         NEW prop, prop = [typ |-> array.typ, key |-> array.items[i]]
  PROVE  property_binding(prop, decl) = Ok
<1>1. prop.typ = array.typ /\ prop.key = array.items[i]
  OBVIOUS
<1>2. array.typ = "NodeId" => ResolvesNodeKind(prop.key)
  BY <1>1 DEF ContentPasses, check_node_id, Ok
<1>3. array.typ = "String" => prop.key[1] < Len(strings)
  BY <1>1 DEF ContentPasses, check_string_id, Ok, graph
<1>4. array.typ = "Enum" => prop.key[1] = decl.enum /\ ~ (prop.key[2] >= EnumVariants[decl.enum + 1])
  <2>1. array.typ = "Enum" => check_enum_id(prop.key[1], prop.key[2], decl.enum) = Ok
    BY <1>1 DEF ContentPasses
  <2> QED BY <2>1 DEF check_enum_id, Ok
<1> QED BY <1>1, <1>2, <1>3, <1>4, Zenon DEF property_binding

\* Reading a property of a node meets no other error than that there is none.
LEMMA PropertyAnswers ==
  ASSUME Whole(graph), NEW node \in NodeNames, NEW p \in PropertyKinds
  PROVE  property_accessor(NewNodeStruct(KindOf(node), SeqOf(node)), p).error \in {Ok, "PropertyIndexNotFound"}
<1>1. PICK k \in NodeKinds : k = KindOf(node)
  BY NameParts
<1>2. PICK slot : slot = graph.properties[property_storage_slot(k, p)]
  OBVIOUS
<1>3. PICK decl : decl = NodeProperty[p]
  OBVIOUS
<1>4. PICK n \in Nat : PropertySlotSound(slot, n, decl.typ) /\ AllContentPasses(graph, slot.values, decl.enum)
  <2>1. PropertySlotWhole(graph, k, p) /\ Len(graph.nodes[k]) \in Nat
    BY DEF Whole
  <2> QED BY <1>2, <1>3, <2>1 DEF PropertySlotWhole
<1>5. decl.typ # "None" /\ slot.values.typ = decl.typ
  BY <1>3, <1>4, NodePropertyAssumption DEF PropertySlotSound
<1>6. node_id(NewNodeStruct(KindOf(node), SeqOf(node))) = node
  BY NameParts DEF node_id, NewNodeStruct, RawNodeId, KindOf, SeqOf
<1>7. PICK seq \in Nat : seq = SeqOf(node)
  BY NameParts
<1>8. PICK stored : stored = get_node_property(graph, node, p)
  OBVIOUS
<1>9. stored = IF HasOffset(slot, seq) THEN {RunOfValues(slot, seq)} ELSE {}
  BY <1>1, <1>2, <1>4, <1>5, <1>7, <1>8, ValuesOfNode
<1>10. \A i \in 1 .. Len(slot.values.items) : property_binding(ValueAt(slot, i), decl) = Ok
  BY <1>4, <1>5, ValueReads DEF AllContentPasses, ValueAt
<1>11. HasOffset(slot, seq) =>
         /\ Degree(slot, seq) \in Nat /\ DOMAIN RunOfValues(slot, seq) = 1 .. Degree(slot, seq)
         /\ RunOfValues(slot, seq) \in Seq({ValueAt(slot, i) : i \in 1 .. Len(slot.values.items)})
  <2> SUFFICES ASSUME HasOffset(slot, seq)
               PROVE  /\ Degree(slot, seq) \in Nat /\ DOMAIN RunOfValues(slot, seq) = 1 .. Degree(slot, seq)
                      /\ RunOfValues(slot, seq) \in Seq({ValueAt(slot, i) : i \in 1 .. Len(slot.values.items)})
    OBVIOUS
  <2>1. PICK a : a = Start(slot, seq)
    OBVIOUS
  <2>2. PICK b : b = End(slot, seq)
    OBVIOUS
  <2>3. /\ slot.offsets \in Seq(0 .. MaxOffset) /\ Shaped(slot.offsets, n)
        /\ LastOffset(slot.offsets) = Len(slot.values.items) /\ slot.values.items \in Seq(Key)
    BY <1>4 DEF PropertySlotSound, PropertyStorageSlot, StorageArray
  <2>4. a \in Nat /\ b \in Nat /\ a <= b /\ b <= Len(slot.values.items) /\ Len(slot.values.items) \in Nat
    BY <2>1, <2>2, <2>3, RunWithin, LenProperties
  <2>5. b - a \in Nat /\ \A i \in 1 .. b - a : a + i \in 1 .. Len(slot.values.items)
    BY <2>4
  <2>6. RunOfValues(slot, seq) = [i \in 1 .. b - a |-> ValueAt(slot, a + i)] /\ Degree(slot, seq) = b - a
    BY <2>1, <2>2 DEF RunOfValues, Degree
  <2>7. RunOfValues(slot, seq) \in ListOf({ValueAt(slot, i) : i \in 1 .. Len(slot.values.items)}, b - a)
    BY <2>5, <2>6 DEF ListOf
  <2> QED BY <2>5, <2>6, <2>7, ListIsSeq
<1> DEFINE run == Answer(stored)
           looked_at == IF p \in MultiProperties \/ run = <<>> THEN run ELSE <<run[1]>>
           failing == {i \in 1 .. Len(looked_at) : property_binding(looked_at[i], decl) # Ok}
<1>12. stored # {} => failing = {}
  <2> SUFFICES ASSUME stored # {} PROVE failing = {}
    OBVIOUS
  <2>1. HasOffset(slot, seq) /\ run = RunOfValues(slot, seq)
    BY <1>9 DEF Answer
  <2>2. run \in Seq({ValueAt(slot, i) : i \in 1 .. Len(slot.values.items)})
    BY <1>11, <2>1
  <2> HIDE DEF run
  <2>3. \A i \in 1 .. Len(run) : property_binding(run[i], decl) = Ok
    BY <1>10, <2>2, ElementOfSeq
  <2>4. CASE p \in MultiProperties \/ run = <<>>
    BY <2>3, <2>4
  <2>5. CASE ~ (p \in MultiProperties \/ run = <<>>)
    <3>1. looked_at = <<run[1]>>
      BY <2>5
    <3>2. 1 \in 1 .. Len(run)
      BY <2>2, <2>5, LenProperties, EmptySeq
    <3>3. Len(looked_at) = 1 /\ looked_at[1] = run[1]
      BY <3>1
    <3> HIDE DEF looked_at
    <3>4. \A i \in 1 .. Len(looked_at) : looked_at[i] = run[1]
      BY <3>3
    <3> QED BY <2>3, <3>2, <3>4
  <2> QED BY <2>4, <2>5
<1>13. FirstError(Len(looked_at), LAMBDA i : property_binding(looked_at[i], decl))
         = IF failing = {} THEN Ok ELSE property_binding(looked_at[Lowest(failing)], decl)
  BY DEF FirstError
<1>14. property_accessor(NewNodeStruct(KindOf(node), SeqOf(node)), p)
         = LET error == FirstError(Len(looked_at), LAMBDA i : property_binding(looked_at[i], decl))
           IN  IF stored = Nothing THEN Read("PropertyIndexNotFound", <<>>)
               ELSE IF error # Ok THEN Read(error, <<>>)
               ELSE IF p \notin MultiProperties /\ run = <<>> THEN Read("PropertyIndexNotFound", <<>>)
               ELSE Read(Ok, [i \in DOMAIN looked_at |-> resolve_property(graph, looked_at[i])])
  BY <1>3, <1>6, <1>8 DEF property_accessor
<1> HIDE DEF looked_at, failing, run
<1>15. \A error, values : Read(error, values).error = error
  BY DEF Read
<1> QED BY <1>12, <1>13, <1>14, <1>15 DEF Nothing

\* Reading the value of an edge gives it, if edges of the kind have one.
LEMMA EdgeAnswers ==
  ASSUME Whole(graph), NEW node \in NodeNames, NEW e \in EdgeKinds, NEW dir \in Directions,
         NEW id \in get_edges_with_deleted(graph, node, e, dir), EdgeProperty[e].typ # "None"
  PROVE  edge_accessor(NewEdgeStruct(id)).error = Ok /\ edge_accessor(NewEdgeStruct(id)).values # <<>>
<1>1. PICK k \in NodeKinds : k = KindOf(node)
  BY NameParts
<1>2. PICK slot : slot = EdgeSlotOf(graph, node, e, dir)
  OBVIOUS
<1>3. PICK n \in Nat : EdgeSlotSound(slot, n, EdgeProperty[e].typ) /\ AllContentPasses(graph, slot.values, EdgeProperty[e].enum)
  <2>1. EdgeSlotWhole(graph, k, dir, e) /\ Len(graph.nodes[k]) \in Nat
    BY DEF Whole
  <2> QED BY <1>1, <1>2, <2>1 DEF EdgeSlotWhole, EdgeSlotOf
<1>4. PICK p \in Run(slot, SeqOf(node)) : id = IdAt(slot, node, e, dir, p)
  BY <1>2, <1>3, EdgesRead
<1>5. get_edge_property(graph, id) = {ReadAt(slot, EdgeProperty[e].typ, p)}
  BY <1>2, <1>3, <1>4, IdRead
<1>6. p \in 1 .. Len(slot.values.items)
  <2>1. Within(Run(slot, SeqOf(node)), Len(slot.neighbors)) /\ SeqOf(node) \in Nat
    BY <1>3, NameParts, RunPlaces
  <2>2. Len(slot.values.items) = Len(slot.neighbors)
    BY <1>3 DEF EdgeSlotSound
  <2> QED BY <2>1, <2>2 DEF Within
<1>7. PICK prop : prop = [typ |-> slot.values.typ, key |-> slot.values.items[p]]
  OBVIOUS
<1>8. slot.values.typ = EdgeProperty[e].typ
  BY <1>3 DEF EdgeSlotSound
<1>9. UNION get_edge_property(graph, id) = {prop}
  BY <1>5, <1>7, <1>8 DEF ReadAt
<1>10. property_binding(prop, EdgeProperty[e]) = Ok
  <2>1. PICK array : array = slot.values
    OBVIOUS
  <2>2. PICK decl : decl = EdgeProperty[e]
    OBVIOUS
  <2>3. ContentPasses(graph, array.typ, array.items[p], decl.enum)
    BY <1>3, <1>6, <2>1, <2>2 DEF AllContentPasses
  <2> QED BY <1>7, <1>8, <2>1, <2>2, <2>3, ValueReads
<1>11. edge_id(NewEdgeStruct(id)) = id /\ NewEdgeStruct(id).variant = e
  BY StructOfId
<1>12. Answer({prop}) = prop
  BY DEF Answer
<1>13. edge_accessor(NewEdgeStruct(id)) = Read(Ok, <<resolve_property(graph, prop)>>)
  BY <1>9, <1>10, <1>11, <1>12 DEF edge_accessor
<1> QED BY <1>13 DEF Read

\* A walk along an edge and back: over all edges, and over those between nodes that are
\* not deleted.
LEMMA WalksReturn ==
  ASSUME Whole(graph), NEW node \in NodeIds(graph), NEW e \in EdgeKinds, NEW dir \in Directions,
         NEW id \in get_edges_with_deleted(graph, node, e, dir),
         NEW struct, node_id(struct) = node
  PROVE  /\ Returns(struct, NewEdgeStruct(id), edges_with_deleted_accessor)
         /\ ~ node_is_deleted(graph, node) => Returns(struct, NewEdgeStruct(id), edges_accessor)
<1>1. node \in NodeNames
  BY NodesOf
<1>2. (\A d \in Directions : SoundSlots(graph, d, e)) /\ Balanced(graph.edges, Everywhere, e)
  BY DEF Whole
<1>3. Neighbor(id) \in NodeNames
  <2>1. PICK k \in NodeKinds : k = KindOf(node)
    BY <1>1, NameParts
  <2>2. PICK slot : slot = EdgeSlotOf(graph, node, e, dir)
    OBVIOUS
  <2>3. PICK n \in Nat : EdgeSlotSound(slot, n, EdgeProperty[e].typ) /\ AllNamed(slot.neighbors, Counted(graph))
    <3>1. EdgeSlotWhole(graph, k, dir, e) /\ Len(graph.nodes[k]) \in Nat
      BY DEF Whole
    <3> QED BY <2>1, <2>2, <3>1 DEF EdgeSlotWhole, EdgeSlotOf
  <2>4. PICK p \in Run(slot, SeqOf(node)) : id = IdAt(slot, node, e, dir, p)
    BY <1>1, <2>2, <2>3, EdgesRead
  <2>5. Describes(id, slot, node, e, dir, p) /\ slot.neighbors[p] \in RawNodeId
    BY <1>1, <2>2, <2>3, <2>4, IdRead
  <2>6. Within(Run(slot, SeqOf(node)), Len(slot.neighbors))
    BY <1>1, <2>3, NameParts, RunPlaces
  <2>7. Named(slot.neighbors[p], Counted(graph))
    BY <2>3, <2>4, <2>6 DEF AllNamed, Within
  <2> QED BY <2>5, <2>7 DEF Named, NodeNames, Describes
<1>4. PICK back \in get_edges_with_deleted(graph, Neighbor(id), e, 1 - dir) : MeetsAgain(graph, back, id, node)
  BY <1>1, <1>2, <1>3, WayBack
<1>5. /\ edge_id(NewEdgeStruct(id)) = id /\ NewEdgeStruct(id).variant = e /\ NewEdgeStruct(id).direction = dir
      /\ edge_id(NewEdgeStruct(back)) = back /\ NewEdgeStruct(back).variant = e
  BY <1>4, StructOfId
<1>6. edge_accessor(NewEdgeStruct(back)) = edge_accessor(NewEdgeStruct(id))
  BY <1>4, <1>5 DEF edge_accessor, MeetsAgain
<1>7. Neighbor(edge_id(NewEdgeStruct(back))) = node_id(struct)
  BY <1>4, <1>5 DEF MeetsAgain
<1>8. NewEdgeStruct(back) \in edges_with_deleted_accessor(Neighbor(edge_id(NewEdgeStruct(id))), NewEdgeStruct(id).variant,
                                                          1 - NewEdgeStruct(id).direction)
  BY <1>4, <1>5 DEF edges_with_deleted_accessor
<1>9. ~ node_is_deleted(graph, node) =>
        NewEdgeStruct(back) \in edges_accessor(Neighbor(edge_id(NewEdgeStruct(id))), NewEdgeStruct(id).variant,
                                               1 - NewEdgeStruct(id).direction)
  <2>1. ~ node_is_deleted(graph, node) => back \in get_edges(graph, Neighbor(id), e, 1 - dir)
    BY <1>4 DEF get_edges, MeetsAgain
  <2> QED BY <1>5, <2>1 DEF edges_accessor
<1> QED BY <1>6, <1>7, <1>8, <1>9 DEF Returns

\* As long as written values resolve and removals use fresh ids, a caller who reads
\* through the generated structs meets no other error than that a property was never set,
\* finds a value on every edge that has to carry one, and can walk back along every edge.
THEOREM AccessorsAlwaysAnswer == ASSUME InputsResolve, FreshIds PROVE Spec => []AccessorsAnswer
<1>1. TypeOK /\ IntegrityKept => AccessorsAnswer
  <2> SUFFICES ASSUME TypeOK, IntegrityKept PROVE AccessorsAnswer
    OBVIOUS
  <2>1. Whole(graph)
    <3>1. graph \in Graph
      BY DEF TypeOK
    <3>2. CASE TotalNodes(graph) <= MaxNodes
      BY <3>1, <3>2, IntegrityTold DEF IntegrityKept
    <3>3. CASE ~ (TotalNodes(graph) <= MaxNodes)
      BY <3>1, <3>3, IntegrityTold DEF IntegrityKept
    <3> QED BY <3>2, <3>3
  <2>2. ASSUME NEW id \in NodeIds(graph)
        PROVE  id \in NodeNames /\ KindOf(id) \in NodeKinds /\ node_id(NewNodeStruct(KindOf(id), SeqOf(id))) = id
    <3>1. id \in NodeNames
      BY <2>1, NodesOf
    <3> QED BY <3>1, NameParts DEF node_id, NewNodeStruct, RawNodeId, KindOf, SeqOf
  <2>3. Out \in Directions /\ In \in Directions
    BY DEF Directions, In, Out
  <2>4. ASSUME NEW id \in NodeIds(graph), NEW p \in KindProperties[KindOf(id)]
        PROVE  property_accessor(NewNodeStruct(KindOf(id), SeqOf(id)), p).error \in {Ok, "PropertyIndexNotFound"}
    <3>1. p \in PropertyKinds
      BY <2>2, SchemaAssumption
    <3> QED BY <2>1, <2>2, <3>1, PropertyAnswers
  <2>5. ASSUME NEW id \in NodeIds(graph), NEW kind \in EdgeKinds, NEW node,
               node = NewNodeStruct(KindOf(id), SeqOf(id)),
               NEW e \in get_edges_out_with_deleted(node, kind) \cup get_edges_in_with_deleted(node, kind)
        PROVE  /\ Returns(node, NewEdgeStruct(e), edges_with_deleted_accessor)
               /\ ~ node_is_deleted(graph, id) => Returns(node, NewEdgeStruct(e), edges_accessor)
               /\ EdgeProperty[kind].typ # "None" =>
                    /\ edge_accessor(NewEdgeStruct(e)).error = Ok
                    /\ edge_accessor(NewEdgeStruct(e)).values # <<>>
    <3>1. node_id(node) = id /\ id \in NodeNames
      BY <2>2, <2>5
    <3>2. PICK dir \in Directions : e \in get_edges_with_deleted(graph, id, kind, dir)
      BY <2>3, <2>5, <3>1 DEF get_edges_out_with_deleted, get_edges_in_with_deleted
    <3>3. /\ Returns(node, NewEdgeStruct(e), edges_with_deleted_accessor)
          /\ ~ node_is_deleted(graph, id) => Returns(node, NewEdgeStruct(e), edges_accessor)
      BY <2>1, <3>1, <3>2, WalksReturn
    <3> QED BY <2>1, <3>1, <3>2, <3>3, EdgeAnswers
  <2>6. ASSUME NEW kind \in NodeKinds, NEW edge_kind \in EdgeKinds, NEW node \in nodes_accessor(kind),
               NEW e \in get_edges_out(node, edge_kind) \cup get_edges_in(node, edge_kind)
        PROVE  Returns(node, NewEdgeStruct(e), edges_accessor)
    <3>1. PICK id \in NodeIds(graph) : node = NewNodeStruct(KindOf(id), SeqOf(id)) /\ ~ node_is_deleted(graph, id)
      BY DEF nodes_accessor, nodes_by_kind
    <3>2. e \in get_edges_out_with_deleted(node, edge_kind) \cup get_edges_in_with_deleted(node, edge_kind)
      BY DEF get_edges_out, get_edges_in, get_edges_out_with_deleted, get_edges_in_with_deleted, get_edges
    <3> QED BY <2>5, <3>1, <3>2
  <2> QED BY <2>4, <2>5, <2>6 DEF AccessorsAnswer
<1> QED BY <1>1, TypeAlwaysOK, IntegrityAlwaysKept, PTL

(***************************************************************************)
(* What a diff touches                                                     *)
(***************************************************************************)
\* The half-edges that are taken out belong to runs the diff names.
Traces(removals, d) ==
  \A k \in NodeKinds, dir \in Directions, e \in EdgeKinds :
    \A r \in removals[edge_storage_slot(k, dir, e)] : <<<<k, r[1]>>, e, dir>> \in RunsRemovedFrom(d)
\* A node that is not deleted when the diff is committed, and halves at such nodes that
\* lead to such nodes.
Survives(node) ==
  Exists(node) => ~ nodes[KindOf(node)][SeqOf(node) + 1] /\ node \notin node_tombstones
BetweenSurvivors(halves, k) ==
  \A j \in 1 .. Len(halves) : Survives(<<k, halves[j].seq>>) /\ Survives(halves[j].neighbor)
HalvesSurvive(staged) ==
  \A k \in NodeKinds, dir \in Directions, e \in EdgeKinds :
    BetweenSurvivors(staged[edge_storage_slot(k, dir, e)], k)
RemovalsPass == WithRemovals => \A s \in RemovedSlots : RemovalsFit(edges[s], edge_removals[s])
TracedInv ==
  /\ pc = "idle" => \A s \in EdgeSlots : edge_removals[s] = {}
  /\ Traces(edge_removals, current) /\ HalvesSurvive(edge_halves)
  /\ RemovalsPass /\ ReplacedInv /\ InsertedInv

\* The trace is read off the queue, the claims and the node arrays alone.
LEMMA TracesKept ==
  ASSUME Traces(edge_removals, current), UNCHANGED <<diff, current, edge_removals>>
  PROVE  Traces(edge_removals, current)'
<1>1. PICK runs : runs = RunsRemovedFrom(current)
  OBVIOUS
<1>2. RunsRemovedFrom(current)' = runs
  BY <1>1 DEF RunsRemovedFrom
<1>3. \A k \in NodeKinds, dir \in Directions, e \in EdgeKinds :
        \A r \in edge_removals[edge_storage_slot(k, dir, e)] : <<<<k, r[1]>>, e, dir>> \in runs
  BY <1>1 DEF Traces
<1>4. edge_removals' = edge_removals
  OBVIOUS
<1> QED BY <1>2, <1>3, <1>4 DEF Traces

LEMMA SurvivorsKept ==
  ASSUME NEW halves, HalvesSurvive(halves), UNCHANGED <<nodes, node_tombstones>>, edge_halves' = halves
  PROVE  HalvesSurvive(edge_halves)'
<1>1. ASSUME NEW node, Survives(node) PROVE Survives(node)'
  BY <1>1 DEF Survives, Exists
<1>2. ASSUME NEW k \in NodeKinds, NEW dir \in Directions, NEW e \in EdgeKinds
      PROVE  BetweenSurvivors(edge_halves[edge_storage_slot(k, dir, e)], k)'
  <2>1. PICK run : run = halves[edge_storage_slot(k, dir, e)]
    OBVIOUS
  <2>2. BetweenSurvivors(run, k)
    BY <2>1 DEF HalvesSurvive
  <2>3. ASSUME NEW j \in 1 .. Len(run)
        PROVE  Survives(<<k, run[j].seq>>)' /\ Survives(run[j].neighbor)'
    BY <1>1, <2>2 DEF BetweenSurvivors
  <2>4. edge_halves'[edge_storage_slot(k, dir, e)] = run
    BY <2>1
  <2> QED BY <2>3, <2>4 DEF BetweenSurvivors
<1> QED BY <1>2 DEF HalvesSurvive

\* Before anything is claimed, and once all that was staged is let go.
LEMMA UntracedYet ==
  ASSUME \A s \in EdgeSlots : edge_removals'[s] = {}, \A s \in EdgeSlots : edge_halves'[s] = <<>>,
         pc' \in {"idle", "changes"}
  PROVE  TracedInv'
<1>1. \A k \in NodeKinds, dir \in Directions, e \in EdgeKinds : edge_storage_slot(k, dir, e) \in EdgeSlots
  BY EdgeSlotOfKinds
<1>2. Traces(edge_removals, current)'
  BY <1>1 DEF Traces
<1>3. HalvesSurvive(edge_halves)'
  BY <1>1 DEF HalvesSurvive, BetweenSurvivors
<1>4. ~ WithRemovals' /\ pc' # "staged"
  BY DEF WithRemovals
<1> QED BY <1>2, <1>3, <1>4 DEF TracedInv, RemovalsPass, ReplacedInv, InsertedInv

LEMMA ReleasedTraced == ASSUME Release PROVE TracedInv'
BY UntracedYet DEF Release

LEMMA RollBackTraced == ASSUME NEW outcome, RollBack(outcome) PROVE TracedInv'
BY ReleasedTraced DEF RollBack

\* The caller stages nothing.
LEMMA ClientTraced ==
  ASSUME IInv, TracedInv, NEW d \in Diffs,
         \/ add_node(d) \/ add_edge(d) \/ remove_node(d) \/ update_node_property(d)
         \/ remove_edge(d) \/ DropDiff(d) \/ BeginPrepare(d)
  PROVE  TracedInv'
<1>1. pc = "idle" /\ pc' \in {"idle", "changes"} /\ UNCHANGED <<edge_removals, edge_halves>>
  <2>1. ASSUME NEW queued, Queue(d, queued)
        PROVE  pc = "idle" /\ pc' \in {"idle", "changes"} /\ UNCHANGED <<edge_removals, edge_halves>>
    BY <2>1 DEF Queue, staged_vars
  <2>2. CASE add_node(d) \/ add_edge(d) \/ remove_node(d) \/ update_node_property(d) \/ remove_edge(d)
    BY <2>1, <2>2 DEF add_node, add_edge, remove_node, update_node_property, remove_edge
  <2>3. CASE DropDiff(d) \/ BeginPrepare(d)
    BY <2>3 DEF DropDiff, BeginPrepare, staged_vars
  <2> QED BY <2>2, <2>3
<1>2. \A s \in EdgeSlots : edge_removals[s] = {} /\ edge_halves[s] = <<>>
  BY <1>1 DEF TracedInv, IInv, StagedInv, HalvesInv, WithNewNodes
<1> QED BY <1>1, <1>2, UntracedYet

\* A step that claims nothing and stages no edge.
LEMMA OtherStepTraced ==
  ASSUME TracedInv, UNCHANGED <<nodes, edges, diff, current, edge_removals, edge_halves, edge_replacements>>,
         UNCHANGED node_tombstones \/ \A s \in EdgeSlots : edge_halves[s] = <<>>,
         pc # "idle", pc' # "idle", WithRemovals' => WithRemovals, pc' # "staged"
  PROVE  TracedInv'
<1>1. Traces(edge_removals, current)'
  BY TracesKept DEF TracedInv
<1>2. HalvesSurvive(edge_halves)'
  <2>1. CASE UNCHANGED node_tombstones
    BY <2>1, SurvivorsKept DEF TracedInv
  <2>2. CASE \A s \in EdgeSlots : edge_halves[s] = <<>>
    <3>1. \A k \in NodeKinds, dir \in Directions, e \in EdgeKinds : edge_storage_slot(k, dir, e) \in EdgeSlots
      BY EdgeSlotOfKinds
    <3> QED BY <2>2, <3>1 DEF HalvesSurvive, BetweenSurvivors
  <2> QED BY <2>1, <2>2
<1>3. RemovalsPass' /\ ReplacedInv'
  BY DEF TracedInv, RemovalsPass, ReplacedInv, RemovedSlots
<1> QED BY <1>1, <1>2, <1>3 DEF TracedInv, InsertedInv

LEMMA ClassifyOthersTraced ==
  ASSUME IInv, TracedInv, ClassifyRemoveNode \/ ClassifyUpdate
  PROVE  TracedInv'
<1>1. pc = "changes"
  BY DEF ClassifyRemoveNode, ClassifyUpdate, AtChange
<1>2. CASE \/ RollBack("UnresolvedNodeKind") \/ RollBack("NodeOffsetNotFound")
  BY <1>2, RollBackTraced
<1>3. CASE NextChange /\ UNCHANGED edge_removals
  <2>1. /\ UNCHANGED <<nodes, edges, diff, current, edge_removals, edge_halves, edge_replacements>>
        /\ pc' = "changes"
    BY <1>1, <1>3 DEF NextChange, graph_vars, client_vars
  <2>2. ~ WithRemovals' /\ pc' # "staged" /\ pc # "idle" /\ pc' # "idle"
    BY <1>1, <2>1 DEF WithRemovals
  <2>3. \A s \in EdgeSlots : edge_halves[s] = <<>>
    BY <1>1 DEF IInv, StagedInv, HalvesInv, WithNewNodes
  <2> QED BY <2>1, <2>2, <2>3, OtherStepTraced
<1> QED BY <1>2, <1>3 DEF ClassifyRemoveNode, ClassifyUpdate

\* The half-edges a removal claims are of the runs its id names, at either end.
LEMMA ClassifyRemoveEdgeTraced == ASSUME IInv, TracedInv, ClassifyRemoveEdge PROVE TracedInv'
<1>1. pc = "changes" /\ cursor <= Len(diff[current].changes) /\ Change.change = "RemoveEdge"
  BY DEF ClassifyRemoveEdge, AtChange
<1>2. Change \in QueuedChange /\ ChangeQueued(Change)
  BY <1>1, ChangeIs
<1>3. PICK id : id = Change.edge
  OBVIOUS
<1>4. /\ id \in EdgeId /\ id.kind \in EdgeKinds
      /\ KindOf(id.src) \in NodeKinds /\ KindOf(id.dst) \in NodeKinds
  BY <1>1, <1>2, <1>3 DEF QueuedChange, ChangeQueued, ResolvesNodeKind
<1>5. PICK ends : ends = orient_edge(id.dir, id.src, id.dst)
  OBVIOUS
<1>6. PICK x : x = ends.primary
  OBVIOUS
<1>7. PICK y : y = ends.secondary
  OBVIOUS
<1>8. PICK near_slot : near_slot = edge_storage_slot(KindOf(x), ends.dir, id.kind)
  OBVIOUS
<1>9. PICK far_slot : far_slot = edge_storage_slot(KindOf(y), ends.reverse, id.kind)
  OBVIOUS
<1> DEFINE edge == Change.edge
           halves == orient_edge(edge.dir, edge.src, edge.dst)
           near == SeqOf(halves.primary)
           far == SeqOf(halves.secondary)
           there == edge_storage_slot(KindOf(halves.primary), halves.dir, edge.kind)
           back == edge_storage_slot(KindOf(halves.secondary), halves.reverse, edge.kind)
           claimed == {r[2] : r \in {r \in edge_removals[back] : r[1] = far}}
           found == ReverseHalf(edges[back], far, halves.primary, claimed,
                                WantedKey(edges[there], near, edge.seq))
<1>10. \/ \E outcome : RollBack(outcome)
       \/ NextChange /\ UNCHANGED <<node_tombstones, property_updates, edge_removals>>
       \/ /\ \E local \in found :
               edge_removals' = [edge_removals EXCEPT ![there] = @ \cup {<<near, edge.seq>>},
                                                      ![back] = @ \cup {<<far, local>>}]
          /\ NextChange
          /\ UNCHANGED <<node_tombstones, property_updates>>
  BY DEF ClassifyRemoveEdge
<1>20. near = SeqOf(x) /\ far = SeqOf(y) /\ there = near_slot /\ back = far_slot /\ edge = id
  BY <1>3, <1>5, <1>6, <1>7, <1>8, <1>9
<1> HIDE DEF edge, halves, near, far, there, back, found
<1>11. \/ \E outcome : RollBack(outcome)
       \/ NextChange /\ UNCHANGED <<node_tombstones, property_updates, edge_removals>>
       \/ /\ \E local :
               edge_removals' = [edge_removals EXCEPT ![near_slot] = @ \cup {<<SeqOf(x), id.seq>>},
                                                      ![far_slot] = @ \cup {<<SeqOf(y), local>>}]
          /\ NextChange
          /\ UNCHANGED <<node_tombstones, property_updates>>
  BY <1>10, <1>20
<1>12. CASE \E outcome : RollBack(outcome)
  BY <1>12, RollBackTraced
<1>13. ASSUME NextChange
       PROVE  /\ UNCHANGED <<nodes, edges, diff, current, edge_halves, edge_replacements>>
              /\ pc' = "changes" /\ ~ WithRemovals' /\ pc' # "staged" /\ pc # "idle" /\ pc' # "idle"
              /\ \A s \in EdgeSlots : edge_halves[s] = <<>>
  <2>1. UNCHANGED <<nodes, edges, diff, current, edge_halves, edge_replacements>> /\ pc' = "changes"
    BY <1>1, <1>13 DEF NextChange, graph_vars, client_vars
  <2>2. \A s \in EdgeSlots : edge_halves[s] = <<>>
    BY <1>1 DEF IInv, StagedInv, HalvesInv, WithNewNodes
  <2> QED BY <1>1, <2>1, <2>2 DEF WithRemovals
<1>14. CASE NextChange /\ UNCHANGED <<node_tombstones, property_updates, edge_removals>>
  BY <1>13, <1>14, OtherStepTraced
<1>15. ASSUME NextChange,
              NEW local, edge_removals' = [edge_removals EXCEPT ![near_slot] = @ \cup {<<SeqOf(x), id.seq>>},
                                                                ![far_slot] = @ \cup {<<SeqOf(y), local>>}]
       PROVE  TracedInv'
  <2>1. PICK runs : runs = RunsRemovedFrom(current)
    OBVIOUS
  <2>2. RunsRemovedFrom(current)' = runs
    BY <1>13, <1>15, <2>1 DEF RunsRemovedFrom
  <2>3. <<x, id.kind, ends.dir>> \in runs /\ <<y, id.kind, ends.reverse>> \in runs
    <3>1. cursor \in DOMAIN diff[current].changes
      <4>1. current \in Diffs /\ cursor \in Nat /\ 1 <= cursor
        BY AtCursor
      <4>2. diff[current].changes \in Seq(QueuedChange)
        BY <4>1, DiffParts DEF IInv, ClientInv
      <4> QED BY <1>1, <4>1, <4>2, LenProperties
    <3>2. <<id.src, id.kind, Out>> \in runs /\ <<id.dst, id.kind, In>> \in runs
      BY <1>1, <1>3, <2>1, <3>1 DEF RunsRemovedFrom, Change
    <3> QED BY <1>5, <1>6, <1>7, <3>2 DEF orient_edge
  <2>4. /\ KindOf(x) \in NodeKinds /\ KindOf(y) \in NodeKinds /\ x = <<KindOf(x), SeqOf(x)>> /\ y = <<KindOf(y), SeqOf(y)>>
        /\ ends.dir \in Directions /\ ends.reverse \in Directions
    BY <1>4, <1>5, <1>6, <1>7 DEF orient_edge, EdgeId, RawNodeId, KindOf, SeqOf, Directions
  <2>5. DOMAIN edge_removals = EdgeSlots
    BY DEF IInv, StagedInv, ChangesInv
  <2>6. ASSUME NEW k \in NodeKinds, NEW dir \in Directions, NEW e \in EdgeKinds,
               NEW r \in edge_removals'[edge_storage_slot(k, dir, e)]
        PROVE  <<<<k, r[1]>>, e, dir>> \in runs
    <3>1. PICK s : s = edge_storage_slot(k, dir, e)
      OBVIOUS
    <3>2. s \in EdgeSlots /\ SlotNodeKind(s) = k /\ SlotEdgeKind(s) = e /\ SlotDirection(s) = dir
      BY <3>1, EdgeSlotOfKinds
    <3>3. \/ r \in edge_removals[s]
          \/ s = near_slot /\ r = <<SeqOf(x), id.seq>>
          \/ s = far_slot /\ r = <<SeqOf(y), local>>
      BY <1>15, <2>5, <2>6, <3>1, <3>2
    <3>4. CASE r \in edge_removals[s]
      BY <2>1, <3>1, <3>4 DEF TracedInv, Traces
    <3>5. CASE s = near_slot /\ r = <<SeqOf(x), id.seq>>
      <4>1. k = KindOf(x) /\ e = id.kind /\ dir = ends.dir
        BY <1>4, <1>8, <2>4, <3>2, <3>5, EdgeSlotOfKinds
      <4>2. r[1] = SeqOf(x)
        BY <3>5
      <4> QED BY <2>3, <2>4, <4>1, <4>2
    <3>6. CASE s = far_slot /\ r = <<SeqOf(y), local>>
      <4>1. k = KindOf(y) /\ e = id.kind /\ dir = ends.reverse
        BY <1>4, <1>9, <2>4, <3>2, <3>6, EdgeSlotOfKinds
      <4>2. r[1] = SeqOf(y)
        BY <3>6
      <4> QED BY <2>3, <2>4, <4>1, <4>2
    <3> QED BY <3>3, <3>4, <3>5, <3>6
  <2>7. Traces(edge_removals, current)'
    BY <2>2, <2>6 DEF Traces
  <2>8. HalvesSurvive(edge_halves)'
    <3>1. \A k \in NodeKinds, dir \in Directions, e \in EdgeKinds : edge_storage_slot(k, dir, e) \in EdgeSlots
      BY EdgeSlotOfKinds
    <3> QED BY <1>13, <1>15, <3>1 DEF HalvesSurvive, BetweenSurvivors
  <2> QED BY <1>13, <1>15, <2>7, <2>8 DEF TracedInv, RemovalsPass, ReplacedInv, InsertedInv
<1> QED BY <1>11, <1>12, <1>14, <1>15

LEMMA PreparePropertyUpdatesTraced == ASSUME IInv, TracedInv, PreparePropertyUpdates PROVE TracedInv'
<1>1. CASE \E outcome : RollBack(outcome)
  BY <1>1, RollBackTraced
<1>2. CASE /\ pc' = "removals"
           /\ UNCHANGED <<nodes, edges, properties, client_vars, current, cursor, result,
                          strings_baseline, node_tombstones, property_updates, edge_removals,
                          edge_replacements, property_appends, node_remapper, edge_halves,
                          edge_inserts>>
  <2>1. UNCHANGED <<nodes, edges, diff, current, edge_removals, edge_halves, edge_replacements, node_tombstones>>
    BY <1>2 DEF client_vars
  <2>2. ~ WithRemovals' /\ pc' # "staged" /\ pc # "idle" /\ pc' # "idle"
    BY <1>2 DEF WithRemovals, PreparePropertyUpdates
  <2> QED BY <2>1, <2>2, OtherStepTraced
<1> QED BY <1>1, <1>2 DEF PreparePropertyUpdates

LEMMA PrepareNewNodesTraced == ASSUME IInv, TracedInv, PrepareNewNodes PROVE TracedInv'
<1>1. CASE \E outcome : RollBack(outcome)
  BY <1>1, RollBackTraced
<1>2. CASE /\ pc' = "new edges"
           /\ UNCHANGED <<nodes, edges, properties, client_vars, current, result,
                          strings_baseline, node_tombstones, property_updates, edge_removals,
                          property_replacements, edge_replacements, edge_halves, edge_inserts>>
  <2>1. UNCHANGED <<nodes, edges, diff, current, edge_removals, edge_halves, edge_replacements, node_tombstones>>
    BY <1>2 DEF client_vars
  <2>2. WithRemovals /\ pc' # "staged" /\ pc # "idle" /\ pc' # "idle"
    BY <1>2 DEF WithRemovals, PrepareNewNodes
  <2> QED BY <2>1, <2>2, OtherStepTraced
<1> QED BY <1>1, <1>2 DEF PrepareNewNodes

\* What is to be taken out has passed.
LEMMA PrepareEdgeRemovalsTraced == ASSUME IInv, TracedInv, PrepareEdgeRemovals PROVE TracedInv'
<1>1. CASE \E outcome : RollBack(outcome)
  BY <1>1, RollBackTraced
<1>2. CASE /\ AllPass(EdgeSlots, RemovalCheck)
           /\ edge_replacements' =
                [s \in {s \in EdgeSlots : edge_removals[s] # {} /\ edges[s].offsets # <<>>} |->
                   WithoutEdges(edges[s], edge_removals[s])]
           /\ pc' = "new nodes"
           /\ UNCHANGED <<graph_vars, client_vars, current, cursor, result,
                          strings_baseline, node_tombstones, property_updates, edge_removals,
                          property_replacements, property_appends, node_remapper, edge_halves,
                          edge_inserts>>
  <2>1. UNCHANGED <<nodes, edges, diff, current, edge_removals, edge_halves, node_tombstones>>
    BY <1>2 DEF client_vars, graph_vars
  <2>2. ASSUME NEW s \in RemovedSlots PROVE RemovalsFit(edges[s], edge_removals[s])
    <3>1. Standing[SlotNodeKind(s)] \in Nat /\ s \in EdgeSlots /\ edges[s].offsets # <<>>
      BY SlotKinds, Counts DEF IInv, ControlInv, RemovedSlots
    <3>2. EdgeSlotSound(edges[s], Standing[SlotNodeKind(s)], EdgeProperty[SlotEdgeKind(s)].typ)
      BY <3>1 DEF IInv, GraphInv, EdgeSlotKept
    <3>3. RemovalError(edges[s], edge_removals[s]) = Ok
      BY <1>2, <3>1 DEF AllPass, RemovalCheck
    <3>4. edge_removals[s] \subseteq Nat \X Nat
      BY <3>1 DEF IInv, StagedInv, ChangesInv
    <3> QED BY <3>1, <3>2, <3>3, <3>4, RemovalPasses
  <2>3. ReplacedInv' /\ RemovalsPass'
    BY <1>2, <2>1, <2>2 DEF ReplacedInv, RemovalsPass, RemovedSlots
  <2>4. Traces(edge_removals, current)' /\ HalvesSurvive(edge_halves)'
    BY <2>1, TracesKept, SurvivorsKept DEF TracedInv
  <2> QED BY <1>2, <2>3, <2>4 DEF TracedInv, InsertedInv
<1> QED BY <1>1, <1>2 DEF PrepareEdgeRemovals

\* One more half at a node that survives.
LEMMA SurvivorAdded ==
  ASSUME NEW S, NEW halves \in Seq(S), NEW k, BetweenSurvivors(halves, k), NEW half \in S,
         Survives(<<k, half.seq>>), Survives(half.neighbor)
  PROVE  BetweenSurvivors(Append(halves, half), k)
<1>1. \A i \in 1 .. Len(Append(halves, half)) :
        Append(halves, half)[i] = half \/ (i \in 1 .. Len(halves) /\ Append(halves, half)[i] = halves[i])
  BY OneMore
<1> QED BY <1>1 DEF BetweenSurvivors

\* An edge is staged between nodes that are not deleted, before or by the diff.
LEMMA StageNewEdgeTraced == ASSUME IInv, TracedInv, StageNewEdge PROVE TracedInv'
<1>1. /\ pc = "new edges" /\ cursor <= Len(diff[current].new_edges)
      /\ UNCHANGED <<nodes, edges, properties, client_vars, pc, current, result,
                     strings_baseline, node_tombstones, property_updates, edge_removals,
                     property_replacements, edge_replacements, property_appends, node_remapper,
                     edge_inserts>>
  BY DEF StageNewEdge
<1>2. UNCHANGED <<nodes, edges, diff, current, pc, edge_removals, edge_replacements, node_tombstones>>
  BY <1>1 DEF client_vars
<1>3. HalvesSurvive(edge_halves')
  <2>1. CASE UNCHANGED edge_halves
    BY <2>1 DEF TracedInv
  <2>2. CASE EdgeUsable /\ ~ UNCHANGED edge_halves
    <3>1. PICK property : property = {Stored(p, strings') : p \in NewEdge.property}
      OBVIOUS
    <3>2. PICK src : src = Answer(resolve_node_ref(NewEdge.src))
      OBVIOUS
    <3>3. PICK dst : dst = Answer(resolve_node_ref(NewEdge.dst))
      OBVIOUS
    <3>4. PICK there : there = [seq |-> SeqOf(src), neighbor |-> dst, property |-> property]
      OBVIOUS
    <3>5. PICK back : back = [seq |-> SeqOf(dst), neighbor |-> src, property |-> property]
      OBVIOUS
    <3>6. PICK o : o = edge_storage_slot(KindOf(src), Out, NewEdge.kind)
      OBVIOUS
    <3>7. PICK i : i = edge_storage_slot(KindOf(dst), In, NewEdge.kind)
      OBVIOUS
    <3>8. edge_halves' = [edge_halves EXCEPT ![o] = Append(@, there), ![i] = Append(@, back)]
      BY <2>2, <3>1, <3>2, <3>3, <3>4, <3>5, <3>6, <3>7 DEF StageNewEdge
    <3>9. /\ NewEdge.src \in NewOrExistingNode /\ NewEdge.dst \in NewOrExistingNode /\ NewEdge.kind \in EdgeKinds
      BY <1>1, NewEdgeIs DEF QueuedEdge, EdgeQueued
    <3>10. src \in RawNodeId /\ dst \in RawNodeId /\ KindOf(src) \in NodeKinds /\ KindOf(dst) \in NodeKinds
      <4>1. /\ Answer(resolve_node_ref(NewEdge.src)) \in RawNodeId
            /\ Named(Answer(resolve_node_ref(NewEdge.src)), Coming)
            /\ Answer(resolve_node_ref(NewEdge.dst)) \in RawNodeId
            /\ Named(Answer(resolve_node_ref(NewEdge.dst)), Coming)
        BY <1>1, <2>2, <3>9, EndIsNamed DEF EdgeUsable
      <4> QED BY <3>2, <3>3, <4>1 DEF Named
    <3>11. Survives(src) /\ Survives(dst) /\ src = <<KindOf(src), SeqOf(src)>> /\ dst = <<KindOf(dst), SeqOf(dst)>>
      BY <2>2, <3>2, <3>3, <3>10 DEF EdgeUsable, Usable, Survives, RawNodeId, KindOf, SeqOf
    <3>12. PICK S : S = [seq : Nat, neighbor : RawNodeId, property : SUBSET StoredProperty] \cup {there, back}
      OBVIOUS
    <3>13. \A s \in EdgeSlots : edge_halves[s] \in Seq(S)
      <4> TAKE s \in EdgeSlots
      <4>1. HalvesFit(edge_halves[s], Coming[SlotNodeKind(s)])
        BY <1>1 DEF IInv, StagedInv, HalvesInv, HalvesKept, WithNewNodes
      <4>2. edge_halves[s] \in Seq([seq : Nat, neighbor : RawNodeId, property : SUBSET StoredProperty])
        BY <4>1 DEF HalvesFit
      <4>3. [seq : Nat, neighbor : RawNodeId, property : SUBSET StoredProperty] \subseteq S
        BY <3>12
      <4> QED BY <4>2, <4>3, SeqMonotonic
    <3>14. /\ o \in EdgeSlots /\ SlotNodeKind(o) = KindOf(src) /\ SlotDirection(o) = Out
           /\ i \in EdgeSlots /\ SlotNodeKind(i) = KindOf(dst) /\ SlotDirection(i) = In
           /\ o # i /\ DOMAIN edge_halves = EdgeSlots
      <4>1. Out \in Directions /\ In \in Directions /\ Out # In
        BY DEF Directions, Out, In
      <4>2. DOMAIN edge_halves = EdgeSlots
        BY DEF IInv, StagedInv, HalvesInv
      <4> QED BY <3>6, <3>7, <3>9, <3>10, <4>1, <4>2, EdgeSlotOfKinds
    <3>15. /\ edge_halves'[o] = Append(edge_halves[o], there) /\ edge_halves'[i] = Append(edge_halves[i], back)
           /\ \A s \in EdgeSlots : s # o /\ s # i => edge_halves'[s] = edge_halves[s]
      BY <3>8, <3>14
    <3>16. ASSUME NEW k \in NodeKinds, NEW dir \in Directions, NEW e \in EdgeKinds
           PROVE  BetweenSurvivors(edge_halves'[edge_storage_slot(k, dir, e)], k)
      <4>1. PICK s : s = edge_storage_slot(k, dir, e)
        OBVIOUS
      <4>2. s \in EdgeSlots /\ SlotNodeKind(s) = k /\ edge_halves[s] \in Seq(S) /\ there \in S /\ back \in S
        BY <3>12, <3>13, <4>1, EdgeSlotOfKinds
      <4>3. BetweenSurvivors(edge_halves[s], k)
        BY <4>1 DEF TracedInv, HalvesSurvive
      <4>4. CASE s = o
        <5>1. there.seq = SeqOf(src) /\ there.neighbor = dst /\ k = KindOf(src)
          BY <3>4, <3>14, <4>2, <4>4
        <5>2. Survives(<<k, there.seq>>) /\ Survives(there.neighbor)
          BY <3>11, <5>1
        <5> QED BY <3>15, <4>1, <4>2, <4>3, <4>4, <5>2, SurvivorAdded
      <4>5. CASE s = i
        <5>1. back.seq = SeqOf(dst) /\ back.neighbor = src /\ k = KindOf(dst)
          BY <3>5, <3>14, <4>2, <4>5
        <5>2. Survives(<<k, back.seq>>) /\ Survives(back.neighbor)
          BY <3>11, <5>1
        <5> QED BY <3>15, <4>1, <4>2, <4>3, <4>5, <5>2, SurvivorAdded
      <4>6. CASE s # o /\ s # i
        BY <3>15, <4>1, <4>2, <4>3, <4>6
      <4> QED BY <4>4, <4>5, <4>6
    <3> QED BY <3>16 DEF HalvesSurvive
  <2> QED BY <2>1, <2>2 DEF StageNewEdge
<1>4. HalvesSurvive(edge_halves)'
  BY <1>2, <1>3, SurvivorsKept
<1>5. Traces(edge_removals, current)'
  BY <1>2, TracesKept DEF TracedInv
<1>6. ReplacedInv' /\ RemovalsPass'
  BY <1>2 DEF TracedInv, ReplacedInv, RemovalsPass, RemovedSlots, WithRemovals
<1> QED BY <1>1, <1>4, <1>5, <1>6 DEF TracedInv, InsertedInv

LEMMA PrepareNewEdgesTraced == ASSUME IInv, TracedInv, PrepareNewEdges PROVE TracedInv'
<1>1. CASE \E outcome : RollBack(outcome)
  BY <1>1, RollBackTraced
<1>2. CASE /\ AllPass(InsertSlots, InsertCheck)
           /\ edge_inserts' =
                [s \in InsertSlots |->
                   EdgeSlotInsert(edges[s].values.typ, InsertOffsets(s), edge_halves[s])]
           /\ pc' = "staged"
           /\ UNCHANGED <<graph_vars, client_vars, current, cursor, result,
                          strings_baseline, node_tombstones, property_updates, edge_removals,
                          property_replacements, edge_replacements, property_appends,
                          node_remapper, edge_halves>>
  <2>1. UNCHANGED <<nodes, edges, diff, current, edge_removals, edge_halves, edge_replacements, node_tombstones>>
    BY <1>2 DEF client_vars, graph_vars
  <2>2. pc = "new edges"
    BY DEF PrepareNewEdges
  <2>3. ReplacedInv' /\ RemovalsPass'
    BY <2>1, <2>2 DEF TracedInv, ReplacedInv, RemovalsPass, RemovedSlots, WithRemovals
  <2>4. /\ InsertSlots' = InsertSlots
        /\ \A s : InsertOffsets(s)' = InsertOffsets(s) /\ InsertCheck(s)' = InsertCheck(s)
    BY <2>1 DEF InsertSlots, InsertOffsets, InsertCheck, EdgeOffsets, NewCount, NewOfKind
  <2>5. InsertedInv'
    BY <1>2, <2>1, <2>4 DEF InsertedInv, AllPass
  <2>6. Traces(edge_removals, current)' /\ HalvesSurvive(edge_halves)'
    BY <2>1, TracesKept, SurvivorsKept DEF TracedInv
  <2> QED BY <1>2, <2>3, <2>5, <2>6 DEF TracedInv
<1> QED BY <1>1, <1>2 DEF PrepareNewEdges

\* No step loses the trace, whatever ids the caller uses.
LEMMA StepTraced == IInv /\ TracedInv /\ [Next]_vars => TracedInv'
<1> SUFFICES ASSUME IInv, TracedInv, [Next]_vars PROVE TracedInv'
  OBVIOUS
<1>1. CASE UNCHANGED vars
  <2>1. UNCHANGED <<nodes, edges, diff, pc, current, edge_removals, edge_halves, edge_replacements, edge_inserts,
                    node_tombstones>>
    BY <1>1 DEF vars, graph_vars, staged_vars, client_vars, control_vars
  <2>2. Traces(edge_removals, current)' /\ HalvesSurvive(edge_halves)'
    BY <2>1, TracesKept, SurvivorsKept DEF TracedInv
  <2>3. ReplacedInv' /\ RemovalsPass'
    BY <2>1 DEF TracedInv, ReplacedInv, RemovalsPass, RemovedSlots, WithRemovals
  <2>4. InsertedInv'
    <3>1. \A s \in EdgeSlots : InsertCheck(s)' = InsertCheck(s) /\ InsertOffsets(s)' = InsertOffsets(s)
      BY <2>1 DEF InsertCheck, InsertOffsets, EdgeOffsets, NewCount, NewOfKind
    <3>2. InsertSlots' = InsertSlots /\ InsertSlots \subseteq EdgeSlots
      BY <2>1 DEF InsertSlots, EdgeOffsets, NewCount, NewOfKind
    <3> QED BY <2>1, <3>1, <3>2 DEF TracedInv, InsertedInv
  <2> QED BY <2>1, <2>2, <2>3, <2>4 DEF TracedInv
<1>2. ASSUME NEW d \in Diffs,
             \/ add_node(d) \/ add_edge(d) \/ remove_node(d) \/ update_node_property(d)
             \/ remove_edge(d) \/ DropDiff(d) \/ BeginPrepare(d)
      PROVE  TracedInv'
  BY <1>2, ClientTraced
<1>3. CASE ClassifyRemoveNode \/ ClassifyUpdate \/ ClassifyRemoveEdge
  BY <1>3, ClassifyOthersTraced, ClassifyRemoveEdgeTraced
<1>4. CASE PreparePropertyUpdates \/ PrepareEdgeRemovals \/ PrepareNewNodes \/ StageNewEdge
           \/ PrepareNewEdges
  BY <1>4, PreparePropertyUpdatesTraced, PrepareEdgeRemovalsTraced, PrepareNewNodesTraced,
     StageNewEdgeTraced, PrepareNewEdgesTraced
<1>5. CASE commit
  BY <1>5, ReleasedTraced DEF commit
<1>6. CASE DropStaged
  BY <1>6, RollBackTraced DEF DropStaged
<1> QED BY <1>1, <1>2, <1>3, <1>4, <1>5, <1>6 DEF Next

LEMMA InitTraced == Init => TracedInv
<1> SUFFICES ASSUME Init PROVE TracedInv
  OBVIOUS
<1>1. \A s \in EdgeSlots : edge_removals[s] = {} /\ edge_halves[s] = <<>>
  BY DEF Init
<1>2. \A k \in NodeKinds, dir \in Directions, e \in EdgeKinds : edge_storage_slot(k, dir, e) \in EdgeSlots
  BY EdgeSlotOfKinds
<1>3. Traces(edge_removals, current)
  BY <1>1, <1>2 DEF Traces
<1>4. HalvesSurvive(edge_halves)
  BY <1>1, <1>2 DEF HalvesSurvive, BetweenSurvivors
<1>5. ~ WithRemovals /\ pc # "staged"
  BY DEF Init, WithRemovals
<1> QED BY <1>1, <1>3, <1>4, <1>5 DEF TracedInv, RemovalsPass, ReplacedInv, InsertedInv

LEMMA AlwaysTraced == Spec => []TracedInv
BY InitTraced, StepTraced, AlwaysIInv, PTL DEF Spec

(***************************************************************************)
(* What a commit does to a slot                                             *)
(***************************************************************************)
\* A slot without what the diff takes out of it.
LeftBehind(slot, before, removals) ==
  \/ slot = before /\ (removals = {} \/ before.offsets = <<>>)
  \/ slot = WithoutEdges(before, removals) /\ before.offsets # <<>> /\ RemovalsFit(before, removals)
\* A slot with what the diff brings.
Takes(after, slot, typ, halves, count) ==
  \/ after = slot /\ halves = <<>>
  \/ \E insert : InsertsHalves(insert, slot, typ, halves, count) /\ after = merge_edge_batches(slot, insert)

\* A committed slot is the one that was there, without the claimed half-edges and then
\* with the new ones.
LEMMA CommittedSlot ==
  ASSUME IInv, RemovalsPass, ReplacedInv, InsertedInv, pc = "staged", NEW s \in EdgeSlots
  PROVE  LET kind == SlotNodeKind(s)
             typ == EdgeProperty[SlotEdgeKind(s)].typ
         IN  /\ Standing[kind] \in Nat /\ Coming[kind] \in Nat /\ Standing[kind] <= Coming[kind]
             /\ EdgeSlotSound(edges[s], Standing[kind], typ)
             /\ EdgeSlotSound(CommittedEdges[s], Coming[kind], typ)
             /\ HalvesFit(edge_halves[s], Coming[kind])
             /\ \E slot : /\ EdgeSlotSound(slot, Standing[kind], typ)
                          /\ LeftBehind(slot, edges[s], edge_removals[s])
                          /\ Takes(CommittedEdges[s], slot, typ, edge_halves[s], Coming[kind])
<1>1. PICK kind : kind = SlotNodeKind(s)
  OBVIOUS
<1>2. PICK n : n = Standing[kind]
  OBVIOUS
<1>3. PICK m : m = NewCount(kind)
  OBVIOUS
<1>4. PICK typ : typ = EdgeProperty[SlotEdgeKind(s)].typ
  OBVIOUS
<1>5. PICK slot : slot = Replaced(edges, edge_replacements, s)
  OBVIOUS
<1>6. PICK halves : halves = edge_halves[s]
  OBVIOUS
<1>7. PICK offsets : offsets = Grown(slot.offsets, n + m + 1)
  OBVIOUS
<1>8. PICK insert : insert = EdgeSlotInsert(typ, offsets, halves)
  OBVIOUS
<1>9. n \in Nat /\ m \in Nat /\ n = Len(nodes[kind]) /\ Coming[kind] = n + m
  BY <1>1, <1>2, <1>3, SlotKinds, Counts DEF IInv, ControlInv
<1>10. /\ EdgeSlotSound(slot, n, typ) /\ edges[s].values.typ = typ /\ EdgeSlotSound(edges[s], n, typ)
  BY <1>1, <1>2, <1>4, <1>5
  DEF IInv, GraphInv, StagedInv, ReplacementsInv, EdgeSlotKept, Replaced, EdgeSlotSound
<1>11. HalvesFit(halves, n + m)
  BY <1>1, <1>6, <1>9 DEF IInv, StagedInv, HalvesInv, HalvesKept, WithNewNodes
<1>12. InsertOffsets(s) = offsets
  <2>1. EdgeOffsets(s) = slot.offsets
    BY <1>5 DEF EdgeOffsets, Replaced
  <2> QED BY <1>1, <1>3, <1>7, <1>9, <2>1 DEF InsertOffsets, Grown
<1>13. /\ \A t \in InsertSlots : InsertCheck(t) = Ok
       /\ edge_inserts = [t \in InsertSlots |-> EdgeSlotInsert(edges[t].values.typ, InsertOffsets(t), edge_halves[t])]
  BY DEF InsertedInv
<1>14. CommittedEdges[s] = IF s \in InsertSlots THEN merge_edge_batches(slot, insert) ELSE slot
  BY <1>5, <1>6, <1>8, <1>10, <1>12, <1>13 DEF CommittedEdges
<1>15. Takes(CommittedEdges[s], slot, typ, halves, n + m)
  <2>1. CASE s \in InsertSlots
    <3>1. InsertError(typ, offsets, halves) = Ok
      BY <1>6, <1>10, <1>12, <1>13, <2>1 DEF InsertCheck
    <3>2. InsertsHalves(insert, slot, typ, halves, n + m)
      BY <1>7, <1>8, <3>1 DEF InsertsHalves
    <3> QED BY <1>14, <2>1, <3>2 DEF Takes
  <2>2. CASE s \notin InsertSlots
    BY <1>6, <1>14, <2>2 DEF InsertSlots, Takes
  <2> QED BY <2>1, <2>2
<1>16. LeftBehind(slot, edges[s], edge_removals[s])
  <2>1. edge_replacements = [t \in RemovedSlots |-> WithoutEdges(edges[t], edge_removals[t])]
    BY DEF ReplacedInv, WithRemovals
  <2>2. CASE s \in RemovedSlots
    <3>1. slot = WithoutEdges(edges[s], edge_removals[s])
      BY <1>5, <2>1, <2>2 DEF Replaced
    <3> QED BY <2>2, <3>1 DEF LeftBehind, RemovedSlots, RemovalsPass, WithRemovals
  <2>3. CASE s \notin RemovedSlots
    BY <1>5, <2>1, <2>3 DEF Replaced, LeftBehind, RemovedSlots
  <2> QED BY <2>2, <2>3
<1>17. EdgeSlotSound(CommittedEdges[s], Coming[kind], typ)
  BY <1>1, <1>4 DEF IInv, StagedInv, InsertsInv, EdgeSlotKept
<1> QED BY <1>1, <1>2, <1>4, <1>6, <1>9, <1>10, <1>11, <1>15, <1>16, <1>17

\* How many half-edges a run of a sound slot has.
LEMMA RunDegree ==
  ASSUME NEW n \in Nat, NEW typ, NEW slot, EdgeSlotSound(slot, n, typ), NEW seq \in Nat, HasOffset(slot, seq)
  PROVE  /\ Degree(slot, seq) \in Nat /\ slot.values.typ = typ
         /\ Run(slot, seq) = Start(slot, seq) + 1 .. Start(slot, seq) + Degree(slot, seq)
<1>1. Start(slot, seq) \in Nat /\ End(slot, seq) \in Nat /\ Start(slot, seq) <= End(slot, seq)
  BY RunReads
<1>2. slot.values.typ = typ
  BY DEF EdgeSlotSound
<1>3. Start(slot, seq) + Degree(slot, seq) = End(slot, seq) /\ Degree(slot, seq) \in Nat
  BY <1>1 DEF Degree
<1> QED BY <1>2, <1>3 DEF Run

\* A commit leaves the half-edges of a run where they are, unless its diff removes edges of
\* that run.
LEMMA CommittedStays ==
  ASSUME IInv, RemovalsPass, ReplacedInv, InsertedInv, pc = "staged", NEW s \in EdgeSlots,
         NEW seq \in Nat, \A r \in edge_removals[s] : r[1] # seq
  PROVE  RunStays(CommittedEdges[s], edges[s], seq)
<1>1. PICK n : n = Standing[SlotNodeKind(s)]
  OBVIOUS
<1>2. PICK m : m = Coming[SlotNodeKind(s)]
  OBVIOUS
<1>3. PICK typ : typ = EdgeProperty[SlotEdgeKind(s)].typ
  OBVIOUS
<1>4. PICK before : before = edges[s]
  OBVIOUS
<1>5. PICK after : after = CommittedEdges[s]
  OBVIOUS
<1>6. PICK halves : halves = edge_halves[s]
  OBVIOUS
<1>7. PICK removals : removals = edge_removals[s]
  OBVIOUS
<1>8. /\ n \in Nat /\ m \in Nat /\ n <= m
      /\ EdgeSlotSound(before, n, typ) /\ EdgeSlotSound(after, m, typ) /\ HalvesFit(halves, m)
      /\ \E slot : /\ EdgeSlotSound(slot, n, typ) /\ LeftBehind(slot, before, removals)
                   /\ Takes(after, slot, typ, halves, m)
  BY <1>1, <1>2, <1>3, <1>4, <1>5, <1>6, <1>7, CommittedSlot
<1>9. PICK slot : /\ EdgeSlotSound(slot, n, typ) /\ LeftBehind(slot, before, removals)
                  /\ Takes(after, slot, typ, halves, m)
  BY <1>8
<1>10. \A r \in removals : r[1] # seq
  BY <1>7
<1>11. ASSUME NEW x, x = before \/ x = slot \/ x = after
       PROVE  HasOffset(x, seq) => Degree(x, seq) \in Int
  <2>1. CASE x = after
    BY <1>8, <2>1, RunDegree
  <2>2. CASE x # after
    BY <1>8, <1>9, <1>11, <2>2, RunDegree
  <2> QED BY <2>1, <2>2
<1>12. ASSUME NEW x, x = before \/ x = slot \/ x = after PROVE RunStays(x, x, seq)
  <2>1. HasOffset(x, seq) => Degree(x, seq) \in Int
    BY <1>11, <1>12
  <2> QED BY <2>1 DEF RunStays, SameHalf
<1>13. RunStays(slot, before, seq)
  <2>1. CASE slot = before
    BY <1>12, <2>1
  <2>2. CASE /\ slot = WithoutEdges(before, removals) /\ before.offsets # <<>>
             /\ RemovalsFit(before, removals)
    BY <1>8, <1>10, <2>2, StaysWithout
  <2> QED BY <1>9, <2>1, <2>2 DEF LeftBehind
<1>14. RunStays(after, slot, seq)
  <2>1. CASE after = slot
    BY <1>12, <2>1
  <2>2. CASE \E insert : InsertsHalves(insert, slot, typ, halves, m) /\ after = merge_edge_batches(slot, insert)
    BY <1>8, <1>9, <2>2, StaysInserted
  <2> QED BY <1>9, <2>1, <2>2 DEF Takes
<1>15. slot.values.typ = before.values.typ
  BY <1>8, <1>9 DEF EdgeSlotSound
<1>16. RunStays(after, before, seq)
  BY <1>11, <1>13, <1>14, <1>15, StaysOnwards
<1> QED BY <1>4, <1>5, <1>16

\* The ids of a run that stays still name its half-edges, with their values.
LEMMA IdsStay ==
  ASSUME NEW g, NEW h, NEW node \in NodeNames, NEW kind, NEW dir \in Directions,
         NEW before, before = EdgeSlotOf(g, node, kind, dir), NEW after, after = EdgeSlotOf(h, node, kind, dir),
         NEW n \in Nat, NEW m \in Nat, NEW typ, EdgeSlotSound(before, n, typ), EdgeSlotSound(after, m, typ),
         RunStays(after, before, SeqOf(node)), NEW id \in get_edges_with_deleted(g, node, kind, dir)
  PROVE  /\ id \in get_edges_with_deleted(h, node, kind, dir)
         /\ get_edge_property(h, id) = get_edge_property(g, id)
<1>1. PICK seq : seq = SeqOf(node)
  OBVIOUS
<1>2. get_edges_with_deleted(g, node, kind, dir) = {IdAt(before, node, kind, dir, p) : p \in Run(before, seq)}
  BY <1>1, EdgesRead
<1>3. PICK p \in Run(before, seq) : id = IdAt(before, node, kind, dir, p)
  BY <1>2
<1>4. HasOffset(before, seq) /\ seq \in Nat
  BY <1>1, <1>3, NameParts DEF Run
<1>5. HasOffset(after, seq) /\ Degree(before, seq) <= Degree(after, seq)
  BY <1>1, <1>4 DEF RunStays
<1>6. PICK a : a = Start(before, seq)
  OBVIOUS
<1>7. PICK b : b = Start(after, seq)
  OBVIOUS
<1>8. PICK d : d = Degree(before, seq)
  OBVIOUS
<1>9. PICK e : e = Degree(after, seq)
  OBVIOUS
<1>10. /\ a \in Nat /\ b \in Nat /\ d \in Nat /\ e \in Nat /\ d <= e
       /\ Run(before, seq) = a + 1 .. a + d /\ Run(after, seq) = b + 1 .. b + e
       /\ before.values.typ = typ /\ after.values.typ = typ
  BY <1>4, <1>5, <1>6, <1>7, <1>8, <1>9, RunDegree, RunReads
<1>11. PICK l : l = p - a
  OBVIOUS
<1>12. l \in 1 .. d /\ a + l = p /\ b + l \in b + 1 .. b + e /\ (b + l) - b - 1 = p - a - 1
  BY <1>3, <1>10, <1>11
<1>13. PICK q : q = b + l
  OBVIOUS
<1>14. q \in Run(after, seq) /\ q - b - 1 = p - a - 1
  BY <1>10, <1>12, <1>13
<1>15. SameHalf(after, q, before, p)
  <2>1. SameHalf(after, Start(after, seq) + l, before, Start(before, seq) + l)
    BY <1>1, <1>4, <1>8, <1>12 DEF RunStays
  <2> QED BY <1>6, <1>7, <1>12, <1>13, <2>1
<1>16. IdAt(after, node, kind, dir, q) = id
  BY <1>1, <1>3, <1>6, <1>7, <1>14, <1>15 DEF IdAt, SameHalf
<1>17. get_edges_with_deleted(h, node, kind, dir) = {IdAt(after, node, kind, dir, x) : x \in Run(after, seq)}
  BY <1>1, EdgesRead
<1>18. id \in get_edges_with_deleted(h, node, kind, dir)
  BY <1>14, <1>16, <1>17
<1>19. get_edge_property(g, id) = {ReadAt(before, typ, p)}
  BY <1>1, <1>3, IdRead
<1>20. get_edge_property(h, id) = {ReadAt(after, typ, q)}
  BY <1>1, <1>14, <1>16, IdRead
<1>21. ReadAt(after, typ, q) = ReadAt(before, typ, p)
  BY <1>10, <1>15 DEF ReadAt, SameHalf
<1> QED BY <1>18, <1>19, <1>20, <1>21

\* What a caller's id goes on naming.
IdKept(id, g, h) == id \in EdgeIds(h) /\ get_edge_property(h, id) = get_edge_property(g, id)

LEMMA CommitKeepsIds ==
  ASSUME IInv, IInv', TracedInv, commit, NEW id \in EdgeIds(graph), RunOf(id) \notin RunsRemovedFrom(current)
  PROVE  IdKept(id, graph, graph')
<1>1. PICK node \in NodeIds(graph), kind \in EdgeKinds, dir \in Directions :
        id \in get_edges_with_deleted(graph, node, kind, dir)
  BY DEF EdgeIds
<1>2. pc = "staged" /\ edges' = CommittedEdges /\ nodes' = CommittedNodes
  BY DEF commit
<1>3. PICK g : g = graph
  OBVIOUS
<1>4. PICK h : h = graph'
  OBVIOUS
<1>5. g.edges = edges /\ h.edges = CommittedEdges /\ h.nodes = CommittedNodes
  BY <1>2, <1>3, <1>4 DEF graph
<1>6. node \in NodeNames /\ node \in NodeIds(h)
  <2>1. node \in NodeNames /\ Exists(node)
    BY <1>1, NodesNamed DEF IInv
  <2>2. KindOf(node) \in NodeKinds /\ SeqOf(node) \in Nat /\ node = <<KindOf(node), SeqOf(node)>>
    BY <2>1, NameParts DEF RawNodeId, KindOf, SeqOf
  <2>3. SeqOf(node) < Len(nodes[KindOf(node)])
    BY <2>1 DEF Exists
  <2>4. /\ Len(nodes[KindOf(node)]) \in Nat /\ Len(CommittedNodes[KindOf(node)]) \in Nat
        /\ Len(nodes[KindOf(node)]) <= Len(CommittedNodes[KindOf(node)])
    BY <1>2, <2>2, CommittedKind, LenProperties
  <2>5. SeqOf(node) \in 0 .. Len(CommittedNodes[KindOf(node)]) - 1
    BY <2>2, <2>3, <2>4
  <2> QED BY <1>5, <2>1, <2>2, <2>5 DEF NodeIds
<1>7. PICK s \in EdgeSlots : s = edge_storage_slot(KindOf(node), dir, kind)
  BY <1>1, <1>6, NameParts, EdgeSlotOfKinds
<1>8. EdgeSlotOf(g, node, kind, dir) = edges[s] /\ EdgeSlotOf(h, node, kind, dir) = CommittedEdges[s]
  BY <1>5, <1>7 DEF EdgeSlotOf
<1>9. PICK seq : seq = SeqOf(node)
  OBVIOUS
<1>10. PICK n, m, typ : /\ n \in Nat /\ m \in Nat
                        /\ EdgeSlotSound(edges[s], n, typ) /\ EdgeSlotSound(CommittedEdges[s], m, typ)
  BY <1>2, CommittedSlot DEF TracedInv
<1>11. RunOf(id) = <<node, kind, dir>>
  <2>1. get_edges_with_deleted(g, node, kind, dir) = {IdAt(edges[s], node, kind, dir, p) : p \in Run(edges[s], seq)}
    BY <1>6, <1>8, <1>9, <1>10, EdgesRead
  <2>2. PICK p \in Run(edges[s], seq) : id = IdAt(edges[s], node, kind, dir, p)
    BY <1>1, <1>3, <2>1
  <2>3. Describes(id, edges[s], node, kind, dir, p)
    BY <1>1, <1>6, <1>8, <1>9, <1>10, <2>2, IdRead
  <2> QED BY <1>1, <2>3 DEF Describes, RunOf, Directions, Out, In
<1>12. \A r \in edge_removals[s] : r[1] # seq
  <2> SUFFICES ASSUME NEW r \in edge_removals[s], r[1] = seq PROVE FALSE
    OBVIOUS
  <2>1. <<<<KindOf(node), r[1]>>, kind, dir>> \in RunsRemovedFrom(current)
    BY <1>1, <1>6, <1>7, NameParts DEF TracedInv, Traces
  <2>2. node = <<KindOf(node), seq>>
    BY <1>6, <1>9, NameParts DEF RawNodeId, KindOf, SeqOf
  <2> QED BY <1>11, <2>1, <2>2
<1>13. RunStays(CommittedEdges[s], edges[s], seq)
  BY <1>2, <1>6, <1>9, <1>12, NameParts, CommittedStays DEF TracedInv
<1>14. /\ id \in get_edges_with_deleted(h, node, kind, dir)
       /\ get_edge_property(h, id) = get_edge_property(g, id)
  BY <1>1, <1>3, <1>6, <1>8, <1>9, <1>10, <1>13, IdsStay
<1>15. id \in EdgeIds(h)
  BY <1>1, <1>6, <1>14 DEF EdgeIds
<1> QED BY <1>3, <1>4, <1>14, <1>15 DEF IdKept

\* An edge id a caller keeps goes on naming the same edge, with the same value, through
\* every step but a commit that removes edges of the run the id counts in: whatever ids the
\* diffs use, fresh or not, no other step moves a half-edge within its run.
THEOREM OnlyRemovalsEverMoveIds == Spec => OnlyRemovalsMoveIds
<1> DEFINE StillNamed == \A id \in EdgeIds(graph) :
                     RunOf(id) \notin RunsRemovedFrom(current) =>
                       /\ id \in EdgeIds(graph')
                       /\ get_edge_property(graph', id) = get_edge_property(graph, id)
<1>1. ASSUME IInv, IInv', TracedInv, commit PROVE StillNamed
  BY <1>1, CommitKeepsIds DEF IdKept
<1>2. ASSUME UNCHANGED <<nodes, edges>> PROVE StillNamed
  <2>1. PICK g : g = graph
    OBVIOUS
  <2>2. PICK h : h = graph'
    OBVIOUS
  <2>3. g.nodes = h.nodes /\ g.edges = h.edges
    BY <1>2, <2>1, <2>2 DEF graph
  <2>4. EdgeIds(g) = EdgeIds(h)
    BY <2>3, EdgeIdsSame
  <2>5. \A id : get_edge_property(h, id) = get_edge_property(g, id)
    BY <2>3 DEF get_edge_property, EdgeSlotOf
  <2> QED BY <2>1, <2>2, <2>4, <2>5
<1>3. IInv /\ IInv' /\ TracedInv /\ [Next]_vars => StillNamed
  <2>1. UNCHANGED vars => UNCHANGED <<nodes, edges>>
    BY DEF vars, graph_vars
  <2> HIDE DEF StillNamed
  <2> QED BY <1>1, <1>2, <2>1, GraphWritten
<1> HIDE DEF StillNamed
<1>4. Spec => [][StillNamed]_graph_vars
  BY <1>3, AlwaysIInv, AlwaysTraced, PTL DEF Spec
<1> QED BY <1>4 DEF OnlyRemovalsMoveIds, StillNamed

(***************************************************************************)
(* What deleted nodes gain                                                  *)
(***************************************************************************)
\* A graph whose slots can be walked, and that has the nodes the slots have offsets for.
Walkable(g) ==
  /\ \A s \in EdgeSlots : \E n \in Nat : \E typ : EdgeSlotSound(g.edges[s], n, typ)
  /\ NodeIds(g) \subseteq NodeNames
  /\ \A x \in NodeNames, kind \in EdgeKinds, dir \in Directions :
       HasOffset(EdgeSlotOf(g, x, kind, dir), SeqOf(x)) => x \in NodeIds(g)
\* An id names the half-edge at position p of a run.
Located(id, g, x, kind, dir, p) ==
  /\ x \in NodeIds(g) /\ kind \in EdgeKinds /\ dir \in Directions
  /\ p \in Run(EdgeSlotOf(g, x, kind, dir), SeqOf(x))
  /\ id = IdAt(EdgeSlotOf(g, x, kind, dir), x, kind, dir, p)

LEMMA SlotOfNode ==
  ASSUME NEW g, Walkable(g), NEW x \in NodeNames, NEW kind \in EdgeKinds, NEW dir \in Directions
  PROVE  \E n \in Nat : \E typ : EdgeSlotSound(EdgeSlotOf(g, x, kind, dir), n, typ)
<1>1. PICK s \in EdgeSlots : s = edge_storage_slot(KindOf(x), dir, kind)
  BY NameParts, EdgeSlotOfKinds
<1> QED BY <1>1 DEF Walkable, EdgeSlotOf

\* The ids of a graph are those of the half-edges of its nodes.
LEMMA IdsLocated ==
  ASSUME NEW g, Walkable(g)
  PROVE  \A id : id \in EdgeIds(g) <=> \E x, kind, dir, p : Located(id, g, x, kind, dir, p)
<1>1. ASSUME NEW x \in NodeIds(g), NEW kind \in EdgeKinds, NEW dir \in Directions
      PROVE  get_edges_with_deleted(g, x, kind, dir)
               = {IdAt(EdgeSlotOf(g, x, kind, dir), x, kind, dir, p) : p \in Run(EdgeSlotOf(g, x, kind, dir), SeqOf(x))}
  <2>1. x \in NodeNames
    BY DEF Walkable
  <2>2. PICK slot : slot = EdgeSlotOf(g, x, kind, dir)
    OBVIOUS
  <2>3. PICK n \in Nat : \E typ : EdgeSlotSound(slot, n, typ)
    BY <2>1, <2>2, SlotOfNode
  <2>4. PICK typ : EdgeSlotSound(slot, n, typ)
    BY <2>3
  <2> QED BY <2>1, <2>2, <2>4, EdgesRead
<1>2. ASSUME NEW id \in EdgeIds(g) PROVE \E x, kind, dir, p : Located(id, g, x, kind, dir, p)
  <2>1. PICK x \in NodeIds(g), kind \in EdgeKinds, dir \in Directions :
          id \in get_edges_with_deleted(g, x, kind, dir)
    BY DEF EdgeIds
  <2>2. PICK p \in Run(EdgeSlotOf(g, x, kind, dir), SeqOf(x)) : id = IdAt(EdgeSlotOf(g, x, kind, dir), x, kind, dir, p)
    BY <1>1, <2>1
  <2> QED BY <2>1, <2>2 DEF Located
<1>3. ASSUME NEW id, NEW x, NEW kind, NEW dir, NEW p, Located(id, g, x, kind, dir, p) PROVE id \in EdgeIds(g)
  <2>1. id \in get_edges_with_deleted(g, x, kind, dir)
    BY <1>1, <1>3 DEF Located
  <2> QED BY <1>3, <2>1 DEF Located, EdgeIds
<1> QED BY <1>2, <1>3

\* What an id tells of where it is.
LEMMA LocatedAt ==
  ASSUME NEW g, Walkable(g), NEW id, NEW x, NEW kind, NEW dir, NEW p, Located(id, g, x, kind, dir, p)
  PROVE  /\ x \in NodeNames /\ Describes(id, EdgeSlotOf(g, x, kind, dir), x, kind, dir, p)
         /\ Start(EdgeSlotOf(g, x, kind, dir), SeqOf(x)) \in Nat /\ p \in Nat
<1>1. x \in NodeNames
  BY DEF Walkable, Located
<1>2. PICK slot : slot = EdgeSlotOf(g, x, kind, dir)
  OBVIOUS
<1>3. PICK n \in Nat : \E typ : EdgeSlotSound(slot, n, typ)
  BY <1>1, <1>2, SlotOfNode DEF Located
<1>4. PICK typ : EdgeSlotSound(slot, n, typ)
  BY <1>3
<1>5. kind \in EdgeKinds /\ dir \in Directions /\ p \in Run(slot, SeqOf(x)) /\ id = IdAt(slot, x, kind, dir, p)
  BY <1>2 DEF Located
<1> QED BY <1>1, <1>2, <1>4, <1>5, IdRead

LEMMA LocatedOnce ==
  ASSUME NEW g, Walkable(g), NEW id,
         NEW x, NEW kind, NEW dir, NEW p, Located(id, g, x, kind, dir, p),
         NEW y, NEW other, NEW way, NEW q, Located(id, g, y, other, way, q)
  PROVE  x = y /\ kind = other /\ dir = way /\ p = q
<1>1. /\ Describes(id, EdgeSlotOf(g, x, kind, dir), x, kind, dir, p)
      /\ Start(EdgeSlotOf(g, x, kind, dir), SeqOf(x)) \in Nat /\ p \in Nat
  BY LocatedAt
<1>2. /\ Describes(id, EdgeSlotOf(g, y, other, way), y, other, way, q)
      /\ Start(EdgeSlotOf(g, y, other, way), SeqOf(y)) \in Nat /\ q \in Nat
  BY LocatedAt
<1>3. x = y /\ kind = other /\ dir = way
  BY <1>1, <1>2 DEF Describes
<1>4. PICK a : a = Start(EdgeSlotOf(g, x, kind, dir), SeqOf(x))
  OBVIOUS
<1>5. a \in Nat /\ id.seq = p - a - 1 /\ id.seq = q - a - 1
  BY <1>1, <1>2, <1>3, <1>4 DEF Describes
<1> QED BY <1>1, <1>2, <1>3, <1>5

LEMMA FinitelyMany ==
  ASSUME NEW S, IsFiniteSet(S), NEW f, DOMAIN f = S
  PROVE  IsFiniteSet({f[x] : x \in S})
<1>1. PICK T : T = {f[x] : x \in S}
  OBVIOUS
<1>2. PICK m : m = [x \in S |-> f[x]]
  OBVIOUS
<1>3. m \in [S -> T] /\ \A y \in T : \E x \in S : m[x] = y
  BY <1>1, <1>2
<1>4. m \in Surjection(S, T)
  BY <1>3, Zenon DEF Surjection
<1> QED BY <1>1, <1>4, FS_Surjection

\* A graph has finitely many nodes and edge ids.
LEMMA NodeIdsFinite ==
  ASSUME NEW g, \A k \in NodeKinds : Len(g.nodes[k]) \in Nat
  PROVE  IsFiniteSet(NodeIds(g))
<1>1. IsFiniteSet(NodeKinds)
  BY SchemaAssumption, FS_Interval DEF NodeKinds
<1>2. PICK of : of = [k \in NodeKinds |-> {<<k, s>> : s \in 0 .. Len(g.nodes[k]) - 1}]
  OBVIOUS
<1>3. ASSUME NEW k \in NodeKinds PROVE IsFiniteSet(of[k])
  <2>1. PICK last : last = Len(g.nodes[k]) - 1
    OBVIOUS
  <2>2. IsFiniteSet(0 .. last)
    BY <2>1, FS_Interval
  <2>3. PICK f : f = [s \in 0 .. last |-> <<k, s>>]
    OBVIOUS
  <2>4. IsFiniteSet({f[s] : s \in 0 .. last})
    <3>1. DOMAIN f = 0 .. last
      BY <2>3
    <3> QED BY <2>2, <3>1, FinitelyMany, Zenon
  <2>5. {f[s] : s \in 0 .. last} = of[k]
    BY <1>2, <2>1, <2>3
  <2> QED BY <2>4, <2>5
<1>4. IsFiniteSet({of[k] : k \in NodeKinds})
  <2>1. DOMAIN of = NodeKinds
    BY <1>2
  <2> QED BY <1>1, <2>1, FinitelyMany, Zenon
<1>5. IsFiniteSet(UNION {of[k] : k \in NodeKinds})
  BY <1>3, <1>4, FS_UNION
<1>6. NodeIds(g) = UNION {of[k] : k \in NodeKinds}
  BY <1>2 DEF NodeIds
<1> QED BY <1>5, <1>6

LEMMA EdgeIdsFinite ==
  ASSUME NEW g, Walkable(g), \A k \in NodeKinds : Len(g.nodes[k]) \in Nat
  PROVE  IsFiniteSet(EdgeIds(g))
<1>1. PICK all : all = NodeIds(g) \X (EdgeKinds \X Directions)
  OBVIOUS
<1>2. IsFiniteSet(all)
  <2>1. IsFiniteSet(EdgeKinds) /\ IsFiniteSet(Directions)
    <3>1. EdgeKinds = 0 .. EdgeKindCount - 1 /\ EdgeKindCount - 1 \in Int /\ Directions = 0 .. 1
      BY SchemaAssumption DEF EdgeKinds, Directions, Out, In
    <3>2. \A b \in Int : IsFiniteSet(0 .. b)
      BY FS_Interval
    <3>3. IsFiniteSet(0 .. EdgeKindCount - 1)
      BY <3>1, <3>2
    <3>4. IsFiniteSet(0 .. 1)
      BY <3>2, 1 \in Int, Zenon
    <3> QED BY <3>1, <3>3, <3>4
  <2>2. IsFiniteSet(EdgeKinds \X Directions)
    BY <2>1, FS_Product
  <2> QED BY <1>1, <2>2, NodeIdsFinite, FS_Product
<1>3. PICK ids : ids = [t \in all |-> get_edges_with_deleted(g, t[1], t[2][1], t[2][2])]
  OBVIOUS
<1>4. ASSUME NEW t \in all PROVE IsFiniteSet(ids[t])
  <2>1. PICK x : x = t[1]
    OBVIOUS
  <2>2. PICK kind : kind = t[2][1]
    OBVIOUS
  <2>3. PICK dir : dir = t[2][2]
    OBVIOUS
  <2>4. x \in NodeNames /\ kind \in EdgeKinds /\ dir \in Directions
    BY <1>1, <2>1, <2>2, <2>3 DEF Walkable
  <2>14. ids[t] = get_edges_with_deleted(g, x, kind, dir)
    BY <1>3, <2>1, <2>2, <2>3
  <2>5. PICK slot : slot = EdgeSlotOf(g, x, kind, dir)
    OBVIOUS
  <2>6. PICK n \in Nat : \E typ : EdgeSlotSound(slot, n, typ)
    BY <2>4, <2>5, SlotOfNode
  <2>7. PICK typ : EdgeSlotSound(slot, n, typ)
    BY <2>6
  <2>8. PICK run : run = Run(slot, SeqOf(x))
    OBVIOUS
  <2>9. IsFiniteSet(run)
    <3>1. /\ slot.offsets \in Seq(0 .. MaxOffset) /\ Shaped(slot.offsets, n) /\ SeqOf(x) \in Nat
      BY <2>4, <2>7, NameParts DEF EdgeSlotSound, EdgeStorageSlot
    <3>2. Within(run, Len(slot.neighbors)) /\ Len(slot.neighbors) \in Nat
      BY <2>7, <2>8, <3>1, RunPlaces
    <3> QED BY <3>2, PositionsFinite
  <2>10. PICK f : f = [p \in run |-> IdAt(slot, x, kind, dir, p)]
    OBVIOUS
  <2>11. IsFiniteSet({f[p] : p \in run})
    <3>1. DOMAIN f = run
      BY <2>10
    <3> QED BY <2>9, <3>1, FinitelyMany, Zenon
  <2>12. get_edges_with_deleted(g, x, kind, dir) = {IdAt(slot, x, kind, dir, p) : p \in run}
    <3>1. get_edges_with_deleted(g, x, kind, dir) = {IdAt(slot, x, kind, dir, p) : p \in Run(slot, SeqOf(x))}
      BY <2>4, <2>5, <2>7, EdgesRead
    <3> QED BY <2>8, <3>1
  <2>13. {IdAt(slot, x, kind, dir, p) : p \in run} = {f[p] : p \in run}
    BY <2>10
  <2> QED BY <2>11, <2>12, <2>13, <2>14
<1>5. IsFiniteSet({ids[t] : t \in all})
  <2>1. DOMAIN ids = all
    BY <1>3
  <2> QED BY <1>2, <2>1, FinitelyMany, Zenon
<1>6. IsFiniteSet(UNION {ids[t] : t \in all})
  BY <1>4, <1>5, FS_UNION
<1>7. EdgeIds(g) \in SUBSET UNION {ids[t] : t \in all}
  <2> SUFFICES ASSUME NEW id \in EdgeIds(g) PROVE \E t \in all : id \in ids[t]
    OBVIOUS
  <2>1. PICK x \in NodeIds(g), kind \in EdgeKinds, dir \in Directions :
          id \in get_edges_with_deleted(g, x, kind, dir)
    BY DEF EdgeIds
  <2>2. PICK t : t = <<x, <<kind, dir>>>>
    OBVIOUS
  <2>3. t \in all /\ t[1] = x /\ t[2][1] = kind /\ t[2][2] = dir
    BY <1>1, <2>2
  <2> QED BY <1>3, <2>1, <2>3
<1> QED BY <1>6, <1>7, FS_Subset

\* What comes from where: the half-edges at a node, or leading to it, were there before.
LeadsBack(h, g, from, node) ==
  \A x \in NodeIds(h), kind \in EdgeKinds, dir \in Directions :
    LET s == edge_storage_slot(KindOf(x), dir, kind)
    IN  \A q \in Run(h.edges[s], SeqOf(x)) :
          x = node \/ h.edges[s].neighbors[q] = node =>
            WasThere(h.edges[s], g.edges[s], from[s], SeqOf(x), q)
Touching(g, node) == {id \in EdgeIds(g) : node \in {id.src, id.dst}}
Reads(id, next, h, g, from) ==
  \E x, kind, dir, q :
    LET s == edge_storage_slot(KindOf(x), dir, kind)
    IN  Located(id, h, x, kind, dir, q) /\ Located(next, g, x, kind, dir, from[s][q]) /\ q \in DOMAIN from[s]

\* The edges of a node to which nothing new leads are no more than before.
LEMMA NoMoreEdges ==
  ASSUME NEW g, Walkable(g), NEW h, Walkable(h), IsFiniteSet(EdgeIds(g)),
         NEW from, \A s \in EdgeSlots : \A q, r \in DOMAIN from[s] : from[s][q] = from[s][r] => q = r,
         NEW node, LeadsBack(h, g, from, node)
  PROVE  Cardinality(Touching(h, node)) <= Cardinality(Touching(g, node))
<1>1. PICK S : S = Touching(h, node)
  OBVIOUS
<1>2. PICK T : T = Touching(g, node)
  OBVIOUS
<1>3. IsFiniteSet(T)
  <2>1. T \in SUBSET EdgeIds(g)
    BY <1>2 DEF Touching
  <2> QED BY <2>1, FS_Subset
<1>4. ASSUME NEW id \in S PROVE \E next \in T : Reads(id, next, h, g, from)
  <2>1. id \in EdgeIds(h) /\ (node = id.src \/ node = id.dst)
    BY <1>1 DEF Touching
  <2>2. PICK x, kind, dir, q : Located(id, h, x, kind, dir, q)
    BY <2>1, IdsLocated
  <2>3. PICK s : s = edge_storage_slot(KindOf(x), dir, kind)
    OBVIOUS
  <2>4. /\ EdgeSlotOf(h, x, kind, dir) = h.edges[s] /\ EdgeSlotOf(g, x, kind, dir) = g.edges[s]
        /\ x \in NodeIds(h) /\ kind \in EdgeKinds /\ dir \in Directions
        /\ q \in Run(h.edges[s], SeqOf(x))
    BY <2>2, <2>3 DEF EdgeSlotOf, Located
  <2>5. x \in NodeNames /\ Describes(id, h.edges[s], x, kind, dir, q)
    BY <2>2, <2>4, LocatedAt
  <2>6. x = node \/ h.edges[s].neighbors[q] = node
    BY <2>1, <2>5 DEF Describes
  <2>7. WasThere(h.edges[s], g.edges[s], from[s], SeqOf(x), q)
    BY <2>3, <2>4, <2>6 DEF LeadsBack
  <2>8. PICK p : p = from[s][q]
    OBVIOUS
  <2>9. q \in DOMAIN from[s] /\ p \in Run(g.edges[s], SeqOf(x)) /\ g.edges[s].neighbors[p] = h.edges[s].neighbors[q]
    BY <2>7, <2>8 DEF WasThere
  <2>10. x \in NodeIds(g)
    <3>1. HasOffset(EdgeSlotOf(g, x, kind, dir), SeqOf(x))
      BY <2>4, <2>9 DEF Run
    <3> QED BY <2>4, <2>5, <3>1 DEF Walkable
  <2>11. PICK next : next = IdAt(g.edges[s], x, kind, dir, p)
    OBVIOUS
  <2>12. Located(next, g, x, kind, dir, p)
    BY <2>4, <2>9, <2>10, <2>11 DEF Located
  <2>13. next \in EdgeIds(g) /\ Describes(next, g.edges[s], x, kind, dir, p)
    BY <2>4, <2>12, IdsLocated, LocatedAt
  <2>14. node = next.src \/ node = next.dst
    BY <2>6, <2>9, <2>13 DEF Describes
  <2>15. next \in T
    BY <1>2, <2>13, <2>14 DEF Touching
  <2>16. Reads(id, next, h, g, from)
    BY <2>2, <2>3, <2>8, <2>9, <2>12 DEF Reads
  <2> QED BY <2>15, <2>16
<1>5. ASSUME NEW id, NEW other, NEW next, Reads(id, next, h, g, from), Reads(other, next, h, g, from)
      PROVE  id = other
  <2>1. PICK x, kind, dir, q :
          /\ Located(id, h, x, kind, dir, q) /\ q \in DOMAIN from[edge_storage_slot(KindOf(x), dir, kind)]
          /\ Located(next, g, x, kind, dir, from[edge_storage_slot(KindOf(x), dir, kind)][q])
    BY <1>5 DEF Reads
  <2>2. PICK y, otherkind, way, r :
          /\ Located(other, h, y, otherkind, way, r) /\ r \in DOMAIN from[edge_storage_slot(KindOf(y), way, otherkind)]
          /\ Located(next, g, y, otherkind, way, from[edge_storage_slot(KindOf(y), way, otherkind)][r])
    BY <1>5 DEF Reads
  <2>3. PICK s : s = edge_storage_slot(KindOf(x), dir, kind)
    OBVIOUS
  <2>4. x = y /\ kind = otherkind /\ dir = way /\ from[s][q] = from[s][r]
    <3>1. x = y /\ kind = otherkind /\ dir = way
      BY <2>1, <2>2, LocatedOnce
    <3>2. from[edge_storage_slot(KindOf(x), dir, kind)][q] = from[edge_storage_slot(KindOf(y), way, otherkind)][r]
      BY <2>1, <2>2, LocatedOnce
    <3> QED BY <2>3, <3>1, <3>2
  <2>5. s \in EdgeSlots
    <3>1. x \in NodeNames /\ kind \in EdgeKinds /\ dir \in Directions
      BY <2>1, LocatedAt DEF Located
    <3> QED BY <2>3, <3>1, NameParts, EdgeSlotOfKinds
  <2>6. q = r
    BY <2>1, <2>2, <2>3, <2>4, <2>5
  <2> QED BY <2>1, <2>2, <2>4, <2>6 DEF Located
<1>6. PICK f : f = [id \in S |-> CHOOSE next : next \in T /\ Reads(id, next, h, g, from)]
  OBVIOUS
<1>7. \A id \in S : f[id] \in T /\ Reads(id, f[id], h, g, from)
  BY <1>4, <1>6
<1>8. f \in [S -> T] /\ \A id, other \in S : f[id] = f[other] => id = other
  <2>1. \A id, other \in S : f[id] = f[other] => id = other
    BY <1>5, <1>7, Zenon
  <2> QED BY <1>6, <1>7, <2>1
<1>9. f \in Injection(S, T)
  BY <1>8, Zenon DEF Injection, IsInjective
<1> QED BY <1>1, <1>2, <1>3, <1>9, FS_Injection

LEMMA GraphWalkable ==
  ASSUME GraphInv
  PROVE  Walkable(graph) /\ \A k \in NodeKinds : Len(graph.nodes[k]) \in Nat
<1>1. graph.edges = edges /\ graph.nodes = nodes
  BY DEF graph
<1>2. \A k \in NodeKinds : Len(nodes[k]) \in Nat
  <2> TAKE k \in NodeKinds
  <2>1. nodes[k] \in Seq(BOOLEAN)
    BY DEF GraphInv
  <2> QED BY <2>1, LenProperties
<1>3. \A k \in NodeKinds : Standing[k] = Len(nodes[k])
  BY DEF Standing
<1>4. ASSUME NEW s \in EdgeSlots
      PROVE  EdgeSlotSound(edges[s], Standing[SlotNodeKind(s)], EdgeProperty[SlotEdgeKind(s)].typ)
             /\ Standing[SlotNodeKind(s)] \in Nat
  BY <1>2, <1>3, SlotKinds DEF GraphInv, EdgeSlotKept
<1>5. ASSUME NEW x \in NodeNames, NEW kind \in EdgeKinds, NEW dir \in Directions,
             HasOffset(EdgeSlotOf(graph, x, kind, dir), SeqOf(x))
      PROVE  x \in NodeIds(graph)
  <2>1. PICK s \in EdgeSlots : s = edge_storage_slot(KindOf(x), dir, kind) /\ SlotNodeKind(s) = KindOf(x)
    BY NameParts, EdgeSlotOfKinds
  <2>2. EdgeSlotOf(graph, x, kind, dir) = edges[s]
    BY <1>1, <2>1 DEF EdgeSlotOf
  <2>3. SeqOf(x) \in Nat /\ KindOf(x) \in NodeKinds
    BY NameParts
  <2>4. SeqOf(x) < Standing[SlotNodeKind(s)]
    BY <1>4, <1>5, <2>2, <2>3, RunPlaces
  <2>5. Exists(x)
    BY <1>3, <2>1, <2>3, <2>4 DEF Exists
  <2> QED BY <2>5, NodesNamed
<1>6. \A s \in EdgeSlots : \E n \in Nat : \E typ : EdgeSlotSound(edges[s], n, typ)
  BY <1>4
<1> QED BY <1>1, <1>2, <1>5, <1>6, NodesNamed DEF Walkable

\* What a committed slot holds was there or is one of the diff's new half-edges.
LEMMA CommittedOrigins ==
  ASSUME IInv, RemovalsPass, ReplacedInv, InsertedInv, pc = "staged", NEW s \in EdgeSlots
  PROVE  \E from : Origins(CommittedEdges[s], edges[s], edge_halves[s], from)
<1>1. PICK n : n = Standing[SlotNodeKind(s)]
  OBVIOUS
<1>2. PICK m : m = Coming[SlotNodeKind(s)]
  OBVIOUS
<1>3. PICK typ : typ = EdgeProperty[SlotEdgeKind(s)].typ
  OBVIOUS
<1>4. PICK before : before = edges[s]
  OBVIOUS
<1>5. PICK after : after = CommittedEdges[s]
  OBVIOUS
<1>6. PICK halves : halves = edge_halves[s]
  OBVIOUS
<1>7. PICK removals : removals = edge_removals[s]
  OBVIOUS
<1>8. /\ n \in Nat /\ m \in Nat /\ n <= m
      /\ EdgeSlotSound(before, n, typ) /\ EdgeSlotSound(after, m, typ) /\ HalvesFit(halves, m)
      /\ \E slot : /\ EdgeSlotSound(slot, n, typ) /\ LeftBehind(slot, before, removals)
                   /\ Takes(after, slot, typ, halves, m)
  BY <1>1, <1>2, <1>3, <1>4, <1>5, <1>6, <1>7, CommittedSlot
<1>9. PICK slot : /\ EdgeSlotSound(slot, n, typ) /\ LeftBehind(slot, before, removals)
                  /\ Takes(after, slot, typ, halves, m)
  BY <1>8
<1>10. \E onwards : Origins(slot, before, <<>>, onwards)
  <2>1. CASE slot = before
    BY <1>8, <2>1, OwnOrigins
  <2>2. CASE /\ slot = WithoutEdges(before, removals) /\ before.offsets # <<>>
             /\ RemovalsFit(before, removals)
    <3>1. LeftOf(slot, before, Untaken(before, removals), n)
      BY <1>8, <2>2, WithoutLeft
    <3> QED BY <1>8, <3>1, OriginsWithout
  <2> QED BY <1>9, <2>1, <2>2 DEF LeftBehind
<1>11. \E from : Origins(after, slot, halves, from)
  <2>1. CASE after = slot
    BY <1>9, <1>8, <2>1, OwnOrigins
  <2>2. CASE \E insert : InsertsHalves(insert, slot, typ, halves, m) /\ after = merge_edge_batches(slot, insert)
    BY <1>8, <1>9, <2>2, OriginsInserted
  <2> QED BY <1>9, <2>1, <2>2 DEF Takes
<1> QED BY <1>4, <1>5, <1>6, <1>10, <1>11, OriginsOnwards

\* A node that is deleted once the diff is committed does not survive it.
LEMMA DeletedDies ==
  ASSUME IInv, pc = "staged", nodes' = CommittedNodes, NEW node \in NodeIds(graph), node_is_deleted(graph', node)
  PROVE  ~ Survives(node)
<1>1. node \in NodeNames /\ Exists(node)
  BY NodesNamed DEF IInv
<1>2. PICK k : k = KindOf(node)
  OBVIOUS
<1>3. PICK i : i = SeqOf(node) + 1
  OBVIOUS
<1>4. k \in NodeKinds /\ SeqOf(node) \in Nat /\ node = <<k, SeqOf(node)>> /\ SeqOf(node) < Len(nodes[k])
  BY <1>1, <1>2, NameParts DEF RawNodeId, KindOf, SeqOf, Exists
<1>5. /\ Len(nodes[k]) \in Nat /\ Len(CommittedNodes[k]) \in Nat /\ Len(nodes[k]) <= Len(CommittedNodes[k])
      /\ DOMAIN nodes[k] = 1 .. Len(nodes[k])
      /\ \A j \in DOMAIN nodes[k] : CommittedNodes[k][j] => nodes[k][j] \/ <<k, j - 1>> \in node_tombstones
  <2>1. nodes[k] \in Seq(BOOLEAN)
    BY <1>4 DEF IInv, GraphInv
  <2> QED BY <1>4, <2>1, CommittedKind, LenProperties
<1>6. i \in DOMAIN nodes[k] /\ i - 1 = SeqOf(node) /\ SeqOf(node) < Len(CommittedNodes[k])
  BY <1>3, <1>4, <1>5
<1>7. CommittedNodes[k][i]
  <2>1. PICK h : h = graph'
    OBVIOUS
  <2>2. h.nodes = CommittedNodes /\ node_is_deleted(h, node)
    BY <2>1 DEF graph
  <2> QED BY <1>2, <1>3, <1>6, <2>2 DEF node_is_deleted
<1>8. nodes[k][i] \/ node \in node_tombstones
  BY <1>4, <1>5, <1>6, <1>7
<1> QED BY <1>1, <1>2, <1>3, <1>8 DEF Survives

LEMMA CommitGainsNothing ==
  ASSUME IInv, IInv', TracedInv, commit, NEW node \in NodeIds(graph), node_is_deleted(graph', node)
  PROVE  DegreeOf(graph', node) <= DegreeOf(graph, node)
<1>1. pc = "staged" /\ edges' = CommittedEdges /\ nodes' = CommittedNodes
  BY DEF commit
<1>2. PICK g : g = graph
  OBVIOUS
<1>3. PICK h : h = graph'
  OBVIOUS
<1>4. g.edges = edges /\ h.edges = CommittedEdges /\ h.nodes = CommittedNodes
  BY <1>1, <1>2, <1>3 DEF graph
<1>5. Walkable(g) /\ IsFiniteSet(EdgeIds(g))
  <2>1. Walkable(g) /\ \A k \in NodeKinds : Len(g.nodes[k]) \in Nat
    BY <1>2, GraphWalkable DEF IInv
  <2> QED BY <2>1, EdgeIdsFinite
<1>6. Walkable(h)
  <2>1. GraphInv'
    BY DEF IInv
  <2>2. GraphInv => Walkable(graph)
    BY GraphWalkable
  <2>3. (GraphInv => Walkable(graph))'
    BY GraphWalkable, PTL
  <2> QED BY <1>3, <2>1, <2>3
<1>7. ~ Survives(node)
  BY <1>1, DeletedDies
<1>8. PICK from : from = [s \in EdgeSlots |-> CHOOSE f : Origins(CommittedEdges[s], edges[s], edge_halves[s], f)]
  OBVIOUS
<1>9. \A s \in EdgeSlots : Origins(CommittedEdges[s], edges[s], edge_halves[s], from[s])
  BY <1>1, <1>8, CommittedOrigins DEF TracedInv
<1>10. \A s \in EdgeSlots : \A q, r \in DOMAIN from[s] : from[s][q] = from[s][r] => q = r
  BY <1>9 DEF Origins
<1>11. LeadsBack(h, g, from, node)
  <2>1. ASSUME NEW x \in NodeIds(h), NEW kind \in EdgeKinds, NEW dir \in Directions,
               NEW s, s = edge_storage_slot(KindOf(x), dir, kind), NEW q \in Run(CommittedEdges[s], SeqOf(x)),
               x = node \/ CommittedEdges[s].neighbors[q] = node
        PROVE  WasThere(CommittedEdges[s], edges[s], from[s], SeqOf(x), q)
    <3>1. x \in NodeNames /\ SeqOf(x) \in Nat /\ KindOf(x) \in NodeKinds /\ x = <<KindOf(x), SeqOf(x)>>
      BY <1>6, NameParts DEF Walkable, RawNodeId, KindOf, SeqOf
    <3>2. s \in EdgeSlots
      BY <2>1, <3>1, EdgeSlotOfKinds
    <3>3. \/ WasThere(CommittedEdges[s], edges[s], from[s], SeqOf(x), q)
          \/ IsNew(CommittedEdges[s], edge_halves[s], SeqOf(x), q)
      BY <1>9, <2>1, <3>1, <3>2 DEF Origins
    <3>4. ASSUME IsNew(CommittedEdges[s], edge_halves[s], SeqOf(x), q) PROVE FALSE
      <4>1. PICK j \in 1 .. Len(edge_halves[s]) :
              edge_halves[s][j].seq = SeqOf(x) /\ edge_halves[s][j].neighbor = CommittedEdges[s].neighbors[q]
        BY <3>4 DEF IsNew
      <4>2. BetweenSurvivors(edge_halves[s], KindOf(x))
        BY <2>1, <3>1 DEF TracedInv, HalvesSurvive
      <4>3. Survives(<<KindOf(x), edge_halves[s][j].seq>>) /\ Survives(edge_halves[s][j].neighbor)
        BY <4>2 DEF BetweenSurvivors
      <4>4. Survives(x) /\ Survives(CommittedEdges[s].neighbors[q])
        BY <3>1, <4>1, <4>3
      <4> QED BY <1>7, <2>1, <4>4
    <3> QED BY <3>3, <3>4
  <2> QED BY <1>4, <2>1 DEF LeadsBack
<1>12. Cardinality(Touching(h, node)) <= Cardinality(Touching(g, node))
  BY <1>5, <1>6, <1>10, <1>11, NoMoreEdges
<1>13. \A x : DegreeOf(x, node) = Cardinality(Touching(x, node))
  BY DEF DegreeOf, Touching
<1> QED BY <1>2, <1>3, <1>12, <1>13

\* A node that is deleted has no more edges than before, after every step: no diff brings an
\* edge to a node that is gone, be it deleted earlier, by another diff that was committed
\* after the edge was queued, or by the diff that asks for the edge.
THEOREM DeletedNodesNeverGainEdges == Spec => DeletedNodesGainNoEdges
<1> DEFINE NoGain == \A node \in NodeIds(graph) :
                       node_is_deleted(graph', node) => DegreeOf(graph', node) <= DegreeOf(graph, node)
<1>1. ASSUME IInv, IInv', TracedInv, commit PROVE NoGain
  BY <1>1, CommitGainsNothing
<1>2. ASSUME IInv, UNCHANGED <<nodes, edges>> PROVE NoGain
  <2>1. PICK g : g = graph
    OBVIOUS
  <2>2. PICK h : h = graph'
    OBVIOUS
  <2>3. g.nodes = h.nodes /\ g.edges = h.edges
    BY <1>2, <2>1, <2>2 DEF graph
  <2>4. EdgeIds(g) = EdgeIds(h)
    BY <2>3, EdgeIdsSame
  <2>5. IsFiniteSet(EdgeIds(g))
    BY <1>2, <2>1, GraphWalkable, EdgeIdsFinite DEF IInv
  <2>6. \A node : DegreeOf(h, node) = DegreeOf(g, node)
    BY <2>4 DEF DegreeOf
  <2>7. \A node : DegreeOf(g, node) \in Nat
    <3> TAKE node
    <3>1. {id \in EdgeIds(g) : node \in {id.src, id.dst}} \in SUBSET EdgeIds(g)
      OBVIOUS
    <3> QED BY <2>5, <3>1, FS_Subset, FS_CardinalityType DEF DegreeOf
  <2>8. \A node : DegreeOf(h, node) <= DegreeOf(g, node)
    BY <2>6, <2>7
  <2> QED BY <2>1, <2>2, <2>8
<1>3. IInv /\ IInv' /\ TracedInv /\ [Next]_vars => NoGain
  <2>1. UNCHANGED vars => UNCHANGED <<nodes, edges>>
    BY DEF vars, graph_vars
  <2> HIDE DEF NoGain
  <2> QED BY <1>1, <1>2, <2>1, GraphWritten
<1> HIDE DEF NoGain
<1>4. Spec => [][NoGain]_vars
  BY <1>3, AlwaysIInv, AlwaysTraced, PTL DEF Spec
<1> QED BY <1>4 DEF DeletedNodesGainNoEdges, NoGain
================================================================================
