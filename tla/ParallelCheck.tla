------------------------------ MODULE ParallelCheck ------------------------------
(***************************************************************************)
(* The driver of check_integrity.  A graph of more nodes than can be        *)
(* numbered is refused as it is.  A small graph is checked slot by slot on  *)
(* one thread.  A large one is checked by rayon: property slots in any       *)
(* order, their results folded pairwise; then the buckets of edge slots, one *)
(* per edge kind and direction; then the pairing of each edge kind, folded   *)
(* again.  A report says which check failed, so that the first of two        *)
(* defects of one kind is told from the second.                              *)
(***************************************************************************)
EXTENDS Integrity

CONSTANTS
  RawGraphs,         \* the unchecked graphs handed to the checker
  ParallelThreshold  \* PARALLEL_THRESHOLD

ASSUME CheckAssumption ==
  /\ RawGraphs \subseteq Graph
  /\ ParallelThreshold \in Nat
  /\ \A g \in RawGraphs : /\ \A s \in EdgeSlots : ArrayKeyed(g.edges[s].values)
                          /\ \A s \in PropertySlots : ArrayKeyed(g.properties[s].values)

VARIABLES
  raw,        \* the graph under check
  phase,      \* the parallel pass that is running
  segments,   \* results so far of a fold: what the checks lo .. hi report together
  collected,  \* bucket -> what it reports
  outcome     \* the result, once phase is "done"

vars == <<raw, phase, segments, collected, outcome>>

Folds == {"properties", "pairing"}
Buckets == 1 .. 2 * EdgeKindCount

(***************************************************************************)
(* The checks, numbered from 1 in the order one thread runs them.          *)
(***************************************************************************)
Success == [error |-> Ok, pass |-> "none", at |-> 0]

Checks(pass) ==
  CASE pass = "properties" -> property_storage_size
    [] pass = "edges"      -> edge_storage_size
    [] pass = "pairing"    -> EdgeKindCount

Check(g, pass, i) ==
  CASE pass = "properties" -> check_property_slot(g, i - 1)
    [] pass = "edges"      -> check_edge_slot(g, i - 1)
    [] pass = "pairing"    -> check_half_edge_pairing(g, i - 1)

\* What the checks first .. last report when they run in order up to an error.
InOrder(g, pass, first, last) ==
  LET failing == {i \in first .. last : Check(g, pass, i) # Ok}
  IN  IF failing = {} THEN Success
      ELSE [error |-> Check(g, pass, Lowest(failing)), pass |-> pass, at |-> Lowest(failing)]

Then(report, next) == IF report = Success THEN next ELSE report

All(g, pass) == InOrder(g, pass, 1, Checks(pass))

check_slots(g) == Then(All(g, "properties"), Then(All(g, "edges"), All(g, "pairing")))

Numbered(g) == [Success EXCEPT !.error = NodeIndexError(g)]

\* What one thread reports of a graph.
OneThread(g) == Then(Numbered(g), check_slots(g))

is_worthwhile(g) ==
  TotalNodes(g)
  + Cardinality(UNION {{s} \X DOMAIN g.edges[s].neighbors : s \in EdgeSlots})
    >= ParallelThreshold

(***************************************************************************)
(* The parallel passes                                                     *)
(***************************************************************************)
Init ==
  /\ raw \in RawGraphs
  /\ phase = "start"
  /\ segments = {} /\ collected = [b \in {} |-> Success] /\ outcome = Success

Finish(report) == phase' = "done" /\ outcome' = report

Begin ==
  /\ phase = "start"
  /\ \/ /\ Numbered(raw) # Success
        /\ Finish(Numbered(raw))
     \/ /\ Numbered(raw) = Success /\ is_worthwhile(raw)
        /\ phase' = "properties" /\ UNCHANGED outcome
     \/ /\ Numbered(raw) = Success /\ ~ is_worthwhile(raw)
        /\ Finish(check_slots(raw))
  /\ UNCHANGED <<raw, segments, collected>>

Segment(first, last, report) == [lo |-> first, hi |-> last, report |-> report]

\* Mutant: a check is handed out again while its result is being folded.
MutantCheckOne ==
  /\ phase \in Folds
  /\ \E i \in 1 .. Checks(phase) :
       segments' = segments \cup {Segment(i, i, InOrder(raw, phase, i, i))}
  /\ UNCHANGED <<raw, phase, collected, outcome>>

\* A worker runs one check of the fold; an error stops no other worker.
CheckOne ==
  /\ phase \in Folds
  /\ \E i \in 1 .. Checks(phase) :
       /\ \A s \in segments : i \notin s.lo .. s.hi
       /\ segments' = segments \cup {Segment(i, i, InOrder(raw, phase, i, i))}
  /\ UNCHANGED <<raw, phase, collected, outcome>>

\* Mutant: of two errors the one that comes later wins.
MutantFold ==
  /\ phase \in Folds
  /\ \E s, t \in segments :
       /\ s.hi + 1 = t.lo
       /\ segments' = (segments \ {s, t}) \cup {Segment(s.lo, t.hi, Then(t.report, s.report))}
  /\ UNCHANGED <<raw, phase, collected, outcome>>

\* Neighbouring results are folded in whatever order they come to be there.
Fold ==
  /\ phase \in Folds
  /\ \E s, t \in segments :
       /\ s.hi + 1 = t.lo
       /\ segments' = (segments \ {s, t}) \cup {Segment(s.lo, t.hi, Then(s.report, t.report))}
  /\ UNCHANGED <<raw, phase, collected, outcome>>

\* The identity of the fold stands for no checks at all.
Folded ==
  IF Checks(phase) = 0 THEN {Success}
  ELSE {s.report : s \in {s \in segments : s.lo = 1 /\ s.hi = Checks(phase)}}

FinishFold ==
  /\ phase \in Folds
  /\ \E report \in Folded :
       \/ /\ report = Success /\ phase = "properties"
          /\ phase' = "edges" /\ UNCHANGED outcome
       \/ /\ report # Success \/ phase = "pairing"
          /\ Finish(report)
  /\ segments' = {}
  /\ UNCHANGED <<raw, collected>>

\* A bucket holds the slots of every node kind, which follow one another.
InBucket(g, b) == InOrder(g, "edges", (b - 1) * NodeKindCount + 1, b * NodeKindCount)

CheckBucket ==
  /\ phase = "edges"
  /\ \E b \in Buckets \ DOMAIN collected :
       collected' = [c \in DOMAIN collected \cup {b} |->
                       IF c \in DOMAIN collected THEN collected[c]
                       ELSE InBucket(raw, b)]
  /\ UNCHANGED <<raw, phase, segments, outcome>>

\* The buckets are gone through in order once all of them are there.
CollectBuckets ==
  /\ phase = "edges" /\ DOMAIN collected = Buckets
  /\ LET failing == {b \in Buckets : collected[b] # Success}
     IN  \/ failing = {} /\ phase' = "pairing" /\ UNCHANGED outcome
         \/ failing # {} /\ Finish(collected[Lowest(failing)])
  /\ UNCHANGED <<raw, segments, collected>>

\* The check has returned; short of that, some worker can go on.
Returned == phase = "done" /\ UNCHANGED vars

Next ==
  Begin \/ CheckOne \/ Fold \/ FinishFold \/ CheckBucket \/ CollectBuckets \/ Returned

Spec == Init /\ [][Next]_vars

(***************************************************************************)
(* Well-formedness, stated without checks or an order among them.          *)
(***************************************************************************)
\* The offsets cut the items into one run per node.
CutInRuns(offsets, node_count, items) ==
  \/ offsets = <<>> /\ items = 0
  \/ /\ DOMAIN offsets = 1 .. node_count + 1
     /\ offsets[1] = 0 /\ offsets[node_count + 1] = items
     /\ \A i, j \in DOMAIN offsets : i < j => offsets[i] <= offsets[j]

AllNodes == UNION {{<<k, i - 1>> : i \in DOMAIN raw.nodes[k]} : k \in NodeKinds}

NamesSomething(item, decl) ==
  /\ decl.typ = "NodeId" => item \in AllNodes
  /\ decl.typ = "String" => \E i \in DOMAIN raw.strings : item = <<i - 1>>
  /\ decl.typ = "Enum" =>
       /\ decl.enum + 1 \in DOMAIN EnumVariants
       /\ \E v \in 0 .. EnumVariants[decl.enum + 1] - 1 : item = <<decl.enum, v>>

HoldsValues(slot, decl, node_count) ==
  /\ slot.values.typ = decl.typ
  /\ decl.typ # "None" => CutInRuns(slot.offsets, node_count, Len(slot.values.items))
  /\ \A i \in DOMAIN slot.values.items : NamesSomething(slot.values.items[i], decl)

\* How many half-edges with that value lead from a node to another in a slot.
Parallel(slot, seq, target, value) ==
  IF slot.offsets = <<>> THEN 0
  ELSE Cardinality({i \in Start(slot, seq) + 1 .. End(slot, seq) :
         slot.neighbors[i] = target /\ (slot.values.typ # "None" => slot.values.items[i] = value)})

AllValues ==
  {NoKey} \cup UNION {Range(raw.edges[s].values.items) : s \in EdgeSlots}

WellFormed ==
  /\ \A k \in NodeKinds, p \in PropertyKinds :
       LET slot == raw.properties[property_storage_slot(k, p)]
       IN  /\ HoldsValues(slot, NodeProperty[p], Len(raw.nodes[k]))
           /\ CutInRuns(slot.offsets, Len(raw.nodes[k]), LastOffset(slot.offsets))
  /\ \A k \in NodeKinds, dir \in Directions, e \in EdgeKinds :
       LET slot == raw.edges[edge_storage_slot(k, dir, e)]
       IN  /\ CutInRuns(slot.offsets, Len(raw.nodes[k]), Len(slot.neighbors))
           /\ \A i \in DOMAIN slot.neighbors : slot.neighbors[i] \in AllNodes
           /\ HoldsValues(slot, EdgeProperty[e], Len(raw.nodes[k]))
  /\ \A e \in EdgeKinds : \A src, dst \in AllNodes : \A value \in AllValues :
       Parallel(raw.edges[edge_storage_slot(KindOf(src), Out, e)], SeqOf(src), dst, value)
         = Parallel(raw.edges[edge_storage_slot(KindOf(dst), In, e)], SeqOf(dst), src, value)

(***************************************************************************)
(* Properties                                                              *)
(***************************************************************************)
Report == [error : Errors, pass : {"none", "properties", "edges", "pairing"}, at : Nat]

\* Type invariant; results to be folded stand for disjoint runs of checks.
TypeOK ==
  /\ raw \in Graph
  /\ phase \in {"start", "properties", "edges", "pairing", "done"}
  /\ \A s \in segments : s.lo \in Nat /\ s.hi \in Nat /\ s.lo <= s.hi /\ s.report \in Report
  /\ \A s, t \in segments : s # t => s.hi < t.lo \/ t.hi < s.lo
  /\ DOMAIN collected \subseteq Buckets
  /\ \A b \in DOMAIN collected : collected[b] \in Report
  /\ outcome \in Report

\* However the workers are scheduled and their results folded, a graph with
\* several defects gets the report one thread would have made.
ReportsFirstError == phase = "done" => outcome = OneThread(raw)

\* The checker accepts a graph exactly when its nodes can be numbered and it is
\* well-formed.
AcceptsExactlyWellFormed ==
  phase = "done" =>
    (outcome = Success <=> TotalNodes(raw) <= MaxNodes /\ WellFormed)
=============================================================================
