# A verification project for flatpg

flatpg is a Rust library for typed property graphs kept in flat arrays. A
`schema!` macro fixes the kinds of node, edge and property at compile time. A
`Graph<S>` stores, per (node kind, direction, edge kind) and per (node kind,
property kind), one *slot*: an array of items and an array of offsets that say
which run of items belongs to which node. Graphs are never edited in place: a
caller queues operations in a `GraphDiff`, `prepare` resolves them into the exact
writes they imply (a `StagedDiff`, holding the graph exclusively), and `commit`
performs the writes. Everything a reader can see goes through offsets that the
diff machinery had to rebuild correctly, and every edge is stored twice, once at
its source and once at its destination. That is where the risk of this program
is, and where this project aims.

Paths below are relative to `src/graph-schema/src/` unless they start with `src/`.

## 1. Inventory

| component | state | operations | talks to |
|---|---|---|---|
| Schema (`schema.rs`, `node.rs`, `edge.rs`, `property.rs`, `enum_property.rs`) | none (compile time) | slot formulas, slot iteration, resolving ids, orienting an edge | used by everything |
| Storage (`storage.rs`) | `StorageArray`, `Offset`, slots | typed push/append/extend, reading a run, value keys | graph, builder, checker |
| Graph and queries (`graph/mod.rs`) | node flags, edge slots, property slots, string pool | `nodes_by_kind`, `get_edges`, `get_edge_property`, `get_node_property`, with and without deleted ends; counts; raw edge ids | storage |
| Diff building (`graph/builder/mod.rs`) | queued nodes, edges, changes | `add_node`, `add_edge`, `remove_node`, `remove_edge`, `update_node_property`, `apply` | staging |
| Staging (`graph/builder/prepare.rs`, `slots.rs`, `convert.rs`) | buckets per slot, baselines, the parts of a `StagedDiff` | `prepare` and the four `prepare_*` functions | graph (reads), string pool (writes) |
| Staged diff (`graph/builder/staged.rs`) | the parts, the string baseline, `&mut Graph` | `commit`, `drop` | graph (writes) |
| Integrity checker (`graph/integrity.rs`) | none | `check_integrity`, sequentially or, for large graphs, in parallel | raw graphs, tests |
| Raw graph (`graph/raw.rs`) | a graph's fields in the open | `TryFrom`, `From` | integrity checker |
| String pool (`strings_pool.rs`) | buffer, ranges, hashes, tags, slots | `intern`, `get`, `truncate` | staging, queries |
| Derived structs (`src/graph-schema-derive/src/*_structs_derives.rs`, `property_trait_derives.rs`, `graph_view_derives.rs`) | an id and a graph reference | walks, property accessors, graph views, builders | queries, builder |
| Kind derives (`enum_derives.rs`, `common.rs`) | none (compile time) | index, label, type and quantity of each kind; the declarations they refuse | schema |
| Enum registries (`enum_property_registry_macro.rs`, `_derives.rs`) | none (compile time) | the index of each domain enum; values into and out of properties | kind derives, checker |
| `schema!` (`schema_macro.rs`) | the keys read so far | its parsing loop, the `Schema` it writes | names the other three |

There are no threads, except inside the parallel integrity check; no I/O; nothing
is persisted. The library is a sequential one that has to get long sequences of
legal calls right. What is hard:

- **Order inside one diff.** Updates, removals, appends and insertions of one
  diff are prepared in a fixed order, each against the state the previous ones
  will leave (`prepare.rs:60-72`).
- **Order between diffs.** `prepare` borrows the diff, so it can be prepared,
  dropped, extended and committed again. Edge ids are positions and go stale.
- **Partial failure.** `prepare` interns strings into the graph while it runs;
  each of its error exits has to give them back. `commit` has no error exit.
- **Macros that cannot see each other.** A schema is declared in up to five places,
  each expanded on its own; what they read twice they have to read alike.
- **Limits.** Offsets, string counts and text bytes are 32 bits wide; a hash table
  whose probing loop has no bound of its own.

What makes each component correct:

| component | properties |
|---|---|
| schema | different coordinates have different slots; the iterators visit every slot once, in slot order |
| storage, queries | the live edges seen from the sources are those seen from the destinations; values read are values written |
| builder, staging, commit | every diff is applied whole or not at all and does what was asked; a staged diff can always be committed; the graph left passes its integrity check; node ids stay valid; deleted nodes gain no edges; interned texts keep their handles |
| integrity checker | accepts exactly the well-formed graphs; the parallel check reports the sequential check's error |
| string pool | equal texts share a handle; handles are stable; the unchecked slice is sound; lookups end and find what is there |
| derived structs | read what was written, as the declared type and quantity; a walk along an edge and back returns |
| derives, registries, `schema!` | refuse exactly the malformed declarations; tables of different derives agree; labels and enum values read back; indices number the slots |

`PROJECT.json` lists the hazards line by line, each with the properties that
would catch it.

## 2. The modules

```
FlatSchema            kinds, slots, ids
  HalfEdgeKeys        the numbers the checker compares half-edges by
  FlatStorage         arrays, offsets, runs, the pool as a sequence of texts
    Integrity         Graph, the checks of check_integrity
      ParallelCheck   check_integrity driven by rayon: workers, folds, buckets
      GraphQueries    what a caller reads
        RawGraph      a graph taken apart, edited by hand and put together again
        Staging       how prepare_* and commit rebuild one slot
          GraphDiff   the state machine: queue, prepare step by step, commit, drop
            GraphRefinement   reads the flat graph as a LogicalGraph
            Accessors         the generated structs: walks, views, property accessors
  KindDerives         what the derives make of one enum declaration
    EnumRegistry      registries of domain enums, enum values
SchemaMacro           schema!(...), the loop that reads it
  SchemaCrate         KindDerives .. SchemaMacro together: a crate that declares a schema
LogicalGraph          abstract: nodes, a bag of edges, values, whole requests
Interner              abstract: one handle per text
StringsPool           the open-addressing interner, one probe at a time
SlotProofs            least numbers, quotients and remainders of slots
  HalfEdgeKeysProofs, SchemaCrateProofs
  StagingProofs       what the operators of Staging do to a slot, what a check passes
                      and what is then read
    GraphDiffProofs   the invariants of the state machine, what the accessors answer
    RawGraphProofs    what try_from accepts is read whole
    ParallelCheckProofs
StringsPoolProofs     the pool is an Interner
MCEdges, MCProperties, MCRawGraph, MCIntegrity, MCHalfEdgeKeys, MCStringsPool,
MCSchemaCrate         instances for TLC
```

**FlatSchema.** A kind is its index (`ItemIndex`); a node id is `<<kind, seq>>`.
The slot formulas are those of `schema.rs:231-298`. The ten scalar property types
are one, "Int". Its constants are what a compiled `SchemaCrate` declares, which
instantiates it.

**FlatStorage.** An array is a sequence; an offset of the code is "after that many
items". `ValueKey` is the stored item itself: the packing into 64 bits serves
comparison only, and `HalfEdgeKeys` shows that it compares as the items do. In `GraphDiff` the string
pool is the sequence of its texts, which is what `StringsPool` is shown to
implement.

**Integrity.** One operator per check, each returning the error the code returns,
composed in the order of the code: the sizes of the storages, the number of nodes (`NodeIndex::new` refuses more than it can number, `MaxNodes`), every slot, the pairing. `check_half_edge_pairing` of the code sorts the
two halves' lists and walks them to the first difference; the model says which
difference that is by comparing multisets.

**ParallelCheck.** `check_integrity` over a raw graph. A graph of more than `MaxNodes` nodes
is refused at once (`Begin`). Below the threshold the check is
`check_slots` of one thread. Above it, `CheckOne` is one `map` call of a parallel
iterator, in any order; `Fold` is one `Result::and` of `reduce` between two
neighbouring partial results, in any order; `CheckBucket` is one bucket of edge slots
(one edge kind and direction), `CollectBuckets` the loop over what the buckets
returned. A report carries the check that made it, besides its error: two defects of
one kind are told apart. The threshold is a constant, 8 in the instance where the
code has 10 000, so that both paths are taken.

**HalfEdgeKeys.** `NodeIndex::new` counts the nodes of one kind per step (`CountKind`),
closes the table (`Counted`) or refuses the graph (`CountOverflow`); `densify`, `resolve`
and `ValueKeyOf` are the functions of the code, over integers of a parameterised width.
`PushHalf` pushes one half-edge of any slot whose ids have been checked. A float is its
bits; the order it has to be sorted in is IEEE 754's total order, by sign and magnitude.

**Accessors.** What the derive macros generate around an id, written once for all kinds:
the structs `Node` and `Edge` (a variant per kind and the ids they hold), the view method
of a node kind, the walks of `StoredNode` and `EdgesAccessor` with and without deleted
ends; `property_binding` is the match on one stored value, `property_accessor` the
method of a node property (all values if Multi, the first if One), `edge_accessor` the
`property()` of an edge. The `NewNode` builders are `IsNewNode` of `GraphDiff`.

**KindDerives, EnumRegistry, SchemaMacro, SchemaCrate.** A declaration is its tokens cut
down to what the macros look at: attributes with their arguments, variants, paths with
their last segment and generic arguments. Each derive is an operator that returns the
first error it meets; `node_kind_derive`, `edge_kind_derive` and `property_kind_derive`
run the derives of one enum, all of which leave their complaint. A name's letters are
given by the constant `Spelling`, because `to_snake_case` decides which names collide.
`SchemaMacro` is the loop of `SchemaDef::parse`, an argument per step. In `SchemaCrate`
the macros of one crate are expanded in any order (`ExpandProperties`, `ExpandEdges`,
`ExpandNodes`, `ExpandRegistryMacro` and the derive it writes, `ExpandRegistryDerive`,
`ParseCall`); `Resolve` is the rest of the compiler, external: it accepts the crate if no
macro complained and what they wrote type-checks.

**Staging and GraphDiff.** `prepare` is cut into the steps its code runs through:

| action | code |
|---|---|
| `add_node` ... `remove_edge`, `DropDiff` | `builder/mod.rs:110-172`, a diff going out of scope |
| `BeginPrepare` | entry of `prepare`, the string baseline |
| `ClassifyRemoveNode`, `ClassifyUpdate`, `ClassifyRemoveEdge` | one turn of `classify_changes` |
| `PreparePropertyUpdates`, `PrepareEdgeRemovals`, `PrepareNewNodes` | one `prepare_*` call each, all slots, first error wins |
| `StageNewEdge` | one turn of the new-edge loop of `stage` |
| `PrepareNewEdges` | `prepare_new_edges` |
| `commit`, `DropStaged` | `staged.rs` |

`pc` says which of them comes next; every error exit is `RollBack`, which also
cuts the pool back to the baseline. The staged parts are variables under the names
of the code. A `StagedDiff` holds `&mut Graph`, so nothing is queued with ids read
while `pc` is not "idle". A `RemoveEdge` whose own node does not exist in this graph
panics in `classify_changes` (`prepare.rs:280`), before anything is interned: the step
ends in `RollBack`, with the result "Panic" and nothing to cut.

`FreshIds` is the caller's discipline the NOTE at `builder/mod.rs:174` asks for: a
diff that removes edges is prepared only against the version of the graph its
first operation was queued at. The runs that need it set it; `MCStale` does not.

**RawGraph.** The life of a graph that is opened, edited and closed: `from`, writes to
the vectors, the helpers of `StorageArray`, an array written over another one, and
`try_from`, which loses what it refuses. Slots can be pushed (with their defaults) and
popped, and the string pool exchanged for another one (`WriteStrings`). A position past the end of an array is the
outcome "panic" and writes nothing. What the caller writes comes from small sets; they
lead from the seed to graphs with a second edge, a self-loop, more values or a node
more, and to broken ones.

**StringsPool.** `Probe` is one turn of the loop in `find`. `Hash` is a constant:
nothing depends on what the hash is, so the instance chooses hashes that collide.
A panic of the two capacity assertions is the answer `NoHandle`.

**LogicalGraph, Interner.** The promises. A request is the queued diff with its
edge removals written as (edge, half named). Two freedoms are deliberate: an Out
id and an In id of equal parallel edges may name one edge or two (equal edges have
no identity), and a text that was asked for may be stored although its edge was
dropped.

## 3. The runs

| run | instance | states | shows |
|---|---|---|---|
| `edges` | `MCEdges.cfg`: 1 node kind, 1 edge kind with an Int; an empty graph and one with three parallel edges of two values and a self-loop, stored in different orders at the two ends; 3 operations, 1 commit | 48 000 | type, integrity, no panic in commit, removals always find their reverse half, and the refinement of `LogicalGraph` |
| `recommit` | same seeds; 2 operations, 2 commits | 137 000 | integrity and agreement of both ends over a second commit of a diff, stable node ids, deleted nodes gain no edges |
| `properties` | `MCProperties.cfg`: 2 node kinds, 2 edge kinds (no value, String), a Multi String, a NodeId and an Enum property; refused requests of every form; `MaxOffset = 3` so that slots overflow | 108 000 | integrity, refinement, strings rolled back exactly; accessors and walks answer; undeclared properties stay empty |
| `stale` | two diffs, `FreshIds = FALSE`, ids of another graph | 287 000 | each slot stays well-formed, commit still cannot panic, and an edge id is moved only by removals from its own run |
| `strings` | four texts, one a prefix of another, colliding in home and in tag; at most four strings and four bytes; a table of four slots to start from | 10 600 | all properties of the pool, and that it implements `Interner` |
| `integrity` | `MCIntegrity.cfg`: 2 node, 2 edge and 2 property kinds; a well-formed graph with parallel edges of two values, the empty graph, graphs of as many nodes as can be numbered (3) or one more, and every graph that differs from the first in one or two slots (27 replacements: offsets, items, values, types, ids) | 15 700 | the checker accepts exactly the well-formed graphs whose nodes it can number; the parallel driver reports what one thread reports |
| `half_edges` | `MCHalfEdgeKeys.cfg`: four node kinds of up to two nodes, in every combination; words of 1, 2 and 4 bits; values of all types | 13 800 | half-edges compare by their codes as by their ids and values; numbers resolve; too large a graph is refused |
| `raw` | `MCRawGraph.cfg`: an empty graph and one of two nodes, an edge with an Int and a String property; an empty and a full string pool; up to four edits | 825 000 | what `try_from` accepts is read whole: every half-edge and value once, both ends telling the same, the counts the number of what is read; the array helpers leave what is around the edited place |
| `schema` | `MCSchemaCrate.cfg`: a crate that compiles and every crate that differs from it in one or two of five parts, out of 11 declarations of properties, 6 of edges, 8 of nodes, 7 lists of registries and 12 calls of `schema!` (635 crates) | 113 000 | the macros complain exactly about malformed crates, in every order; the call is read as written; labels and enum values read back; accessors match the tables; kinds number the slots |
| `stale_ids` | one diff, stale ids | violation | see Findings |
| `dangling` | values that name nothing | violation | see Findings |
| `quantity` | `MCQuantity.cfg`: an update with two values, two commits | violation | see Findings |

Bounds are `MaxOperations`, `MaxCommits`, `MaxOffset`, `MaxNodes`, `MaxStrings`, `MaxBytes` and
the input sets. `MaxNodes` and `MaxOffset` are `u32::MAX` in the code; 3 nodes are few enough for
`integrity` and `raw` to exceed, and the seeds of the other runs have fewer than their 4. Three operations are enough for every pair of interacting
operations plus one to disturb them: the removal of equal parallel edges needs two
removals and an insertion behind them; replace-then-append needs an update or a
removal with a new node and its edge. Two commits are enough for staleness: the
first makes an id stale, the second uses it. Two damaged slots are enough for a report
to be the wrong one of two. Two parts of a
crate that are wrong are enough to see whether one complaint hides the other. `CHECK_DEADLOCK FALSE` in `schema`, where a crate once resolved
is done, in the graph
and raw-graph instances because the bounds stop the caller, and in `half_edges`, which ends with one
half-edge pushed; the string pool and the parallel check
have no such bound and are checked for deadlock (a check that has returned stutters).

`OnlyRemovalsMoveIds` is about ids kept across the commit of somebody else's diff:
whichever diff is committed, every edge of a run it removes nothing from keeps its id
and its value. It is the converse of the NOTE at `builder/mod.rs:174`, which says what
removals do to ids.

`AcceptsExactlyWellFormed` compares the checker with `WellFormed`, which is stated
without checks or an order among them: offsets cut the items into one run per node,
every id names something, and between any two nodes each edge kind has as many Out
halves of a value as In halves.

**Fairness.** Only `StringsPool` states any: weak fairness of `Probe`, a loop of a
function that was called, which the thread runs to its end. Nothing else in the
library waits for anything, so there is no other liveness to state.

### Findings

1. `stale_ids`. A `RemoveEdge` id that outlived a commit can remove the Out half of
   one edge and the In half of another one. The half at the id's own node is taken by its
   position, the other is searched at the node the id names, with the value of the half now
   at that position (`prepare.rs:300-318`); that this half leads to that node is
   never tested. In the run one diff is committed twice. Its Out id, of an edge from a to b,
   counts after the first commit to the self-loop of a; that has the value of an
   edge from a to b, whose half at b is then taken by the matching-value
   branch (`prepare.rs:361-364`). The repository knows of it: the test at
   `src/tests/graph_tests/edge_remove.rs:15-74` locks it in and expects
   `ReverseEdgeNotFound`. It is listed because two comments promise the opposite:
   `integrity.rs:3-8` that `apply` keeps every edge matched with its reverse, and
   `staged.rs:102-104` that every way of building a graph establishes what `check_integrity`
   verifies. The NOTE at `builder/mod.rs:174` warns only that a different edge may be removed.
2. `dangling`. `to_stored_property` does not resolve NodeId and Enum values; a graph
   with one that names nothing is committed and then fails `check_values_content`.

3. `quantity`. `update_node_property` takes several values for a property declared
   `quantity = One` (`builder/mod.rs:160`; only `NewNode::add_property` looks at the
   quantity), where `src/README.md:20` says such a property holds one value. The
   generated accessor then reads the first.

Noted while modelling, without a run: `prepare` counts new nodes per kind and never those of
the whole graph, so a diff may take a graph past the `u32::MAX` nodes that `NodeIndex::new`
numbers. It commits, and the graph then fails `check_integrity` with NodeCountOverflow
although nothing is wrong with its slots (the same two comments say otherwise).
`IntegrityKept` says of such a graph what holds: all other checks pass. And `common.rs:47-49` says that the method name of a
variant that collides with a reserved keyword is escaped as a raw identifier. `crate` and
`super` have no raw form, so a variant `Super` makes `Ident::new_raw` panic, and `gen`,
reserved since edition 2024, is not in `RUST_KEYWORDS`. The model has both (`NotRaw`,
`Reserved`); either way the crate is refused, with a worse message. Nor do the macros
compare node kinds with the view's own methods: a kind named `Graph` or `Edges` yields
a method of the same name.

## 4. The proofs

Every theorem holds for every value of the constants that satisfies the assumptions
below: any schema, any graphs to start from, any inputs, any number of diffs,
operations, commits, texts, nodes and workers.

| theorem | states of every behaviour |
|---|---|
| `GraphDiffProofs!TypeAlwaysOK` | the graph, the diffs and all that is staged are of their types |
| `GraphDiffProofs!CommitNeverPanics` | what `prepare` returns can be committed, even with stale or foreign ids |
| `GraphDiffProofs!SlotsAlwaysKept` | every slot passes `check_slots` (if `InputsResolve`) |
| `GraphDiffProofs!IntegrityAlwaysKept` | the graph passes `check_integrity` if it has at most `MaxNodes` nodes, and with more still every check of its slots and its pairing (if `FreshIds` and `InputsResolve`) |
| `GraphDiffProofs!RemovalsAlwaysFindTheirReverse` | no removal fails for want of a reverse half (if `FreshIds`) |
| `GraphDiffProofs!BothEndsAlwaysAgree` | the live part of the graph has the same edges from either end (if `FreshIds`) |
| `GraphDiffProofs!AccessorsAlwaysAnswer` | the generated structs read what is stored, as the declared type and quantity; a walk along an edge and back returns (if `FreshIds` and `InputsResolve`) |
| `GraphDiffProofs!OnlyRemovalsEverMoveIds` | only the removal of a half-edge of its own run makes an id name another |
| `GraphDiffProofs!DeletedNodesNeverGainEdges` | no commit gives an edge to a node it deletes or that was deleted before |
| `GraphDiffProofs!InternedTextsAlwaysStable` | interning and rolling back change no text that was there |
| `GraphDiffProofs!NodeIdsAlwaysStable` | no node goes away or comes back |
| `GraphDiffProofs!UndeclaredAlwaysEmpty` | no node has a value its kind does not declare (if `SeedsFollowSchema`) |
| `RawGraphProofs!ItemsAlwaysStay` | a helper leaves the items around the place it was given, and all of them when it is refused |
| `RawGraphProofs!GraphsAlwaysReadWhole`, `RawTypeAlwaysOK` | of what `try_from` accepts every half-edge and value is read once, by both ends alike, and the counts are the numbers of what is read; types |
| `StringsPoolProofs!PoolIsInterner` | the hash table implements `Interner` |
| `StringsPoolProofs!ChainsNeverBroken`, `AlwaysBelowHalfFull` | lookups find what is there and have a free slot ahead |
| `StringsPoolProofs!SlicesAlwaysSound`, `HandlesAlwaysStable`, `PoolTypeAlwaysOK` | slices are in bounds, handles keep their texts, types |
| `ParallelCheckProofs!AcceptsExactlyTheWellFormed` | the checker says Ok of the well-formed graphs of at most `MaxNodes` nodes and of no other |
| `ParallelCheckProofs!FirstErrorAlwaysReported`, `CheckTypeAlwaysOK` | the parallel check reports what one thread would; results to be folded stand for disjoint runs |
| `HalfEdgeKeysProofs!HalvesAlwaysCompareAsStored`, `NodesAlwaysResolve` | half-edges compare by codes as by ids and values; numbers resolve |
| `HalfEdgeKeysProofs!RefusedExactlyWhenTooMany`, `KeysTypeAlwaysOK` | a graph is refused exactly when it has too many nodes; types |
| `SchemaCrateProofs!ComplainsAlwaysExactly` | the macros complain of the malformed crates and no other, in every order |
| `SchemaCrateProofs!AccessorsAlwaysMatchTables`, `EnumValuesAlwaysResolve` | accessors convert what the tables say is stored; an enum value comes back as itself and is taken for no other |
| `SchemaCrateProofs!CallAlwaysReadAsWritten`, `LabelsAlwaysReadBack`, `KindsAlwaysNumberSlots` | the call is read as written; labels read back; kinds number the slots |

**GraphDiff.** None of its properties is inductive, since a committed slot is what five
earlier steps staged. The invariant `IInv` has a part for the caller (`ClientInv`: the
queues are typed and within their bounds), for the place `prepare` has reached
(`ControlInv`), for the graph (`GraphInv`: every slot's offsets cut its items into one run
per node, its neighbors exist) and for each thing staged (`ChangesInv`,
`ReplacementsInv`, `AppendsInv`, `RemapperInv`, `HalvesInv`, `InsertsInv`): what is
staged is measured against the nodes there *will* be (`Coming`), because an append is prepared after the
replacement it goes behind and an insertion after both. TLC checked each part on
`properties` and `stale` before it was proved. There is one lemma per action; the two
expects of `commit` are conjuncts of the invariant when everything is staged, which is
`CommitCannotPanic`. `SlotsAlwaysKept` adds that what is stored resolves: the texts,
node ids and enum variants of the graph and of all that is staged. Appending, replacing and
inserting bring in only values of the diff. Its hypothesis `InputsResolve` says that the
NodeId and Enum values a caller writes name something, which nothing in the code checks:
TLC evaluates it as true of the inputs of `edges` and `properties` and as false of those of `dangling`, whose
violation shows that it cannot be dropped.

**The two halves of an edge.** `IntegrityAlwaysKept` needs in addition that the halves pair up, across
slots of different kinds and runs in different orders. `PairedInv` counts them. A *class* of
half-edges is a node, its neighbor and a value (`Alike`); `Balanced` says that a class has as many
members at its source as at its destination. The invariant says so of the graph (`AllBalanced`), of the
half-edges that `edge_removals` names so far (`ClaimsPaired`) and of those `edge_halves` brings (`Mirrored`);
and that the ids queued in a diff of the current version name half-edges of the graph (`FreshInv`). An id
names a half-edge that is claimed already, and then so is its reverse, or one that is not: then its class is
claimed once less than it has members here, so once less there, and `ReverseHalf` finds an unclaimed half of
the same value (`UnclaimedReverse`, `ReverseFound`). That is `RemovalsAlwaysFindTheirReverse`. At `commit` the
members of a class are those it had, less the claimed ones, and those brought (`CommittedCount`), the
same number on both sides. `check_half_edge_pairing` passes exactly when all classes are in balance
(`PairingCheck`). Without `FreshIds` the claim is false, as the run `stale_ids` shows: an
id that outlived a commit counts to a half-edge that leads elsewhere or has another value, while its reverse is
looked for at the node the id names.

**What a commit moves.** Both action properties compare the slots before a commit with those after, five steps of
staging later. `TracedInv` remembers what the steps were for: a claimed half-edge is in a run
the diff names (`Traces`), the halves to be brought in are between nodes that will be alive
(`HalvesSurvive`), and what is staged is what the steps computed from the slot and the claims, whichever of them are done
(`RemovalsPass`, `ReplacedInv`, `InsertedInv`). So a committed slot is the old one, without the
claimed half-edges (`LeftBehind`), and then with the brought ones (`Takes`): `CommittedSlot`. A
run that loses nothing keeps every place it had, since merging puts the new behind the
old of a run (`CommittedStays`, `IdsStay`). And each half-edge of a committed run was in that run or was brought, no two from one
(`CommittedOrigins`): a node that no half is brought to has as many ids as before at most (`NoMoreEdges`), and a node that this
diff deletes or that was dead is one (`DeletedDies`). Neither theorem assumes anything of the ids a caller queues.

**StagingProofs** holds the lemmas these steps share: `UpdatedSlot`, `WithoutEdges`, `Appended` and
`merge_edge_batches` each turn a slot in shape into a slot in shape that holds the old items
and the new ones and nothing else (`UpdatedSlotSound`, `WithoutEdgesSound`, `AppendedSound`, `InsertedSound`), and say which items keep their place (`StaysWithout`, `StaysInserted`) and where each comes from (`Origins`); `ShapeCheck`, `ValuesCheck`, `PropertySlotCheck`, `EdgeSlotCheck`
say exactly which slots each check passes. Its second half counts classes: what a class keeps
when half-edges are taken out (`AlikeWithout`), gains when they are merged in (`AlikeMerged`), and
that one more position on either side leaves two sides in balance (`BalanceClaimed`). Where a least index or an induction on a number is needed,
`SlotProofs` gets it from the well-foundedness of the naturals (`LeastOf`, `FromZero`),
which the provers can use in place of the induction theorems of the library.

**Accessors.** `Untouched`: a slot of an undeclared property is empty in the graph, is in no
replacement and no append; `prepare_property_updates` refuses what has no slot in the schema, and
`add_property` what is not declared. `SeedsFollowSchema` says so of the graphs to start from; TLC
evaluates it in `properties`.

**What is read.** `IntegrityTold` says what a graph holds whose slots and pairing pass (`Whole`), and that no other
passes; `check_integrity` passes those whose nodes can be numbered: sound slots of every kind, neighbors and values that name something, classes in balance. From
there on no invariant is needed, each query is read off the arrays: a walk over a node gives exactly the
positions of its run (`EdgesRead`), an id leads back to its position and the value there (`IdRead`), every position is in the run
of one node (`RunFound`, `RunIsOne`), hence met once by walks from all nodes (`EdgesReadOnce`, `ValuesReadOnce`);
`node_count` is a sum over kinds (`SumOfSizes`). `GraphsAlwaysReadWhole` says so of every graph
`try_from` returns, whatever its arrays were before. Over a diff, `AccessorsAlwaysAnswer` takes `Whole` from `IntegrityAlwaysKept`:
the half-edge at the far end of a walk is there because the classes at both ends have the same number
of members (`WayBack`). `BothEndsAlwaysAgree` counts what both walks see of a class (`SeenAlike`): hiding the edges of deleted
nodes hides whole classes, on both sides. It needs the pairing and not the values, so only `FreshIds`.

**StringsPool.** `SlicesSound` needs the typing of the buffer: `Insert` appends a range that
starts where the buffer ended, and `truncate` cuts the buffer at the start of the first
range it drops, behind the end of every range it keeps. `PoolInv` says that the table is one of the hashes of
the pool: every handle has one slot with its tag, less than half of the slots are
taken, and from the home of a handle to its slot no slot is free. Insertion fills the first free slot
of a chain; growth and truncation fill an empty table, one handle at a
time. For the refinement, `TextInv` adds that the ranges fill the buffer end to end
(`Packed`), that the slices are texts, each once (`Named`), and that a lookup has passed only taken
slots of other texts (`Looking`): a free slot then means that the text is not in the pool. The
mapping is `Held`, the sequence of slices.

**ParallelCheck.** `IInv` says that every partial result of a fold is the first error of the
run of checks it stands for (`SegmentsReport`, `BucketsReport`) and that a pass begins after
the nodes were numbered and the earlier passes found nothing (`PassesReport`). The reports of two neighbouring runs combine
into the report of both (`NeighboursFold`); the buckets cut the edge slots into
consecutive runs (`BucketsCover`, `BucketsInOrder`), so the first failing bucket holds the first
failing slot. For `AcceptsExactlyTheWellFormed`, each check is shown to pass exactly what
the declarative `WellFormed` asks of its slot: offsets that start at zero, rise and end at the length
cut an array into runs (`ShapedCuts`), a value passes when it names something (`PassesWhenNames`). The pairing is a
matter of counting: the halves between two nodes are found in the runs of one slot
(`HalvesFound`, `RunsHeld`), so the two multisets of halves a check compares agree exactly when those of `WellFormed` do
(`ClassCounted`, by a bijection of positions).

**HalfEdgeKeys.** That numbers of different nodes differ needs the table to be right:
`KindsInOrder` (each kind ends before every later one starts) and `CountedBehind` of the
kind counted next, where the check of the total keeps sums from saturating. A packed
pair keeps its order because its second part is below the factor (`Packed`). For the refusal, `CountInv` says
that the sum so far is the number of nodes counted, or has reached the top of its range, which is past what a number can hold.

**RawGraph.** `RawInv` types the arrays, whatever was written into them and however many slots there are.
An edit cuts its array at one or two places and puts something between (`CutAndPut`), so it
is a patch (`CutIsPatch`, `EditedPatched`); offsets, neighbors and storages that grow or shrink leave the values alone.

**SchemaCrate.** `CallAlwaysReadAsWritten` needs that what is left of the call is its end (`RestOfCall`)
and that, until something is refused, the slots hold exactly the values read and nothing read was wrong
(`ReadSoFar`). `LabelsAlwaysReadBack` and `KindsAlwaysNumberSlots` need from the compiler only that an enum has no two variants of one name
(`KindsInv`): then a kind has one index, the first of several places with one label is the one
found (`FirstPlace`), and a slot is one quotient and remainder per coordinate (`Unique`).

The other three follow the expansion. `ExpandInv` says that the derive of a registry runs over what its macro wrote
(`RegistriesInv`), that there is a complaint exactly when something expanded so far is not declared
as it should be (`ComplaintsInv`), and that nobody complained of a crate that compiles (`CompiledInv`).
Each derive reports the first error it meets of several; `PropertiesPass`, `EdgesPass`,
`NodesPass` and `RegistryPasses` show that there is none exactly when every part is declared
right, wherever the first one would be (`FirstFound`). In a crate that compiles, an enum is at one place of one registry
(`IndexOfListed`), so its values come back (`ValueComesBack`). The attempt to prove `NodesPass` showed that
`NodesDeclared` had left something out: the node derive reads a `property` attribute too, for its
label (`enum_derives.rs:283`), and refuses one it cannot read.

**Assumptions.** Those named in the modules, evaluated by TLC in every run: `SchemaAssumption`,
`NodePropertyAssumption` (no node property is declared without a type: `property_trait_derives.rs`
refuses it), `StorageAssumption`, `InputAssumption` (seeds pass `check_integrity`, inputs are of the
types the API takes), `NodesAssumption` (`MaxNodes` is a number), `CheckAssumption` (the arrays of a raw graph hold values of
their type, which Rust's enum of arrays sees to), `RawAssumption`, `PoolAssumption`, `WidthAssumption`,
`CrateAssumption`, `SpellingAssumption`, `ComponentAssumption`; and the hypotheses `InputsResolve`,
`SeedsFollowSchema` and `FreshIds`, each of the theorems marked with it.

**Model-checked only.** The refinement of `LogicalGraph`, and liveness (`LookupEnds`), which is beyond
the prover; `AlwaysBelowHalfFull` and `ChainsNeverBroken` are its safety half.

## 5. Not modelled

- The bodies of iterators: an iterator is the set or sequence it walks.
- What the macros do with tokens that decide nothing here: generics, visibility, spans, the
  wording of errors, the deprecation note on NodeId accessors. `Resolve` stands for rustc and is
  external.
- The assertion that the parts of a node id fit 32 bits (`node.rs:137`): it stops a program with
  more than 2^32 nodes of one kind, where the model goes on.
- The text of error messages at run time; benches, examples and fixtures, which only drive the
  library.

## 6. Plan

Done: the modules above, in the order schema, storage, checker, queries, staging,
`GraphDiff`, its refinement, the string pool, the parallel check, the accessors, the half-edge
codes, the derives and `schema!`; their runs and the theorems of section 4.

Next: the refinement of `LogicalGraph`, commit by commit.
