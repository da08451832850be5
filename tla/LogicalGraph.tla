----------------------------- MODULE LogicalGraph -----------------------------
(***************************************************************************)
(* What a graph and its diffs promise, without slots, offsets or handles: a *)
(* property graph of nodes that are live or deleted, a bag of edges and the *)
(* values of each node's properties, changed by one whole request at a time *)
(* or not at all.                                                           *)
(***************************************************************************)
EXTENDS FlatSchema, FiniteSets

CONSTANT MaxItems  \* more edges or values than this may not fit

VARIABLES
  deleted,   \* node kind -> for each node of the kind, in order, whether it is deleted
  edges,     \* bag of edges: <<source, edge kind, destination, value>> -> how often
  values,    \* <<node, property kind>> -> {} while no node of the kind has the
             \* property, else the singleton of the node's values
  pool,      \* the texts stored so far
  request,   \* the diff being applied, as a set
  outcome    \* the error of the last one

vars == <<deleted, edges, values, pool, request, outcome>>

Ok == "Ok"
IdsOf(nodes) == UNION {{<<k, s>> : s \in 0 .. Len(nodes[k]) - 1} : k \in NodeKinds}
Copies(bag, e) == IF e \in DOMAIN bag THEN bag[e] ELSE 0
Last(S) == CHOOSE x \in S : \A y \in S : x >= y

(***************************************************************************)
(* Reading a request                                                       *)
(***************************************************************************)
ChangesOf(r, name) == {i \in DOMAIN r.changes : r.changes[i].change = name}

\* The id the i-th new node gets: ids of a kind go on in the order of adding.
NewId(r, i) ==
  LET kind == r.new_nodes[i].kind
  IN  <<kind, Len(deleted[kind]) + Cardinality({j \in 1 .. i - 1 : r.new_nodes[j].kind = kind})>>
NewIds(r) == {NewId(r, i) : i \in DOMAIN r.new_nodes}

Removed(r) == {r.changes[i].node : i \in ChangesOf(r, "RemoveNode")} \cap IdsOf(deleted)

\* A new edge is added when both its ends are new nodes, or nodes that are
\* neither deleted nor removed by the same request.
Ends(r, ref) ==
  IF ref.ref = "new"
    THEN IF ref.index < Len(r.new_nodes) THEN {NewId(r, ref.index + 1)} ELSE {}
    ELSE {ref.node} \cap
           (NewIds(r) \cup {n \in IdsOf(deleted) \ Removed(r) : ~ deleted[n[1]][n[2] + 1]})
Added(r) == {i \in DOMAIN r.new_edges :
               Ends(r, r.new_edges[i].src) # {} /\ Ends(r, r.new_edges[i].dst) # {}}
NewEdge(r, i) ==
  <<CHOOSE n \in Ends(r, r.new_edges[i].src) : TRUE,
    r.new_edges[i].kind,
    CHOOSE n \in Ends(r, r.new_edges[i].dst) : TRUE,
    {p.key : p \in r.new_edges[i].property}>>
Additions(r, e) == Cardinality({i \in Added(r) : NewEdge(r, i) = e})

\* A removal names an edge by one of its two halves.  Naming a half twice is
\* one request.  Naming the Out half and the In half of equal parallel edges
\* may be one request or two: equal edges have no identity of their own.
HalvesNamed(r, e, direction) ==
  Cardinality({r.changes[i].half :
                 i \in {i \in ChangesOf(r, "RemoveEdge") :
                          r.changes[i].edge = e /\ r.changes[i].half.dir = direction}})
FewestRemoved(r, e) == Last({HalvesNamed(r, e, In), HalvesNamed(r, e, Out)})
MostRemoved(r, e) ==
  -Last({-(HalvesNamed(r, e, In) + HalvesNamed(r, e, Out)), -Copies(edges, e)})

\* The last update of a property counts.
UpdatesOf(r, node, property) ==
  {i \in ChangesOf(r, "UpdateNodeProperty") :
     r.changes[i].node = node /\ r.changes[i].property = property}

BroughtBy(new, property) ==
  IF property \in DOMAIN new.properties THEN new.properties[property] ELSE <<>>
KeysIn(props) == [i \in DOMAIN props |-> props[i].key]

\* A property is kept for a kind once one node of the kind was added with it.
Kept(r, kind, property) ==
  \/ \E node \in IdsOf(deleted) : node[1] = kind /\ values[<<node, property>>] # {}
  \/ \E i \in DOMAIN r.new_nodes :
       r.new_nodes[i].kind = kind /\ BroughtBy(r.new_nodes[i], property) # <<>>

(***************************************************************************)
(* Which requests are refused                                              *)
(***************************************************************************)
OfType(props, typ) == \A i \in DOMAIN props : props[i].typ = typ

Malformed(r) ==
  \/ \E i \in ChangesOf(r, "RemoveNode") : ~ ResolvesNodeKind(r.changes[i].node)
  \/ \E i \in ChangesOf(r, "UpdateNodeProperty") :
       LET c == r.changes[i]
       IN  \/ c.node \notin IdsOf(deleted)
           \/ values[<<c.node, c.property>>] = {}
           \/ /\ i = Last(UpdatesOf(r, c.node, c.property))
              /\ ~ OfType(c.values, NodeProperty[c.property].typ)
  \/ \E i \in DOMAIN r.new_nodes : \E p \in DOMAIN r.new_nodes[i].properties :
       ~ OfType(r.new_nodes[i].properties[p], NodeProperty[p].typ)
  \/ \E i \in Added(r) :
       {p.typ : p \in r.new_edges[i].property} # {EdgeProperty[r.new_edges[i].kind].typ} \ {"None"}

SumOver(S, f(_)) == Cardinality(UNION {{<<x, n>> : n \in 1 .. f(x)} : x \in S})

TooLarge(r) ==
  \/ SumOver(DOMAIN edges, LAMBDA e : edges[e]) + Cardinality(Added(r)) > MaxItems
  \/ SumOver(DOMAIN values, LAMBDA v : SumOver(values[v], Len))
     + SumOver(ChangesOf(r, "UpdateNodeProperty"), LAMBDA i : Len(r.changes[i].values))
     + SumOver(DOMAIN r.new_nodes, LAMBDA i :
         SumOver(DOMAIN r.new_nodes[i].properties, LAMBDA p : Len(r.new_nodes[i].properties[p])))
       > MaxItems

(***************************************************************************)
(* The steps                                                               *)
(***************************************************************************)
Begin ==
  /\ request = {} /\ request' # {} /\ outcome' = Ok
  /\ UNCHANGED <<deleted, edges, values, pool>>

Reject ==
  /\ request # {} /\ request' = {} /\ outcome' # Ok
  /\ \E r \in request : Malformed(r) \/ TooLarge(r)
  /\ UNCHANGED <<deleted, edges, values, pool>>

Discard ==
  /\ request # {} /\ request' = {} /\ outcome' = Ok
  /\ \A r \in request : ~ Malformed(r)
  /\ UNCHANGED <<deleted, edges, values, pool>>

Forget == outcome' = Ok /\ UNCHANGED <<deleted, edges, values, pool, request>>

NodesChange(r) ==
  deleted' = [k \in NodeKinds |->
    [i \in DOMAIN deleted[k] |-> deleted[k][i] \/ <<k, i - 1>> \in Removed(r)]
    \o [i \in 1 .. Cardinality({n \in NewIds(r) : n[1] = k}) |-> FALSE]]

EdgesChange(r) ==
  /\ \A e \in DOMAIN edges' :
       edges'[e] > 0 /\ (e \in DOMAIN edges \/ Additions(r, e) > 0)
  /\ \A e \in DOMAIN edges \cup {NewEdge(r, i) : i \in Added(r)} :
       LET removed == Copies(edges, e) + Additions(r, e) - Copies(edges', e)
       IN  removed \in FewestRemoved(r, e) .. MostRemoved(r, e)

ValuesChange(r) ==
  values' = [v \in (IdsOf(deleted) \cup NewIds(r)) \X PropertyKinds |->
    LET updates == UpdatesOf(r, v[1], v[2])
        news == {i \in DOMAIN r.new_nodes : NewId(r, i) = v[1]}
    IN  IF ~ Kept(r, v[1][1], v[2]) THEN {}
        ELSE IF updates # {} THEN {KeysIn(r.changes[Last(updates)].values)}
        ELSE IF news # {} THEN {KeysIn(BroughtBy(r.new_nodes[i], v[2])) : i \in news}
        ELSE IF values[v] = {} THEN {<<>>}
        ELSE values[v]]

TextsIn(r) ==
  LET props == {r.new_edges[i].property : i \in DOMAIN r.new_edges}
        \cup {{r.changes[i].values[j] : j \in DOMAIN r.changes[i].values} :
                i \in ChangesOf(r, "UpdateNodeProperty")}
        \cup UNION {{{r.new_nodes[i].properties[p][j] : j \in DOMAIN r.new_nodes[i].properties[p]} :
                       p \in DOMAIN r.new_nodes[i].properties} : i \in DOMAIN r.new_nodes}
  IN  {p.key[1] : p \in {p \in UNION props : p.typ = "String"}}

PoolGrows(r) ==
  /\ Len(pool) <= Len(pool') /\ SubSeq(pool', 1, Len(pool)) = pool
  /\ \A i \in Len(pool) + 1 .. Len(pool') :
       pool'[i] \in TextsIn(r) /\ \A j \in 1 .. i - 1 : pool'[j] # pool'[i]

Apply ==
  /\ request # {} /\ request' = {} /\ outcome' = Ok
  /\ \A r \in request :
       /\ ~ Malformed(r)
       /\ NodesChange(r) /\ EdgesChange(r) /\ ValuesChange(r) /\ PoolGrows(r)

Next == Begin \/ Reject \/ Discard \/ Forget \/ Apply

Init == request = {} /\ outcome = Ok

Spec == Init /\ [][Next]_vars
=============================================================================
