------------------------------ MODULE SchemaCrate ------------------------------
(***************************************************************************)
(* A crate that declares a schema: domain enums, registries of them, the      *)
(* kinds of property, edge and node, and one schema! call.  Every macro sees    *)
(* its own tokens only, in whatever order the compiler expands them, and what   *)
(* none of them can see is left to the type checker (Resolve).  A crate that    *)
(* compiles is the schema the other modules take as their constants.           *)
(***************************************************************************)
EXTENDS EnumRegistry, SchemaMacro

CONSTANT Crates  \* the crates somebody may write

\* A registry is written by the macro from types or by hand as decl.
RegistryItem == [name : STRING, macro : BOOLEAN, types : Seq(Path), decl : EnumDecl]
Crate == [enums : SUBSET DomainEnum, registries : Seq(RegistryItem), properties : EnumDecl,
          edges : EnumDecl, nodes : EnumDecl, call : Seq(CallArgument)]

ASSUME CrateAssumption == Crates \subseteq Crate

VARIABLES
  crate,       \* what was written
  left,        \* the macros not expanded yet
  registries,  \* registry -> its enum, as soon as it is there
  complaints,  \* what the derives and the registry macro complained about
  outcome      \* "expanding", "compiled" or "refused"

vars == <<arguments, slots, parsed, crate, left, registries, complaints, outcome>>

Kinds == {<<"properties", 0>>, <<"edges", 0>>, <<"nodes", 0>>}

Init ==
  /\ crate \in Crates
  /\ left = Kinds \cup {<<IF crate.registries[i].macro THEN "macro" ELSE "derive", i>> :
                          i \in DOMAIN crate.registries}
  /\ registries = [i \in DOMAIN crate.registries |-> crate.registries[i].decl]
  /\ complaints = {} /\ outcome = "expanding"
  /\ arguments = crate.call /\ slots = EmptySlots /\ parsed = "parsing"

Expand(item, errors) ==
  /\ item \in left
  /\ left' = left \ {item}
  /\ complaints' = complaints \cup errors
  /\ UNCHANGED <<macro_vars, crate, registries, outcome>>

ExpandProperties == Expand(<<"properties", 0>>, property_kind_derive(crate.properties))
ExpandEdges == Expand(<<"edges", 0>>, edge_kind_derive(crate.edges))
ExpandNodes == Expand(<<"nodes", 0>>, node_kind_derive(crate.nodes))

\* The macro writes an enum with a derive, which is expanded in its turn.
ExpandRegistryMacro ==
  \E i \in DOMAIN registries :
    LET types == crate.registries[i].types
        error == registry_error(types)
    IN  /\ <<"macro", i>> \in left
        /\ left' = (left \ {<<"macro", i>>}) \cup (IF error = Ok THEN {<<"derive", i>>} ELSE {})
        /\ registries' =
             IF error = Ok THEN [registries EXCEPT ![i] = registry_expand(types)] ELSE registries
        /\ complaints' = complaints \cup ({error} \ {Ok})
        /\ UNCHANGED <<macro_vars, crate, outcome>>

\* Its labels are the names of its variants: this derive declares no attribute that
\* could rename them, and the compiler refuses one that no derive declares.
ExpandRegistryDerive ==
  \E i \in DOMAIN registries :
    Expand(<<"derive", i>>, {parse_enum_type_attr(registries[i])} \ {Ok})

ParseCall == (ParseArgument \/ ExpandSchema) /\ UNCHANGED <<crate, left, registries, complaints, outcome>>

(***************************************************************************)
(* What the type checker sees of the expanded crate                         *)
(***************************************************************************)
Distinct(s) == \A i, j \in DOMAIN s : s[i] = s[j] => i = j

Registered == UNION {Range(enum_types(r)) : r \in Range(registries)}

RegisteredOnce ==
  /\ \A r \in Range(registries) : Distinct(enum_types(r))
  /\ \A i, j \in DOMAIN registries :
       i # j => Range(enum_types(registries[i])) \cap Range(enum_types(registries[j])) = {}

EnumTypesUsed ==
  UNION ({property_enum(v) : v \in Range(crate.properties.variants)}
         \cup {property_enum(v) : v \in Range(crate.edges.variants)})

\* An enum is registered once (its impls would conflict) and every enum a kind
\* names is (a trait bound); a node kind lists properties there are, each once; the
\* names in schema! are those of the enums; no method is a reserved word.
TypeChecks ==
  /\ \A e \in {crate.properties, crate.edges, crate.nodes} \cup Range(registries) : Distinct(all(e))
  /\ RegisteredOnce /\ Registered \subseteq {e.path : e \in crate.enums}
  /\ EnumTypesUsed \subseteq Registered
  /\ \A v \in Range(crate.nodes.variants) :
       Distinct(properties(v)) /\ Range(properties(v)) \subseteq Range(all(crate.properties))
  /\ \A v \in Range(crate.properties.variants) : property_quantity(v, TRUE) \in Quantities
  /\ \A name \in Range(all(crate.properties)) \cup Range(all(crate.nodes)) :
       ~ method_ident(name).raw => method_ident(name).word \notin Reserved
  /\ \A part \in {<<"node_kind", "Nodes">>, <<"edge_kind", "Edges">>, <<"prop_kind", "Properties">>} :
       TheOne(slots[part[1]]).text = part[2]
  /\ epr \in {"NoEnumProps"} \cup {r.name : r \in Range(crate.registries)}

Resolve ==
  /\ outcome = "expanding" /\ left = {} /\ parsed # "parsing"
  /\ outcome' = IF complaints = {} /\ parsed = Ok /\ TypeChecks THEN "compiled" ELSE "refused"
  /\ UNCHANGED <<macro_vars, crate, left, registries, complaints>>

Next ==
  \/ ExpandProperties \/ ExpandEdges \/ ExpandNodes
  \/ ExpandRegistryMacro \/ ExpandRegistryDerive \/ ParseCall \/ Resolve

Spec == Init /\ [][Next]_vars

(***************************************************************************)
(* The schema a compiled crate declares, as FlatSchema takes it              *)
(***************************************************************************)
RegistryNamed(name) ==
  IF name = "NoEnumProps" THEN NoEnumProps
  ELSE registries[CHOOSE i \in DOMAIN registries : crate.registries[i].name = name]

\* The registry an enum is listed in, which decides the index its values carry.
HomeOf(path) == CHOOSE r \in Range(registries) : path \in Range(enum_types(r))
IndexOf(path) == enum_property_index(HomeOf(path), path)
EnumAt(path) == TheOne({e \in crate.enums : e.path = path})

Declared(variant) ==
  [typ |-> IF property_type(variant) \in ScalarTypes THEN "Int" ELSE property_type(variant),
   enum |-> IF property_enum(variant) = {} THEN 0 ELSE IndexOf(TheOne(property_enum(variant)))]

Table(e) == [k \in 0 .. Len(e.variants) - 1 |-> Declared(e.variants[k + 1])]

EnumTable ==
  [i \in DOMAIN RegistryNamed(epr).variants |->
     variant_count(crate.enums, enum_types(RegistryNamed(epr))[i])]

Schema == INSTANCE FlatSchema WITH
  NodeKindCount <- Len(crate.nodes.variants),
  EdgeKindCount <- Len(crate.edges.variants),
  PropertyKindCount <- Len(crate.properties.variants),
  EdgeProperty <- Table(crate.edges),
  NodeProperty <- Table(crate.properties),
  KindProperties <- [k \in 0 .. Len(crate.nodes.variants) - 1 |->
    {index(crate.properties, p) : p \in Range(properties(crate.nodes.variants[k + 1]))}],
  MultiProperties <- {index(crate.properties, v.name) :
    v \in {v \in Range(crate.properties.variants) : property_quantity(v, TRUE) = "Multi"}},
  EnumVariants <- EnumTable

(***************************************************************************)
(* Properties                                                              *)
(***************************************************************************)
UsableNames(e) ==
  \A name \in Range(all(e)) : to_snake_case(name) \notin RustKeywords \cap NotRaw

ValueDeclared(variant) ==
  /\ prop_typ(variant) # {}
  /\ TheOne(prop_typ(variant)).last \in BoundTypes
  /\ TheOne(prop_typ(variant)).last = "Enum" => Len(TheOne(prop_typ(variant)).inner) = 1

Readable(name, variant) ==
  \E attr \in find_attribute(name, variant.attrs) : attr.parses

PropertiesDeclared(e) ==
  /\ \A v \in Range(e.variants) :
       Readable("property", v) /\ ValueDeclared(v) /\ prop_qty(v) # {}
  /\ UsableNames(e)

EdgesDeclared(e) ==
  /\ \E attr \in find_attribute("edge_kind", e.attrs) :
       attr.parses /\ argument_of(attr, "schema") # {}
  /\ \A v \in Range(e.variants) :
       /\ Readable("property", v) /\ prop_typ(v) # {}
       /\ ValueDeclared(v) \/ TheOne(prop_typ(v)).last = "None"

NodesDeclared(e) ==
  /\ \E attr \in find_attribute("node_kind", e.attrs) :
       attr.parses /\ \A param \in {"schema", "property_kind"} : argument_of(attr, param) # {}
  /\ \A v \in Range(e.variants) :
       /\ Readable("properties", v)
       /\ find_attribute("property", v.attrs) # {} => Readable("property", v)  \* for its label
  /\ Cardinality({to_snake_case(name) : name \in Range(all(e))}) = Len(e.variants)
  /\ UsableNames(e)

RegistryDeclared(r) ==
  IF r.macro
    THEN r.types # <<>> /\ Cardinality({t.last : t \in Range(r.types)}) = Len(r.types)
    ELSE \A v \in Range(r.decl.variants) : Readable("enum_type", v)

\* Whatever the order of expansion, the macros together complain exactly about a
\* crate one of whose parts is not declared the way README.md describes; each of
\* the derives reads the same attributes on its own.
ComplainsExactlyWhenMalformed ==
  left = {} =>
    (complaints = {} <=>
       /\ PropertiesDeclared(crate.properties) /\ EdgesDeclared(crate.edges)
       /\ NodesDeclared(crate.nodes)
       /\ \A r \in Range(crate.registries) : RegistryDeclared(r))

Repeated(i) == \E j \in 1 .. i - 1 : crate.call[j].key = crate.call[i].key
Wrong(i) ==
  LET arg == crate.call[i]
  IN  \/ ~ arg.equals \/ arg.key \notin Keys \/ Repeated(i)
      \/ ~ Parses(arg.key, arg.value) \/ (~ arg.comma /\ i < Len(crate.call))

\* schema! takes its keys in any order: what it expands to is, for each key, the one
\* value the call gives it, and a call it refuses while reading is refused at the
\* first argument that is wrong by itself or repeats an earlier key.
CallReadAsWritten ==
  LET call == crate.call
      read == Len(call) - Len(arguments)
  IN  /\ parsed = "parsing" => \A i \in 1 .. read : ~ Wrong(i)
      /\ parsed \in {"syntax", "unknown key", "duplicate key"} =>
           Wrong(read) /\ \A i \in 1 .. read - 1 : ~ Wrong(i)
      /\ parsed \in {"missing keys", "invalid version"} => \A i \in DOMAIN call : ~ Wrong(i)
      /\ parsed = Ok =>
           /\ \A key \in Keys : slots[key] = {a.value : a \in {a \in Range(call) : a.key = key}}
           /\ \A key \in Range(Required) : Cardinality({i \in DOMAIN call : call[i].key = key}) = 1
           /\ Len(version) = 3 /\ Range(version) \subseteq 0 .. MaxComponent

\* In a compiled crate a label names a kind: reading back the label of a kind gives
\* a kind of that label, the kind itself unless an earlier one was renamed to it,
\* and nothing else is read as a kind.
LabelsReadBack ==
  outcome = "compiled" =>
    \A e \in {crate.properties, crate.edges, crate.nodes} :
      /\ \A kind \in Range(all(e)) :
           \E back \in from_str(e, as_str(e, kind)) :
             /\ as_str(e, back) = as_str(e, kind)
             /\ back # kind => index(e, back) < index(e, kind)
      /\ \A name \in DOMAIN Spelling :
           from_str(e, name) # {} => \E kind \in Range(all(e)) : as_str(e, kind) = name

\* A typed accessor converts what the untyped table says is stored: type, enum and
\* quantity are read from the attribute by different derives and agree.
AccessorsMatchTables ==
  outcome = "compiled" =>
    /\ \A v \in Range(crate.properties.variants) :
         /\ property_accessor(v).typ = property_type(v)
         /\ property_accessor(v).multi <=> property_quantity(v, TRUE) = "Multi"
         /\ property_enum(v) = IF property_accessor(v).typ = "Enum"
                                 THEN Range(property_accessor(v).inner) ELSE {}
    /\ \A v \in Range(crate.edges.variants) :
         has_property_method(v) <=> property_type(v) # "None"

\* Where the registry a schema names lists every enum its kinds carry, the tables of
\* the kinds and of the registry agree on the enum of each, and an enum value comes
\* back from a property as itself, is refused as a value of any other enum of the
\* registry, and names an enum and a variant the integrity checker can resolve.
EnumValuesResolve ==
  (outcome = "compiled" /\ EnumTypesUsed \subseteq Range(enum_types(RegistryNamed(epr)))) =>
    /\ \A v \in Range(crate.properties.variants) \cup Range(crate.edges.variants) :
         \A path \in property_enum(v) :
           EnumTable[Declared(v).enum + 1] = Len(EnumAt(path).variants)
    /\ \A path \in Range(enum_types(RegistryNamed(epr))) : \A name \in Range(EnumAt(path).variants) :
         LET value == property_value(EnumAt(path), IndexOf(path), name)
         IN  /\ try_from_value(EnumAt(path), IndexOf(path), value) = [error |-> Ok, name |-> name]
             /\ \A other \in Range(enum_types(RegistryNamed(epr))) \ {path} :
                  try_from_value(EnumAt(other), IndexOf(other), value).error # Ok
             /\ from_index(RegistryNamed(epr), value[1]) # {}
             /\ value[2] < EnumTable[value[1] + 1]

\* The derived indices number the slots of a compiled schema without gap or overlap,
\* and the iterators walk the kinds in the order of their slots.
KindsNumberSlots ==
  outcome = "compiled" =>
    LET nodes == Range(all(crate.nodes))
        edges == Range(all(crate.edges))
        props == Range(all(crate.properties))
        edge_slot(n, d, e) ==
          Schema!edge_storage_slot(index(crate.nodes, n), d, index(crate.edges, e))
        property_slot(n, p) ==
          Schema!property_storage_slot(index(crate.nodes, n), index(crate.properties, p))
    IN  /\ {edge_slot(n, d, e) : n \in nodes, d \in {0, 1}, e \in edges} = Schema!EdgeSlots
        /\ {property_slot(n, p) : n \in nodes, p \in props} = Schema!PropertySlots
        /\ \A n \in nodes, d \in {0, 1}, e \in edges :
             /\ all(crate.nodes)[Schema!SlotNodeKind(edge_slot(n, d, e)) + 1] = n
             /\ Schema!SlotDirection(edge_slot(n, d, e)) = d
             /\ all(crate.edges)[Schema!SlotEdgeKind(edge_slot(n, d, e)) + 1] = e
        /\ \A n \in nodes, p \in props :
             all(crate.properties)[Schema!SlotPropertyKind(property_slot(n, p)) + 1] = p
=============================================================================
