------------------------------ MODULE KindDerives ------------------------------
(***************************************************************************)
(* What the derive macros make of one enum declaration: the tables of the    *)
(* kinds a schema is built from, or the first complaint of each derive.       *)
(*                                                                          *)
(* A declaration is its attributes and its variants.  An attribute is written *)
(* #[name(key = value, ...)]; a positional argument has the key NoKeyword.  An *)
(* argument's value is a path: its last segment decides what it names, its     *)
(* generic arguments follow.  Tokens that are no such list do not parse.       *)
(***************************************************************************)
EXTENDS Naturals, FiniteSets, SequencesExt

CONSTANTS
  Spelling,      \* identifier -> its characters: [letter, case]
  RustKeywords,  \* RUST_KEYWORDS, as sequences of letters
  NotRaw,        \* words rustc has no raw identifier for: self, super, crate
  Reserved       \* words the edition reserves

\* A path of one segment is its last segment: of those the macros write out as they
\* stand, the quantities.
Quantities == {"One", "Multi"}
Path == {p \in [path : STRING, last : STRING, inner : Seq(STRING)] :
           p.path \in Quantities => p.last = p.path}
Argument == [key : STRING, value : Path]
Attribute == [name : STRING, parses : BOOLEAN, args : Seq(Argument)]
Variant == [name : DOMAIN Spelling, attrs : Seq(Attribute)]
EnumDecl == [attrs : Seq(Attribute), variants : Seq(Variant)]

Case == {"upper", "lower", "digit", "other"}
ASSUME SpellingAssumption ==
  /\ \A name \in DOMAIN Spelling : Spelling[name] \in Seq([letter : STRING, case : Case])
  /\ \A word \in RustKeywords \cup NotRaw \cup Reserved : word \in Seq(STRING)

Ok == "Ok"
NoKeyword == ""

\* The first element of s that is in T, as a set.
FirstIn(s, T) ==
  {s[i] : i \in {i \in DOMAIN s : s[i] \in T /\ \A j \in 1 .. i - 1 : s[j] \notin T}}

TheOne(S) == CHOOSE x \in S : TRUE

\* A derive goes through the variants and returns the first error it meets.
FirstError(outcomes) ==
  LET errors == FirstIn(outcomes, Range(outcomes) \ {Ok})
  IN  IF errors = {} THEN Ok ELSE TheOne(errors)

ForEach(op(_), e) == FirstError([i \in DOMAIN e.variants |-> op(e.variants[i])])

(***************************************************************************)
(* Attributes                                                              *)
(***************************************************************************)
find_attribute(name, attrs) == FirstIn(attrs, {a \in Range(attrs) : a.name = name})

\* An attribute under another name is not looked at; of two the first counts.
require_attribute(name, attrs) ==
  LET found == find_attribute(name, attrs)
  IN  IF found = {} THEN "missing attribute"
      ELSE IF ~ TheOne(found).parses THEN "malformed" ELSE Ok

\* Of a key given twice the first value counts; keys nobody asks for are ignored.
argument_of(attr, key) ==
  {arg.value : arg \in FirstIn(attr.args, {a \in Range(attr.args) : a.key = key})}

property_attr(variant) == TheOne(find_attribute("property", variant.attrs))
prop_typ(variant) == argument_of(property_attr(variant), "typ")
prop_qty(variant) == argument_of(property_attr(variant), "quantity")

parse_property_attr(variant) == require_attribute("property", variant.attrs)

\* The attribute of the enum itself and its parameters.
parse_kind_attr(e, name, params) ==
  LET attr == require_attribute(name, e.attrs)
      missing == {k \in Range(params) :
                    argument_of(TheOne(find_attribute(name, e.attrs)), k) = {}}
  IN  IF attr # Ok THEN attr
      ELSE FirstError([i \in DOMAIN params |->
             IF params[i] \in missing THEN "missing parameter" ELSE Ok])

(***************************************************************************)
(* Kinds by index and by name                                              *)
(***************************************************************************)
all(e) == [i \in DOMAIN e.variants |-> e.variants[i].name]

from_index(e, i) == IF i < Len(e.variants) THEN {all(e)[i + 1]} ELSE {}

\* Mutant: counted from one.
MutantIndex(e, kind) == CHOOSE i \in DOMAIN e.variants : all(e)[i] = kind

index(e, kind) == (CHOOSE i \in DOMAIN e.variants : all(e)[i] = kind) - 1

\* rename, on a variant that has a property attribute, changes the label only.
variant_label(variant) ==
  LET renames == UNION {argument_of(attr, "rename") :
                          attr \in find_attribute("property", variant.attrs)}
  IN  IF renames = {} THEN variant.name ELSE TheOne(renames).last

\* The derives of the labels parse the attribute only if there is one.
label_error(variant) ==
  IF find_attribute("property", variant.attrs) = {} THEN Ok ELSE parse_property_attr(variant)

labels(e) == [i \in DOMAIN e.variants |-> variant_label(e.variants[i])]

\* Mutant: the name, whatever rename says.
MutantAsStr(e, kind) == kind

as_str(e, kind) == labels(e)[index(e, kind) + 1]

\* The arms of a match: of two variants with one label the first is found.
from_str(e, label) ==
  {all(e)[i] : i \in {i \in DOMAIN e.variants :
     labels(e)[i] = label /\ \A j \in 1 .. i - 1 : labels(e)[j] # label}}

(***************************************************************************)
(* Types and quantities                                                    *)
(***************************************************************************)
ScalarTypes == {"Bool", "Byte", "Short", "Int", "Long", "Float", "Double"}
BoundTypes == ScalarTypes \cup {"NodeId", "String", "Enum"}

enum_typ_inner_type(typ) == IF Len(typ.inner) = 1 THEN Ok ELSE "enum arguments"

\* The table of types has whatever typ names, and the enum's index exactly for Enum.
item_kind_property_type_derive(e, has_qty) ==
  LET first == ForEach(parse_property_attr, e)
      each(variant) ==
        IF prop_typ(variant) = {} THEN "missing property"
        ELSE IF /\ TheOne(prop_typ(variant)).last = "Enum"
                /\ enum_typ_inner_type(TheOne(prop_typ(variant))) # Ok THEN "enum arguments"
        ELSE IF has_qty /\ prop_qty(variant) = {} THEN "missing property" ELSE Ok
  IN  IF first # Ok THEN first ELSE ForEach(each, e)

property_type(variant) == TheOne(prop_typ(variant)).last
property_quantity(variant, has_qty) == IF has_qty THEN TheOne(prop_qty(variant)).path ELSE "One"
property_enum(variant) ==
  IF property_type(variant) = "Enum" THEN {TheOne(prop_typ(variant)).inner[1]} ELSE {}

(***************************************************************************)
(* Accessors                                                               *)
(***************************************************************************)
to_snake_case(name) ==
  LET chars == Spelling[name]
      upper(i) == chars[i].case = "upper"
      breaks(i) == /\ i > 1 /\ upper(i)
                   /\ \/ chars[i - 1].case \in {"lower", "digit"}
                      \/ upper(i - 1) /\ i < Len(chars) /\ chars[i + 1].case = "lower"
  IN  FlattenSeq([i \in DOMAIN chars |->
        IF breaks(i) THEN <<"_", chars[i].letter>> ELSE <<chars[i].letter>>])

method_ident(name) ==
  [word |-> to_snake_case(name), raw |-> to_snake_case(name) \in RustKeywords]

\* Ident::new_raw refuses the words that have no raw form.
ident_error(name) ==
  IF method_ident(name).raw /\ method_ident(name).word \in NotRaw THEN "panic" ELSE Ok

property_binding_error(typ) ==
  IF typ.last \notin BoundTypes THEN "unsupported typ"
  ELSE IF typ.last = "Enum" THEN enum_typ_inner_type(typ) ELSE Ok

\* One trait per node property, with one method.
property_traits_derive(e) ==
  LET first == ForEach(parse_property_attr, e)
      build_property_trait(variant) ==
        IF prop_typ(variant) = {} \/ prop_qty(variant) = {} THEN "missing property"
        ELSE IF TheOne(prop_typ(variant)).last = "None" THEN "None is reserved"
        ELSE IF ident_error(variant.name) # Ok THEN "panic"
        ELSE property_binding_error(TheOne(prop_typ(variant)))
  IN  IF first # Ok THEN first ELSE ForEach(build_property_trait, e)

\* Mutant: the path of the type is not cut down to its last segment.
MutantPropertyAccessor(variant) ==
  [typ |-> TheOne(prop_typ(variant)).path,
   inner |-> TheOne(prop_typ(variant)).inner,
   multi |-> TheOne(prop_qty(variant)).last = "Multi"]

\* What the method returns: one value or all, of which type.
property_accessor(variant) ==
  [typ |-> TheOne(prop_typ(variant)).last,
   inner |-> TheOne(prop_typ(variant)).inner,
   multi |-> TheOne(prop_qty(variant)).last = "Multi"]

\* A struct per edge kind; its property() reads a value unless the typ is None.
edge_structs_derive(e) ==
  LET first == ForEach(parse_property_attr, e)
      build_edge_property_method(variant) ==
        IF prop_typ(variant) = {} THEN "missing property"
        ELSE IF TheOne(prop_typ(variant)).last = "None" THEN Ok
        ELSE property_binding_error(TheOne(prop_typ(variant)))
  IN  IF first # Ok THEN first ELSE ForEach(build_edge_property_method, e)

has_property_method(variant) == TheOne(prop_typ(variant)).last # "None"

\* The properties each node kind lists, which its struct gets the traits of.
node_available_properties_derive(e) ==
  LET listed(variant) == require_attribute("properties", variant.attrs)
  IN  ForEach(listed, e)

properties(variant) ==
  LET args == TheOne(find_attribute("properties", variant.attrs)).args
  IN  [i \in DOMAIN args |-> args[i].value.last]

\* Mutant: only neighbouring variants are compared.
MutantNodeAccessorTraits(e) ==
  FirstError([i \in DOMAIN e.variants |->
    IF ident_error(all(e)[i]) # Ok THEN "panic"
    ELSE IF i > 1 /\ method_ident(all(e)[i - 1]) = method_ident(all(e)[i]) THEN "duplicate method"
    ELSE Ok])

\* All node kinds get a method on the same receiver, so no two may share a name.
node_accessor_traits_derive(e) ==
  FirstError([i \in DOMAIN e.variants |->
    IF ident_error(all(e)[i]) # Ok THEN "panic"
    ELSE IF \E j \in 1 .. i - 1 : method_ident(all(e)[j]) = method_ident(all(e)[i])
      THEN "duplicate method"
    ELSE Ok])

(***************************************************************************)
(* The derives of an enum run one after the other; each that fails leaves its  *)
(* complaint, but a panic takes the others' output with it, and an enum whose  *)
(* own attribute is wrong gets that complaint only.                            *)
(***************************************************************************)
Complaints(outcomes) ==
  IF "panic" \in outcomes THEN {"panic"} ELSE outcomes \ {Ok}

node_kind_derive(e) ==
  LET config == parse_kind_attr(e, "node_kind", <<"schema", "property_kind">>)
  IN  IF config # Ok THEN {config}
      ELSE Complaints({ForEach(label_error, e), node_available_properties_derive(e),
                       node_accessor_traits_derive(e)})

edge_kind_derive(e) ==
  LET config == parse_kind_attr(e, "edge_kind", <<"schema">>)
  IN  IF config # Ok THEN {config}
      ELSE Complaints({ForEach(label_error, e), item_kind_property_type_derive(e, FALSE),
                       edge_structs_derive(e)})

property_kind_derive(e) ==
  Complaints({ForEach(label_error, e), item_kind_property_type_derive(e, TRUE),
              property_traits_derive(e)})
=============================================================================
