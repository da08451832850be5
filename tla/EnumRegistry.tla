------------------------------ MODULE EnumRegistry ------------------------------
(***************************************************************************)
(* Registries of domain enums.  A registry gives each enum it lists the       *)
(* index of its position; a value of the enum travels as a RawEnumId, that     *)
(* index and the variant's own, and comes back through TryFrom.                *)
(***************************************************************************)
EXTENDS KindDerives

\* A domain enum is its path and the names of its variants.
DomainEnum == [path : STRING, variants : Seq(STRING)]

(***************************************************************************)
(* enum_property_registry!(Name: Type, ...)                                 *)
(***************************************************************************)
\* Variants are named by the last segment, so two of the same name are refused.
check_no_duplicates(types) ==
  \E i, j \in DOMAIN types : i < j /\ types[i].last = types[j].last

registry_error(types) ==
  IF types = <<>> THEN "empty registry"
  ELSE IF check_no_duplicates(types) THEN "duplicate enum" ELSE Ok

\* The enum the macro writes; its derive is expanded after it.
registry_expand(types) ==
  [attrs |-> <<>>,
   variants |-> [i \in DOMAIN types |->
     [name |-> types[i].last,
      attrs |-> <<[name |-> "enum_type", parses |-> TRUE,
                   args |-> <<[key |-> NoKeyword, value |-> types[i]]>>]>>]]]

(***************************************************************************)
(* #[derive(EnumPropertyRegistry)]                                          *)
(***************************************************************************)
parse_enum_type_attr(registry) ==
  LET named(variant) == require_attribute("enum_type", variant.attrs)
  IN  ForEach(named, registry)

enum_type(variant) == TheOne(find_attribute("enum_type", variant.attrs)).args[1].value.path

\* The paths of the enums a registry lists, in its order.
enum_types(registry) == [i \in DOMAIN registry.variants |-> enum_type(registry.variants[i])]

\* The place of a domain enum, which its EnumPropertyIndex returns.
enum_property_index(registry, path) ==
  (CHOOSE i \in DOMAIN registry.variants : enum_types(registry)[i] = path) - 1

variant_count(enums, path) ==
  Len(TheOne({e \in enums : e.path = path}).variants)

\* NoEnumProps, the registry of a schema that names none.
NoEnumProps == [attrs |-> <<>>, variants |-> <<>>]

(***************************************************************************)
(* Values.  A RawEnumId is <<index of the enum, index of the variant>>.      *)
(***************************************************************************)
RawEnumId == Nat \X Nat

\* From<T> for PropertyValue.
property_value(enum, at, name) ==
  <<at, (CHOOSE i \in DOMAIN enum.variants : enum.variants[i] = name) - 1>>

\* Mutant: the enum the value says it is of is not compared.
MutantTryFromValue(enum, at, value) ==
  IF value[2] < Len(enum.variants) THEN [error |-> Ok, name |-> enum.variants[value[2] + 1]]
  ELSE [error |-> "UnresolvedEnumVariant", name |-> ""]

\* TryFrom<PropertyValue> for T, registered at index at, of an enum value; one of
\* another type is refused before it has an index to look at.
try_from_value(enum, at, value) ==
  IF value[1] # at THEN [error |-> "EnumPropertyIndexMismatch", name |-> ""]
  ELSE IF value[2] < Len(enum.variants) THEN [error |-> Ok, name |-> enum.variants[value[2] + 1]]
  ELSE [error |-> "UnresolvedEnumVariant", name |-> ""]
=============================================================================
