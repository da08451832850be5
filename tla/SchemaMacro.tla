------------------------------ MODULE SchemaMacro ------------------------------
(***************************************************************************)
(* schema!(key = value, ...): the loop that reads its arguments one by one    *)
(* into slots, the check for keys that are missing, and the version.           *)
(***************************************************************************)
EXTENDS Naturals, SequencesExt

CONSTANT MaxComponent  \* the largest component of a version (u32::MAX)

ASSUME ComponentAssumption == MaxComponent \in Nat

Required == <<"name", "node_kind", "edge_kind", "prop_kind", "version">>
Keys == Range(Required) \cup {"enum_prop_registry"}

\* An argument: what stands before and after the "=", and whether a comma follows.
\* A version literal is the list of its parts, each a number or NotANumber.
NotANumber == 0 - 1
Value == [form : {"ident", "path", "literal"}, text : STRING,
          parts : Seq(Nat \cup {NotANumber})]
CallArgument == [key : STRING, equals : BOOLEAN, value : Value, comma : BOOLEAN]

VARIABLES
  arguments,  \* what is left of the call
  slots,      \* key -> the value read for it, as a set
  parsed      \* "parsing", "Ok", or the error that ended it

macro_vars == <<arguments, slots, parsed>>

EmptySlots == [key \in Keys |-> {}]

\* An identifier is a path as well.
Parses(key, value) ==
  CASE key = "name"    -> value.form = "ident"
    [] key = "version" -> value.form = "literal"
    [] OTHER           -> value.form \in {"ident", "path"}

\* Mutant: a key given again replaces the value it had.
MutantKeyError(arg) ==
  IF ~ arg.equals THEN "syntax"
  ELSE IF arg.key \notin Keys THEN "unknown key"
  ELSE IF ~ Parses(arg.key, arg.value) THEN "syntax" ELSE "Ok"

\* The first thing wrong with an argument, given what was read before it.  Its
\* value is not looked at when the key is unknown or has a value already.
KeyError(arg) ==
  IF ~ arg.equals THEN "syntax"
  ELSE IF arg.key \notin Keys THEN "unknown key"
  ELSE IF slots[arg.key] # {} THEN "duplicate key"
  ELSE IF ~ Parses(arg.key, arg.value) THEN "syntax" ELSE "Ok"

\* One turn of the loop.  A comma may follow the last argument and has to follow
\* every other one.
ParseArgument ==
  /\ parsed = "parsing" /\ arguments # <<>>
  /\ LET arg == Head(arguments)
         error == KeyError(arg)
     IN  /\ arguments' = Tail(arguments)
         /\ slots' = IF error = "Ok" THEN [slots EXCEPT ![arg.key] = {arg.value}] ELSE slots
         /\ parsed' = IF error # "Ok" THEN error
                      ELSE IF ~ arg.comma /\ Tail(arguments) # <<>> THEN "syntax"
                      ELSE "parsing"

missing_keys == {key \in Range(Required) : slots[key] = {}}

version == (CHOOSE v \in slots["version"] : TRUE).parts

parse_version(parts) ==
  Len(parts) = 3 /\ \A i \in DOMAIN parts : parts[i] \in 0 .. MaxComponent

\* The end of the loop: the keys that are missing are reported together, and a
\* complete definition is expanded.
ExpandSchema ==
  /\ parsed = "parsing" /\ arguments = <<>>
  /\ parsed' = IF missing_keys # {} THEN "missing keys"
               ELSE IF ~ parse_version(version) THEN "invalid version" ELSE "Ok"
  /\ UNCHANGED <<arguments, slots>>

\* type EPR of the generated schema: the registry named, or NoEnumProps.
epr == IF slots["enum_prop_registry"] = {} THEN "NoEnumProps"
       ELSE (CHOOSE v \in slots["enum_prop_registry"] : TRUE).text
=============================================================================
