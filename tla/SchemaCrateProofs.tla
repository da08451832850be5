----------------------------- MODULE SchemaCrateProofs -----------------------------
(***************************************************************************)
(* For every set of crates and in every order of expansion: schema! is read   *)
(* as it was written, labels read back, and the derived indices number the     *)
(* slots of every crate that compiles.                                          *)
(***************************************************************************)
EXTENDS SchemaCrate, SlotProofs, FiniteSetTheorems, SequenceTheorems, WellFoundedInduction, TLAPS

(***************************************************************************)
(* The call                                                                *)
(***************************************************************************)
ReadCount == Len(crate.call) - Len(arguments)

ValuesRead(key) ==
  {crate.call[i].value : i \in {i \in 1 .. ReadCount : crate.call[i].key = key}}

WrongArgument == {"syntax", "unknown key", "duplicate key"}
ReadToTheEnd == {"missing keys", "invalid version", "Ok"}

\* What is left of the call is its end.
RestOfCall ==
  /\ crate \in Crate
  /\ arguments \in Seq(CallArgument) /\ Len(arguments) <= Len(crate.call)
  /\ \A i \in 1 .. Len(arguments) : arguments[i] = crate.call[ReadCount + i]

NoneWrong == \A i \in 1 .. ReadCount : ~ Wrong(i)

\* While it reads, the macro has met nothing wrong and holds what it has read.
ReadSoFar ==
  /\ parsed \in {"parsing"} \cup WrongArgument \cup ReadToTheEnd
  /\ parsed \notin WrongArgument =>
       NoneWrong /\ slots = [key \in Keys |-> ValuesRead(key)]
  /\ parsed \in WrongArgument =>
       ReadCount >= 1 /\ Wrong(ReadCount) /\ \A i \in 1 .. ReadCount - 1 : ~ Wrong(i)
  /\ parsed \in ReadToTheEnd => arguments = <<>>
  /\ parsed = "Ok" => missing_keys = {} /\ parse_version(version)

CallInv == RestOfCall /\ ReadSoFar

\* Before schema! is expanded nothing has been read.
LEMMA InitCallInv == Init => CallInv
<1> SUFFICES ASSUME Init PROVE CallInv
  OBVIOUS
<1>1. crate \in Crate
  BY CrateAssumption DEF Init
<1>2. crate.call \in Seq(CallArgument)
  BY <1>1 DEF Crate
<1>3. arguments = crate.call /\ ReadCount = 0
  BY <1>2 DEF Init, ReadCount
<1>4. RestOfCall
  BY <1>1, <1>2, <1>3 DEF RestOfCall
<1>5. \A key \in Keys : ValuesRead(key) = {}
  BY <1>3 DEF ValuesRead
<1>6. slots = [key \in Keys |-> ValuesRead(key)]
  BY <1>5 DEF Init, EmptySlots
<1>7. ReadSoFar
  BY <1>3, <1>6 DEF ReadSoFar, Init, NoneWrong, WrongArgument, ReadToTheEnd
<1> QED
  BY <1>4, <1>7 DEF CallInv

\* The next argument is wrong by itself or repeats a key exactly when KeyError says so.
LEMMA KeyErrorIsWrong ==
  ASSUME CallInv, parsed = "parsing", arguments # <<>>
  PROVE  LET n == ReadCount + 1
             arg == crate.call[n]
         IN  /\ n \in 1 .. Len(crate.call) /\ Head(arguments) = arg
             /\ KeyError(arg) \in WrongArgument \cup {"Ok"}
             /\ KeyError(arg) = "Ok" <=>
                  arg.equals /\ arg.key \in Keys /\ ~ Repeated(n) /\ Parses(arg.key, arg.value)
             /\ KeyError(arg) = "Ok" => slots[arg.key] = {}
<1> DEFINE n == ReadCount + 1
           arg == crate.call[n]
<1>1. crate.call \in Seq(CallArgument) /\ arguments \in Seq(CallArgument)
  BY DEF CallInv, RestOfCall, Crate
<1>2. /\ ReadCount \in Nat /\ n \in 1 .. Len(crate.call)
      /\ Head(arguments) = arg
  BY <1>1 DEF CallInv, RestOfCall, ReadCount
<1>3. slots = [key \in Keys |-> ValuesRead(key)]
  BY DEF CallInv, ReadSoFar, WrongArgument
<1>4. arg.key \in Keys => (slots[arg.key] # {} <=> Repeated(n))
  <2> SUFFICES ASSUME arg.key \in Keys PROVE slots[arg.key] # {} <=> Repeated(n)
    OBVIOUS
  <2>1. slots[arg.key] = {crate.call[i].value : i \in {i \in 1 .. n - 1 : crate.call[i].key = arg.key}}
    BY <1>2, <1>3 DEF ValuesRead
  <2> HIDE DEF arg, n
  <2>2. slots[arg.key] # {} <=> \E i \in 1 .. n - 1 : crate.call[i].key = arg.key
    BY <2>1
  <2> QED
    BY <2>2 DEF Repeated, arg
<1>5. KeyError(arg) \in WrongArgument \cup {"Ok"}
  BY DEF KeyError, WrongArgument
<1>6. KeyError(arg) = "Ok" <=>
        arg.equals /\ arg.key \in Keys /\ slots[arg.key] = {} /\ Parses(arg.key, arg.value)
  BY DEF KeyError
<1> QED
  BY <1>2, <1>4, <1>5, <1>6

\* An argument adds the value of a key that had none, or ends in an error.
LEMMA ParseArgumentKeeps == ASSUME CallInv, ParseArgument, UNCHANGED crate PROVE CallInv'
<1> DEFINE n == ReadCount + 1
           arg == crate.call[n]
           error == KeyError(arg)
<1>1. parsed = "parsing" /\ arguments # <<>>
  BY DEF ParseArgument
<1>2. /\ n \in 1 .. Len(crate.call) /\ Head(arguments) = arg
      /\ error \in WrongArgument \cup {"Ok"}
      /\ error = "Ok" <=>
           arg.equals /\ arg.key \in Keys /\ ~ Repeated(n) /\ Parses(arg.key, arg.value)
      /\ error = "Ok" => slots[arg.key] = {}
  BY <1>1, KeyErrorIsWrong
<1>3. crate \in Crate /\ crate.call \in Seq(CallArgument) /\ arguments \in Seq(CallArgument)
  BY DEF CallInv, RestOfCall, Crate
<1>4. NoneWrong /\ slots = [key \in Keys |-> ValuesRead(key)]
  BY <1>1 DEF CallInv, ReadSoFar, WrongArgument
<1>5. /\ arguments' = Tail(arguments) /\ Len(arguments') = Len(arguments) - 1
      /\ Len(arguments) \in Nat /\ ReadCount' = n /\ ReadCount = n - 1
      /\ arguments' \in Seq(CallArgument) /\ n \in Nat /\ n >= 1
  BY <1>1, <1>2, <1>3 DEF ParseArgument, ReadCount
<1>6. arguments' = <<>> <=> n = Len(crate.call)
  <2>1. Len(crate.call) \in Nat /\ Len(arguments') = Len(crate.call) - n
    BY <1>3, <1>5 DEF ReadCount
  <2>2. arguments' = <<>> <=> Len(arguments') = 0
    BY <1>5, EmptySeq
  <2>3. Len(arguments') = 0 <=> n = Len(crate.call)
    <3>1. n \in Nat
      BY <1>5
    <3> HIDE DEF n
    <3> QED
      BY <2>1, <3>1
  <2> QED
    BY <2>2, <2>3
<1>7. /\ slots' = IF error = "Ok" THEN [slots EXCEPT ![arg.key] = {arg.value}] ELSE slots
      /\ parsed' = IF error # "Ok" THEN error
                   ELSE IF ~ arg.comma /\ arguments' # <<>> THEN "syntax" ELSE "parsing"
  BY <1>2, <1>5 DEF ParseArgument
<1>8. \A i : Wrong(i)' <=> Wrong(i)
  BY DEF Wrong, Repeated
<1>9. RestOfCall'
  BY <1>3, <1>5 DEF RestOfCall, CallInv, ReadCount
<1>10. Wrong(n) <=> error # "Ok" \/ (~ arg.comma /\ arguments' # <<>>)
  BY <1>2, <1>3, <1>6 DEF Wrong
<1>11. CASE Wrong(n)
  <2>1. parsed' \in WrongArgument
    BY <1>2, <1>7, <1>10, <1>11 DEF WrongArgument
  <2>2. Wrong(ReadCount)' /\ ReadCount' >= 1
    BY <1>5, <1>8, <1>11
  <2>3. \A i \in 1 .. ReadCount' - 1 : ~ Wrong(i)'
    BY <1>4, <1>5, <1>8 DEF NoneWrong
  <2>4. ReadSoFar'
    BY <2>1, <2>2, <2>3 DEF ReadSoFar, WrongArgument, ReadToTheEnd
  <2> QED
    BY <1>9, <2>4 DEF CallInv
<1>12. CASE ~ Wrong(n)
  <2>1. error = "Ok" /\ parsed' = "parsing" /\ slots' = [slots EXCEPT ![arg.key] = {arg.value}]
    BY <1>7, <1>10, <1>12
  <2>2. NoneWrong'
    BY <1>4, <1>5, <1>8, <1>12 DEF NoneWrong
  <2>3. ASSUME NEW key \in Keys PROVE slots'[key] = ValuesRead(key)'
    <3>1. ValuesRead(key)' = {crate.call[i].value : i \in {i \in 1 .. n : crate.call[i].key = key}}
      BY <1>5 DEF ValuesRead
    <3>2. ValuesRead(key) = {crate.call[i].value : i \in {i \in 1 .. n - 1 : crate.call[i].key = key}}
      BY <1>5 DEF ValuesRead
    <3>3. slots[key] = ValuesRead(key)
      BY <1>4
    <3>4. CASE key = arg.key
      <4>1. \A i \in 1 .. n - 1 : crate.call[i].key # key
        BY <1>2, <2>1, <3>4 DEF Repeated
      <4>2. {i \in 1 .. n : crate.call[i].key = key} = {n}
        BY <1>5, <3>4, <4>1
      <4>3. ValuesRead(key)' = {arg.value}
        BY <3>1, <4>2
      <4> QED
        BY <1>4, <2>1, <3>4, <4>3
    <3>5. CASE key # arg.key
      <4>1. {i \in 1 .. n : crate.call[i].key = key} = {i \in 1 .. n - 1 : crate.call[i].key = key}
        BY <1>5, <3>5
      <4> QED
        BY <1>4, <2>1, <3>1, <3>2, <3>3, <3>5, <4>1
    <3> QED
      BY <3>4, <3>5
  <2>4. slots' = [key \in Keys |-> ValuesRead(key)']
    BY <1>4, <2>1, <2>3
  <2>5. ReadSoFar'
    BY <2>1, <2>2, <2>4 DEF ReadSoFar, WrongArgument, ReadToTheEnd
  <2> QED
    BY <1>9, <2>5 DEF CallInv
<1> QED
  BY <1>11, <1>12

\* schema! is expanded from what was read, when no key is missing.
LEMMA ExpandSchemaKeeps == ASSUME CallInv, ExpandSchema, UNCHANGED crate PROVE CallInv'
<1>1. /\ parsed = "parsing" /\ arguments = <<>> /\ UNCHANGED <<arguments, slots>>
      /\ parsed' \in ReadToTheEnd
      /\ parsed' = "Ok" => missing_keys = {} /\ parse_version(version)
  BY DEF ExpandSchema, ReadToTheEnd
<1>2. /\ ReadCount' = ReadCount /\ missing_keys' = missing_keys
      /\ parse_version(version)' = parse_version(version)
      /\ \A key : ValuesRead(key)' = ValuesRead(key)
      /\ NoneWrong' = NoneWrong
  BY <1>1 DEF ReadCount, missing_keys, version, parse_version, ValuesRead, NoneWrong, Wrong, Repeated
<1>3. NoneWrong /\ slots = [key \in Keys |-> ValuesRead(key)]
  BY <1>1 DEF CallInv, ReadSoFar, WrongArgument
<1>4. slots' = [key \in Keys |-> ValuesRead(key)']
  BY <1>1, <1>2, <1>3
<1>5. RestOfCall'
  BY <1>1, <1>2 DEF CallInv, RestOfCall
<1>6. ReadSoFar'
  BY <1>1, <1>2, <1>3, <1>4 DEF ReadSoFar, WrongArgument, ReadToTheEnd
<1> QED
  BY <1>5, <1>6 DEF CallInv

\* No other derive disturbs what schema! has read.
LEMMA StepCallInv == CallInv /\ [Next]_vars => CallInv'
<1> SUFFICES ASSUME CallInv, [Next]_vars PROVE CallInv'
  OBVIOUS
<1>1. CASE ParseCall
  BY <1>1, ParseArgumentKeeps, ExpandSchemaKeeps DEF ParseCall
<1>2. CASE UNCHANGED <<macro_vars, crate>>
  <2>1. /\ UNCHANGED <<arguments, slots, parsed, crate>>
        /\ ReadCount' = ReadCount /\ missing_keys' = missing_keys
        /\ parse_version(version)' = parse_version(version)
    BY <1>2 DEF macro_vars, ReadCount, missing_keys, version, parse_version
  <2>2. \A i : Wrong(i)' <=> Wrong(i)
    BY <2>1 DEF Wrong, Repeated
  <2>3. \A key : ValuesRead(key)' = ValuesRead(key)
    BY <2>1 DEF ValuesRead
  <2>4. NoneWrong' <=> NoneWrong
    BY <2>1, <2>2 DEF NoneWrong
  <2>5. RestOfCall'
    BY <2>1 DEF CallInv, RestOfCall
  <2>6. parsed \notin WrongArgument => slots' = [key \in Keys |-> ValuesRead(key)']
    BY <2>1, <2>3 DEF CallInv, ReadSoFar
  <2>7. ReadSoFar'
    BY <2>1, <2>2, <2>4, <2>6 DEF CallInv, ReadSoFar
  <2> QED
    BY <2>5, <2>7 DEF CallInv
<1>3. ParseCall \/ UNCHANGED <<macro_vars, crate>>
  BY DEF Next, vars, macro_vars, ExpandProperties, ExpandEdges, ExpandNodes, Expand,
    ExpandRegistryMacro, ExpandRegistryDerive, Resolve
<1> QED
  BY <1>1, <1>2, <1>3

\* What was read, as a set of arguments instead of their places.
LEMMA CallInvSuffices == CallInv => CallReadAsWritten
<1> SUFFICES ASSUME CallInv PROVE CallReadAsWritten
  OBVIOUS
<1> DEFINE call == crate.call
<1>1. call \in Seq(CallArgument) /\ ReadCount \in 0 .. Len(call)
  BY DEF CallInv, RestOfCall, Crate, ReadCount
<1>2. parsed \notin WrongArgument => \A i \in 1 .. ReadCount : ~ Wrong(i)
  BY DEF CallInv, ReadSoFar, NoneWrong
<1>3. parsed \in ReadToTheEnd => ReadCount = Len(call)
  BY <1>1 DEF CallInv, ReadSoFar, ReadCount
<1>4. parsed \in ReadToTheEnd => \A i \in DOMAIN call : ~ Wrong(i)
  <2> SUFFICES ASSUME parsed \in ReadToTheEnd, NEW i \in DOMAIN call PROVE ~ Wrong(i)
    OBVIOUS
  <2>1. parsed \notin WrongArgument
    BY DEF WrongArgument, ReadToTheEnd
  <2>2. i \in 1 .. ReadCount
    BY <1>1, <1>3
  <2> QED
    BY <1>2, <2>1, <2>2
<1>5. ASSUME parsed = "Ok"
      PROVE  /\ \A key \in Keys : slots[key] = {a.value : a \in {a \in Range(call) : a.key = key}}
             /\ \A key \in Range(Required) : Cardinality({i \in DOMAIN call : call[i].key = key}) = 1
             /\ Len(version) = 3 /\ Range(version) \subseteq 0 .. MaxComponent
  <2>1. ReadCount = Len(call) /\ \A i \in DOMAIN call : ~ Wrong(i)
    BY <1>3, <1>4, <1>5 DEF ReadToTheEnd
  <2>2. slots = [key \in Keys |-> {call[i].value : i \in {i \in DOMAIN call : call[i].key = key}}]
    <3>1. slots = [key \in Keys |-> ValuesRead(key)]
      BY <1>5 DEF CallInv, ReadSoFar, WrongArgument
    <3>2. DOMAIN call = 1 .. ReadCount
      BY <1>1, <2>1
    <3> QED
      BY <3>1, <3>2 DEF ValuesRead
  <2>3. ASSUME NEW key \in Keys
        PROVE  slots[key] = {a.value : a \in {a \in Range(call) : a.key = key}}
    <3>1. slots[key] = {call[i].value : i \in {i \in DOMAIN call : call[i].key = key}}
      BY <2>2
    <3> HIDE DEF call
    <3> QED
      BY <3>1 DEF Range
  <2>4. ASSUME NEW key \in Range(Required)
        PROVE  Cardinality({i \in DOMAIN call : call[i].key = key}) = 1
    <3>1. key \in Keys /\ slots[key] # {}
      BY <1>5, <2>4 DEF CallInv, ReadSoFar, missing_keys, Keys
    <3>2. PICK i \in DOMAIN call : call[i].key = key
      BY <2>2, <3>1
    <3>3. ASSUME NEW j \in DOMAIN call, call[j].key = key PROVE j = i
      <4>1. i \in Nat /\ j \in Nat /\ i >= 1 /\ j >= 1
        BY <1>1
      <4>2. ~ (i < j)
        BY <2>1, <3>2, <3>3, <4>1 DEF Wrong, Repeated
      <4>3. ~ (j < i)
        BY <2>1, <3>2, <3>3, <4>1 DEF Wrong, Repeated
      <4> QED
        BY <4>1, <4>2, <4>3
    <3>4. {j \in DOMAIN call : call[j].key = key} = {i}
      BY <3>2, <3>3
    <3> QED
      BY <3>4, FS_Singleton
  <2>5. Len(version) = 3 /\ Range(version) \subseteq 0 .. MaxComponent
    BY <1>5 DEF CallInv, ReadSoFar, parse_version, Range
  <2> QED
    BY <2>3, <2>4, <2>5
<1>6. parsed \in WrongArgument => Wrong(ReadCount) /\ \A i \in 1 .. ReadCount - 1 : ~ Wrong(i)
  BY DEF CallInv, ReadSoFar
<1>7. parsed = "parsing" => \A i \in 1 .. ReadCount : ~ Wrong(i)
  BY <1>2 DEF WrongArgument
<1>8. parsed \in {"missing keys", "invalid version"} => \A i \in DOMAIN call : ~ Wrong(i)
  BY <1>4 DEF ReadToTheEnd
<1> HIDE DEF call
<1> QED
  BY <1>5, <1>6, <1>7, <1>8 DEF CallReadAsWritten, ReadCount, WrongArgument, Ok, call

\* Of every crate, in every order of expansion: what schema! expands to is the value the
\* call gives each key, and a call refused while it is read is refused at its first
\* argument that is wrong or repeated.
THEOREM CallAlwaysReadAsWritten == Spec => []CallReadAsWritten
<1>1. CallInv /\ [Next]_vars => CallInv'
  BY StepCallInv
<1> QED
  BY InitCallInv, <1>1, CallInvSuffices, PTL DEF Spec

(***************************************************************************)
(* The kinds of a compiled crate                                           *)
(***************************************************************************)
KindEnums == {crate.properties, crate.edges, crate.nodes}

\* The compiler lets no enum through that has two variants of one name.
KindsInv ==
  /\ crate \in Crate
  /\ outcome = "compiled" => \A e \in KindEnums : Distinct(all(e))

\* The kinds of every enum that is expanded are numbered apart.
LEMMA KindsAlwaysDistinct == Spec => []KindsInv
<1>1. Init => KindsInv
  BY CrateAssumption DEF Init, KindsInv
<1>2. ASSUME KindsInv, [Next]_vars PROVE KindsInv'
  <2>1. UNCHANGED crate
    BY <1>2 DEF Next, vars, macro_vars, ExpandProperties, ExpandEdges, ExpandNodes, Expand,
      ExpandRegistryMacro, ExpandRegistryDerive, ParseCall, Resolve
  <2>2. KindEnums' = KindEnums
    BY <2>1 DEF KindEnums
  <2>3. CASE Resolve
    <3>1. outcome' = "compiled" => \A e \in KindEnums : Distinct(all(e))
      BY <2>3 DEF Resolve, TypeChecks, KindEnums
    <3> QED
      BY <1>2, <2>1, <2>2, <3>1 DEF KindsInv
  <2>4. CASE UNCHANGED outcome
    BY <1>2, <2>1, <2>2, <2>4 DEF KindsInv
  <2>5. Resolve \/ UNCHANGED outcome
    BY <1>2 DEF Next, vars, macro_vars, ExpandProperties, ExpandEdges, ExpandNodes, Expand,
      ExpandRegistryMacro, ExpandRegistryDerive, ParseCall
  <2> QED
    BY <2>3, <2>4, <2>5
<1> QED
  BY <1>1, <1>2, PTL DEF Spec

\* A kind has one place, which index counts from zero.
LEMMA IndexFindsKind ==
  ASSUME NEW e \in EnumDecl, Distinct(all(e)), NEW i \in DOMAIN e.variants
  PROVE  index(e, all(e)[i]) = i - 1 /\ i \in 1 .. Len(e.variants) /\ DOMAIN all(e) = 1 .. Len(e.variants)
<1>1. e.variants \in Seq(Variant)
  BY DEF EnumDecl
<1>2. DOMAIN all(e) = DOMAIN e.variants /\ DOMAIN e.variants = 1 .. Len(e.variants)
  BY <1>1 DEF all
<1>3. \A j \in DOMAIN e.variants : all(e)[j] = all(e)[i] => j = i
  BY <1>2 DEF Distinct
<1>4. (CHOOSE j \in DOMAIN e.variants : all(e)[j] = all(e)[i]) = i
  BY <1>3
<1> QED
  BY <1>2, <1>4 DEF index

\* Every nonempty set of places has a first one.
LEMMA FirstPlace ==
  ASSUME NEW S, S \subseteq Nat, S # {}
  PROVE  \E m \in S : \A j \in S : m <= j
<1>1. PICK m \in S : \A j \in S : ~ (<<j, m>> \in OpToRel(<, Nat))
  BY NatLessThanWellFounded, WFMin
<1>2. ASSUME NEW j \in S PROVE m <= j
  <2>1. m \in Nat /\ j \in Nat /\ <<j, m>> \in Nat \X Nat
    OBVIOUS
  <2>2. ~ (j < m)
    BY <1>1, <2>1 DEF OpToRel
  <2> QED
    BY <2>1, <2>2
<1> QED
  BY <1>2

\* The label of a kind is its variant's.
LEMMA LabelOfKind ==
  ASSUME NEW e \in EnumDecl, Distinct(all(e)), NEW i \in DOMAIN e.variants
  PROVE  as_str(e, all(e)[i]) = labels(e)[i]
<1>1. index(e, all(e)[i]) + 1 = i
  BY IndexFindsKind
<1> QED
  BY <1>1 DEF as_str

\* Reading a label back finds the first kind that has it.
LEMMA LabelFindsKind ==
  ASSUME NEW e \in EnumDecl, Distinct(all(e)), NEW i \in DOMAIN e.variants
  PROVE  \E back \in from_str(e, as_str(e, all(e)[i])) :
           /\ as_str(e, back) = as_str(e, all(e)[i])
           /\ back # all(e)[i] => index(e, back) < index(e, all(e)[i])
<1> DEFINE S == {j \in DOMAIN e.variants : labels(e)[j] = labels(e)[i]}
<1>1. DOMAIN e.variants = 1 .. Len(e.variants) /\ Len(e.variants) \in Nat
  BY IndexFindsKind DEF EnumDecl
<1>2. S \subseteq Nat /\ S # {}
  BY <1>1
<1>3. PICK m \in S : \A j \in S : m <= j
  BY <1>2, FirstPlace
<1>4. m \in DOMAIN e.variants /\ labels(e)[m] = labels(e)[i] /\ m <= i /\ m \in Nat /\ i \in Nat
  BY <1>1, <1>3
<1>5. \A j \in 1 .. m - 1 : labels(e)[j] # labels(e)[i]
  BY <1>1, <1>3, <1>4
<1>6. as_str(e, all(e)[i]) = labels(e)[i] /\ as_str(e, all(e)[m]) = labels(e)[m]
  BY <1>4, LabelOfKind
<1>7. all(e)[m] \in from_str(e, as_str(e, all(e)[i]))
  BY <1>4, <1>5, <1>6 DEF from_str
<1>8. index(e, all(e)[i]) = i - 1 /\ index(e, all(e)[m]) = m - 1
  BY <1>4, IndexFindsKind
<1>9. all(e)[m] # all(e)[i] => m < i
  BY <1>4
<1> QED
  BY <1>4, <1>6, <1>7, <1>8, <1>9

\* Of every crate that compiles: the label of a kind reads back as a kind of that label,
\* itself or an earlier one, and nothing else reads as a kind.
THEOREM LabelsAlwaysReadBack == Spec => []LabelsReadBack
<1>1. ASSUME KindsInv PROVE LabelsReadBack
  <2> SUFFICES ASSUME outcome = "compiled", NEW e \in KindEnums
               PROVE  /\ \A kind \in Range(all(e)) :
                           \E back \in from_str(e, as_str(e, kind)) :
                             /\ as_str(e, back) = as_str(e, kind)
                             /\ back # kind => index(e, back) < index(e, kind)
                      /\ \A name \in DOMAIN Spelling :
                           from_str(e, name) # {} =>
                             \E kind \in Range(all(e)) : as_str(e, kind) = name
    BY DEF LabelsReadBack, KindEnums
  <2>1. e \in EnumDecl /\ Distinct(all(e))
    BY <1>1 DEF KindsInv, KindEnums, Crate
  <2>2. DOMAIN all(e) = DOMAIN e.variants
    BY DEF all
  <2>3. ASSUME NEW kind \in Range(all(e))
        PROVE  \E back \in from_str(e, as_str(e, kind)) :
                 /\ as_str(e, back) = as_str(e, kind)
                 /\ back # kind => index(e, back) < index(e, kind)
    <3>1. PICK i \in DOMAIN e.variants : kind = all(e)[i]
      BY <2>2 DEF Range
    <3> QED
      BY <2>1, <3>1, LabelFindsKind
  <2>4. ASSUME NEW name \in DOMAIN Spelling, from_str(e, name) # {}
        PROVE  \E kind \in Range(all(e)) : as_str(e, kind) = name
    <3>1. PICK i \in DOMAIN e.variants : labels(e)[i] = name
      BY <2>4 DEF from_str
    <3>2. as_str(e, all(e)[i]) = name
      BY <2>1, <3>1, LabelOfKind
    <3> QED
      BY <2>2, <3>2 DEF Range
  <2> QED
    BY <2>3, <2>4
<1> QED
  BY <1>1, KindsAlwaysDistinct, PTL

(***************************************************************************)
(* Slots                                                                   *)
(***************************************************************************)
\* index is a bijection from the kinds of an enum to 0 .. n - 1, and all its inverse.
LEMMA KindsNumbered ==
  ASSUME NEW e \in EnumDecl, Distinct(all(e))
  PROVE  /\ Len(e.variants) \in Nat
         /\ \A kind \in Range(all(e)) :
              index(e, kind) \in 0 .. Len(e.variants) - 1 /\ all(e)[index(e, kind) + 1] = kind
         /\ \A i \in 0 .. Len(e.variants) - 1 :
              \E kind \in Range(all(e)) : index(e, kind) = i
<1>1. e.variants \in Seq(Variant) /\ DOMAIN all(e) = DOMAIN e.variants
      /\ DOMAIN e.variants = 1 .. Len(e.variants) /\ Len(e.variants) \in Nat
  BY DEF EnumDecl, all
<1>2. ASSUME NEW kind \in Range(all(e))
      PROVE  index(e, kind) \in 0 .. Len(e.variants) - 1 /\ all(e)[index(e, kind) + 1] = kind
  <2>1. PICK i \in DOMAIN e.variants : kind = all(e)[i]
    BY <1>1 DEF Range
  <2>2. index(e, kind) = i - 1 /\ i \in 1 .. Len(e.variants)
    BY <2>1, IndexFindsKind
  <2>3. index(e, kind) + 1 = i
    BY <2>2
  <2> QED
    BY <1>1, <2>1, <2>2, <2>3
<1>3. ASSUME NEW i \in 0 .. Len(e.variants) - 1 PROVE \E kind \in Range(all(e)) : index(e, kind) = i
  <2>1. i + 1 \in DOMAIN e.variants
    BY <1>1
  <2>2. index(e, all(e)[i + 1]) = i
    BY <1>1, <2>1, IndexFindsKind
  <2>3. all(e)[i + 1] \in Range(all(e))
    BY <1>1, <2>1 DEF Range
  <2> QED
    BY <2>2, <2>3
<1> QED
  BY <1>1, <1>2, <1>3

\* Of every crate that compiles: each slot of the storages belongs to one combination of
\* kinds, and the iterators over the slots meet the kinds in that order.
THEOREM KindsAlwaysNumberSlots == Spec => []KindsNumberSlots
<1>1. ASSUME KindsInv PROVE KindsNumberSlots
  <2> DEFINE nodes == Range(all(crate.nodes))
             edges == Range(all(crate.edges))
             props == Range(all(crate.properties))
             N == Len(crate.nodes.variants)
             E == Len(crate.edges.variants)
             P == Len(crate.properties.variants)
             node(n) == index(crate.nodes, n)
             edge(e) == index(crate.edges, e)
             prop(p) == index(crate.properties, p)
             edge_slot(n, d, e) == Schema!edge_storage_slot(node(n), d, edge(e))
             property_slot(n, p) == Schema!property_storage_slot(node(n), prop(p))
  <2> SUFFICES ASSUME outcome = "compiled"
               PROVE  /\ {edge_slot(n, d, e) : n \in nodes, d \in {0, 1}, e \in edges} = Schema!EdgeSlots
                      /\ {property_slot(n, p) : n \in nodes, p \in props} = Schema!PropertySlots
                      /\ \A n \in nodes, d \in {0, 1}, e \in edges :
                           /\ all(crate.nodes)[Schema!SlotNodeKind(edge_slot(n, d, e)) + 1] = n
                           /\ Schema!SlotDirection(edge_slot(n, d, e)) = d
                           /\ all(crate.edges)[Schema!SlotEdgeKind(edge_slot(n, d, e)) + 1] = e
                      /\ \A n \in nodes, p \in props :
                           all(crate.properties)[Schema!SlotPropertyKind(property_slot(n, p)) + 1] = p
    BY DEF KindsNumberSlots
  <2>1. /\ crate.nodes \in EnumDecl /\ Distinct(all(crate.nodes))
        /\ crate.edges \in EnumDecl /\ Distinct(all(crate.edges))
        /\ crate.properties \in EnumDecl /\ Distinct(all(crate.properties))
    BY <1>1 DEF KindsInv, KindEnums, Crate
  <2>2. /\ N \in Nat
        /\ \A n \in nodes : node(n) \in 0 .. N - 1 /\ all(crate.nodes)[node(n) + 1] = n
        /\ \A i \in 0 .. N - 1 : \E n \in nodes : node(n) = i
    BY <2>1, KindsNumbered
  <2>3. /\ E \in Nat
        /\ \A e \in edges : edge(e) \in 0 .. E - 1 /\ all(crate.edges)[edge(e) + 1] = e
        /\ \A i \in 0 .. E - 1 : \E e \in edges : edge(e) = i
    BY <2>1, KindsNumbered
  <2>4. /\ P \in Nat
        /\ \A p \in props : prop(p) \in 0 .. P - 1 /\ all(crate.properties)[prop(p) + 1] = p
        /\ \A i \in 0 .. P - 1 : \E p \in props : prop(p) = i
    BY <2>1, KindsNumbered
  <2>5. /\ \A n, d, e : edge_slot(n, d, e) = node(n) + N * (d + 2 * edge(e))
        /\ \A n, p : property_slot(n, p) = node(n) + N * prop(p)
        /\ \A s : Schema!SlotNodeKind(s) = s % N /\ Schema!SlotDirection(s) = (s \div N) % 2
        /\ \A s : Schema!SlotEdgeKind(s) = s \div (2 * N) /\ Schema!SlotPropertyKind(s) = s \div N
        /\ Schema!EdgeSlots = 0 .. 2 * N * E - 1 /\ Schema!PropertySlots = 0 .. N * P - 1
    BY DEF Schema!edge_storage_slot, Schema!property_storage_slot, Schema!SlotNodeKind,
      Schema!SlotDirection, Schema!SlotEdgeKind, Schema!SlotPropertyKind, Schema!EdgeSlots,
      Schema!PropertySlots, Schema!edge_storage_size, Schema!property_storage_size
  <2> HIDE DEF nodes, edges, props, N, E, P, node, edge, prop, edge_slot, property_slot
  <2>6. ASSUME NEW n \in nodes, NEW d \in {0, 1}, NEW e \in edges
        PROVE  /\ edge_slot(n, d, e) \in 0 .. 2 * N * E - 1
               /\ edge_slot(n, d, e) % N = node(n) /\ (edge_slot(n, d, e) \div N) % 2 = d
               /\ edge_slot(n, d, e) \div (2 * N) = edge(e)
    <3>1. node(n) \in 0 .. N - 1 /\ edge(e) \in 0 .. E - 1 /\ N \in Nat /\ E \in Nat
      BY <2>2, <2>3
    <3>2. /\ node(n) + N * (d + 2 * edge(e)) \in 0 .. 2 * N * E - 1
          /\ (node(n) + N * (d + 2 * edge(e))) % N = node(n)
          /\ ((node(n) + N * (d + 2 * edge(e))) \div N) % 2 = d
          /\ (node(n) + N * (d + 2 * edge(e))) \div (2 * N) = edge(e)
      BY <3>1, EdgeSlotCoordinates
    <3> QED
      BY <2>5, <3>2
  <2>7. ASSUME NEW s \in 0 .. 2 * N * E - 1
        PROVE  \E n \in nodes, d \in {0, 1}, e \in edges : s = edge_slot(n, d, e)
    <3>1. PICK i \in 0 .. N - 1, d \in {0, 1}, j \in 0 .. E - 1 : s = i + N * (d + 2 * j)
      BY <2>2, <2>3, EdgeSlotReached
    <3>2. PICK n \in nodes, e \in edges : node(n) = i /\ edge(e) = j
      BY <2>2, <2>3
    <3> QED
      BY <2>5, <3>1, <3>2
  <2>8. ASSUME NEW n \in nodes, NEW p \in props
        PROVE  property_slot(n, p) \in 0 .. N * P - 1 /\ property_slot(n, p) \div N = prop(p)
    <3>1. node(n) \in 0 .. N - 1 /\ prop(p) \in 0 .. P - 1 /\ N \in Nat /\ P \in Nat
      BY <2>2, <2>4
    <3>2. /\ node(n) + N * prop(p) \in 0 .. N * P - 1
          /\ (node(n) + N * prop(p)) \div N = prop(p)
      BY <3>1, PropertySlotCoordinates
    <3> QED
      BY <2>5, <3>2
  <2>9. ASSUME NEW s \in 0 .. N * P - 1 PROVE \E n \in nodes, p \in props : s = property_slot(n, p)
    <3>1. PICK i \in 0 .. N - 1, j \in 0 .. P - 1 : s = i + N * j
      BY <2>2, <2>4, PropertySlotReached
    <3>2. PICK n \in nodes, p \in props : node(n) = i /\ prop(p) = j
      BY <2>2, <2>4
    <3> QED
      BY <2>5, <3>1, <3>2
  <2>10. {edge_slot(n, d, e) : n \in nodes, d \in {0, 1}, e \in edges} = Schema!EdgeSlots
    BY <2>5, <2>6, <2>7
  <2>11. {property_slot(n, p) : n \in nodes, p \in props} = Schema!PropertySlots
    BY <2>5, <2>8, <2>9
  <2>12. ASSUME NEW n \in nodes, NEW d \in {0, 1}, NEW e \in edges
         PROVE  /\ all(crate.nodes)[Schema!SlotNodeKind(edge_slot(n, d, e)) + 1] = n
                /\ Schema!SlotDirection(edge_slot(n, d, e)) = d
                /\ all(crate.edges)[Schema!SlotEdgeKind(edge_slot(n, d, e)) + 1] = e
    BY <2>2, <2>3, <2>5, <2>6
  <2>13. ASSUME NEW n \in nodes, NEW p \in props
         PROVE  all(crate.properties)[Schema!SlotPropertyKind(property_slot(n, p)) + 1] = p
    BY <2>4, <2>5, <2>8
  <2> QED
    BY <2>10, <2>11, <2>12, <2>13
<1> QED
  BY <1>1, KindsAlwaysDistinct, PTL

(***************************************************************************)
(* What the derives complain about                                         *)
(***************************************************************************)
\* Of what is looked for the first is found, if there is any.
LEMMA FirstFound ==
  ASSUME NEW n \in Nat, NEW s, DOMAIN s = 1 .. n, NEW T
  PROVE  /\ FirstIn(s, T) \subseteq T /\ FirstIn(s, T) \subseteq Range(s)
         /\ FirstIn(s, T) = {} <=> \A i \in DOMAIN s : s[i] \notin T
         /\ FirstIn(s, T) # {} => FirstIn(s, T) = {TheOne(FirstIn(s, T))}
<1> DEFINE S == {i \in DOMAIN s : s[i] \in T}
           F == {i \in DOMAIN s : s[i] \in T /\ \A j \in 1 .. i - 1 : s[j] \notin T}
<1>1. FirstIn(s, T) = {s[i] : i \in F}
  BY DEF FirstIn
<1>2. FirstIn(s, T) \subseteq T /\ FirstIn(s, T) \subseteq Range(s)
  BY <1>1 DEF Range
<1>3. ASSUME S # {} PROVE \E m \in S : F = {m}
  <2>1. S \subseteq Nat
    OBVIOUS
  <2>2. PICK m \in S : \A i \in S : m <= i
    BY <1>3, <2>1, LeastOf
  <2>3. m \in F
    BY <2>2
  <2>4. ASSUME NEW i \in F PROVE i = m
    <3>1. i \in S /\ m \in 1 .. n /\ i \in 1 .. n /\ m <= i
      BY <2>2
    <3>2. m \notin 1 .. i - 1
      BY <2>2
    <3> QED BY <3>1, <3>2
  <2>5. F = {m}
    BY <2>3, <2>4
  <2> QED BY <2>5
<1>4. S = {} => F = {}
  OBVIOUS
<1>5. S = {} <=> \A i \in DOMAIN s : s[i] \notin T
  OBVIOUS
<1> HIDE DEF S, F
<1>6. CASE S = {}
  BY <1>1, <1>2, <1>4, <1>5, <1>6
<1>7. CASE S # {}
  <2>1. PICK m \in S : F = {m}
    BY <1>3, <1>7
  <2>2. FirstIn(s, T) = {s[m]}
    BY <1>1, <2>1
  <2>3. TheOne(FirstIn(s, T)) = s[m]
    BY <2>2 DEF TheOne
  <2> QED BY <1>2, <1>5, <1>7, <2>2, <2>3
<1> QED BY <1>6, <1>7

\* A derive that goes through the variants passes exactly when each of them passes.
LEMMA NoError ==
  ASSUME NEW n \in Nat, NEW s, DOMAIN s = 1 .. n
  PROVE  FirstError(s) = Ok <=> \A i \in DOMAIN s : s[i] = Ok
<1> DEFINE T == Range(s) \ {Ok}
           errors == FirstIn(s, T)
<1>1. /\ errors \subseteq T
      /\ errors = {} <=> \A i \in DOMAIN s : s[i] \notin T
      /\ errors # {} => errors = {TheOne(errors)}
  BY FirstFound
<1>2. FirstError(s) = IF errors = {} THEN Ok ELSE TheOne(errors)
  BY DEF FirstError
<1>3. \A i \in DOMAIN s : s[i] \notin T <=> s[i] = Ok
  BY DEF Range
<1>4. Ok \notin T
  OBVIOUS
<1> HIDE DEF T, errors
<1>5. errors # {} => TheOne(errors) \in T
  BY <1>1
<1> QED BY <1>1, <1>2, <1>3, <1>4, <1>5

\* An attribute that is required is found, and the one found parses.
LEMMA AttributeRequired ==
  ASSUME NEW attrs \in Seq(Attribute), NEW name
  PROVE  /\ require_attribute(name, attrs) = Ok <=> \E attr \in find_attribute(name, attrs) : attr.parses
         /\ find_attribute(name, attrs) \subseteq Attribute
         /\ find_attribute(name, attrs) # {} =>
              find_attribute(name, attrs) = {TheOne(find_attribute(name, attrs))}
<1> DEFINE found == find_attribute(name, attrs)
<1>1. DOMAIN attrs = 1 .. Len(attrs) /\ Len(attrs) \in Nat /\ Range(attrs) \subseteq Attribute
  BY DEF Range
<1>2. /\ found \subseteq Range(attrs)
      /\ found # {} => found = {TheOne(found)}
  BY <1>1, FirstFound DEF find_attribute
<1>3. require_attribute(name, attrs) = IF found = {} THEN "missing attribute"
                                      ELSE IF ~ TheOne(found).parses THEN "malformed" ELSE Ok
  BY DEF require_attribute
<1>4. require_attribute(name, attrs) = Ok <=> found # {} /\ TheOne(found).parses
  BY <1>3 DEF Ok
<1> HIDE DEF found
<1>5. require_attribute(name, attrs) = Ok <=> \E attr \in found : attr.parses
  BY <1>2, <1>4
<1> QED BY <1>1, <1>2, <1>5 DEF found

\* What an argument gives is a path of the attribute.
LEMMA ArgumentGiven ==
  ASSUME NEW attr \in Attribute, NEW key
  PROVE  /\ argument_of(attr, key) \subseteq Path
         /\ argument_of(attr, key) # {} => TheOne(argument_of(attr, key)) \in Path
<1> DEFINE args == attr.args
           T == {a \in Range(args) : a.key = key}
<1>1. args \in Seq(Argument)
  BY DEF Attribute
<1>2. DOMAIN args = 1 .. Len(args) /\ Len(args) \in Nat /\ Range(args) \subseteq Argument
  BY <1>1 DEF Range
<1>3. FirstIn(args, T) \subseteq Range(args)
  BY <1>2, FirstFound
<1>4. argument_of(attr, key) = {arg.value : arg \in FirstIn(args, T)}
  BY DEF argument_of
<1> HIDE DEF args, T
<1>5. argument_of(attr, key) \subseteq Path
  BY <1>2, <1>3, <1>4 DEF Argument
<1> QED BY <1>5 DEF TheOne

\* A derive leaves nothing exactly when all its parts pass.
LEMMA NoComplaints == \A outcomes : Complaints(outcomes) = {} <=> outcomes \subseteq {Ok}
<1> SUFFICES ASSUME NEW outcomes PROVE Complaints(outcomes) = {} <=> outcomes \subseteq {Ok}
  OBVIOUS
<1>1. CASE "panic" \in outcomes
  BY <1>1 DEF Complaints, Ok
<1>2. CASE "panic" \notin outcomes
  BY <1>2 DEF Complaints
<1> QED BY <1>1, <1>2

Labelled(v) == label_error(v) = Ok
Typed(v, has_qty) ==
  /\ prop_typ(v) # {}
  /\ TheOne(prop_typ(v)).last = "Enum" => enum_typ_inner_type(TheOne(prop_typ(v))) = Ok
  /\ has_qty => prop_qty(v) # {}

\* The derive of the labels passes when those variants that have the attribute parse.
LEMMA LabelsPass ==
  ASSUME NEW e \in EnumDecl
  PROVE  ForEach(label_error, e) = Ok <=> \A v \in Range(e.variants) : Labelled(v)
<1>1. DOMAIN e.variants = 1 .. Len(e.variants) /\ Len(e.variants) \in Nat
  BY DEF EnumDecl
<1>2. PICK s : s = [i \in DOMAIN e.variants |-> label_error(e.variants[i])]
  OBVIOUS
<1>3. ForEach(label_error, e) = FirstError(s)
  BY <1>2 DEF ForEach
<1>4. FirstError(s) = Ok <=> \A i \in DOMAIN s : s[i] = Ok
  BY <1>1, <1>2, NoError
<1> QED BY <1>2, <1>3, <1>4 DEF Range, Labelled

LEMMA AttributesPass ==
  ASSUME NEW e \in EnumDecl
  PROVE  ForEach(parse_property_attr, e) = Ok <=>
           \A v \in Range(e.variants) : parse_property_attr(v) = Ok
<1>1. DOMAIN e.variants = 1 .. Len(e.variants) /\ Len(e.variants) \in Nat
  BY DEF EnumDecl
<1>2. PICK s : s = [i \in DOMAIN e.variants |-> parse_property_attr(e.variants[i])]
  OBVIOUS
<1>3. ForEach(parse_property_attr, e) = FirstError(s)
  BY <1>2 DEF ForEach
<1>4. FirstError(s) = Ok <=> \A i \in DOMAIN s : s[i] = Ok
  BY <1>1, <1>2, NoError
<1> QED BY <1>2, <1>3, <1>4 DEF Range

\* The table of types is written when every variant has a type, an enum's has its one
\* argument and, where quantities are asked for, a quantity.
LEMMA TypesPass ==
  ASSUME NEW e \in EnumDecl, NEW has_qty \in BOOLEAN
  PROVE  item_kind_property_type_derive(e, has_qty) = Ok <=>
           \A v \in Range(e.variants) : parse_property_attr(v) = Ok /\ Typed(v, has_qty)
<1> DEFINE each(variant) ==
        IF prop_typ(variant) = {} THEN "missing property"
        ELSE IF /\ TheOne(prop_typ(variant)).last = "Enum"
                /\ enum_typ_inner_type(TheOne(prop_typ(variant))) # Ok THEN "enum arguments"
        ELSE IF has_qty /\ prop_qty(variant) = {} THEN "missing property" ELSE Ok
<1>1. DOMAIN e.variants = 1 .. Len(e.variants) /\ Len(e.variants) \in Nat
  BY DEF EnumDecl
<1>2. PICK s : s = [i \in DOMAIN e.variants |-> each(e.variants[i])]
  OBVIOUS
<1>3. item_kind_property_type_derive(e, has_qty) =
        IF ForEach(parse_property_attr, e) # Ok THEN ForEach(parse_property_attr, e) ELSE FirstError(s)
  BY <1>2 DEF item_kind_property_type_derive, ForEach
<1>4. FirstError(s) = Ok <=> \A i \in DOMAIN s : s[i] = Ok
  BY <1>1, <1>2, NoError
<1>5. \A v : each(v) = Ok <=> Typed(v, has_qty)
  BY DEF Typed, Ok
<1> HIDE DEF each
<1>6. FirstError(s) = Ok <=> \A v \in Range(e.variants) : Typed(v, has_qty)
  BY <1>2, <1>4, <1>5 DEF Range
<1> QED BY <1>3, <1>6, AttributesPass

Bound(v) == property_binding_error(TheOne(prop_typ(v))) = Ok
TraitBuilt(v) ==
  /\ prop_typ(v) # {} /\ prop_qty(v) # {} /\ TheOne(prop_typ(v)).last # "None"
  /\ ident_error(v.name) = Ok /\ Bound(v)

\* A trait is built for a variant with a type, a quantity and a name that can be one.
LEMMA TraitsPass ==
  ASSUME NEW e \in EnumDecl
  PROVE  property_traits_derive(e) = Ok <=>
           \A v \in Range(e.variants) : parse_property_attr(v) = Ok /\ TraitBuilt(v)
<1> DEFINE build(variant) ==
        IF prop_typ(variant) = {} \/ prop_qty(variant) = {} THEN "missing property"
        ELSE IF TheOne(prop_typ(variant)).last = "None" THEN "None is reserved"
        ELSE IF ident_error(variant.name) # Ok THEN "panic"
        ELSE property_binding_error(TheOne(prop_typ(variant)))
<1>1. DOMAIN e.variants = 1 .. Len(e.variants) /\ Len(e.variants) \in Nat
  BY DEF EnumDecl
<1>2. PICK s : s = [i \in DOMAIN e.variants |-> build(e.variants[i])]
  OBVIOUS
<1>3. property_traits_derive(e) =
        IF ForEach(parse_property_attr, e) # Ok THEN ForEach(parse_property_attr, e) ELSE FirstError(s)
  BY <1>2 DEF property_traits_derive, ForEach
<1>4. FirstError(s) = Ok <=> \A i \in DOMAIN s : s[i] = Ok
  BY <1>1, <1>2, NoError
<1>5. \A v : build(v) = Ok <=> TraitBuilt(v)
  BY DEF TraitBuilt, Bound, Ok
<1> HIDE DEF build
<1>6. FirstError(s) = Ok <=> \A v \in Range(e.variants) : TraitBuilt(v)
  BY <1>2, <1>4, <1>5 DEF Range
<1> QED BY <1>3, <1>6, AttributesPass

MethodBuilt(v) == prop_typ(v) # {} /\ (TheOne(prop_typ(v)).last = "None" \/ Bound(v))

\* The struct of an edge kind gets its method when the type is None or one there is.
LEMMA StructsPass ==
  ASSUME NEW e \in EnumDecl
  PROVE  edge_structs_derive(e) = Ok <=>
           \A v \in Range(e.variants) : parse_property_attr(v) = Ok /\ MethodBuilt(v)
<1> DEFINE build(variant) ==
        IF prop_typ(variant) = {} THEN "missing property"
        ELSE IF TheOne(prop_typ(variant)).last = "None" THEN Ok
        ELSE property_binding_error(TheOne(prop_typ(variant)))
<1>1. DOMAIN e.variants = 1 .. Len(e.variants) /\ Len(e.variants) \in Nat
  BY DEF EnumDecl
<1>2. PICK s : s = [i \in DOMAIN e.variants |-> build(e.variants[i])]
  OBVIOUS
<1>3. edge_structs_derive(e) =
        IF ForEach(parse_property_attr, e) # Ok THEN ForEach(parse_property_attr, e) ELSE FirstError(s)
  BY <1>2 DEF edge_structs_derive, ForEach
<1>4. FirstError(s) = Ok <=> \A i \in DOMAIN s : s[i] = Ok
  BY <1>1, <1>2, NoError
<1>5. \A v : build(v) = Ok <=> MethodBuilt(v)
  BY DEF MethodBuilt, Bound, Ok
<1> HIDE DEF build
<1>6. FirstError(s) = Ok <=> \A v \in Range(e.variants) : MethodBuilt(v)
  BY <1>2, <1>4, <1>5 DEF Range
<1> QED BY <1>3, <1>6, AttributesPass

\* A type is bound when it is one of those there are, and an enum's has one argument.
LEMMA BoundWhen ==
  ASSUME NEW v
  PROVE  /\ Bound(v) <=> /\ TheOne(prop_typ(v)).last \in BoundTypes
                         /\ TheOne(prop_typ(v)).last = "Enum" => Len(TheOne(prop_typ(v)).inner) = 1
         /\ enum_typ_inner_type(TheOne(prop_typ(v))) = Ok <=> Len(TheOne(prop_typ(v)).inner) = 1
         /\ Bound(v) => TheOne(prop_typ(v)).last # "None"
<1> DEFINE typ == TheOne(prop_typ(v))
<1>1. enum_typ_inner_type(typ) = Ok <=> Len(typ.inner) = 1
  BY DEF enum_typ_inner_type, Ok
<1>2. Bound(v) <=> typ.last \in BoundTypes /\ (typ.last = "Enum" => enum_typ_inner_type(typ) = Ok)
  BY DEF Bound, property_binding_error, Ok
<1>3. "None" \notin BoundTypes
  BY DEF BoundTypes, ScalarTypes
<1> HIDE DEF typ
<1> QED BY <1>1, <1>2, <1>3 DEF typ

\* No name needs a raw identifier that there is none of.
LEMMA NamesUsable ==
  ASSUME NEW e \in EnumDecl
  PROVE  /\ UsableNames(e) <=> \A v \in Range(e.variants) : ident_error(v.name) = Ok
         /\ Range(all(e)) = {v.name : v \in Range(e.variants)}
<1>1. all(e) = [i \in DOMAIN e.variants |-> e.variants[i].name]
  BY DEF all
<1>2. Range(all(e)) = {v.name : v \in Range(e.variants)}
  BY <1>1 DEF Range
<1>3. \A name : ident_error(name) = Ok <=> to_snake_case(name) \notin RustKeywords \cap NotRaw
  BY DEF ident_error, method_ident, Ok
<1>4. UsableNames(e) <=> \A name \in Range(all(e)) : ident_error(name) = Ok
  BY <1>3 DEF UsableNames
<1> QED BY <1>2, <1>4

\* The attribute of a variant: the two derives that need it find it when it can be read,
\* and so does the derive of the labels.
LEMMA PropertyAttribute ==
  ASSUME NEW e \in EnumDecl, NEW v \in Range(e.variants)
  PROVE  /\ v \in Variant
         /\ parse_property_attr(v) = Ok <=> Readable("property", v)
         /\ Readable("property", v) => Labelled(v)
         /\ Readable("property", v) => property_attr(v) \in Attribute
<1>1. v \in Variant /\ v.attrs \in Seq(Attribute)
  <2>1. e.variants \in Seq(Variant)
    BY DEF EnumDecl
  <2>2. v \in Variant
    BY <2>1 DEF Range
  <2> QED BY <2>2 DEF Variant
<1>2. /\ require_attribute("property", v.attrs) = Ok <=>
           \E attr \in find_attribute("property", v.attrs) : attr.parses
      /\ find_attribute("property", v.attrs) \subseteq Attribute
      /\ find_attribute("property", v.attrs) # {} =>
              find_attribute("property", v.attrs) = {TheOne(find_attribute("property", v.attrs))}
  BY <1>1, AttributeRequired
<1>3. parse_property_attr(v) = Ok <=> Readable("property", v)
  BY <1>2 DEF parse_property_attr, Readable
<1>4. Readable("property", v) => Labelled(v)
  BY <1>3 DEF Labelled, label_error
<1>5. Readable("property", v) => property_attr(v) \in Attribute
  BY <1>2 DEF Readable, property_attr
<1> QED BY <1>1, <1>3, <1>4, <1>5

\* The derives of the properties complain of nothing exactly about what is declared right.
LEMMA PropertiesPass ==
  ASSUME NEW e \in EnumDecl
  PROVE  property_kind_derive(e) = {} <=> PropertiesDeclared(e)
<1>1. property_kind_derive(e) = {} <=>
        /\ ForEach(label_error, e) = Ok
        /\ item_kind_property_type_derive(e, TRUE) = Ok
        /\ property_traits_derive(e) = Ok
  <2>1. PICK S : S = {ForEach(label_error, e), item_kind_property_type_derive(e, TRUE),
                      property_traits_derive(e)}
    OBVIOUS
  <2>2. property_kind_derive(e) = Complaints(S)
    BY <2>1 DEF property_kind_derive
  <2>3. Complaints(S) = {} <=> S \subseteq {Ok}
    BY NoComplaints
  <2> QED BY <2>1, <2>2, <2>3
<1>2. property_kind_derive(e) = {} <=>
        \A v \in Range(e.variants) :
          Labelled(v) /\ parse_property_attr(v) = Ok /\ Typed(v, TRUE) /\ TraitBuilt(v)
  BY <1>1, LabelsPass, TypesPass, TraitsPass
<1>3. ASSUME NEW v \in Range(e.variants)
      PROVE  (Labelled(v) /\ parse_property_attr(v) = Ok /\ Typed(v, TRUE) /\ TraitBuilt(v)) <=>
             (Readable("property", v) /\ ValueDeclared(v) /\ prop_qty(v) # {} /\ ident_error(v.name) = Ok)
  <2>1. /\ parse_property_attr(v) = Ok <=> Readable("property", v)
        /\ Readable("property", v) => Labelled(v)
    BY PropertyAttribute
  <2>2. (Typed(v, TRUE) /\ TraitBuilt(v)) <=>
          (ValueDeclared(v) /\ prop_qty(v) # {} /\ ident_error(v.name) = Ok)
    BY BoundWhen DEF Typed, TraitBuilt, ValueDeclared
  <2> QED BY <2>1, <2>2
<1> QED BY <1>2, <1>3, NamesUsable DEF PropertiesDeclared

\* The attribute of an enum itself has the parameters it has to have.
LEMMA KindAttribute ==
  ASSUME NEW e \in EnumDecl, NEW name, NEW n \in Nat, NEW params, DOMAIN params = 1 .. n
  PROVE  parse_kind_attr(e, name, params) = Ok <=>
           \E attr \in find_attribute(name, e.attrs) :
             attr.parses /\ \A param \in Range(params) : argument_of(attr, param) # {}
<1> DEFINE found == find_attribute(name, e.attrs)
           missing == {k \in Range(params) : argument_of(TheOne(found), k) = {}}
<1>1. /\ require_attribute(name, e.attrs) = Ok <=> \E attr \in found : attr.parses
      /\ found # {} => found = {TheOne(found)}
  BY AttributeRequired DEF EnumDecl
<1>2. PICK s : s = [i \in DOMAIN params |-> IF params[i] \in missing THEN "missing parameter" ELSE Ok]
  OBVIOUS
<1>3. parse_kind_attr(e, name, params) =
        IF require_attribute(name, e.attrs) # Ok THEN require_attribute(name, e.attrs) ELSE FirstError(s)
  BY <1>2 DEF parse_kind_attr
<1>4. FirstError(s) = Ok <=> \A i \in DOMAIN s : s[i] = Ok
  BY <1>2, NoError
<1>5. FirstError(s) = Ok <=> \A param \in Range(params) : argument_of(TheOne(found), param) # {}
  BY <1>2, <1>4 DEF Range, Ok
<1> HIDE DEF found, missing
<1> QED BY <1>1, <1>3, <1>5 DEF found

\* So do those of the edges ...
LEMMA EdgesPass ==
  ASSUME NEW e \in EnumDecl
  PROVE  edge_kind_derive(e) = {} <=> EdgesDeclared(e)
<1> DEFINE config == parse_kind_attr(e, "edge_kind", <<"schema">>)
<1>1. config = Ok <=>
        \E attr \in find_attribute("edge_kind", e.attrs) : attr.parses /\ argument_of(attr, "schema") # {}
  <2>1. PICK params : params = <<"schema">>
    OBVIOUS
  <2>2. DOMAIN params = 1 .. 1 /\ Range(params) = {"schema"} /\ 1 \in Nat
    BY <2>1 DEF Range
  <2>3. parse_kind_attr(e, "edge_kind", params) = Ok <=>
           \E attr \in find_attribute("edge_kind", e.attrs) :
             attr.parses /\ \A param \in Range(params) : argument_of(attr, param) # {}
    BY <2>2, KindAttribute
  <2> QED BY <2>1, <2>2, <2>3
<1>2. PICK S : S = {ForEach(label_error, e), item_kind_property_type_derive(e, FALSE), edge_structs_derive(e)}
  OBVIOUS
<1>3. edge_kind_derive(e) = IF config # Ok THEN {config} ELSE Complaints(S)
  BY <1>2 DEF edge_kind_derive
<1>4. Complaints(S) = {} <=>
        \A v \in Range(e.variants) :
          Labelled(v) /\ parse_property_attr(v) = Ok /\ Typed(v, FALSE) /\ MethodBuilt(v)
  <2>1. Complaints(S) = {} <=> S \subseteq {Ok}
    BY NoComplaints
  <2>2. ForEach(label_error, e) = Ok <=> \A v \in Range(e.variants) : Labelled(v)
    BY LabelsPass
  <2>3. item_kind_property_type_derive(e, FALSE) = Ok <=>
          \A v \in Range(e.variants) : parse_property_attr(v) = Ok /\ Typed(v, FALSE)
    BY TypesPass
  <2>4. edge_structs_derive(e) = Ok <=>
          \A v \in Range(e.variants) : parse_property_attr(v) = Ok /\ MethodBuilt(v)
    BY StructsPass
  <2>5. Complaints(S) = {} <=> /\ ForEach(label_error, e) = Ok
                              /\ item_kind_property_type_derive(e, FALSE) = Ok
                              /\ edge_structs_derive(e) = Ok
    BY <1>2, <2>1
  <2> QED BY <2>2, <2>3, <2>4, <2>5
<1>5. ASSUME NEW v \in Range(e.variants)
      PROVE  (Labelled(v) /\ parse_property_attr(v) = Ok /\ Typed(v, FALSE) /\ MethodBuilt(v)) <=>
             (/\ Readable("property", v) /\ prop_typ(v) # {}
              /\ ValueDeclared(v) \/ TheOne(prop_typ(v)).last = "None")
  <2>1. /\ parse_property_attr(v) = Ok <=> Readable("property", v)
        /\ Readable("property", v) => Labelled(v)
    BY PropertyAttribute
  <2>2. (Typed(v, FALSE) /\ MethodBuilt(v)) <=>
          (prop_typ(v) # {} /\ (ValueDeclared(v) \/ TheOne(prop_typ(v)).last = "None"))
    BY BoundWhen DEF Typed, MethodBuilt, ValueDeclared
  <2> QED BY <2>1, <2>2
<1>6. edge_kind_derive(e) = {} <=> config = Ok /\ Complaints(S) = {}
  BY <1>3
<1> HIDE DEF config
<1> QED BY <1>1, <1>4, <1>5, <1>6 DEF EdgesDeclared

\* Two methods are the same exactly when their names are.
LEMMA MethodsDiffer ==
  \A a, b : method_ident(a) = method_ident(b) <=> to_snake_case(a) = to_snake_case(b)
<1>1. \A a : method_ident(a).word = to_snake_case(a)
  BY DEF method_ident
<1> QED BY <1>1 DEF method_ident

\* As many values as places means that no two places have the same.
LEMMA AllDiffer ==
  ASSUME NEW n \in Nat, NEW f, f = [i \in 1 .. n |-> f[i]]
  PROVE  Cardinality(Range(f)) = n <=> \A i, j \in 1 .. n : f[i] = f[j] => i = j
<1> DEFINE S == 1 .. n
           T == Range(f)
<1>1. DOMAIN f = S
  OBVIOUS
<1>2. f \in [S -> T] /\ \A t \in T : \E i \in S : f[i] = t
  BY <1>1 DEF Range
<1>3. f \in Surjection(S, T)
  BY <1>2 DEF Surjection
<1>4. IsFiniteSet(S) /\ Cardinality(S) = n
  <2>1. IsFiniteSet(1 .. n) /\ Cardinality(1 .. n) = IF 1 > n THEN 0 ELSE n - 1 + 1
    BY FS_Interval
  <2> QED BY <2>1
<1>5. Cardinality(T) = Cardinality(S) <=> f \in Injection(S, T)
  BY <1>3, <1>4, FS_Surjection
<1>6. f \in Injection(S, T) <=> \A i, j \in S : f[i] = f[j] => i = j
  BY <1>2 DEF Injection, IsInjective
<1> QED BY <1>4, <1>5, <1>6

\* The methods on the view can be written when every name is usable and none repeats.
LEMMA MethodsPass ==
  ASSUME NEW e \in EnumDecl
  PROVE  /\ node_accessor_traits_derive(e) = Ok <=>
              /\ UsableNames(e)
              /\ Cardinality({to_snake_case(name) : name \in Range(all(e))}) = Len(e.variants)
<1> DEFINE n == Len(e.variants)
           taken(i) == \E j \in 1 .. i - 1 : method_ident(all(e)[j]) = method_ident(all(e)[i])
<1>1. n \in Nat /\ DOMAIN e.variants = 1 .. n /\ all(e) = [i \in 1 .. n |-> e.variants[i].name]
  BY DEF EnumDecl, all
<1>2. PICK s : s = [i \in DOMAIN e.variants |->
        IF ident_error(all(e)[i]) # Ok THEN "panic" ELSE IF taken(i) THEN "duplicate method" ELSE Ok]
  OBVIOUS
<1>3. node_accessor_traits_derive(e) = FirstError(s)
  BY <1>2 DEF node_accessor_traits_derive
<1>4. FirstError(s) = Ok <=> \A i \in DOMAIN s : s[i] = Ok
  BY <1>1, <1>2, NoError
<1>5. FirstError(s) = Ok <=> \A i \in 1 .. n : ident_error(all(e)[i]) = Ok /\ ~ taken(i)
  BY <1>1, <1>2, <1>4 DEF Ok
<1>6. UsableNames(e) <=> \A i \in 1 .. n : ident_error(all(e)[i]) = Ok
  <2>1. \A i \in 1 .. n : all(e)[i] = e.variants[i].name
    BY <1>1
  <2>2. Range(all(e)) = {all(e)[i] : i \in 1 .. n}
    BY <1>1 DEF Range
  <2>3. \A name : ident_error(name) = Ok <=> to_snake_case(name) \notin RustKeywords \cap NotRaw
    BY DEF ident_error, method_ident, Ok
  <2> QED BY <2>2, <2>3 DEF UsableNames
<1>7. PICK f : f = [i \in 1 .. n |-> to_snake_case(all(e)[i])]
  OBVIOUS
<1>8. Range(f) = {to_snake_case(name) : name \in Range(all(e))}
  <2>1. Range(f) = {f[i] : i \in 1 .. n}
    BY <1>7 DEF Range
  <2>2. Range(all(e)) = {all(e)[i] : i \in 1 .. n}
    BY <1>1 DEF Range
  <2>3. \A i \in 1 .. n : f[i] = to_snake_case(all(e)[i])
    BY <1>7
  <2> QED BY <2>1, <2>2, <2>3
<1>9. f = [i \in 1 .. n |-> f[i]]
  BY <1>7
<1>10. Cardinality(Range(f)) = n <=> \A i, j \in 1 .. n : f[i] = f[j] => i = j
  BY <1>1, <1>9, AllDiffer
<1>11. (\A i, j \in 1 .. n : f[i] = f[j] => i = j) <=> \A i \in 1 .. n : ~ taken(i)
  <2>1. \A i \in 1 .. n : taken(i) <=> \E j \in 1 .. i - 1 : f[j] = f[i]
    <3>1. \A i \in 1 .. n : \A j \in 1 .. i - 1 : j \in 1 .. n
      BY <1>1
    <3>2. \A i \in 1 .. n : f[i] = to_snake_case(all(e)[i])
      BY <1>7
    <3> QED BY <3>1, <3>2, MethodsDiffer
  <2>2. ASSUME \A i, j \in 1 .. n : f[i] = f[j] => i = j, NEW i \in 1 .. n,
               NEW j \in 1 .. i - 1, f[j] = f[i] PROVE FALSE
    <3>1. j \in 1 .. n /\ j # i
      BY <1>1
    <3> QED BY <2>2, <3>1
  <2>3. ASSUME \A i \in 1 .. n : \A j \in 1 .. i - 1 : f[j] # f[i], NEW i \in 1 .. n, NEW j \in 1 .. n,
               f[i] = f[j] PROVE i = j
    <3>1. ~ (i < j) 
      <4>1. SUFFICES ASSUME i < j PROVE FALSE
        OBVIOUS
      <4>2. i \in 1 .. j - 1
        BY <1>1, <4>1
      <4> QED BY <2>3, <4>2
    <3>2. ~ (j < i)
      <4>1. SUFFICES ASSUME j < i PROVE FALSE
        OBVIOUS
      <4>2. j \in 1 .. i - 1
        BY <1>1, <4>1
      <4> QED BY <2>3, <4>2
    <3> QED BY <1>1, <3>1, <3>2
  <2> HIDE DEF taken
  <2> QED BY <2>1, <2>2, <2>3
<1> HIDE DEF taken, n
<1> QED BY <1>3, <1>5, <1>6, <1>8, <1>10, <1>11 DEF n

\* ... and those of the nodes.
LEMMA NodesPass ==
  ASSUME NEW e \in EnumDecl
  PROVE  node_kind_derive(e) = {} <=> NodesDeclared(e)
<1> DEFINE config == parse_kind_attr(e, "node_kind", <<"schema", "property_kind">>)
<1>1. config = Ok <=>
        \E attr \in find_attribute("node_kind", e.attrs) :
          attr.parses /\ \A param \in {"schema", "property_kind"} : argument_of(attr, param) # {}
  <2>1. PICK params : params = <<"schema", "property_kind">>
    OBVIOUS
  <2>2. DOMAIN params = 1 .. 2 /\ Range(params) = {"schema", "property_kind"} /\ 2 \in Nat
    <3>1. DOMAIN params = {1, 2} /\ params[1] = "schema" /\ params[2] = "property_kind"
      BY <2>1
    <3> QED BY <3>1 DEF Range
  <2>3. parse_kind_attr(e, "node_kind", params) = Ok <=>
           \E attr \in find_attribute("node_kind", e.attrs) :
             attr.parses /\ \A param \in Range(params) : argument_of(attr, param) # {}
    BY <2>2, KindAttribute
  <2> QED BY <2>1, <2>2, <2>3
<1>2. PICK S : S = {ForEach(label_error, e), node_available_properties_derive(e), node_accessor_traits_derive(e)}
  OBVIOUS
<1>3. node_kind_derive(e) = IF config # Ok THEN {config} ELSE Complaints(S)
  BY <1>2 DEF node_kind_derive
<1>4. node_available_properties_derive(e) = Ok <=> \A v \in Range(e.variants) : Readable("properties", v)
  <2>1. DOMAIN e.variants = 1 .. Len(e.variants) /\ Len(e.variants) \in Nat
    BY DEF EnumDecl
  <2>2. PICK s : s = [i \in DOMAIN e.variants |-> require_attribute("properties", e.variants[i].attrs)]
    OBVIOUS
  <2>3. node_available_properties_derive(e) = FirstError(s)
    BY <2>2 DEF node_available_properties_derive, ForEach
  <2>4. FirstError(s) = Ok <=> \A i \in DOMAIN s : s[i] = Ok
    BY <2>1, <2>2, NoError
  <2>5. FirstError(s) = Ok <=> \A v \in Range(e.variants) : require_attribute("properties", v.attrs) = Ok
    BY <2>2, <2>4 DEF Range
  <2>6. ASSUME NEW v \in Range(e.variants)
        PROVE  require_attribute("properties", v.attrs) = Ok <=> Readable("properties", v)
    <3>1. v.attrs \in Seq(Attribute)
      BY PropertyAttribute DEF Variant
    <3> QED BY <3>1, AttributeRequired DEF Readable
  <2> QED BY <2>3, <2>5, <2>6
<1>5. ASSUME NEW v \in Range(e.variants)
      PROVE  Labelled(v) <=> (find_attribute("property", v.attrs) # {} => Readable("property", v))
  <2>1. parse_property_attr(v) = Ok <=> Readable("property", v)
    BY PropertyAttribute
  <2> QED BY <2>1 DEF Labelled, label_error
<1>6. Complaints(S) = {} <=>
        /\ \A v \in Range(e.variants) : Labelled(v)
        /\ \A v \in Range(e.variants) : Readable("properties", v)
        /\ UsableNames(e)
        /\ Cardinality({to_snake_case(name) : name \in Range(all(e))}) = Len(e.variants)
  <2>1. Complaints(S) = {} <=> S \subseteq {Ok}
    BY NoComplaints
  <2>2. node_accessor_traits_derive(e) = Ok <=>
              /\ UsableNames(e)
              /\ Cardinality({to_snake_case(name) : name \in Range(all(e))}) = Len(e.variants)
    BY MethodsPass
  <2>3. ForEach(label_error, e) = Ok <=> \A v \in Range(e.variants) : Labelled(v)
    BY LabelsPass
  <2> QED BY <1>2, <1>4, <2>1, <2>2, <2>3
<1>7. node_kind_derive(e) = {} <=> config = Ok /\ Complaints(S) = {}
  BY <1>3
<1> HIDE DEF config
<1> QED BY <1>1, <1>5, <1>6, <1>7 DEF NodesDeclared

\* The registry macro takes one type at least and no two of one name, the derive what it
\* writes, and otherwise what somebody wrote by hand if every variant names its enum.
LEMMA RegistryPasses ==
  ASSUME NEW types \in Seq(Path)
  PROVE  /\ registry_error(types) = Ok <=>
              types # <<>> /\ Cardinality({t.last : t \in Range(types)}) = Len(types)
         /\ parse_enum_type_attr(registry_expand(types)) = Ok
<1> DEFINE n == Len(types)
<1>1. n \in Nat /\ DOMAIN types = 1 .. n
  OBVIOUS
<1>2. registry_error(types) = Ok <=> types # <<>> /\ ~ check_no_duplicates(types)
  BY DEF registry_error, Ok
<1>3. PICK f : f = [i \in 1 .. n |-> types[i].last]
  OBVIOUS
<1>4. Range(f) = {t.last : t \in Range(types)} /\ f = [i \in 1 .. n |-> f[i]]
  BY <1>1, <1>3 DEF Range
<1>5. Cardinality(Range(f)) = n <=> \A i, j \in 1 .. n : f[i] = f[j] => i = j
  BY <1>1, <1>4, AllDiffer
<1>6. check_no_duplicates(types) <=> \E i, j \in 1 .. n : i < j /\ f[i] = f[j]
  BY <1>1, <1>3 DEF check_no_duplicates
<1>7. (\E i, j \in 1 .. n : i < j /\ f[i] = f[j]) <=> ~ \A i, j \in 1 .. n : f[i] = f[j] => i = j
  <2>1. \A i, j \in 1 .. n : i # j => i < j \/ j < i
    BY <1>1
  <2>2. \A i, j \in 1 .. n : i < j => i # j
    BY <1>1
  <2> QED BY <2>1, <2>2
<1>8. parse_enum_type_attr(registry_expand(types)) = Ok
  <2>1. PICK r : r = registry_expand(types)
    OBVIOUS
  <2>2. DOMAIN r.variants = 1 .. n
    BY <1>1, <2>1 DEF registry_expand
  <2>3. PICK s : s = [i \in DOMAIN r.variants |-> require_attribute("enum_type", r.variants[i].attrs)]
    OBVIOUS
  <2>4. parse_enum_type_attr(r) = FirstError(s)
    BY <2>3 DEF parse_enum_type_attr, ForEach
  <2>5. FirstError(s) = Ok <=> \A i \in DOMAIN s : s[i] = Ok
    BY <1>1, <2>2, <2>3, NoError
  <2>6. ASSUME NEW i \in 1 .. n PROVE s[i] = Ok
    <3>1. PICK a : a = [name |-> "enum_type", parses |-> TRUE,
                        args |-> <<[key |-> NoKeyword, value |-> types[i]]>>]
      OBVIOUS
    <3>2. r.variants[i].attrs = <<a>>
      BY <1>1, <2>1, <3>1 DEF registry_expand
    <3>3. a.name = "enum_type" /\ a.parses
      BY <3>1
    <3>4. find_attribute("enum_type", <<a>>) = {a}
      <4>1. Range(<<a>>) = {a}
        BY DEF Range
      <4>2. {b \in Range(<<a>>) : b.name = "enum_type"} = {a}
        BY <3>3, <4>1
      <4>3. PICK t : t = <<a>>
        OBVIOUS
      <4>4. DOMAIN t = 1 .. 1 /\ t[1] = a
        BY <4>3
      <4>5. FirstIn(t, {a}) = {a}
        BY <4>4 DEF FirstIn
      <4> QED BY <4>2, <4>3, <4>5 DEF find_attribute
    <3>5. TheOne({a}) = a
      BY DEF TheOne
    <3>6. require_attribute("enum_type", <<a>>) = Ok
      BY <3>3, <3>4, <3>5 DEF require_attribute
    <3> QED BY <2>2, <2>3, <3>2, <3>6
  <2> QED BY <2>1, <2>2, <2>3, <2>4, <2>5, <2>6
<1> HIDE DEF n
<1> QED BY <1>2, <1>4, <1>5, <1>6, <1>7, <1>8 DEF n

LEMMA DeclarationPasses ==
  ASSUME NEW r \in EnumDecl
  PROVE  parse_enum_type_attr(r) = Ok <=> \A v \in Range(r.variants) : Readable("enum_type", v)
<1>1. DOMAIN r.variants = 1 .. Len(r.variants) /\ Len(r.variants) \in Nat
  BY DEF EnumDecl
<1>2. PICK s : s = [i \in DOMAIN r.variants |-> require_attribute("enum_type", r.variants[i].attrs)]
  OBVIOUS
<1>3. parse_enum_type_attr(r) = FirstError(s)
  BY <1>2 DEF parse_enum_type_attr, ForEach
<1>4. FirstError(s) = Ok <=> \A i \in DOMAIN s : s[i] = Ok
  BY <1>1, <1>2, NoError
<1>5. FirstError(s) = Ok <=> \A v \in Range(r.variants) : require_attribute("enum_type", v.attrs) = Ok
  BY <1>2, <1>4 DEF Range
<1>6. ASSUME NEW v \in Range(r.variants)
      PROVE  require_attribute("enum_type", v.attrs) = Ok <=> Readable("enum_type", v)
  <2>1. v.attrs \in Seq(Attribute)
    BY PropertyAttribute DEF Variant
  <2> QED BY <2>1, AttributeRequired DEF Readable
<1> QED BY <1>3, <1>5, <1>6

(***************************************************************************)
(* What is expanded, in any order                                          *)
(***************************************************************************)
RegistryFine(i) ==
  IF crate.registries[i].macro
    THEN <<"macro", i>> \in left \/ registry_error(crate.registries[i].types) = Ok
    ELSE <<"derive", i>> \in left \/ parse_enum_type_attr(crate.registries[i].decl) = Ok

\* What the macro wrote is derived after it was written.
RegistryWritten(i) ==
  IF crate.registries[i].macro
    THEN /\ <<"derive", i>> \in left => <<"macro", i>> \notin left
         /\ <<"derive", i>> \in left => registry_error(crate.registries[i].types) = Ok
         /\ <<"macro", i>> \notin left /\ registry_error(crate.registries[i].types) = Ok =>
              registries[i] = registry_expand(crate.registries[i].types)
    ELSE <<"macro", i>> \notin left /\ registries[i] = crate.registries[i].decl

RegistriesInv ==
  /\ crate \in Crate
  /\ DOMAIN registries = DOMAIN crate.registries
  /\ \A i \in DOMAIN crate.registries : RegistryWritten(i)

\* There is a complaint exactly when something expanded so far is not as it should be.
KindsFine ==
  /\ <<"properties", 0>> \in left \/ property_kind_derive(crate.properties) = {}
  /\ <<"edges", 0>> \in left \/ edge_kind_derive(crate.edges) = {}
  /\ <<"nodes", 0>> \in left \/ node_kind_derive(crate.nodes) = {}

ComplaintsInv ==
  complaints = {} <=> KindsFine /\ \A i \in DOMAIN crate.registries : RegistryFine(i)

\* And a crate that compiles was complained of by nobody.
CompiledInv ==
  outcome = "compiled" => complaints = {} /\ left = {} /\ parsed # "parsing" /\ TypeChecks

ExpandInv == RegistriesInv /\ ComplaintsInv /\ CompiledInv

\* Before anything is expanded.
LEMMA InitExpandInv == Init => ExpandInv
<1> SUFFICES ASSUME Init PROVE ExpandInv
  OBVIOUS
<1>1. crate \in Crate /\ crate.registries \in Seq(RegistryItem)
  BY CrateAssumption DEF Init, Crate
<1>2. DOMAIN registries = DOMAIN crate.registries
  BY DEF Init
<1>3. left = Kinds \cup {<<IF crate.registries[i].macro THEN "macro" ELSE "derive", i>> :
                          i \in DOMAIN crate.registries}
  BY DEF Init
<1>4. ASSUME NEW i \in DOMAIN crate.registries PROVE RegistryWritten(i) /\ RegistryFine(i)
  <2>1. registries[i] = crate.registries[i].decl
    BY <1>4 DEF Init
  <2>2. <<IF crate.registries[i].macro THEN "macro" ELSE "derive", i>> \in left
    BY <1>3
  <2>3. CASE crate.registries[i].macro
    <3>1. <<"macro", i>> \in left
      BY <2>2, <2>3
    <3>2. <<"derive", i>> \notin left
      BY <1>3, <2>3 DEF Kinds
    <3> QED BY <2>3, <3>1, <3>2 DEF RegistryWritten, RegistryFine
  <2>4. CASE ~ crate.registries[i].macro
    <3>1. <<"derive", i>> \in left
      BY <2>2, <2>4
    <3>2. <<"macro", i>> \notin left
      BY <1>3, <2>4 DEF Kinds
    <3> QED BY <2>1, <2>4, <3>1, <3>2 DEF RegistryWritten, RegistryFine
  <2> QED BY <2>3, <2>4
<1>5. KindsFine
  BY <1>3 DEF KindsFine, Kinds
<1>6. complaints = {} /\ outcome # "compiled"
  BY DEF Init
<1> QED BY <1>1, <1>2, <1>4, <1>5, <1>6 DEF ExpandInv, RegistriesInv, ComplaintsInv, CompiledInv

\* A derive of kinds adds what it complains about.
LEMMA KindExpanded ==
  ASSUME ExpandInv, ExpandProperties \/ ExpandEdges \/ ExpandNodes
  PROVE  ExpandInv'
<1>1. PICK item, errors :
        /\ item \in Kinds /\ Expand(item, errors)
        /\ errors = IF item = <<"properties", 0>> THEN property_kind_derive(crate.properties)
                    ELSE IF item = <<"edges", 0>> THEN edge_kind_derive(crate.edges)
                    ELSE node_kind_derive(crate.nodes)
  BY DEF ExpandProperties, ExpandEdges, ExpandNodes, Kinds
<1>2. /\ item \in left /\ left' = left \ {item} /\ complaints' = complaints \cup errors
      /\ UNCHANGED crate /\ UNCHANGED registries /\ UNCHANGED outcome
  BY <1>1 DEF Expand
<1>3. \A i : (<<"macro", i>> \in left' <=> <<"macro", i>> \in left) /\
             (<<"derive", i>> \in left' <=> <<"derive", i>> \in left)
  BY <1>1, <1>2 DEF Kinds
<1>4. \A i : RegistryFine(i)' <=> RegistryFine(i)
  BY <1>2, <1>3 DEF RegistryFine
<1>5. \A i : RegistryWritten(i)' <=> RegistryWritten(i)
  BY <1>2, <1>3 DEF RegistryWritten
<1>6. KindsFine' <=> KindsFine /\ errors = {}
  <2>1. item = <<"properties", 0>> \/ item = <<"edges", 0>> \/ item = <<"nodes", 0>>
    BY <1>1 DEF Kinds
  <2>2. <<"properties", 0>> # <<"edges", 0>> /\ <<"properties", 0>> # <<"nodes", 0>>
        /\ <<"edges", 0>> # <<"nodes", 0>>
    OBVIOUS
  <2> QED BY <1>1, <1>2, <2>1, <2>2 DEF KindsFine
<1>7. complaints' = {} <=> complaints = {} /\ errors = {}
  BY <1>2
<1>8. outcome # "compiled"
  BY <1>2 DEF ExpandInv, CompiledInv
<1> QED BY <1>2, <1>4, <1>5, <1>6, <1>7, <1>8 DEF ExpandInv, RegistriesInv, ComplaintsInv, CompiledInv

\* The registry macro complains, or writes an enum to be derived.
LEMMA RegistryMacroExpanded ==
  ASSUME ExpandInv, ExpandRegistryMacro
  PROVE  ExpandInv'
<1>1. PICK i \in DOMAIN registries :
        LET types == crate.registries[i].types
            error == registry_error(types)
        IN  /\ <<"macro", i>> \in left
            /\ left' = (left \ {<<"macro", i>>}) \cup (IF error = Ok THEN {<<"derive", i>>} ELSE {})
            /\ registries' =
                 IF error = Ok THEN [registries EXCEPT ![i] = registry_expand(types)] ELSE registries
            /\ complaints' = complaints \cup ({error} \ {Ok})
            /\ UNCHANGED <<macro_vars, crate, outcome>>
  BY DEF ExpandRegistryMacro
<1> DEFINE types == crate.registries[i].types
           error == registry_error(types)
<1>2. /\ crate' = crate /\ outcome' = outcome /\ DOMAIN registries' = DOMAIN registries
      /\ \A j \in DOMAIN registries : j # i => registries'[j] = registries[j]
      /\ error = Ok => registries'[i] = registry_expand(types)
  BY <1>1
<1>3. i \in DOMAIN crate.registries /\ DOMAIN registries = DOMAIN crate.registries
      /\ RegistryWritten(i) /\ crate.registries[i].macro
  BY <1>1 DEF ExpandInv, RegistriesInv, RegistryWritten
<1>4. /\ \A j : j # i => (<<"macro", j>> \in left' <=> <<"macro", j>> \in left) /\
                       (<<"derive", j>> \in left' <=> <<"derive", j>> \in left)
      /\ <<"macro", i>> \notin left'
      /\ <<"derive", i>> \in left' => error = Ok
      /\ \A k \in Kinds : k \in left' <=> k \in left
  <2>1. <<"derive", i>> \notin left
    BY <1>1, <1>3 DEF RegistryWritten
  <2>2. left' = (left \ {<<"macro", i>>}) \cup (IF error = Ok THEN {<<"derive", i>>} ELSE {})
    BY <1>1
  <2> HIDE DEF error
  <2> QED BY <2>1, <2>2 DEF Kinds
<1>5. \A j \in DOMAIN registries : j # i =>
        (RegistryFine(j)' <=> RegistryFine(j)) /\ (RegistryWritten(j)' <=> RegistryWritten(j))
  BY <1>2, <1>4 DEF RegistryFine, RegistryWritten
<1>6. RegistryWritten(i)'
  BY <1>2, <1>3, <1>4 DEF RegistryWritten
<1>7. RegistryFine(i) /\ (RegistryFine(i)' <=> error = Ok)
  BY <1>1, <1>2, <1>3, <1>4 DEF RegistryFine
<1>8. KindsFine' <=> KindsFine
  BY <1>2, <1>4 DEF KindsFine, Kinds
<1>9. complaints' = {} <=> complaints = {} /\ error = Ok
  BY <1>1
<1>10. outcome # "compiled"
  BY <1>1 DEF ExpandInv, CompiledInv
<1> HIDE DEF error, types
<1>11. RegistriesInv'
  BY <1>2, <1>3, <1>5, <1>6 DEF ExpandInv, RegistriesInv
<1>12. (\A j \in DOMAIN crate.registries : RegistryFine(j)') <=>
         (error = Ok /\ \A j \in DOMAIN crate.registries : RegistryFine(j))
  BY <1>3, <1>5, <1>7
<1>13. ComplaintsInv'
  BY <1>2, <1>8, <1>9, <1>12 DEF ExpandInv, ComplaintsInv
<1> QED BY <1>2, <1>10, <1>11, <1>13 DEF ExpandInv, CompiledInv

\* Its derive, or the one of a registry written by hand, adds what it complains about.
LEMMA RegistryDeriveExpanded ==
  ASSUME ExpandInv, ExpandRegistryDerive
  PROVE  ExpandInv'
<1>1. PICK i \in DOMAIN registries :
        Expand(<<"derive", i>>, {parse_enum_type_attr(registries[i])} \ {Ok})
  BY DEF ExpandRegistryDerive
<1> DEFINE error == parse_enum_type_attr(registries[i])
<1>2. /\ <<"derive", i>> \in left /\ left' = left \ {<<"derive", i>>}
      /\ complaints' = complaints \cup ({error} \ {Ok})
      /\ crate' = crate /\ registries' = registries /\ outcome' = outcome
  BY <1>1 DEF Expand
<1>3. i \in DOMAIN crate.registries /\ DOMAIN registries = DOMAIN crate.registries /\ RegistryWritten(i)
      /\ crate.registries \in Seq(RegistryItem)
  BY <1>1 DEF ExpandInv, RegistriesInv, Crate
<1>4. /\ \A j : j # i => (<<"derive", j>> \in left' <=> <<"derive", j>> \in left)
      /\ \A j : <<"macro", j>> \in left' <=> <<"macro", j>> \in left
      /\ <<"derive", i>> \notin left'
      /\ \A k \in Kinds : k \in left' <=> k \in left
  BY <1>2 DEF Kinds
<1>5. \A j : j # i =>
        (RegistryFine(j)' <=> RegistryFine(j)) /\ (RegistryWritten(j)' <=> RegistryWritten(j))
  BY <1>2, <1>4 DEF RegistryFine, RegistryWritten
<1>6. RegistryWritten(i)'
  BY <1>2, <1>3, <1>4 DEF RegistryWritten
<1>7. RegistryFine(i) /\ (RegistryFine(i)' <=> error = Ok)
  <2>1. CASE crate.registries[i].macro
    <3>1. crate.registries[i].types \in Seq(Path)
      <4>1. crate.registries[i] \in RegistryItem
        BY <1>3
      <4> QED BY <4>1 DEF RegistryItem
    <3>2. <<"macro", i>> \notin left /\ registry_error(crate.registries[i].types) = Ok
          /\ registries[i] = registry_expand(crate.registries[i].types)
      BY <1>2, <1>3, <2>1 DEF RegistryWritten
    <3>3. error = Ok
      BY <3>1, <3>2, RegistryPasses
    <3> HIDE DEF error
    <3> QED BY <1>2, <1>4, <2>1, <3>2, <3>3 DEF RegistryFine
  <2>2. CASE ~ crate.registries[i].macro
    <3>1. registries[i] = crate.registries[i].decl
      BY <1>3, <2>2 DEF RegistryWritten
    <3> QED BY <1>2, <1>4, <2>2, <3>1 DEF RegistryFine
  <2> QED BY <2>1, <2>2
<1>8. KindsFine' <=> KindsFine
  BY <1>2, <1>4 DEF KindsFine, Kinds
<1>9. complaints' = {} <=> complaints = {} /\ error = Ok
  BY <1>2
<1>10. outcome # "compiled"
  BY <1>2 DEF ExpandInv, CompiledInv
<1> HIDE DEF error
<1>11. RegistriesInv'
  BY <1>2, <1>3, <1>5, <1>6 DEF ExpandInv, RegistriesInv
<1>12. (\A j \in DOMAIN crate.registries : RegistryFine(j)') <=>
         (error = Ok /\ \A j \in DOMAIN crate.registries : RegistryFine(j))
  BY <1>3, <1>5, <1>7
<1>13. ComplaintsInv'
  BY <1>2, <1>8, <1>9, <1>12 DEF ExpandInv, ComplaintsInv
<1> QED BY <1>2, <1>10, <1>11, <1>13 DEF ExpandInv, CompiledInv

\* Neither reading the call nor the compiler changes what was complained about.
LEMMA AlwaysExpandInv == Spec => []ExpandInv
<1>1. ASSUME ExpandInv, [Next]_vars PROVE ExpandInv'
  <2>1. CASE ExpandProperties \/ ExpandEdges \/ ExpandNodes
    BY <1>1, <2>1, KindExpanded
  <2>2. CASE ExpandRegistryMacro
    BY <1>1, <2>2, RegistryMacroExpanded
  <2>3. CASE ExpandRegistryDerive
    BY <1>1, <2>3, RegistryDeriveExpanded
  <2>4. ASSUME UNCHANGED <<crate, left, registries, complaints>>
        PROVE  (RegistriesInv /\ ComplaintsInv)'
    <3>1. \A i : (RegistryFine(i)' <=> RegistryFine(i)) /\ (RegistryWritten(i)' <=> RegistryWritten(i))
      BY <2>4 DEF RegistryFine, RegistryWritten
    <3>2. KindsFine' <=> KindsFine
      BY <2>4 DEF KindsFine
    <3> QED BY <1>1, <2>4, <3>1, <3>2 DEF ExpandInv, RegistriesInv, ComplaintsInv
  <2>5. CASE ParseCall
    <3>1. UNCHANGED <<crate, left, registries, complaints, outcome>> /\ parsed = "parsing"
      BY <2>5 DEF ParseCall, ParseArgument, ExpandSchema
    <3>2. outcome # "compiled"
      BY <1>1, <3>1 DEF ExpandInv, CompiledInv
    <3> QED BY <2>4, <3>1, <3>2 DEF ExpandInv, CompiledInv
  <2>6. CASE Resolve
    <3>1. UNCHANGED <<crate, left, registries, complaints, arguments, slots, parsed>>
      BY <2>6 DEF Resolve, macro_vars
    <3>2. TypeChecks' <=> TypeChecks
      BY <3>1 DEF TypeChecks, RegisteredOnce, Registered, EnumTypesUsed, epr
    <3>3. outcome' = "compiled" => complaints = {} /\ left = {} /\ parsed # "parsing" /\ TypeChecks
      BY <2>6 DEF Resolve, Ok
    <3> QED BY <2>4, <3>1, <3>2, <3>3 DEF ExpandInv, CompiledInv
  <2>7. CASE UNCHANGED vars
    <3>1. UNCHANGED <<crate, left, registries, complaints, arguments, slots, parsed, outcome>>
      BY <2>7 DEF vars
    <3>2. TypeChecks' <=> TypeChecks
      BY <3>1 DEF TypeChecks, RegisteredOnce, Registered, EnumTypesUsed, epr
    <3> QED BY <1>1, <2>4, <3>1, <3>2 DEF ExpandInv, CompiledInv
  <2> QED BY <1>1, <2>1, <2>2, <2>3, <2>5, <2>6, <2>7 DEF Next
<1> QED BY InitExpandInv, <1>1, PTL DEF Spec

\* Of every crate and in every order of expansion: the macros complain exactly when one
\* of its parts is not declared as README.md describes.
THEOREM ComplainsAlwaysExactly == Spec => []ComplainsExactlyWhenMalformed
<1>1. ASSUME ExpandInv PROVE ComplainsExactlyWhenMalformed
  <2> SUFFICES ASSUME left = {}
               PROVE  complaints = {} <=>
                        /\ PropertiesDeclared(crate.properties) /\ EdgesDeclared(crate.edges)
                        /\ NodesDeclared(crate.nodes)
                        /\ \A r \in Range(crate.registries) : RegistryDeclared(r)
    BY DEF ComplainsExactlyWhenMalformed
  <2>1. /\ crate.properties \in EnumDecl /\ crate.edges \in EnumDecl /\ crate.nodes \in EnumDecl
        /\ crate.registries \in Seq(RegistryItem)
    BY <1>1 DEF ExpandInv, RegistriesInv, Crate
  <2>2. KindsFine <=> /\ PropertiesDeclared(crate.properties) /\ EdgesDeclared(crate.edges)
                      /\ NodesDeclared(crate.nodes)
    BY <2>1, PropertiesPass, EdgesPass, NodesPass DEF KindsFine
  <2>3. ASSUME NEW i \in DOMAIN crate.registries
        PROVE  RegistryFine(i) <=> RegistryDeclared(crate.registries[i])
    <3>1. crate.registries[i] \in RegistryItem
      BY <2>1
    <3>2. crate.registries[i].types \in Seq(Path) /\ crate.registries[i].decl \in EnumDecl
      BY <3>1 DEF RegistryItem
    <3>3. registry_error(crate.registries[i].types) = Ok <=>
              /\ crate.registries[i].types # <<>>
              /\ Cardinality({t.last : t \in Range(crate.registries[i].types)}) = Len(crate.registries[i].types)
      BY <3>2, RegistryPasses
    <3>4. parse_enum_type_attr(crate.registries[i].decl) = Ok <=>
            \A v \in Range(crate.registries[i].decl.variants) : Readable("enum_type", v)
      BY <3>2, DeclarationPasses
    <3> QED BY <3>3, <3>4 DEF RegistryFine, RegistryDeclared
  <2>4. (\A i \in DOMAIN crate.registries : RegistryFine(i)) <=>
          \A r \in Range(crate.registries) : RegistryDeclared(r)
    BY <2>3 DEF Range
  <2> QED BY <1>1, <2>2, <2>4 DEF ExpandInv, ComplaintsInv
<1> QED BY <1>1, AlwaysExpandInv, PTL

(***************************************************************************)
(* What a crate that compiles stores and reads                              *)
(***************************************************************************)
\* Nothing wrong was declared in it.
LEMMA CompiledDeclared ==
  ASSUME ExpandInv, outcome = "compiled"
  PROVE  /\ PropertiesDeclared(crate.properties) /\ EdgesDeclared(crate.edges)
         /\ crate.properties \in EnumDecl /\ crate.edges \in EnumDecl
         /\ TypeChecks
<1>1. /\ crate.properties \in EnumDecl /\ crate.edges \in EnumDecl
  BY DEF ExpandInv, RegistriesInv, Crate
<1>2. complaints = {} /\ left = {} /\ TypeChecks
  BY DEF ExpandInv, CompiledInv
<1>3. KindsFine
  BY <1>2 DEF ExpandInv, ComplaintsInv
<1> QED BY <1>1, <1>2, <1>3, PropertiesPass, EdgesPass DEF KindsFine

\* Of every crate that compiles: a typed accessor converts what the untyped table says is
\* stored, though one derive writes the table and another the accessor.
THEOREM AccessorsAlwaysMatchTables == Spec => []AccessorsMatchTables
<1>1. ASSUME ExpandInv PROVE AccessorsMatchTables
  <2> SUFFICES ASSUME outcome = "compiled"
               PROVE  /\ \A v \in Range(crate.properties.variants) :
                           /\ property_accessor(v).typ = property_type(v)
                           /\ property_accessor(v).multi <=> property_quantity(v, TRUE) = "Multi"
                           /\ property_enum(v) = IF property_accessor(v).typ = "Enum"
                                                   THEN Range(property_accessor(v).inner) ELSE {}
                      /\ \A v \in Range(crate.edges.variants) :
                           has_property_method(v) <=> property_type(v) # "None"
    BY DEF AccessorsMatchTables
  <2>1. PropertiesDeclared(crate.properties) /\ crate.properties \in EnumDecl /\ TypeChecks
    BY <1>1, CompiledDeclared
  <2>2. ASSUME NEW v \in Range(crate.properties.variants)
        PROVE  /\ property_accessor(v).typ = property_type(v)
               /\ property_accessor(v).multi <=> property_quantity(v, TRUE) = "Multi"
               /\ property_enum(v) = IF property_accessor(v).typ = "Enum"
                                       THEN Range(property_accessor(v).inner) ELSE {}
    <3>1. Readable("property", v) /\ ValueDeclared(v) /\ prop_qty(v) # {}
      BY <2>1 DEF PropertiesDeclared
    <3>2. property_attr(v) \in Attribute
      BY <2>1, <3>1, PropertyAttribute
    <3>3. TheOne(prop_typ(v)) \in Path /\ TheOne(prop_qty(v)) \in Path
      BY <3>1, <3>2, ArgumentGiven DEF prop_typ, prop_qty, ValueDeclared
    <3>4. TheOne(prop_qty(v)).path \in Quantities
      BY <2>1 DEF TypeChecks, property_quantity
    <3>5. TheOne(prop_qty(v)).last = TheOne(prop_qty(v)).path
      BY <3>3, <3>4 DEF Path
    <3>6. property_accessor(v).multi <=> property_quantity(v, TRUE) = "Multi"
      BY <3>5 DEF property_accessor, property_quantity
    <3>7. property_accessor(v).typ = property_type(v) /\ property_accessor(v).inner = TheOne(prop_typ(v)).inner
      BY DEF property_accessor, property_type
    <3>8. ASSUME property_type(v) = "Enum" PROVE property_enum(v) = Range(property_accessor(v).inner)
      <4>1. TheOne(prop_typ(v)).inner \in Seq(STRING) /\ Len(TheOne(prop_typ(v)).inner) = 1
        BY <3>1, <3>3, <3>8 DEF Path, ValueDeclared, property_type
      <4>2. PICK inner : inner = TheOne(prop_typ(v)).inner
        OBVIOUS
      <4>3. DOMAIN inner = {1}
        BY <4>1, <4>2
      <4>4. Range(inner) = {inner[1]}
        BY <4>3 DEF Range
      <4> QED BY <3>7, <3>8, <4>2, <4>4 DEF property_enum
    <3>9. property_type(v) # "Enum" => property_enum(v) = {}
      BY DEF property_enum
    <3> QED BY <3>6, <3>7, <3>8, <3>9
  <2>3. ASSUME NEW v \in Range(crate.edges.variants)
        PROVE  has_property_method(v) <=> property_type(v) # "None"
    BY DEF has_property_method, property_type
  <2> QED BY <2>2, <2>3
<1> QED BY <1>1, AlwaysExpandInv, PTL

\* The variants of every registry of a crate that compiles are numbered from one.
LEMMA RegistriesNumbered ==
  ASSUME ExpandInv, outcome = "compiled", NEW r \in Range(registries)
  PROVE  \E n \in Nat : DOMAIN enum_types(r) = 1 .. n /\ DOMAIN r.variants = 1 .. n /\ Len(r.variants) = n
<1>1. PICK i \in DOMAIN crate.registries : r = registries[i]
  BY DEF Range, ExpandInv, RegistriesInv
<1>2. /\ crate.registries[i] \in RegistryItem
  <2>1. crate.registries \in Seq(RegistryItem)
    BY DEF ExpandInv, RegistriesInv, Crate
  <2> QED BY <2>1
<1>3. crate.registries[i].types \in Seq(Path) /\ crate.registries[i].decl \in EnumDecl
  BY <1>2 DEF RegistryItem
<1>4. complaints = {} /\ left = {}
  BY DEF ExpandInv, CompiledInv
<1>5. RegistryFine(i) /\ RegistryWritten(i)
  BY <1>4 DEF ExpandInv, RegistriesInv, ComplaintsInv
<1>6. DOMAIN enum_types(r) = DOMAIN r.variants
  BY DEF enum_types
<1>7. CASE crate.registries[i].macro
  <2>1. PICK types : types = crate.registries[i].types
    OBVIOUS
  <2>2. r = registry_expand(types)
    BY <1>1, <1>4, <1>5, <1>7, <2>1 DEF RegistryFine, RegistryWritten
  <2>3. DOMAIN r.variants = DOMAIN types
    BY <2>2 DEF registry_expand
  <2>4. DOMAIN types = 1 .. Len(types) /\ Len(types) \in Nat
    BY <1>3, <2>1
  <2>5. Len(r.variants) = Len(types)
    BY <2>3, <2>4
  <2> QED BY <1>6, <2>3, <2>4, <2>5
<1>8. CASE ~ crate.registries[i].macro
  <2>1. r \in EnumDecl
    BY <1>1, <1>3, <1>5, <1>8 DEF RegistryWritten
  <2>2. DOMAIN r.variants = 1 .. Len(r.variants) /\ Len(r.variants) \in Nat
    BY <2>1 DEF EnumDecl
  <2> QED BY <1>6, <2>2
<1> QED BY <1>7, <1>8

\* An enum is listed in one registry, at one place, and that is its index.
LEMMA IndexOfListed ==
  ASSUME ExpandInv, outcome = "compiled", NEW r \in Range(registries),
         NEW k \in DOMAIN enum_types(r)
  PROVE  /\ IndexOf(enum_types(r)[k]) = k - 1 /\ k \in Nat /\ k >= 1 /\ k <= Len(r.variants)
         /\ Len(r.variants) \in Nat
<1> DEFINE path == enum_types(r)[k]
<1>1. PICK n \in Nat : DOMAIN enum_types(r) = 1 .. n /\ DOMAIN r.variants = 1 .. n /\ Len(r.variants) = n
  BY RegistriesNumbered
<1>2. RegisteredOnce
  BY CompiledDeclared DEF TypeChecks
<1>3. path \in Range(enum_types(r))
  BY DEF Range
<1>4. ASSUME NEW q \in Range(registries), path \in Range(enum_types(q)) PROVE q = r
  <2>1. PICK i \in DOMAIN registries, j \in DOMAIN registries : q = registries[i] /\ r = registries[j]
    BY DEF Range
  <2>2. i # j => Range(enum_types(registries[i])) \cap Range(enum_types(registries[j])) = {}
    BY <1>2 DEF RegisteredOnce
  <2> QED BY <1>3, <1>4, <2>1, <2>2
<1>5. HomeOf(path) = r
  BY <1>3, <1>4 DEF HomeOf
<1>6. \A i \in DOMAIN enum_types(r) : enum_types(r)[i] = path => i = k
  BY <1>2 DEF RegisteredOnce, Distinct
<1>7. (CHOOSE i \in DOMAIN r.variants : enum_types(r)[i] = path) = k
  BY <1>1, <1>6
<1>8. IndexOf(path) = k - 1
  BY <1>5, <1>7 DEF IndexOf, enum_property_index
<1> QED BY <1>1, <1>8

\* A variant has a place in its enum, and a value that carries it comes back as itself.
LEMMA ValueComesBack ==
  ASSUME NEW enum \in DomainEnum, NEW at, NEW name \in Range(enum.variants)
  PROVE  /\ property_value(enum, at, name)[1] = at
         /\ property_value(enum, at, name)[2] < Len(enum.variants)
         /\ try_from_value(enum, at, property_value(enum, at, name)) = [error |-> Ok, name |-> name]
<1>1. enum.variants \in Seq(STRING)
  BY DEF DomainEnum
<1>2. PICK i : i = CHOOSE j \in DOMAIN enum.variants : enum.variants[j] = name
  OBVIOUS
<1>3. i \in DOMAIN enum.variants /\ enum.variants[i] = name
  <2>1. \E j \in DOMAIN enum.variants : enum.variants[j] = name
    BY DEF Range
  <2> QED BY <1>2, <2>1
<1>4. i \in 1 .. Len(enum.variants) /\ Len(enum.variants) \in Nat
  BY <1>1, <1>3
<1>5. PICK value : value = <<at, i - 1>>
  OBVIOUS
<1>6. property_value(enum, at, name) = value
  BY <1>2, <1>5 DEF property_value
<1>7. value[1] = at /\ value[2] = i - 1 /\ value[2] < Len(enum.variants) /\ value[2] + 1 = i
  BY <1>4, <1>5
<1>8. try_from_value(enum, at, value) = [error |-> Ok, name |-> enum.variants[i]]
  BY <1>7 DEF try_from_value
<1> QED BY <1>3, <1>6, <1>7, <1>8

\* Of every crate that compiles and whose schema names a registry of all its enums: a value
\* of an enum resolves, comes back as itself and is taken for one of no other.
THEOREM EnumValuesAlwaysResolve == Spec => []EnumValuesResolve
<1>1. ASSUME ExpandInv PROVE EnumValuesResolve
  <2> DEFINE R == RegistryNamed(epr)
             types == enum_types(R)
  <2> SUFFICES ASSUME outcome = "compiled", EnumTypesUsed \subseteq Range(types)
      PROVE  /\ \A v \in Range(crate.properties.variants) \cup Range(crate.edges.variants) :
                  \A path \in property_enum(v) :
                    EnumTable[Declared(v).enum + 1] = Len(EnumAt(path).variants)
             /\ \A path \in Range(types) : \A name \in Range(EnumAt(path).variants) :
                  LET value == property_value(EnumAt(path), IndexOf(path), name)
                  IN  /\ try_from_value(EnumAt(path), IndexOf(path), value) = [error |-> Ok, name |-> name]
                      /\ \A other \in Range(types) \ {path} :
                           try_from_value(EnumAt(other), IndexOf(other), value).error # Ok
                      /\ from_index(R, value[1]) # {}
                      /\ value[2] < EnumTable[value[1] + 1]
    BY DEF EnumValuesResolve
  <2>1. TypeChecks
    BY <1>1, CompiledDeclared
  <2>2. R = NoEnumProps \/ R \in Range(registries)
    <3>1. epr \in {"NoEnumProps"} \cup {r.name : r \in Range(crate.registries)}
      BY <2>1 DEF TypeChecks
    <3>2. CASE epr = "NoEnumProps"
      BY <3>2 DEF RegistryNamed
    <3>3. CASE epr # "NoEnumProps"
      <4>1. \E i \in DOMAIN registries : crate.registries[i].name = epr
        BY <1>1, <3>1, <3>3 DEF ExpandInv, RegistriesInv, Range
      <4>2. PICK i : i = CHOOSE j \in DOMAIN registries : crate.registries[j].name = epr
        OBVIOUS
      <4>3. i \in DOMAIN registries
        BY <4>1, <4>2
      <4>4. R = registries[i]
        BY <3>3, <4>2 DEF RegistryNamed
      <4> QED BY <4>3, <4>4 DEF Range
    <3> QED BY <3>2, <3>3
  <2>3. ASSUME NEW path \in Range(types)
        PROVE  \E k \in DOMAIN types :
                 /\ path = types[k] /\ IndexOf(path) = k - 1 /\ k \in Nat /\ k >= 1 /\ k <= Len(R.variants)
                 /\ k \in DOMAIN R.variants /\ Len(R.variants) \in Nat
    <3>1. PICK k \in DOMAIN types : path = types[k]
      BY DEF Range
    <3>2. DOMAIN types = DOMAIN R.variants
      BY DEF enum_types
    <3>3. R \in Range(registries)
      <4>1. ASSUME R = NoEnumProps PROVE FALSE
        <5>1. DOMAIN R.variants = {}
          BY <4>1 DEF NoEnumProps
        <5> QED BY <3>2, <5>1
      <4> QED BY <2>2, <4>1
    <3>4. /\ IndexOf(types[k]) = k - 1 /\ k \in Nat /\ k >= 1 /\ k <= Len(R.variants)
          /\ Len(R.variants) \in Nat
      BY <1>1, <3>3, IndexOfListed
    <3> QED BY <3>1, <3>2, <3>4
  <2>4. ASSUME NEW path \in Range(types)
        PROVE  EnumAt(path) \in DomainEnum
    <3>1. PICK k \in DOMAIN types : path = types[k] /\ k \in DOMAIN R.variants
      BY <2>3
    <3>2. R \in Range(registries)
      <4>1. ASSUME R = NoEnumProps PROVE FALSE
        <5>1. DOMAIN R.variants = {}
          BY <4>1 DEF NoEnumProps
        <5> QED BY <3>1, <5>1
      <4> QED BY <2>2, <4>1
    <3>3. path \in Registered
      BY <3>2 DEF Registered
    <3>4. \E e \in crate.enums : e.path = path
      BY <2>1, <3>3 DEF TypeChecks
    <3>5. EnumAt(path) \in crate.enums
      BY <3>4 DEF EnumAt, TheOne
    <3>6. crate.enums \subseteq DomainEnum
      BY <1>1 DEF ExpandInv, RegistriesInv, Crate
    <3> QED BY <3>5, <3>6
  <2>5. ASSUME NEW k \in DOMAIN R.variants
        PROVE  EnumTable[k] = Len(EnumAt(types[k]).variants)
    BY <2>5 DEF EnumTable, variant_count, EnumAt
  <2> HIDE DEF R, types
  <2>6. ASSUME NEW v \in Range(crate.properties.variants) \cup Range(crate.edges.variants),
               NEW path \in property_enum(v)
        PROVE  EnumTable[Declared(v).enum + 1] = Len(EnumAt(path).variants)
    <3>1. property_enum(v) = {path}
      BY DEF property_enum
    <3>2. path \in Range(types)
      BY <3>1 DEF EnumTypesUsed
    <3>3. Declared(v).enum = IndexOf(path)
      <4>1. TheOne({path}) = path
        BY DEF TheOne
      <4> QED BY <3>1, <4>1 DEF Declared
    <3>4. PICK k \in DOMAIN R.variants : path = types[k] /\ IndexOf(path) = k - 1 /\ k \in Nat
      BY <2>3, <3>2
    <3>5. Declared(v).enum + 1 = k
      BY <3>3, <3>4
    <3> QED BY <2>5, <3>4, <3>5
  <2>7. ASSUME NEW path \in Range(types), NEW name \in Range(EnumAt(path).variants)
        PROVE  LET value == property_value(EnumAt(path), IndexOf(path), name)
               IN  /\ try_from_value(EnumAt(path), IndexOf(path), value) = [error |-> Ok, name |-> name]
                   /\ \A other \in Range(types) \ {path} :
                        try_from_value(EnumAt(other), IndexOf(other), value).error # Ok
                   /\ from_index(R, value[1]) # {}
                   /\ value[2] < EnumTable[value[1] + 1]
    <3>1. PICK value : value = property_value(EnumAt(path), IndexOf(path), name)
      OBVIOUS
    <3>2. /\ value[1] = IndexOf(path) /\ value[2] < Len(EnumAt(path).variants)
          /\ try_from_value(EnumAt(path), IndexOf(path), value) = [error |-> Ok, name |-> name]
      BY <2>4, <3>1, ValueComesBack
    <3>3. PICK k \in DOMAIN R.variants :
            /\ path = types[k] /\ IndexOf(path) = k - 1 /\ k \in Nat /\ k <= Len(R.variants)
            /\ k >= 1 /\ Len(R.variants) \in Nat
      BY <2>3
    <3>4. value[1] + 1 = k /\ value[1] < Len(R.variants)
      BY <3>2, <3>3
    <3>5. value[2] < EnumTable[value[1] + 1]
      BY <2>5, <3>2, <3>3, <3>4
    <3>6. from_index(R, value[1]) # {}
      BY <3>4 DEF from_index
    <3>7. ASSUME NEW other \in Range(types) \ {path}
          PROVE  try_from_value(EnumAt(other), IndexOf(other), value).error # Ok
      <4>1. PICK j \in DOMAIN R.variants : other = types[j] /\ IndexOf(other) = j - 1 /\ j \in Nat
        BY <2>3
      <4>2. j # k
        BY <3>3, <4>1
      <4>3. value[1] # IndexOf(other)
        BY <3>2, <3>3, <4>1, <4>2
      <4> QED BY <4>3 DEF try_from_value, Ok
    <3> QED BY <3>1, <3>2, <3>5, <3>6, <3>7
  <2> QED BY <2>6, <2>7 DEF types, R
<1> QED BY <1>1, AlwaysExpandInv, PTL
=============================================================================
