------------------------------ MODULE StringsPool ------------------------------
(***************************************************************************)
(* The string interner: one buffer of text, a range of it per handle, and an *)
(* open-addressing table from hashes to handles.  A lookup is taken one      *)
(* probe at a time.  Hash stands for hash_str, whose result matters to        *)
(* nothing but where a lookup starts.                                       *)
(***************************************************************************)
EXTENDS Integers, Sequences, Functions, FiniteSets

CONSTANTS
  Texts,       \* the texts a caller interns, as sequences of bytes
  Hash,        \* text -> its hash
  TagUnit,     \* 2^24: the tag is taken from the bits of the hash above this
  MinSlots,    \* MIN_LOOKUP_SLOTS
  MaxStrings,  \* u32::MAX
  MaxBytes     \* u32::MAX

Byte == 0 .. 255

ASSUME PoolAssumption ==
  /\ Texts \subseteq Seq(Byte)
  /\ Hash \in [Texts -> Nat]
  /\ TagUnit \in Nat \ {0}
  /\ MinSlots \in Nat /\ MinSlots >= 4
  /\ MaxStrings \in Nat /\ MaxBytes \in Nat

VARIABLES
  buffer, ranges, hashes, tags, slots,  \* the pool; ranges[i] is <<start, len>> of handle i - 1
  pc,      \* "ready", "find" or "insert"
  text,    \* the text being interned, as a set
  slot,    \* where its lookup stands
  answer   \* what the last intern returned; NoHandle when it panicked

pool_vars == <<buffer, ranges, hashes, tags, slots>>
vars == <<pool_vars, pc, text, slot, answer>>

NoHandle == -1

hash_str(string) == Hash[string]

\* The low bit is forced on: 0 marks a free slot.
tag_of(hash) == LET t == hash \div TagUnit IN t + (1 - (t % 2))

\* A table has a power of two of slots, so masking is taking the remainder.
Home(hash, capacity) == hash % capacity

\* Mutant: the length of the range is not looked at.
MutantResolve(index) == SubSeq(buffer, ranges[index + 1][1] + 1, Len(buffer))

resolve(index) ==
  SubSeq(buffer, ranges[index + 1][1] + 1, ranges[index + 1][1] + ranges[index + 1][2])

(***************************************************************************)
(* The table                                                               *)
(***************************************************************************)
EmptyTable(capacity) ==
  [tags |-> [s \in 1 .. capacity |-> 0], slots |-> [s \in 1 .. capacity |-> 0]]

\* The first free slot from the hash's home on; there is one in a table that
\* is not full.
\* Mutant: a slot that is taken is overwritten.
MutantFreeSlot(table_tags, hash) == Home(hash, Len(table_tags))
FreeSlot(table_tags, hash) ==
  LET capacity == Len(table_tags)
      at(distance) == (Home(hash, capacity) + distance) % capacity
      free == {d \in 0 .. capacity - 1 : table_tags[at(d) + 1] = 0}
  IN  at(CHOOSE d \in free : \A e \in free : d <= e)

insert_slot(table, hash, id) ==
  LET at == FreeSlot(table.tags, hash) + 1
  IN  [tags |-> [table.tags EXCEPT ![at] = tag_of(hash)],
       slots |-> [table.slots EXCEPT ![at] = id]]

rebuild_lookup(all_hashes, capacity) ==
  LET enough == IF capacity < MinSlots THEN MinSlots ELSE capacity
      table[n \in 0 .. Len(all_hashes)] ==
        IF n = 0 THEN EmptyTable(enough)
        ELSE insert_slot(table[n - 1], all_hashes[n], n - 1)
  IN  table[Len(all_hashes)]

(***************************************************************************)
(* intern                                                                  *)
(***************************************************************************)
Init ==
  /\ buffer = <<>> /\ ranges = <<>> /\ hashes = <<>> /\ tags = <<>> /\ slots = <<>>
  /\ pc = "ready" /\ text = {} /\ slot = 0 /\ answer = NoHandle

BeginIntern(string) ==
  /\ pc = "ready"
  /\ text' = {string}
  /\ IF tags = <<>>
       THEN pc' = "insert" /\ slot' = 0
       ELSE pc' = "find" /\ slot' = Home(hash_str(string), Len(tags))
  /\ UNCHANGED <<pool_vars, answer>>

Return(result) == pc' = "ready" /\ text' = {} /\ slot' = 0 /\ answer' = result

\* Mutant: an equal tag is taken for an equal text.
MutantMatches(string) == tags[slot + 1] = tag_of(hash_str(string))
Matches(string) == tags[slot + 1] = tag_of(hash_str(string)) /\ resolve(slots[slot + 1]) = string

Probe ==
  /\ pc = "find"
  /\ \E string \in text :
       \/ /\ tags[slot + 1] = 0
          /\ pc' = "insert" /\ UNCHANGED <<text, slot, answer>>
       \/ /\ tags[slot + 1] # 0 /\ Matches(string)
          /\ Return(slots[slot + 1])
       \/ /\ tags[slot + 1] # 0 /\ ~ Matches(string)
          /\ slot' = (slot + 1) % Len(tags) /\ UNCHANGED <<pc, text, answer>>
  /\ UNCHANGED pool_vars

\* The table once the hash of one more string is in it, grown when it would
\* be half full.
\* Mutants: the table may get half full; it may get full.
MutantCrowdedLate(strings) == strings * 2 > Len(tags)
MutantCrowdedFull(strings) == strings > Len(tags)
Crowded(strings) == strings * 2 >= Len(tags)
TableWith(hash) ==
  IF Crowded(Len(ranges) + 1)
    THEN rebuild_lookup(Append(hashes, hash), 2 * Len(tags))
    ELSE insert_slot([tags |-> tags, slots |-> slots], hash, Len(ranges))

\* Mutant: only the strings are counted, not their bytes.
MutantHasRoom(string) == Len(ranges) < MaxStrings
HasRoom(string) == Len(ranges) < MaxStrings /\ Len(buffer) + Len(string) <= MaxBytes

Insert ==
  /\ pc = "insert"
  /\ \E string \in text :
       \/ ~ HasRoom(string) /\ Return(NoHandle) /\ UNCHANGED pool_vars
       \/ /\ HasRoom(string)
          /\ buffer' = buffer \o string
          /\ ranges' = Append(ranges, <<Len(buffer), Len(string)>>)
          /\ hashes' = Append(hashes, hash_str(string))
          /\ LET table == TableWith(hash_str(string))
             IN  tags' = table.tags /\ slots' = table.slots
          /\ Return(Len(ranges))

\* Mutant: the buffer is cut where the last text that stays begins.
MutantTruncate(len) ==
  /\ pc = "ready" /\ len < Len(ranges)
  /\ ranges' = SubSeq(ranges, 1, len)
  /\ hashes' = SubSeq(hashes, 1, len)
  /\ buffer' = SubSeq(buffer, 1, IF len = 0 THEN 0 ELSE ranges[len][1])
  /\ LET table == rebuild_lookup(SubSeq(hashes, 1, len), Len(tags))
     IN  tags' = table.tags /\ slots' = table.slots
  /\ UNCHANGED <<pc, text, slot, answer>>

truncate(len) ==
  /\ pc = "ready" /\ len < Len(ranges)
  /\ ranges' = SubSeq(ranges, 1, len)
  /\ hashes' = SubSeq(hashes, 1, len)
  /\ buffer' = SubSeq(buffer, 1, ranges[len + 1][1])
  /\ LET table == rebuild_lookup(SubSeq(hashes, 1, len), Len(tags))
     IN  tags' = table.tags /\ slots' = table.slots
  /\ UNCHANGED <<pc, text, slot, answer>>

Next ==
  \/ \E string \in Texts : BeginIntern(string)
  \/ Probe \/ Insert
  \/ \E len \in 0 .. Len(ranges) : truncate(len)

\* The probing loop runs on until it is left.
Spec == Init /\ [][Next]_vars /\ WF_vars(Probe)

(***************************************************************************)
(* Properties                                                              *)
(***************************************************************************)
\* Type invariant, the text first and the table over it second.
TextTypeOK ==
  /\ buffer \in Seq(Byte) /\ Len(buffer) <= MaxBytes
  /\ ranges \in Seq(Nat \X Nat) /\ Len(ranges) <= MaxStrings
  /\ hashes \in Seq(Nat) /\ Len(hashes) = Len(ranges)
  /\ text \subseteq Texts
TypeOK ==
  /\ TextTypeOK
  /\ tags \in Seq(Nat) /\ slots \in Seq(Nat) /\ Len(tags) = Len(slots)
  /\ pc \in {"ready", "find", "insert"}
  /\ (text = {} <=> pc = "ready") /\ Cardinality(text) <= 1
  /\ slot \in Nat /\ (pc = "find" => slot < Len(tags))
  /\ answer \in Nat \cup {NoHandle}

\* The unchecked slice of the buffer is sound: every range lies within it, and
\* after the ranges of all earlier handles, so that cutting one off at its start
\* cuts none before it.
RangesInBuffer == \A i \in DOMAIN ranges : ranges[i][1] + ranges[i][2] <= Len(buffer)
RangesOrdered ==
  \A i, j \in DOMAIN ranges : i < j => ranges[i][1] + ranges[i][2] <= ranges[j][1]
SlicesSound == RangesInBuffer /\ RangesOrdered

\* A handle that is not truncated away resolves to the text it resolved to before.
HandlesStable ==
  [][\A i \in DOMAIN ranges \cap DOMAIN ranges' : resolve(i - 1)' = resolve(i - 1)]_vars

\* The table is less than half full whenever it is looked into, after truncation
\* too, so every probe meets a free slot.
BelowHalfFull == ranges # <<>> => Len(ranges) * 2 < Len(tags)

\* A lookup for any interned text meets it before it meets a free slot: the run
\* from its home to the slot that holds it has no gap.
Reachable(index) ==
  LET capacity == Len(tags)
      at(distance) == ((Home(hashes[index], capacity) + distance) % capacity) + 1
  IN  \E d \in 0 .. capacity - 1 :
        /\ slots[at(d)] = index - 1 /\ tags[at(d)] = tag_of(hashes[index])
        /\ \A e \in 0 .. d - 1 : tags[at(e)] # 0
ChainsUnbroken == \A index \in DOMAIN hashes : Reachable(index)

\* The probing loop, which has no bound of its own, ends: no lookup goes round the
\* table for ever.
LookupEnds == pc = "find" ~> pc # "find"

\* The pool is an Interner: equal texts share a handle, and no handle is ever
\* moved to another text.
Implements == INSTANCE Interner WITH
  pool <- [i \in DOMAIN ranges |-> resolve(i - 1)], asked <- text
ImplementsInterner == Implements!Spec
=============================================================================
