---------------------------- MODULE StringsPoolProofs ----------------------------
(***************************************************************************)
(* For every set of texts, every hash and every limit: the ranges of a       *)
(* StringsPool slice its buffer soundly and no handle changes its text, for  *)
(* which its table plays no part; the table is below half full and leads to  *)
(* every text in the pool; and the whole is an Interner.                     *)
(***************************************************************************)
EXTENDS StringsPool, SlotProofs, SequenceTheorems, FiniteSetTheorems, TLAPS

IInv == TextTypeOK /\ SlicesSound

\* A range is a start and a length.
LEMMA RangeType ==
  ASSUME NEW seq \in Seq(Nat \X Nat), NEW i \in DOMAIN seq
  PROVE  seq[i][1] \in Nat /\ seq[i][2] \in Nat
<1>1. seq[i] \in Nat \X Nat
  OBVIOUS
<1>2. \A p \in Nat \X Nat : p[1] \in Nat /\ p[2] \in Nat
  OBVIOUS
<1> QED BY <1>1, <1>2

\* Appending a text keeps the pool sound: the steps of Insert, on the buffer and
\* the ranges alone.
LEMMA InsertSound ==
  ASSUME IInv, NEW string \in text, HasRoom(string),
         buffer' = buffer \o string,
         ranges' = Append(ranges, <<Len(buffer), Len(string)>>),
         hashes' = Append(hashes, hash_str(string)),
         text' = {}
  PROVE  IInv'
<1>1. /\ buffer \in Seq(Byte) /\ ranges \in Seq(Nat \X Nat) /\ hashes \in Seq(Nat)
      /\ Len(hashes) = Len(ranges) /\ string \in Texts /\ string \in Seq(Byte)
      /\ Hash[string] \in Nat
  BY PoolAssumption DEF IInv, TextTypeOK
<1>2. /\ buffer' \in Seq(Byte) /\ Len(buffer') = Len(buffer) + Len(string)
      /\ Len(buffer) \in Nat /\ Len(string) \in Nat
  BY <1>1
<1>3. /\ ranges' \in Seq(Nat \X Nat) /\ Len(ranges') = Len(ranges) + 1 /\ Len(ranges) \in Nat
      /\ \A i \in 1 .. Len(ranges) : ranges'[i] = ranges[i]
      /\ ranges'[Len(ranges) + 1] = <<Len(buffer), Len(string)>>
  BY <1>1, <1>2, AppendProperties
<1>4. hashes' \in Seq(Nat) /\ Len(hashes') = Len(hashes) + 1
  BY <1>1, AppendProperties DEF hash_str
<1>5. TextTypeOK'
  BY <1>1, <1>2, <1>3, <1>4, PoolAssumption DEF TextTypeOK, HasRoom
<1>6. /\ DOMAIN ranges = 1 .. Len(ranges) /\ DOMAIN ranges' = 1 .. Len(ranges) + 1
      /\ \A i \in DOMAIN ranges : ranges[i][1] \in Nat /\ ranges[i][2] \in Nat
  BY <1>1, <1>3, RangeType
<1>7. RangesInBuffer'
  BY <1>2, <1>3, <1>6 DEF IInv, SlicesSound, RangesInBuffer
<1>8. RangesOrdered'
  <2>1. SUFFICES ASSUME NEW i \in DOMAIN ranges', NEW j \in DOMAIN ranges', i < j
                 PROVE  ranges'[i][1] + ranges'[i][2] <= ranges'[j][1]
    BY DEF RangesOrdered
  <2>2. CASE j = Len(ranges) + 1
    BY <2>1, <2>2, <1>2, <1>3, <1>6 DEF IInv, SlicesSound, RangesInBuffer
  <2>3. CASE j # Len(ranges) + 1
    BY <2>1, <2>3, <1>3, <1>6 DEF IInv, SlicesSound, RangesOrdered
  <2> QED BY <2>2, <2>3
<1> QED BY <1>5, <1>7, <1>8 DEF IInv, SlicesSound

\* Cutting the buffer where the first dropped text began keeps the rest sound.
LEMMA TruncateSound ==
  ASSUME IInv, NEW len \in 0 .. Len(ranges), truncate(len)
  PROVE  IInv'
<1>1. /\ buffer \in Seq(Byte) /\ ranges \in Seq(Nat \X Nat) /\ hashes \in Seq(Nat)
      /\ Len(hashes) = Len(ranges) /\ Len(ranges) \in Nat /\ Len(buffer) \in Nat
      /\ len \in Nat /\ len < Len(ranges) /\ text' = text
      /\ hashes' = SubSeq(hashes, 1, len) /\ ranges' = SubSeq(ranges, 1, len)
  BY DEF IInv, TextTypeOK, truncate
<1>2. len + 1 \in DOMAIN ranges /\ DOMAIN ranges = 1 .. Len(ranges)
  BY <1>1
<1>3. \A i \in DOMAIN ranges : ranges[i][1] \in Nat /\ ranges[i][2] \in Nat
  BY <1>1, RangeType
<1> DEFINE cut == ranges[len + 1][1]
<1>4. cut \in Nat /\ cut <= Len(buffer)
  <2>1. ranges[len + 1][1] + ranges[len + 1][2] <= Len(buffer)
    BY <1>2 DEF IInv, SlicesSound, RangesInBuffer
  <2> QED BY <2>1, <1>1, <1>2, <1>3
<1> HIDE DEF cut
<1>5. buffer' = SubSeq(buffer, 1, cut)
  BY DEF truncate, cut
<1>6. buffer' \in Seq(Byte) /\ Len(buffer') = cut
  BY <1>1, <1>4, <1>5, SubSeqProperties
<1>7. /\ ranges' \in Seq(Nat \X Nat) /\ Len(ranges') = len /\ DOMAIN ranges' = 1 .. len
      /\ \A i \in 1 .. len : ranges'[i] = ranges[i]
  BY <1>1, SubSeqProperties
<1>8. hashes' \in Seq(Nat) /\ Len(hashes') = len
  BY <1>1, SubSeqProperties
<1>9. TextTypeOK'
  <2>1. Len(buffer) <= MaxBytes /\ Len(ranges) <= MaxStrings /\ text \subseteq Texts
    BY DEF IInv, TextTypeOK
  <2>2. Len(buffer') <= MaxBytes
    BY <1>1, <1>4, <1>6, <2>1, PoolAssumption
  <2>3. Len(ranges') <= MaxStrings
    BY <1>1, <1>7, <2>1, PoolAssumption
  <2>4. text' \subseteq Texts
    BY <1>1, <2>1
  <2> QED BY <1>6, <1>7, <1>8, <2>2, <2>3, <2>4 DEF TextTypeOK
<1>10. RangesInBuffer'
  <2>1. SUFFICES ASSUME NEW i \in 1 .. len PROVE ranges[i][1] + ranges[i][2] <= cut
    BY <1>6, <1>7 DEF RangesInBuffer
  <2>2. i \in DOMAIN ranges /\ i < len + 1
    BY <1>1, <1>2
  <2> QED BY <1>2, <2>2 DEF IInv, SlicesSound, RangesOrdered, cut
<1>11. RangesOrdered'
  <2>1. SUFFICES ASSUME NEW i \in 1 .. len, NEW j \in 1 .. len, i < j
                 PROVE  ranges[i][1] + ranges[i][2] <= ranges[j][1]
    BY <1>7 DEF RangesOrdered
  <2>2. i \in DOMAIN ranges /\ j \in DOMAIN ranges
    BY <1>1, <1>2
  <2> QED BY <2>1, <2>2 DEF IInv, SlicesSound, RangesOrdered
<1> QED BY <1>9, <1>10, <1>11 DEF IInv, SlicesSound

\* Inserting, truncating and growing the table keep every range within the buffer.
LEMMA StepSound == IInv /\ [Next]_vars => IInv'
<1> SUFFICES ASSUME IInv, [Next]_vars PROVE IInv'
  OBVIOUS
<1>1. ASSUME NEW string \in Texts, BeginIntern(string) PROVE IInv'
  <2>1. text' \subseteq Texts /\ UNCHANGED <<buffer, ranges, hashes>>
    BY <1>1 DEF BeginIntern, pool_vars
  <2> QED BY <2>1 DEF IInv, TextTypeOK, SlicesSound, RangesInBuffer, RangesOrdered
<1>2. CASE Probe
  <2>1. text' \subseteq Texts /\ UNCHANGED <<buffer, ranges, hashes>>
    BY <1>2 DEF Probe, Return, pool_vars, IInv, TextTypeOK
  <2> QED BY <2>1 DEF IInv, TextTypeOK, SlicesSound, RangesInBuffer, RangesOrdered
<1>3. CASE Insert
  <2>1. PICK string \in text :
          \/ Return(NoHandle) /\ UNCHANGED pool_vars
          \/ /\ HasRoom(string)
             /\ buffer' = buffer \o string
             /\ ranges' = Append(ranges, <<Len(buffer), Len(string)>>)
             /\ hashes' = Append(hashes, hash_str(string))
             /\ Return(Len(ranges))
    BY <1>3 DEF Insert
  <2>2. CASE Return(NoHandle) /\ UNCHANGED pool_vars
    BY <2>2 DEF Return, pool_vars, IInv, TextTypeOK, SlicesSound, RangesInBuffer, RangesOrdered
  <2>3. CASE /\ HasRoom(string)
             /\ buffer' = buffer \o string
             /\ ranges' = Append(ranges, <<Len(buffer), Len(string)>>)
             /\ hashes' = Append(hashes, hash_str(string))
             /\ Return(Len(ranges))
    BY <2>3, InsertSound DEF Return
  <2> QED BY <2>1, <2>2, <2>3
<1>4. ASSUME NEW len \in 0 .. Len(ranges), truncate(len) PROVE IInv'
  BY <1>4, TruncateSound
<1>5. CASE UNCHANGED vars
  BY <1>5 DEF vars, pool_vars, IInv, TextTypeOK, SlicesSound, RangesInBuffer, RangesOrdered
<1> QED BY <1>1, <1>2, <1>3, <1>4, <1>5 DEF Next

\* In every state the pool can reach, each handle's range lies inside the buffer
\* and behind all earlier ones: the unchecked slice in StringsPool::slice is never
\* out of bounds.
THEOREM SlicesAlwaysSound == Spec => [](TextTypeOK /\ SlicesSound)
<1>1. Init => IInv
  BY PoolAssumption DEF Init, IInv, TextTypeOK, SlicesSound, RangesInBuffer, RangesOrdered
<1> QED BY <1>1, StepSound, PTL DEF Spec, IInv

(***************************************************************************)
(* Handles                                                                 *)
(***************************************************************************)
\* A slice of a sequence is the same slice of any sequence it begins ...
LEMMA SliceOfConcat ==
  ASSUME NEW S, NEW s \in Seq(S), NEW t \in Seq(S),
         NEW start \in Nat, NEW size \in Nat, start + size <= Len(s)
  PROVE  SubSeq(s \o t, start + 1, start + size) = SubSeq(s, start + 1, start + size)
<1>1. CASE size = 0
  BY <1>1, SubSeqEmpty
<1>2. CASE size # 0
  <2>1. start + 1 \in 1 .. Len(s) /\ start + size \in 1 .. Len(s)
    BY <1>2
  <2> QED BY <2>1, SubSeqOfConcat1
<1> QED BY <1>1, <1>2

\* ... and of any sequence cut behind it.
LEMMA SliceOfCut ==
  ASSUME NEW S, NEW s \in Seq(S), NEW cut \in Nat, cut <= Len(s),
         NEW start \in Nat, NEW size \in Nat, start + size <= cut
  PROVE  SubSeq(SubSeq(s, 1, cut), start + 1, start + size)
           = SubSeq(s, start + 1, start + size)
<1>1. CASE size = 0
  BY <1>1, SubSeqEmpty
<1>2. CASE size # 0
  <2>1. /\ Len(s) \in Nat /\ 1 \in 1 .. Len(s) /\ cut \in 1 .. Len(s)
        /\ start + 1 \in 1 .. cut - 1 + 1 /\ start + size \in 1 .. cut - 1 + 1
    BY <1>2
  <2>2. SubSeq(SubSeq(s, 1, cut), start + 1, start + size)
          = SubSeq(s, 1 + (start + 1) - 1, 1 + (start + size) - 1)
    BY <2>1, SubSeqOfSubSeq
  <2>3. 1 + (start + 1) - 1 = start + 1 /\ 1 + (start + size) - 1 = start + size
    OBVIOUS
  <2> QED BY <2>2, <2>3
<1> QED BY <1>1, <1>2

\* What a handle resolves to before and after a step that leaves its range alone.
LEMMA ResolveAfter ==
  ASSUME NEW i \in Nat \ {0}, ranges'[i] = ranges[i],
         SubSeq(buffer', ranges[i][1] + 1, ranges[i][1] + ranges[i][2])
           = SubSeq(buffer, ranges[i][1] + 1, ranges[i][1] + ranges[i][2])
  PROVE  resolve(i - 1)' = resolve(i - 1)
<1>1. i - 1 + 1 = i
  OBVIOUS
<1> QED BY <1>1 DEF resolve

\* An insert writes behind all the ranges there are.
LEMMA HandleAfterInsert ==
  ASSUME IInv, NEW string \in text,
         buffer' = buffer \o string,
         ranges' = Append(ranges, <<Len(buffer), Len(string)>>),
         NEW i \in DOMAIN ranges
  PROVE  resolve(i - 1)' = resolve(i - 1)
<1>1. /\ buffer \in Seq(Byte) /\ string \in Seq(Byte) /\ ranges \in Seq(Nat \X Nat)
      /\ i \in 1 .. Len(ranges) /\ Len(buffer) \in Nat /\ Len(string) \in Nat
  BY PoolAssumption DEF IInv, TextTypeOK
<1>2. ranges'[i] = ranges[i]
  BY <1>1, AppendProperties
<1>3. /\ ranges[i][1] \in Nat /\ ranges[i][2] \in Nat
      /\ ranges[i][1] + ranges[i][2] <= Len(buffer)
  BY RangeType, <1>1 DEF IInv, SlicesSound, RangesInBuffer
<1>4. SubSeq(buffer \o string, ranges[i][1] + 1, ranges[i][1] + ranges[i][2])
        = SubSeq(buffer, ranges[i][1] + 1, ranges[i][1] + ranges[i][2])
  BY <1>1, <1>3, SliceOfConcat
<1>5. i \in Nat \ {0}
  BY <1>1
<1> QED BY <1>2, <1>4, <1>5, ResolveAfter

\* A truncation cuts behind the ranges it leaves.
LEMMA HandleAfterTruncate ==
  ASSUME IInv, NEW len \in 0 .. Len(ranges), truncate(len), NEW i \in 1 .. len
  PROVE  resolve(i - 1)' = resolve(i - 1)
<1>1. /\ buffer \in Seq(Byte) /\ ranges \in Seq(Nat \X Nat) /\ Len(ranges) \in Nat
      /\ Len(buffer) \in Nat /\ len < Len(ranges) /\ ranges' = SubSeq(ranges, 1, len)
      /\ buffer' = SubSeq(buffer, 1, ranges[len + 1][1])
  BY DEF IInv, TextTypeOK, truncate
<1>2. i \in DOMAIN ranges /\ len + 1 \in DOMAIN ranges /\ i < len + 1
  BY <1>1
<1>3. ranges'[i] = ranges[i]
  BY <1>1, <1>2, SubSeqProperties
<1>4. /\ ranges[i][1] \in Nat /\ ranges[i][2] \in Nat
      /\ ranges[len + 1][1] \in Nat /\ ranges[len + 1][2] \in Nat
  BY RangeType, <1>1, <1>2
<1>5. ranges[i][1] + ranges[i][2] <= ranges[len + 1][1]
  BY <1>2 DEF IInv, SlicesSound, RangesOrdered
<1>6. ranges[len + 1][1] + ranges[len + 1][2] <= Len(buffer)
  BY <1>2 DEF IInv, SlicesSound, RangesInBuffer
<1>7. SubSeq(buffer', ranges[i][1] + 1, ranges[i][1] + ranges[i][2])
        = SubSeq(buffer, ranges[i][1] + 1, ranges[i][1] + ranges[i][2])
  <2>1. ranges[len + 1][1] <= Len(buffer)
    BY <1>1, <1>4, <1>6
  <2>2. SubSeq(SubSeq(buffer, 1, ranges[len + 1][1]), ranges[i][1] + 1, ranges[i][1] + ranges[i][2])
          = SubSeq(buffer, ranges[i][1] + 1, ranges[i][1] + ranges[i][2])
    <3>1. buffer \in Seq(Byte)
      BY <1>1
    <3> QED BY <3>1, <1>4, <1>5, <2>1, SliceOfCut
  <2> QED BY <1>1, <2>2
<1>8. i \in Nat \ {0}
  OBVIOUS
<1> QED BY <1>3, <1>7, <1>8, ResolveAfter

\* The steps that write neither the buffer nor the ranges.
LEMMA HandleAfterOther ==
  ASSUME UNCHANGED <<buffer, ranges>>, NEW i
  PROVE  resolve(i - 1)' = resolve(i - 1)
BY DEF resolve

\* No step moves the text of a handle it leaves.
LEMMA StepKeepsHandles ==
  ASSUME IInv, Next, NEW i \in DOMAIN ranges \cap DOMAIN ranges'
  PROVE  resolve(i - 1)' = resolve(i - 1)
<1>1. ASSUME NEW string \in Texts, BeginIntern(string) PROVE resolve(i - 1)' = resolve(i - 1)
  BY <1>1, HandleAfterOther DEF BeginIntern, pool_vars
<1>2. CASE Probe
  BY <1>2, HandleAfterOther DEF Probe, pool_vars
<1>3. CASE Insert
  <2>1. PICK string \in text :
          \/ UNCHANGED <<buffer, ranges>>
          \/ /\ buffer' = buffer \o string
             /\ ranges' = Append(ranges, <<Len(buffer), Len(string)>>)
    BY <1>3 DEF Insert, pool_vars
  <2> QED BY <2>1, HandleAfterOther, HandleAfterInsert
<1>4. ASSUME NEW len \in 0 .. Len(ranges), truncate(len)
      PROVE  resolve(i - 1)' = resolve(i - 1)
  <2>1. ranges' = SubSeq(ranges, 1, len) /\ ranges \in Seq(Nat \X Nat) /\ len \in Nat
        /\ len < Len(ranges) /\ Len(ranges) \in Nat
    BY <1>4 DEF truncate, IInv, TextTypeOK
  <2>2. DOMAIN ranges' = 1 .. len
    BY <2>1, SubSeqProperties
  <2> QED BY <1>4, <2>2, HandleAfterTruncate
<1> QED BY <1>1, <1>2, <1>3, <1>4 DEF Next

\* Interning never changes what an earlier handle means, and truncation changes
\* only the handles it takes away.
THEOREM HandlesAlwaysStable == Spec => HandlesStable
<1>1. Init => IInv
  BY PoolAssumption DEF Init, IInv, TextTypeOK, SlicesSound, RangesInBuffer, RangesOrdered
<1>2. IInv /\ [Next]_vars =>
        [\A i \in DOMAIN ranges \cap DOMAIN ranges' : resolve(i - 1)' = resolve(i - 1)]_vars
  BY StepKeepsHandles
<1> QED BY <1>1, <1>2, StepSound, PTL DEF Spec, HandlesStable

(***************************************************************************)
(* The table                                                               *)
(***************************************************************************)
\* The place a lookup has come to after d probes ...
At(hash, capacity, d) == (Home(hash, capacity) + d) % capacity

\* ... is in the table, and every place of the table is one of them.
LEMMA Around ==
  ASSUME NEW capacity \in Nat, 0 < capacity, NEW hash \in Nat
  PROVE  /\ Home(hash, capacity) \in 0 .. capacity - 1
         /\ At(hash, capacity, 0) = Home(hash, capacity)
         /\ \A d \in Nat : At(hash, capacity, d) \in 0 .. capacity - 1
         /\ \A p \in 0 .. capacity - 1 : \E d \in 0 .. capacity - 1 : At(hash, capacity, d) = p
<1> DEFINE h == Home(hash, capacity)
<1>1. h \in 0 .. capacity - 1
  BY Divided DEF Home
<1> HIDE DEF h
<1>2. ASSUME NEW r \in 0 .. capacity - 1 PROVE r % capacity = r /\ (r + capacity) % capacity = r
  <2>1. (r + capacity * 0) % capacity = r /\ (r + capacity * 1) % capacity = r
    BY Quotient
  <2>2. r + capacity * 0 = r /\ r + capacity * 1 = r + capacity
    OBVIOUS
  <2> QED BY <2>1, <2>2
<1>3. \A d \in Nat : (h + d) % capacity \in 0 .. capacity - 1
  BY <1>1, Divided
<1>4. ASSUME NEW p \in 0 .. capacity - 1
      PROVE  \E d \in 0 .. capacity - 1 : (h + d) % capacity = p
  <2>1. CASE h <= p
    <3>1. p - h \in 0 .. capacity - 1 /\ h + (p - h) = p
      BY <1>1, <2>1
    <3> QED BY <1>2, <3>1
  <2>2. CASE p < h
    <3>1. p + capacity - h \in 0 .. capacity - 1 /\ h + (p + capacity - h) = p + capacity
      BY <1>1, <2>2
    <3> QED BY <1>2, <3>1
  <2> QED BY <1>1, <2>1, <2>2
<1>5. h + 0 = h /\ h % capacity = h
  BY <1>1, <1>2
<1> QED BY <1>1, <1>3, <1>4, <1>5 DEF At, h

\* A tag is never that of a free slot.
LEMMA TagIsNotFree == ASSUME NEW hash \in Nat PROVE tag_of(hash) \in Nat /\ tag_of(hash) # 0
<1> DEFINE t == hash \div TagUnit
<1>1. t \in Nat
  BY PoolAssumption, Divided
<1> HIDE DEF t
<1>2. t % 2 \in 0 .. 1 /\ t + (1 - (t % 2)) \in Nat /\ t + (1 - (t % 2)) # 0
  BY <1>1
<1> QED BY <1>2 DEF tag_of, t

\* The slots that are taken.
Taken(table_tags) == {p \in 1 .. Len(table_tags) : table_tags[p] # 0}

\* There are no more of them than slots.
LEMMA TakenFinite ==
  ASSUME NEW t \in Seq(Nat)
  PROVE  IsFiniteSet(Taken(t)) /\ Cardinality(Taken(t)) \in Nat /\ Cardinality(Taken(t)) <= Len(t)
<1> DEFINE S == 1 .. Len(t)
<1>1. IsFiniteSet(S) /\ Cardinality(S) = Len(t)
  <2>1. \A n \in Nat : IsFiniteSet(1 .. n) /\ Cardinality(1 .. n) = n
    BY FS_Interval
  <2>2. Len(t) \in Nat
    OBVIOUS
  <2> QED BY <2>1, <2>2, Zenon
<1>2. Taken(t) \in SUBSET S
  BY DEF Taken
<1> HIDE DEF S
<1> QED BY <1>1, <1>2, FS_Subset, FS_CardinalityType

\* FreeSlot finds a free slot in a table that has one, with none before it on its way.
LEMMA FreeFound ==
  ASSUME NEW t \in Seq(Nat), Cardinality(Taken(t)) < Len(t), NEW hash \in Nat
  PROVE  \E d \in 0 .. Len(t) - 1 :
           /\ FreeSlot(t, hash) = At(hash, Len(t), d)
           /\ t[At(hash, Len(t), d) + 1] = 0
           /\ \A e \in 0 .. d - 1 : t[At(hash, Len(t), e) + 1] # 0
<1> DEFINE capacity == Len(t)
           free == {d \in 0 .. capacity - 1 : t[At(hash, capacity, d) + 1] = 0}
           first == CHOOSE d \in free : \A e \in free : d <= e
<1>1. capacity \in Nat /\ 0 < capacity
  BY TakenFinite
<1>2. PICK p \in 1 .. capacity : t[p] = 0
  <2>1. ASSUME \A p \in 1 .. capacity : t[p] # 0 PROVE FALSE
    <3>1. Taken(t) = 1 .. capacity
      BY <2>1 DEF Taken
    <3>2. Cardinality(1 .. capacity) = capacity
      BY <1>1, FS_Interval
    <3>3. Cardinality(Taken(t)) = capacity
      BY <3>1, <3>2, Zenon
    <3> QED BY <3>3
  <2> QED BY <2>1
<1> HIDE DEF capacity
<1>3. p - 1 \in 0 .. capacity - 1 /\ p - 1 + 1 = p
  BY <1>1
<1>4. PICK d \in 0 .. capacity - 1 : At(hash, capacity, d) = p - 1
  BY <1>1, <1>3, Around
<1>5. d \in free /\ free \subseteq Nat
  BY <1>1, <1>2, <1>3, <1>4
<1> HIDE DEF free
<1>6. first \in free /\ \A e \in free : first <= e
  BY <1>5, LeastOf
<1> HIDE DEF first
<1>7. first \in 0 .. capacity - 1 /\ t[At(hash, capacity, first) + 1] = 0
  BY <1>6 DEF free
<1>8. ASSUME NEW e \in 0 .. first - 1 PROVE t[At(hash, capacity, e) + 1] # 0
  <2>1. e \in 0 .. capacity - 1 /\ ~ (first <= e)
    BY <1>1, <1>7
  <2> QED BY <1>6, <2>1 DEF free
<1>9. FreeSlot(t, hash) = At(hash, capacity, first)
  BY Zenon DEF FreeSlot, At, capacity, first, free
<1> QED BY <1>7, <1>8, <1>9 DEF capacity


\* A lookup for a hash meets a slot of its tag and of that handle before a free one.
Met(t, s, hash, id) ==
  \E d \in 0 .. Len(t) - 1 :
    /\ s[At(hash, Len(t), d) + 1] = id /\ t[At(hash, Len(t), d) + 1] = tag_of(hash)
    /\ \A e \in 0 .. d - 1 : t[At(hash, Len(t), e) + 1] # 0

\* A table of some hashes: as many slots are taken as there are hashes, by no other
\* handle, and each is met.
TableOf(t, s, all_hashes) ==
  /\ t \in Seq(Nat) /\ s \in Seq(Nat) /\ Len(t) = Len(s)
  /\ Cardinality(Taken(t)) = Len(all_hashes)
  /\ \A p \in 1 .. Len(t) : t[p] # 0 => s[p] < Len(all_hashes)
  /\ \A i \in 1 .. Len(all_hashes) : Met(t, s, all_hashes[i], i - 1)

\* insert_slot adds a hash to the table: the slot it takes was free, so no chain ran
\* over it, and those it joins stay taken.
LEMMA SlotInserted ==
  ASSUME NEW t, NEW s, NEW hs \in Seq(Nat), TableOf(t, s, hs), Len(hs) < Len(t),
         NEW h \in Nat, NEW table, table = insert_slot([tags |-> t, slots |-> s], h, Len(hs))
  PROVE  TableOf(table.tags, table.slots, Append(hs, h)) /\ Len(table.tags) = Len(t)
<1> DEFINE n == Len(hs)
           cap == Len(t)
           at == FreeSlot(t, h) + 1
           nt == table.tags
           ns == table.slots
<1>1. t \in Seq(Nat) /\ s \in Seq(Nat) /\ Len(s) = cap /\ cap \in Nat /\ n \in Nat
  BY DEF TableOf
<1>2. PICK d \in 0 .. cap - 1 :
        /\ at = At(h, cap, d) + 1 /\ t[At(h, cap, d) + 1] = 0
        /\ \A e \in 0 .. d - 1 : t[At(h, cap, e) + 1] # 0
  BY FreeFound DEF TableOf
<1>3. at \in 1 .. cap /\ t[at] = 0 /\ 0 < cap
  <2>1. 0 < cap /\ d \in Nat
    BY <1>1
  <2>2. At(h, cap, d) \in 0 .. cap - 1
    BY <1>1, <2>1, Around
  <2> QED BY <1>1, <1>2, <2>1, <2>2
<1>4. nt = [t EXCEPT ![at] = tag_of(h)] /\ ns = [s EXCEPT ![at] = n]
  BY DEF insert_slot
<1>5. tag_of(h) \in Nat /\ tag_of(h) # 0
  BY TagIsNotFree
<1> HIDE DEF at, nt, ns, cap, n
<1>6. /\ nt \in Seq(Nat) /\ Len(nt) = cap /\ ns \in Seq(Nat) /\ Len(ns) = cap
      /\ \A p \in 1 .. cap : /\ nt[p] = IF p = at THEN tag_of(h) ELSE t[p]
                             /\ ns[p] = IF p = at THEN n ELSE s[p]
  <2>1. DOMAIN t = 1 .. cap /\ DOMAIN s = 1 .. cap
    BY <1>1 DEF cap
  <2>2. /\ nt \in Seq(Nat) /\ Len(nt) = Len(t) /\ ns \in Seq(Nat) /\ Len(ns) = Len(s)
    BY <1>1, <1>3, <1>4, <1>5, <2>1, ExceptSeq
  <2>3. \A p \in 1 .. cap : /\ nt[p] = IF p = at THEN tag_of(h) ELSE t[p]
                            /\ ns[p] = IF p = at THEN n ELSE s[p]
    BY <1>3, <1>4, <2>1
  <2> QED BY <1>1, <2>2, <2>3 DEF cap
<1>7. Append(hs, h) \in Seq(Nat) /\ Len(Append(hs, h)) = n + 1
      /\ Append(hs, h)[n + 1] = h /\ \A i \in 1 .. n : Append(hs, h)[i] = hs[i]
  BY DEF n
<1>8. Cardinality(Taken(nt)) = n + 1
  <2>1. at \notin Taken(t) /\ IsFiniteSet(Taken(t)) /\ Cardinality(Taken(t)) = n
    BY <1>1, <1>3, TakenFinite DEF Taken, TableOf, n
  <2>2. Taken(nt) = Taken(t) \cup {at}
    BY <1>3, <1>5, <1>6 DEF Taken, cap
  <2>3. Cardinality(Taken(t) \cup {at}) = Cardinality(Taken(t)) + 1
    BY <2>1, FS_AddElement
  <2> QED BY <2>1, <2>2, <2>3, Zenon
<1>9. \A p \in 1 .. cap : nt[p] # 0 => ns[p] < n + 1
  <2>1. ASSUME NEW p \in 1 .. cap, nt[p] # 0 PROVE ns[p] < n + 1
    <3>1. s[p] \in Nat
      BY <1>1, ElementOfSeq
    <3>2. t[p] # 0 => s[p] < n
      BY DEF TableOf, cap, n
    <3>3. p # at => t[p] # 0
      BY <1>6, <2>1
    <3>4. ns[p] = IF p = at THEN n ELSE s[p]
      BY <1>6
    <3> QED BY <1>1, <3>1, <3>2, <3>3, <3>4
  <2> QED BY <2>1
<1>10. ASSUME NEW i \in 1 .. n PROVE Met(nt, ns, hs[i], i - 1)
  <2>1. hs[i] \in Nat
    BY DEF n
  <2>2. PICK c \in 0 .. cap - 1 :
          /\ s[At(hs[i], cap, c) + 1] = i - 1 /\ t[At(hs[i], cap, c) + 1] = tag_of(hs[i])
          /\ \A e \in 0 .. c - 1 : t[At(hs[i], cap, e) + 1] # 0
    BY DEF TableOf, Met, cap, n
  <2>3. \A e \in 0 .. c : At(hs[i], cap, e) + 1 \in 1 .. cap
    <3>1. \A e \in Nat : At(hs[i], cap, e) \in 0 .. cap - 1
      BY <1>1, <1>3, <2>1, Around
    <3>2. \A x \in 0 .. cap - 1 : x + 1 \in 1 .. cap
      BY <1>1
    <3>3. \A e \in 0 .. c : e \in Nat
      OBVIOUS
    <3> QED BY <3>1, <3>2, <3>3
  <2>4. tag_of(hs[i]) # 0
    BY <2>1, TagIsNotFree
  <2>5. \A e \in 0 .. c : t[At(hs[i], cap, e) + 1] # 0
    BY <2>2, <2>4
  <2>6. \A e \in 0 .. c : /\ nt[At(hs[i], cap, e) + 1] = t[At(hs[i], cap, e) + 1]
                          /\ ns[At(hs[i], cap, e) + 1] = s[At(hs[i], cap, e) + 1]
    BY <1>3, <1>6, <2>3, <2>5
  <2>7. \A e \in 0 .. c - 1 : e \in 0 .. c
    OBVIOUS
  <2>8. c \in 0 .. c
    OBVIOUS
  <2> QED BY <1>6, <2>2, <2>6, <2>7, <2>8 DEF Met
<1>11. Met(nt, ns, h, n)
  <2>1. nt[At(h, cap, d) + 1] = tag_of(h) /\ ns[At(h, cap, d) + 1] = n
    BY <1>2, <1>3, <1>6
  <2>2. \A e \in 0 .. d - 1 : nt[At(h, cap, e) + 1] # 0
    <3>1. \A e \in Nat : At(h, cap, e) \in 0 .. cap - 1
      BY <1>1, <1>3, Around
    <3>2. \A x \in 0 .. cap - 1 : x + 1 \in 1 .. cap
      BY <1>1
    <3>3. \A e \in 0 .. d - 1 : e \in Nat
      OBVIOUS
    <3>4. \A e \in 0 .. d - 1 : At(h, cap, e) + 1 \in 1 .. cap
      BY <3>1, <3>2, <3>3
    <3> QED BY <1>2, <1>5, <1>6, <3>4
  <2> QED BY <1>6, <2>1, <2>2 DEF Met
<1>12. \A i \in 1 .. n + 1 : Met(nt, ns, Append(hs, h)[i], i - 1)
  <2>1. Append(hs, h)[n + 1] = h /\ \A i \in 1 .. n : Append(hs, h)[i] = hs[i]
    BY <1>7
  <2>2. n + 1 - 1 = n /\ \A i \in 1 .. n + 1 : i = n + 1 \/ i \in 1 .. n
    BY <1>1
  <2>3. ASSUME NEW i \in 1 .. n + 1 PROVE Met(nt, ns, Append(hs, h)[i], i - 1)
    <3>1. CASE i = n + 1
      <4>1. Append(hs, h)[i] = h
        BY <2>1, <3>1
      <4>2. i - 1 = n
        BY <1>1, <3>1
      <4> QED BY <1>11, <4>1, <4>2, Zenon
    <3>2. CASE i \in 1 .. n
      BY <1>10, <2>1, <3>2, Zenon
    <3> QED BY <2>2, <3>1, <3>2
  <2> QED BY <2>3
<1> QED BY <1>6, <1>7, <1>8, <1>9, <1>12 DEF TableOf, nt, ns, cap

\* A table without entries.
LEMMA EmptyIsTable ==
  ASSUME NEW capacity \in Nat
  PROVE  /\ TableOf(EmptyTable(capacity).tags, EmptyTable(capacity).slots, <<>>)
         /\ Len(EmptyTable(capacity).tags) = capacity
<1> DEFINE zeros == [s \in 1 .. capacity |-> 0]
<1>1. zeros \in Seq(Nat) /\ Len(zeros) = capacity /\ \A p \in 1 .. capacity : zeros[p] = 0
  <2>1. zeros \in [1 .. capacity -> Nat]
    OBVIOUS
  <2>2. zeros \in Seq(Nat)
    BY <2>1, SeqDef
  <2>3. DOMAIN zeros = 1 .. Len(zeros) /\ Len(zeros) \in Nat
    BY <2>2, LenProperties
  <2> QED BY <2>2, <2>3
<1>2. EmptyTable(capacity).tags = zeros /\ EmptyTable(capacity).slots = zeros
  BY DEF EmptyTable
<1> HIDE DEF zeros
<1>3. Taken(zeros) = {}
  BY <1>1 DEF Taken
<1>4. Cardinality(Taken(zeros)) = 0
  BY <1>3, FS_EmptySet, Zenon
<1>5. Len(<<>>) = 0 /\ 1 .. 0 = {}
  OBVIOUS
<1> QED BY <1>1, <1>2, <1>4, <1>5 DEF TableOf

\* The loop of rebuild_lookup, up to the first m hashes.
Filled(table, hs, capacity, m) ==
  table = [n \in 0 .. m |-> IF n = 0 THEN EmptyTable(capacity)
                            ELSE insert_slot(table[n - 1], hs[n], n - 1)]

\* It runs for as many hashes as it is given.
LEMMA LoopRuns ==
  ASSUME NEW hs, NEW capacity
  PROVE  \A m \in Nat : \E table : Filled(table, hs, capacity, m)
<1> DEFINE S == {m \in Nat : \E table : Filled(table, hs, capacity, m)}
<1>1. 0 \in S
  <2> DEFINE table == [n \in 0 .. 0 |-> EmptyTable(capacity)]
  <2>1. \A n \in 0 .. 0 : n = 0
    OBVIOUS
  <2>2. Filled(table, hs, capacity, 0)
    BY <2>1 DEF Filled
  <2> QED BY <2>2
<1>2. ASSUME NEW m \in Nat, m \in S PROVE m + 1 \in S
  <2>1. PICK less : Filled(less, hs, capacity, m)
    BY <1>2
  <2> DEFINE next == insert_slot(less[m], hs[m + 1], m)
             table == [n \in 0 .. m + 1 |-> IF n \in 0 .. m THEN less[n] ELSE next]
             body(n) == IF n = 0 THEN EmptyTable(capacity) ELSE insert_slot(table[n - 1], hs[n], n - 1)
  <2>2. \A n \in 0 .. m : less[n] = IF n = 0 THEN EmptyTable(capacity)
                                    ELSE insert_slot(less[n - 1], hs[n], n - 1)
    BY <2>1 DEF Filled
  <2>3. ASSUME NEW n \in 0 .. m + 1 PROVE table[n] = body(n)
    <3>1. CASE n \in 0 .. m
      <4>1. table[n] = less[n]
        BY <3>1
      <4>2. n # 0 => n - 1 \in 0 .. m /\ n - 1 \in 0 .. m + 1
        BY <3>1
      <4>3. n # 0 => table[n - 1] = less[n - 1]
        BY <4>2
      <4> HIDE DEF table
      <4> QED BY <2>2, <3>1, <4>1, <4>3
    <3>2. CASE n \notin 0 .. m
      <4>1. n = m + 1 /\ n # 0 /\ n - 1 = m /\ m \in 0 .. m + 1 /\ m \in 0 .. m
        BY <3>2
      <4>2. table[n] = next /\ table[m] = less[m]
        BY <3>2, <4>1
      <4>3. body(n) = insert_slot(table[m], hs[m + 1], m)
        BY <4>1
      <4> QED BY <4>2, <4>3
    <3> QED BY <3>1, <3>2
  <2>4. table = [n \in 0 .. m + 1 |-> body(n)]
    <3>1. table = [n \in 0 .. m + 1 |-> table[n]]
      OBVIOUS
    <3> HIDE DEF body
    <3> QED BY <2>3, <3>1
  <2>5. Filled(table, hs, capacity, m + 1)
    <3> HIDE DEF table
    <3> QED BY <2>4 DEF Filled
  <2> QED BY <2>5
<1>3. Nat \subseteq S
  <2> HIDE DEF S
  <2> QED BY <1>1, <1>2, FromZero
<1> QED BY <1>3

\* A prefix and the item behind it.
LEMMA PrefixGrows ==
  ASSUME NEW S, NEW s \in Seq(S), NEW n \in Nat, n < Len(s)
  PROVE  /\ SubSeq(s, 1, n) \in Seq(S) /\ Len(SubSeq(s, 1, n)) = n /\ s[n + 1] \in S
         /\ Append(SubSeq(s, 1, n), s[n + 1]) = SubSeq(s, 1, n + 1)
<1>1. /\ SubSeq(s, 1, n) \in Seq(S) /\ Len(SubSeq(s, 1, n)) = n
      /\ \A i \in 1 .. n : SubSeq(s, 1, n)[i] = s[i]
      /\ SubSeq(s, 1, n + 1) \in Seq(S) /\ Len(SubSeq(s, 1, n + 1)) = n + 1
      /\ \A i \in 1 .. n + 1 : SubSeq(s, 1, n + 1)[i] = s[i]
      /\ s[n + 1] \in S
  BY SubSeqProperties, ElementOfSeq
<1> DEFINE few == SubSeq(s, 1, n)
           many == SubSeq(s, 1, n + 1)
<1> HIDE DEF few, many
<1>2. /\ Append(few, s[n + 1]) \in Seq(S) /\ Len(Append(few, s[n + 1])) = n + 1
      /\ \A i \in 1 .. n : Append(few, s[n + 1])[i] = few[i]
      /\ Append(few, s[n + 1])[n + 1] = s[n + 1]
  <2>1. few \in Seq(S) /\ Len(few) = n /\ s[n + 1] \in S
    BY <1>1 DEF few
  <2> QED BY <2>1, AppendProperties
<1>3. \A i \in 1 .. n + 1 : Append(few, s[n + 1])[i] = many[i]
  BY <1>1, <1>2 DEF few, many
<1>4. Append(few, s[n + 1]) = many
  BY <1>1, <1>2, <1>3, SeqEqual DEF many
<1> QED BY <1>1, <1>4 DEF few, many

\* The capacity asked for, or the least there is.
Enough(capacity) == IF capacity < MinSlots THEN MinSlots ELSE capacity

\* rebuild_lookup makes a table of the hashes, of that capacity.
LEMMA TableRebuilt ==
  ASSUME NEW hs \in Seq(Nat), NEW capacity \in Nat, Len(hs) < Enough(capacity)
  PROVE  /\ TableOf(rebuild_lookup(hs, capacity).tags, rebuild_lookup(hs, capacity).slots, hs)
         /\ Len(rebuild_lookup(hs, capacity).tags) = Enough(capacity)
<1> DEFINE N == Len(hs)
           enough == Enough(capacity)
           table == CHOOSE table : Filled(table, hs, enough, N)
           Good(n) == /\ TableOf(table[n].tags, table[n].slots, SubSeq(hs, 1, n))
                      /\ Len(table[n].tags) = enough
           S == {n \in Nat : n <= N => Good(n)}
<1>1. N \in Nat /\ enough \in Nat /\ N < enough
  BY PoolAssumption DEF Enough
<1>2. rebuild_lookup(hs, capacity) = table[N]
  BY Zenon DEF rebuild_lookup, Filled, Enough
<1>3. Filled(table, hs, enough, N)
  BY <1>1, LoopRuns, Zenon
<1> HIDE DEF table, enough, N
<1>4. \A n \in 0 .. N : table[n] = IF n = 0 THEN EmptyTable(enough)
                                   ELSE insert_slot(table[n - 1], hs[n], n - 1)
  BY <1>3 DEF Filled
<1>5. 0 \in S
  <2>1. SubSeq(hs, 1, 0) = <<>>
    BY SubSeqEmpty
  <2>2. 0 \in 0 .. N
    BY <1>1
  <2>3. table[0] = EmptyTable(enough)
    BY <1>4, <2>2
  <2> QED BY <1>1, <2>1, <2>3, EmptyIsTable
<1>6. ASSUME NEW n \in Nat, n \in S PROVE n + 1 \in S
  <2> SUFFICES ASSUME n + 1 <= N PROVE Good(n + 1)
    OBVIOUS
  <2>1. n <= N /\ n + 1 \in 0 .. N /\ n + 1 # 0 /\ n + 1 - 1 = n /\ n < N
    BY <1>1
  <2>2. Good(n)
    BY <1>6, <2>1
  <2> DEFINE t == table[n].tags
             s == table[n].slots
             few == SubSeq(hs, 1, n)
             next == insert_slot([tags |-> t, slots |-> s], hs[n + 1], Len(few))
  <2>3. /\ few \in Seq(Nat) /\ Len(few) = n /\ hs[n + 1] \in Nat
        /\ Append(few, hs[n + 1]) = SubSeq(hs, 1, n + 1)
    BY <2>1, PrefixGrows DEF N
  <2>4. table[n + 1] = insert_slot(table[n], hs[n + 1], n)
    BY <1>4, <2>1
  <2>5. table[n + 1] = next
    BY <2>3, <2>4 DEF insert_slot
  <2>6. TableOf(t, s, few) /\ Len(t) = enough /\ Len(few) < Len(t)
    BY <1>1, <2>1, <2>2, <2>3
  <2> HIDE DEF t, s, few
  <2> DEFINE h == hs[n + 1]
  <2>7. TableOf(next.tags, next.slots, Append(few, h)) /\ Len(next.tags) = Len(t)
    <3>1. next = insert_slot([tags |-> t, slots |-> s], h, Len(few)) /\ h \in Nat
      BY <2>3
    <3> HIDE DEF next, h
    <3> QED BY <2>3, <2>6, <3>1, SlotInserted
  <2> HIDE DEF next
  <2>8. TableOf(table[n + 1].tags, table[n + 1].slots, SubSeq(hs, 1, n + 1))
    BY <2>3, <2>5, <2>7, Zenon
  <2> QED BY <2>5, <2>6, <2>7, <2>8
<1>7. Nat \subseteq S
  <2> HIDE DEF S
  <2> QED BY <1>5, <1>6, FromZero
<1>8. Good(N)
  <2> HIDE DEF Good
  <2>1. N <= N
    BY <1>1
  <2> QED BY <1>1, <1>7, <2>1
<1>9. SubSeq(hs, 1, N) = hs
  BY SubSeqFull DEF N
<1> QED BY <1>2, <1>8, <1>9 DEF enough

(***************************************************************************)
(* The table of a pool                                                     *)
(***************************************************************************)
\* The invariant: what every step of the pool needs to find, and leaves.  The table is
\* one of the pool's hashes; less than half of it is taken, so that another hash fits;
\* and a lookup stands in it.
Lookup ==
  /\ pc \in {"ready", "find", "insert"}
  /\ (text = {} <=> pc = "ready") /\ Cardinality(text) <= 1
  /\ slot \in Nat /\ (pc = "find" => slot < Len(tags))
  /\ answer \in Nat \cup {NoHandle}
PoolInv == IInv /\ TableOf(tags, slots, hashes) /\ BelowHalfFull /\ Lookup

\* What there is to know of a pool's table.
LEMMA TableIs ==
  ASSUME PoolInv
  PROVE  /\ tags \in Seq(Nat) /\ slots \in Seq(Nat) /\ Len(tags) = Len(slots)
         /\ hashes \in Seq(Nat) /\ Len(hashes) = Len(ranges)
         /\ Len(tags) \in Nat /\ Len(ranges) \in Nat
         /\ Len(ranges) # 0 => Len(ranges) * 2 < Len(tags)
<1>1. ranges \in Seq(Nat \X Nat) /\ hashes \in Seq(Nat) /\ Len(hashes) = Len(ranges)
  BY DEF PoolInv, IInv, TextTypeOK
<1>2. Len(ranges) # 0 => ranges # <<>>
  OBVIOUS
<1>3. tags \in Seq(Nat) /\ slots \in Seq(Nat) /\ Len(tags) = Len(slots)
  BY DEF PoolInv, TableOf
<1> QED BY <1>1, <1>2, <1>3 DEF PoolInv, BelowHalfFull

\* A pool is below half full by the number of its handles.
LEMMA BelowByCount ==
  ASSUME NEW n \in Nat, NEW c \in Nat, ranges' \in Seq(Nat \X Nat), Len(ranges') = n,
         Len(tags') = c, n # 0 => n * 2 < c
  PROVE  BelowHalfFull'
<1>1. ranges' # <<>> => n # 0
  BY EmptySeq
<1> QED BY <1>1 DEF BelowHalfFull

\* One text is asked for at a time ...
LEMMA OneText == \A string : Cardinality({string}) = 1 /\ {string} # {}
BY FS_Singleton

\* ... or none.
LEMMA NoText == Cardinality({}) = 0
BY FS_EmptySet

\* A text that is asked for has a hash.
LEMMA HashIs == ASSUME PoolInv, NEW string \in text PROVE hash_str(string) \in Nat
BY PoolAssumption DEF PoolInv, IInv, TextTypeOK, hash_str

\* intern begins at the text's home.
LEMMA BeginInternKeeps == ASSUME PoolInv, NEW string \in Texts, BeginIntern(string) PROVE PoolInv'
<1>1. UNCHANGED <<buffer, ranges, hashes, tags, slots, answer>> /\ text' = {string}
  BY DEF BeginIntern, pool_vars
<1>2. IInv'
  BY <1>1, StepSound DEF PoolInv, Next
<1>3. tags # <<>> => slot' \in Nat /\ slot' < Len(tags)
  <2>1. hash_str(string) \in Nat
    BY PoolAssumption DEF hash_str
  <2>2. tags # <<>> => 0 < Len(tags) /\ Len(tags) \in Nat
    BY TableIs, EmptySeq
  <2>3. tags # <<>> => slot' = Home(hash_str(string), Len(tags))
    BY DEF BeginIntern
  <2> HIDE DEF hash_str
  <2>4. tags # <<>> => Home(hash_str(string), Len(tags)) \in 0 .. Len(tags) - 1
    BY <2>1, <2>2, Around
  <2> QED BY <2>2, <2>3, <2>4
<1>4. Lookup'
  <2>1. Cardinality(text') <= 1 /\ text' # {}
    BY <1>1, OneText
  <2>2. CASE tags = <<>>
    BY <1>1, <2>1, <2>2 DEF BeginIntern, PoolInv, Lookup
  <2>3. CASE tags # <<>>
    BY <1>1, <1>3, <2>1, <2>3 DEF BeginIntern, PoolInv, Lookup
  <2> QED BY <2>2, <2>3
<1> QED BY <1>1, <1>2, <1>4 DEF PoolInv, BelowHalfFull

\* A probe stays in the table.
LEMMA ProbeKeeps == ASSUME PoolInv, Probe PROVE PoolInv'
<1>1. UNCHANGED <<buffer, ranges, hashes, tags, slots>> /\ pc = "find"
  BY DEF Probe, pool_vars
<1>2. IInv'
  BY StepSound DEF PoolInv, Next
<1>3. slot \in Nat /\ slot < Len(tags) /\ Len(tags) \in Nat
  BY <1>1, TableIs DEF PoolInv, Lookup
<1>4. slots[slot + 1] \in Nat
  <2>1. slot + 1 \in 1 .. Len(slots)
    BY <1>3, TableIs
  <2> QED BY <2>1, TableIs, ElementOfSeq
<1>5. (slot + 1) % Len(tags) \in 0 .. Len(tags) - 1
  BY <1>3, Divided
<1>6. Lookup'
  <2>1. PICK string \in text :
          \/ pc' = "insert" /\ UNCHANGED <<text, slot, answer>>
          \/ Return(slots[slot + 1])
          \/ slot' = (slot + 1) % Len(tags) /\ UNCHANGED <<pc, text, answer>>
    BY DEF Probe
  <2>2. CASE pc' = "insert" /\ UNCHANGED <<text, slot, answer>>
    BY <1>1, <2>2 DEF PoolInv, Lookup
  <2>3. CASE Return(slots[slot + 1])
    BY <1>1, <1>4, <2>3, NoText DEF Return, PoolInv, Lookup
  <2>4. CASE slot' = (slot + 1) % Len(tags) /\ UNCHANGED <<pc, text, answer>>
    <3>1. slot' \in Nat /\ slot' < Len(tags)
      BY <1>3, <1>5, <2>4
    <3> QED BY <1>1, <2>4, <3>1 DEF PoolInv, Lookup
  <2> QED BY <2>1, <2>2, <2>3, <2>4
<1> QED BY <1>1, <1>2, <1>6 DEF PoolInv, BelowHalfFull

\* A table with one more hash: grown in time, or with room for it.
LEMMA TableTakes ==
  ASSUME PoolInv, NEW hash \in Nat
  PROVE  /\ TableOf(TableWith(hash).tags, TableWith(hash).slots, Append(hashes, hash))
         /\ Len(TableWith(hash).tags) \in Nat
         /\ (Len(ranges) + 1) * 2 < Len(TableWith(hash).tags)
<1> DEFINE n == Len(ranges)
           c == Len(tags)
<1>1. n \in Nat /\ c \in Nat /\ n = Len(hashes) /\ hashes \in Seq(Nat) /\ (n # 0 => n * 2 < c)
  BY TableIs
<1>2. Append(hashes, hash) \in Seq(Nat) /\ Len(Append(hashes, hash)) = n + 1
  BY <1>1, AppendProperties
<1> HIDE DEF n, c
<1>3. CASE Crowded(Len(ranges) + 1)
  <2> DEFINE hs == Append(hashes, hash)
             table == rebuild_lookup(hs, 2 * c)
  <2>1. TableWith(hash) = table
    BY <1>3 DEF TableWith, c
  <2>2. 2 * c \in Nat /\ (n + 1) * 2 < Enough(2 * c) /\ n + 1 < Enough(2 * c) /\ Enough(2 * c) \in Nat
    BY <1>1, PoolAssumption DEF Enough
  <2> HIDE DEF hs
  <2>3. TableOf(table.tags, table.slots, hs) /\ Len(table.tags) = Enough(2 * c)
    BY <1>2, <2>2, TableRebuilt DEF hs
  <2> HIDE DEF table
  <2> QED BY <2>1, <2>2, <2>3 DEF n, hs
<1>4. CASE ~ Crowded(Len(ranges) + 1)
  <2> DEFINE table == insert_slot([tags |-> tags, slots |-> slots], hash, n)
  <2>1. TableWith(hash) = table
    BY <1>4 DEF TableWith, n
  <2>2. (n + 1) * 2 < c /\ n < c
    BY <1>1, <1>4 DEF Crowded, n, c
  <2>3. TableOf(tags, slots, hashes)
    BY DEF PoolInv
  <2>4. table = insert_slot([tags |-> tags, slots |-> slots], hash, Len(hashes))
    BY <1>1
  <2> HIDE DEF table
  <2>5. TableOf(table.tags, table.slots, Append(hashes, hash)) /\ Len(table.tags) = c
    BY <1>1, <2>2, <2>3, <2>4, SlotInserted DEF c
  <2> QED BY <1>1, <2>1, <2>2, <2>5 DEF n
<1> QED BY <1>3, <1>4

\* A text that is added is added to the table.
LEMMA InsertKeeps == ASSUME PoolInv, Insert PROVE PoolInv'
<1>1. IInv'
  BY StepSound DEF PoolInv, Next
<1>2. PICK string \in text :
        \/ Return(NoHandle) /\ UNCHANGED pool_vars
        \/ /\ ranges' = Append(ranges, <<Len(buffer), Len(string)>>)
           /\ hashes' = Append(hashes, hash_str(string))
           /\ tags' = TableWith(hash_str(string)).tags /\ slots' = TableWith(hash_str(string)).slots
           /\ Return(Len(ranges))
  BY DEF Insert
<1>3. CASE Return(NoHandle) /\ UNCHANGED pool_vars
  BY <1>1, <1>3, NoText DEF Return, pool_vars, PoolInv, BelowHalfFull, Lookup
<1>4. CASE /\ ranges' = Append(ranges, <<Len(buffer), Len(string)>>)
           /\ hashes' = Append(hashes, hash_str(string))
           /\ tags' = TableWith(hash_str(string)).tags /\ slots' = TableWith(hash_str(string)).slots
           /\ Return(Len(ranges))
  <2> DEFINE hash == hash_str(string)
             table == TableWith(hash)
  <2>1. hash \in Nat
    BY HashIs
  <2> HIDE DEF hash
  <2>2. /\ TableOf(table.tags, table.slots, Append(hashes, hash)) /\ Len(table.tags) \in Nat
        /\ (Len(ranges) + 1) * 2 < Len(table.tags)
    BY <2>1, TableTakes
  <2> HIDE DEF table
  <2>3. TableOf(tags', slots', hashes') /\ Len(tags') \in Nat /\ (Len(ranges) + 1) * 2 < Len(tags')
    BY <1>4, <2>2 DEF hash, table
  <2>4. Len(ranges) \in Nat /\ ranges' \in Seq(Nat \X Nat) /\ Len(ranges') = Len(ranges) + 1
    <3>1. ranges' \in Seq(Nat \X Nat) /\ Len(hashes') = Len(ranges') /\ hashes \in Seq(Nat)
      BY <1>1, TableIs DEF IInv, TextTypeOK
    <3>2. Len(hashes') = Len(hashes) + 1
      BY <1>4, <3>1 DEF hash
    <3> QED BY <3>1, <3>2, TableIs
  <2>5. BelowHalfFull'
    BY <2>3, <2>4, BelowByCount
  <2>6. Lookup'
    BY <1>4, <2>4, NoText DEF Return, Lookup
  <2>7. TableOf(tags, slots, hashes)'
    BY <2>3 DEF TableOf, Met, Taken
  <2> QED BY <1>1, <2>5, <2>6, <2>7 DEF PoolInv
<1> QED BY <1>2, <1>3, <1>4

\* What truncate leaves is in the table it makes.
LEMMA TruncateKeeps ==
  ASSUME PoolInv, NEW len \in 0 .. Len(ranges), truncate(len)
  PROVE  PoolInv'
<1> DEFINE hs == SubSeq(hashes, 1, len)
           c == Len(tags)
           table == rebuild_lookup(hs, c)
<1>1. IInv'
  BY StepSound DEF PoolInv, Next
<1>2. /\ ranges' = SubSeq(ranges, 1, len) /\ hashes' = hs
      /\ tags' = table.tags /\ slots' = table.slots
      /\ UNCHANGED <<pc, text, slot, answer>> /\ len < Len(ranges) /\ pc = "ready"
  BY DEF truncate
<1>3. /\ len \in Nat /\ c \in Nat /\ len < Len(hashes) /\ len * 2 < c
      /\ hashes \in Seq(Nat) /\ ranges \in Seq(Nat \X Nat)
  BY <1>2, TableIs DEF PoolInv, IInv, TextTypeOK
<1>4. hs \in Seq(Nat) /\ Len(hs) = len
  BY <1>3, PrefixGrows
<1>5. ranges' \in Seq(Nat \X Nat) /\ Len(ranges') = len
  BY <1>2, <1>3, PrefixGrows
<1> HIDE DEF hs, c
<1>6. Enough(c) \in Nat /\ len < Enough(c) /\ len * 2 < Enough(c)
  BY <1>3, PoolAssumption DEF Enough
<1>7. TableOf(table.tags, table.slots, hs) /\ Len(table.tags) = Enough(c)
  BY <1>3, <1>4, <1>6, TableRebuilt
<1> HIDE DEF table
<1>8. TableOf(tags, slots, hashes)'
  BY <1>2, <1>7 DEF TableOf, Met, Taken
<1>9. BelowHalfFull'
  BY <1>2, <1>3, <1>5, <1>6, <1>7, BelowByCount
<1>10. Lookup'
  BY <1>2 DEF PoolInv, Lookup
<1> QED BY <1>1, <1>8, <1>9, <1>10 DEF PoolInv

\* Every step of the pool leaves its table whole.
LEMMA StepKeepsPool == PoolInv /\ [Next]_vars => PoolInv'
<1> SUFFICES ASSUME PoolInv, [Next]_vars PROVE PoolInv'
  OBVIOUS
<1>1. ASSUME NEW string \in Texts, BeginIntern(string) PROVE PoolInv'
  BY <1>1, BeginInternKeeps
<1>2. CASE Probe
  BY <1>2, ProbeKeeps
<1>3. CASE Insert
  BY <1>3, InsertKeeps
<1>4. ASSUME NEW len \in 0 .. Len(ranges), truncate(len) PROVE PoolInv'
  BY <1>4, TruncateKeeps
<1>5. CASE UNCHANGED vars
  <2>1. IInv'
    BY StepSound DEF PoolInv
  <2> QED BY <1>5, <2>1 DEF vars, pool_vars, PoolInv, TableOf, Met, Taken, BelowHalfFull, Lookup
<1> QED BY <1>1, <1>2, <1>3, <1>4, <1>5 DEF Next

\* A new pool has a table without slots.
LEMMA InitPool == Init => PoolInv
<1> SUFFICES ASSUME Init PROVE PoolInv
  OBVIOUS
<1>1. IInv
  BY PoolAssumption DEF Init, IInv, TextTypeOK, SlicesSound, RangesInBuffer, RangesOrdered
<1>2. TableOf(tags, slots, hashes)
  <2>1. tags = <<>> /\ slots = <<>> /\ hashes = <<>> /\ Len(<<>>) = 0 /\ <<>> \in Seq(Nat)
    BY DEF Init
  <2>2. Taken(tags) = {}
    BY <2>1 DEF Taken
  <2>3. Cardinality(Taken(tags)) = 0
    BY <2>2, NoText, Zenon
  <2>4. Len(tags) = 0 /\ Len(slots) = 0 /\ Len(hashes) = 0 /\ 1 .. 0 = {}
    BY <2>1
  <2> QED BY <2>1, <2>3, <2>4 DEF TableOf
<1>3. BelowHalfFull /\ Lookup
  BY NoText DEF Init, BelowHalfFull, Lookup, NoHandle
<1> QED BY <1>1, <1>2, <1>3 DEF PoolInv

\* The table is a table of the pool's hashes throughout.
LEMMA PoolAlwaysWhole == Spec => []PoolInv
BY InitPool, StepKeepsPool, PTL DEF Spec

\* Every variable of a pool has its type, whatever is interned, refused and truncated: a
\* lookup in particular never stands outside the table.
THEOREM PoolTypeAlwaysOK == Spec => []TypeOK
<1>1. PoolInv => TypeOK
  <2> SUFFICES ASSUME PoolInv PROVE TypeOK
    OBVIOUS
  <2>1. tags \in Seq(Nat) /\ slots \in Seq(Nat) /\ Len(tags) = Len(slots)
    BY TableIs
  <2> QED BY <2>1 DEF PoolInv, IInv, Lookup, TypeOK
<1> QED BY <1>1, PoolAlwaysWhole, PTL

\* The table of a pool with a text in it is less than half full at every point, so that
\* the probing loop of find_slot always has a free slot ahead of it.
THEOREM AlwaysBelowHalfFull == Spec => []BelowHalfFull
<1>1. PoolInv => BelowHalfFull
  BY DEF PoolInv
<1> QED BY <1>1, PoolAlwaysWhole, PTL

\* Whatever was interned, refused and truncated, a lookup for the hash of a text in the
\* pool comes to the slot of its handle before it comes to a free one: growing the table
\* and truncating it break no chain.
THEOREM ChainsNeverBroken == Spec => []ChainsUnbroken
<1>1. PoolInv => ChainsUnbroken
  <2> SUFFICES ASSUME PoolInv, NEW index \in DOMAIN hashes PROVE Reachable(index)
    BY DEF ChainsUnbroken
  <2>1. index \in 1 .. Len(hashes)
    BY TableIs
  <2>2. Met(tags, slots, hashes[index], index - 1)
    BY <2>1 DEF PoolInv, TableOf
  <2> QED BY <2>2 DEF Met, At, Reachable
<1> QED BY <1>1, PoolAlwaysWhole, PTL

(***************************************************************************)
(* The pool is an Interner                                                 *)
(***************************************************************************)
\* What the handles stand for, in their order.
Held == [i \in DOMAIN ranges |-> resolve(i - 1)]

\* The end of the first n texts.
End(n) == IF n = 0 THEN 0 ELSE ranges[n][1] + ranges[n][2]

\* The texts lie end to end and fill the buffer.
Packed ==
  /\ \A i \in DOMAIN ranges : ranges[i][1] = End(i - 1)
  /\ Len(buffer) = End(Len(ranges))

\* Every handle stands for a text, with the length of its range and the hash kept for it,
\* and no two for the same.
Named ==
  /\ \A i \in DOMAIN ranges :
       Held[i] \in Texts /\ Len(Held[i]) = ranges[i][2] /\ hashes[i] = Hash[Held[i]]
  /\ \A i, j \in DOMAIN ranges : Held[i] = Held[j] => i = j

\* A lookup has passed taken slots of other texts only, ...
Passed(string) ==
  \E k \in Nat :
    /\ slot = At(hash_str(string), Len(tags), k)
    /\ \A e \in 0 .. k - 1 :
         LET p == At(hash_str(string), Len(tags), e) + 1
         IN  tags[p] # 0 /\ ~ (tags[p] = tag_of(hash_str(string)) /\ resolve(slots[p]) = string)
\* ... and a text is added only when no handle stands for it.
Absent(string) == \A i \in DOMAIN ranges : Held[i] # string
Looking ==
  /\ \A string, other \in text : string = other
  /\ pc = "find" => \A string \in text : Passed(string)
  /\ pc = "insert" => \A string \in text : Absent(string)

TextInv == PoolInv /\ Packed /\ Named /\ Looking

\* What there is to know of the handles.
LEMMA HeldIs ==
  ASSUME PoolInv, Named
  PROVE  /\ Held \in Seq(Texts) /\ Len(Held) = Len(ranges) /\ Len(ranges) \in Nat
         /\ DOMAIN ranges = 1 .. Len(ranges) /\ DOMAIN Held = 1 .. Len(ranges)
         /\ \A i \in 1 .. Len(ranges) : Held[i] = resolve(i - 1)
<1>1. DOMAIN ranges = 1 .. Len(ranges) /\ Len(ranges) \in Nat
  BY DEF PoolInv, IInv, TextTypeOK
<1>2. DOMAIN Held = DOMAIN ranges /\ \A i \in DOMAIN ranges : Held[i] = resolve(i - 1)
  BY DEF Held
<1>3. Held \in [1 .. Len(ranges) -> Texts]
  <2>1. Held = [i \in 1 .. Len(ranges) |-> Held[i]]
    BY <1>1 DEF Held
  <2> QED BY <1>1, <2>1 DEF Named
<1>4. Held \in Seq(Texts)
  BY <1>1, <1>3, SeqDef
<1>5. Len(Held) = Len(ranges)
  BY <1>1, <1>2, <1>4, LenProperties
<1> QED BY <1>1, <1>2, <1>4, <1>5

\* A step that writes neither the buffer nor the ranges leaves them as they are.
LEMMA HeldSame == ASSUME UNCHANGED <<buffer, ranges>> PROVE Held' = Held
BY DEF Held, resolve

\* A text that is added comes last.
LEMMA HeldAppended ==
  ASSUME PoolInv, Named, IInv', NEW string \in text,
         buffer' = buffer \o string,
         ranges' = Append(ranges, <<Len(buffer), Len(string)>>)
  PROVE  Held' = Append(Held, string)
<1>1. PICK n \in Nat : n = Len(ranges)
  BY DEF PoolInv, IInv, TextTypeOK
<1>2. /\ buffer \in Seq(Byte) /\ ranges \in Seq(Nat \X Nat) /\ string \in Seq(Byte)
      /\ string \in Texts /\ Len(buffer) \in Nat /\ Len(string) \in Nat /\ n \in Nat
  BY <1>1, PoolAssumption DEF PoolInv, IInv, TextTypeOK
<1>3. /\ Held \in Seq(Texts) /\ Len(Held) = n /\ DOMAIN ranges = 1 .. n
      /\ \A i \in 1 .. n : Held[i] = resolve(i - 1)
  BY <1>1, HeldIs
<1>4. /\ ranges' \in Seq(Nat \X Nat) /\ Len(ranges') = n + 1
      /\ ranges'[n + 1] = <<Len(buffer), Len(string)>> /\ DOMAIN ranges' = 1 .. n + 1
  BY <1>1, <1>2, AppendProperties
<1>5. ASSUME NEW i \in 1 .. n PROVE resolve(i - 1)' = Held[i]
  <2>1. i \in DOMAIN ranges
    BY <1>3
  <2>2. resolve(i - 1)' = resolve(i - 1)
    BY <2>1, HandleAfterInsert DEF PoolInv
  <2> QED BY <1>3, <2>2
<1>6. resolve(n)' = string
  <2>1. resolve(n)' = SubSeq(buffer', Len(buffer) + 1, Len(buffer) + Len(string))
    <3>1. resolve(n)' = SubSeq(buffer', ranges'[n + 1][1] + 1, ranges'[n + 1][1] + ranges'[n + 1][2])
      BY DEF resolve
    <3>2. ranges'[n + 1][1] = Len(buffer) /\ ranges'[n + 1][2] = Len(string)
      BY <1>4
    <3> QED BY <3>1, <3>2
  <2>2. CASE Len(string) = 0
    <3>1. resolve(n)' = <<>>
      BY <1>2, <2>1, <2>2, SubSeqEmpty
    <3>2. string = <<>>
      BY <1>2, <2>2, EmptySeq
    <3> QED BY <3>1, <3>2
  <2>3. CASE Len(string) # 0
    <3>1. /\ Len(buffer) + 1 \in Len(buffer) + 1 .. Len(buffer) + Len(string)
          /\ Len(buffer) + Len(string) \in Len(buffer) + 1 .. Len(buffer) + Len(string)
          /\ Len(buffer) + 1 - Len(buffer) = 1
          /\ Len(buffer) + Len(string) - Len(buffer) = Len(string)
      BY <1>2, <2>3
    <3>2. SubSeq(buffer', Len(buffer) + 1, Len(buffer) + Len(string)) = SubSeq(string, 1, Len(string))
      BY <1>2, <3>1, SubSeqOfConcat2
    <3> QED BY <1>2, <2>1, <3>2, SubSeqFull
  <2> QED BY <2>2, <2>3
<1>7. /\ Append(Held, string) \in Seq(Texts) /\ Len(Append(Held, string)) = n + 1
      /\ \A i \in 1 .. n : Append(Held, string)[i] = Held[i]
      /\ Append(Held, string)[n + 1] = string /\ DOMAIN Append(Held, string) = 1 .. n + 1
  BY <1>2, <1>3, AppendProperties
<1>8. ASSUME NEW i \in 1 .. n + 1 PROVE resolve(i - 1)' = Append(Held, string)[i]
  <2>1. CASE i = n + 1
    <3>1. i - 1 = n
      BY <1>2, <2>1
    <3>2. resolve(i - 1)' = resolve(n)'
      BY <3>1, Zenon
    <3> QED BY <1>6, <1>7, <2>1, <3>2
  <2>2. CASE i # n + 1
    <3>1. i \in 1 .. n
      BY <1>2, <2>2
    <3> QED BY <1>5, <1>7, <3>1
  <2> QED BY <2>1, <2>2
<1>9. Held' = [i \in 1 .. n + 1 |-> resolve(i - 1)']
  BY <1>4 DEF Held
<1>10. Append(Held, string) = [i \in 1 .. n + 1 |-> Append(Held, string)[i]]
  BY <1>7, LenProperties
<1> QED BY <1>8, <1>9, <1>10

\* Truncation leaves the first ones.
LEMMA HeldCut ==
  ASSUME PoolInv, Named, NEW len \in 0 .. Len(ranges), truncate(len)
  PROVE  Held' = SubSeq(Held, 1, len)
<1>1. /\ ranges \in Seq(Nat \X Nat) /\ len \in Nat /\ len < Len(ranges) /\ Len(ranges) \in Nat
      /\ ranges' = SubSeq(ranges, 1, len)
  BY DEF PoolInv, IInv, TextTypeOK, truncate
<1>2. Held \in Seq(Texts) /\ Len(Held) = Len(ranges) /\ \A i \in 1 .. Len(ranges) : Held[i] = resolve(i - 1)
  BY HeldIs
<1>3. DOMAIN ranges' = 1 .. len
  BY <1>1, SubSeqProperties
<1>4. /\ SubSeq(Held, 1, len) \in Seq(Texts) /\ Len(SubSeq(Held, 1, len)) = len
      /\ \A i \in 1 .. len : SubSeq(Held, 1, len)[i] = Held[i]
  BY <1>1, <1>2, SubSeqProperties
<1>5. ASSUME NEW i \in 1 .. len PROVE resolve(i - 1)' = SubSeq(Held, 1, len)[i]
  <2>1. resolve(i - 1)' = resolve(i - 1)
    BY HandleAfterTruncate DEF PoolInv
  <2>2. i \in 1 .. Len(ranges)
    BY <1>1
  <2> QED BY <1>2, <1>4, <2>1, <2>2
<1>6. Held' = [i \in 1 .. len |-> resolve(i - 1)']
  BY <1>3 DEF Held
<1>7. SubSeq(Held, 1, len) = [i \in 1 .. len |-> SubSeq(Held, 1, len)[i]]
  <2> DEFINE cut == SubSeq(Held, 1, len)
  <2>1. cut \in [1 .. len -> Texts]
    <3>1. cut \in Seq(Texts) /\ Len(cut) = len
      BY <1>4
    <3> HIDE DEF cut
    <3> QED BY <3>1, LenProperties
  <2> HIDE DEF cut
  <2>2. cut = [i \in 1 .. len |-> cut[i]]
    BY <2>1
  <2> QED BY <2>2 DEF cut
<1> QED BY <1>5, <1>6, <1>7

\* A text that is added comes behind the last one, and is named as the others are.
LEMMA InsertNames ==
  ASSUME TextInv, IInv', NEW string \in text, Absent(string),
         buffer' = buffer \o string,
         ranges' = Append(ranges, <<Len(buffer), Len(string)>>),
         hashes' = Append(hashes, hash_str(string))
  PROVE  Packed' /\ Named'
<1>1. PICK n \in Nat : n = Len(ranges)
  BY DEF TextInv, PoolInv, IInv, TextTypeOK
<1>2. /\ ranges \in Seq(Nat \X Nat) /\ hashes \in Seq(Nat) /\ Len(hashes) = n
      /\ buffer \in Seq(Byte) /\ string \in Seq(Byte) /\ string \in Texts
      /\ hash_str(string) \in Nat /\ DOMAIN ranges = 1 .. n
  BY <1>1, PoolAssumption DEF TextInv, PoolInv, IInv, TextTypeOK, hash_str
<1>3. /\ ranges' \in Seq(Nat \X Nat) /\ Len(ranges') = n + 1 /\ DOMAIN ranges' = 1 .. n + 1
      /\ \A i \in 1 .. n : ranges'[i] = ranges[i]
      /\ ranges'[n + 1][1] = Len(buffer) /\ ranges'[n + 1][2] = Len(string)
  <2>1. /\ ranges' \in Seq(Nat \X Nat) /\ Len(ranges') = n + 1
        /\ \A i \in 1 .. n : ranges'[i] = ranges[i]
        /\ ranges'[n + 1] = <<Len(buffer), Len(string)>>
    BY <1>1, <1>2, AppendProperties
  <2> QED BY <2>1
<1>4. hashes'[n + 1] = hash_str(string) /\ \A i \in 1 .. n : hashes'[i] = hashes[i]
  BY <1>2, AppendProperties
<1>5. /\ Held' = Append(Held, string) /\ Held \in Seq(Texts) /\ Len(Held) = n
  BY <1>1, HeldAppended, HeldIs DEF TextInv
<1>6. Held'[n + 1] = string /\ \A i \in 1 .. n : Held'[i] = Held[i]
  <2>1. /\ Append(Held, string)[Len(Held) + 1] = string
        /\ \A i \in 1 .. Len(Held) : Append(Held, string)[i] = Held[i]
    <3>1. string \in Texts /\ Held \in Seq(Texts)
      BY <1>2, <1>5
    <3> QED BY <3>1, AppendProperties
  <2> QED BY <1>5, <2>1
<1>7. \A i \in 1 .. n + 1 : i # n + 1 => i \in 1 .. n
  OBVIOUS
<1>8. Packed'
  <2>1. Len(buffer') = Len(buffer) + Len(string) /\ Len(buffer) = End(n)
    <3>1. Len(buffer') = Len(buffer) + Len(string)
      BY <1>2, ConcatProperties
    <3>2. Len(buffer) = End(Len(ranges))
      BY DEF TextInv, Packed
    <3> QED BY <1>1, <3>1, <3>2
  <2>2. End(n + 1)' = Len(buffer) + Len(string)
    BY <1>1, <1>3 DEF End
  <2>3. \A i \in 0 .. n : End(i)' = End(i)
    BY <1>1, <1>3 DEF End
  <2>4. Len(buffer') = End(Len(ranges))'
    BY <1>3, <2>1, <2>2 DEF End
  <2>5. ASSUME NEW i \in 1 .. n + 1 PROVE ranges'[i][1] = End(i - 1)'
    <3>1. i - 1 \in 0 .. n /\ (i = n + 1 => i - 1 = n)
      BY <1>1
    <3>2. End(i - 1)' = End(i - 1)
      BY <2>3, <3>1
    <3>3. CASE i = n + 1
      BY <1>3, <2>1, <3>1, <3>2, <3>3
    <3>4. CASE i \in 1 .. n
      BY <1>2, <1>3, <3>2, <3>4 DEF TextInv, Packed
    <3> QED BY <1>7, <3>3, <3>4
  <2>6. \A i \in DOMAIN ranges' : ranges'[i][1] = End(i - 1)'
    BY <1>3, <2>5
  <2> QED BY <2>4, <2>6 DEF Packed
<1>9. Named'
  <2>1. ASSUME NEW i \in 1 .. n + 1
        PROVE  Held'[i] \in Texts /\ Len(Held'[i]) = ranges'[i][2] /\ hashes'[i] = Hash[Held'[i]]
    <3>1. CASE i = n + 1
      <4>1. Held'[i] = string /\ ranges'[i][2] = Len(string) /\ hashes'[i] = Hash[string]
        BY <1>3, <1>4, <1>6, <3>1 DEF hash_str
      <4> QED BY <1>2, <4>1
    <3>2. CASE i \in 1 .. n
      <4>1. Held[i] \in Texts /\ Len(Held[i]) = ranges[i][2] /\ hashes[i] = Hash[Held[i]]
        BY <1>2, <3>2 DEF TextInv, Named
      <4>2. Held'[i] = Held[i] /\ ranges'[i] = ranges[i] /\ hashes'[i] = hashes[i]
        BY <1>3, <1>4, <1>6, <3>2
      <4> QED BY <4>1, <4>2
    <3> QED BY <1>7, <3>1, <3>2
  <2>2. ASSUME NEW i \in 1 .. n + 1, NEW j \in 1 .. n + 1, Held'[i] = Held'[j] PROVE i = j
    <3>1. \A k \in 1 .. n : Held[k] # string
      BY <1>2 DEF Absent
    <3>2. \A k, l \in 1 .. n : Held[k] = Held[l] => k = l
      BY <1>2 DEF TextInv, Named
    <3> QED BY <1>6, <1>7, <2>2, <3>1, <3>2
  <2>3. DOMAIN ranges' = 1 .. n + 1
    BY <1>3
  <2> QED BY <2>1, <2>2, <2>3 DEF Named
<1> QED BY <1>8, <1>9

\* Truncation takes away the last texts, of the buffer too.
LEMMA TruncateNames ==
  ASSUME TextInv, NEW len \in 0 .. Len(ranges), truncate(len)
  PROVE  Packed' /\ Named'
<1>1. /\ ranges \in Seq(Nat \X Nat) /\ hashes \in Seq(Nat) /\ Len(hashes) = Len(ranges)
      /\ Len(ranges) \in Nat /\ len \in Nat /\ len < Len(ranges) /\ buffer \in Seq(Byte)
      /\ ranges' = SubSeq(ranges, 1, len) /\ hashes' = SubSeq(hashes, 1, len)
      /\ buffer' = SubSeq(buffer, 1, ranges[len + 1][1]) /\ DOMAIN ranges = 1 .. Len(ranges)
  BY DEF TextInv, PoolInv, IInv, TextTypeOK, truncate
<1>2. /\ Len(ranges') = len /\ DOMAIN ranges' = 1 .. len
      /\ \A i \in 1 .. len : ranges'[i] = ranges[i]
  <2>1. len <= Len(ranges)
    BY <1>1
  <2>2. /\ SubSeq(ranges, 1, len) \in Seq(Nat \X Nat) /\ Len(SubSeq(ranges, 1, len)) = len
        /\ \A i \in 1 .. len : SubSeq(ranges, 1, len)[i] = ranges[i]
    <3>1. \A i \in 1 .. len : ranges[i] \in Nat \X Nat
      BY <1>1, <2>1
    <3>2. len - 1 + 1 = len /\ \A i \in 1 .. len : 1 + i - 1 = i
      BY <1>1
    <3>3. (IF 1 <= len THEN len - 1 + 1 ELSE 0) = len
      BY <1>1
    <3>4. /\ SubSeq(ranges, 1, len) \in Seq(Nat \X Nat)
          /\ Len(SubSeq(ranges, 1, len)) = IF 1 <= len THEN len - 1 + 1 ELSE 0
          /\ \A i \in 1 .. len - 1 + 1 : SubSeq(ranges, 1, len)[i] = ranges[1 + i - 1]
      BY <1>1, <3>1, SubSeqProperties
    <3> QED BY <3>2, <3>3, <3>4
  <2> QED BY <1>1, <2>2
<1>3. \A i \in 1 .. len : hashes'[i] = hashes[i]
  BY <1>1, SubSeqProperties
<1>4. Held' = SubSeq(Held, 1, len) /\ Held \in Seq(Texts) /\ Len(Held) = Len(ranges)
  BY HeldCut, HeldIs DEF TextInv
<1>5. \A i \in 1 .. len : Held'[i] = Held[i]
  BY <1>1, <1>4, SubSeqProperties
<1>6. \A i \in 1 .. len : i \in DOMAIN ranges
  BY <1>1
<1>7. Packed'
  <2>1. \A i \in 0 .. len : End(i)' = End(i)
    BY <1>1, <1>2 DEF End
  <2>2. ASSUME NEW i \in 1 .. len PROVE ranges'[i][1] = End(i - 1)'
    <3>1. i - 1 \in 0 .. len
      BY <1>1
    <3>2. End(i - 1)' = End(i - 1)
      BY <2>1, <3>1
    <3> QED BY <1>2, <1>6, <3>2 DEF TextInv, Packed
  <2>3. Len(buffer') = End(len)'
    <3>1. len + 1 \in DOMAIN ranges /\ len + 1 - 1 = len /\ len \in 0 .. len
      BY <1>1
    <3>2. ranges[len + 1][1] \in Nat /\ ranges[len + 1][2] \in Nat
      BY <1>1, <3>1, RangeType
    <3>3. ranges[len + 1][1] + ranges[len + 1][2] <= Len(buffer)
      BY <3>1 DEF TextInv, PoolInv, IInv, SlicesSound, RangesInBuffer
    <3>4. ranges[len + 1][1] <= Len(buffer) /\ Len(buffer) \in Nat
      BY <1>1, <3>2, <3>3
    <3>5. Len(buffer') = ranges[len + 1][1]
      BY <1>1, <3>2, <3>4, SubSeqProperties
    <3>6. ranges[len + 1][1] = End(len + 1 - 1)
      BY <3>1 DEF TextInv, Packed
    <3> QED BY <2>1, <3>1, <3>5, <3>6
  <2>4. Len(buffer') = End(Len(ranges))'
    BY <1>2, <2>3 DEF End
  <2> QED BY <1>2, <2>2, <2>4 DEF Packed
<1>8. Named'
  BY <1>2, <1>3, <1>5, <1>6 DEF TextInv, Named
<1> QED BY <1>7, <1>8

\* What the rest of the steps leave.
LEMMA SameNames ==
  ASSUME TextInv, UNCHANGED <<buffer, ranges, hashes>> PROVE Packed' /\ Named'
<1>1. Held' = Held
  BY HeldSame
<1>2. \A i : End(i)' = End(i)
  BY DEF End
<1> QED BY <1>1, <1>2 DEF TextInv, Packed, Named, End

\* One more probe stands one place further round the table.
LEMMA NextPlace ==
  ASSUME NEW capacity \in Nat, 0 < capacity, NEW hash \in Nat, NEW k \in Nat
  PROVE  (At(hash, capacity, k) + 1) % capacity = At(hash, capacity, k + 1)
<1> DEFINE x == Home(hash, capacity) + k
           r == x % capacity
           q == x \div capacity
<1>1. Home(hash, capacity) \in Nat /\ x \in Nat
  BY Around
<1>2. At(hash, capacity, k) = r /\ At(hash, capacity, k + 1) = (x + 1) % capacity
  BY <1>1 DEF At
<1> HIDE DEF x
<1>3. q \in Nat /\ r \in 0 .. capacity - 1 /\ x = r + capacity * q
  BY <1>1, Divided
<1> HIDE DEF r, q
<1>4. CASE r + 1 < capacity
  <2>1. r + 1 \in 0 .. capacity - 1 /\ x + 1 = (r + 1) + capacity * q /\ r + 1 = (r + 1) + capacity * 0
    BY <1>3, <1>4
  <2>2. (x + 1) % capacity = r + 1 /\ (r + 1) % capacity = r + 1
    BY <1>3, <2>1, Quotient
  <2> QED BY <1>2, <2>2
<1>5. CASE r + 1 = capacity
  <2>1. q + 1 \in Nat /\ capacity * (q + 1) = capacity * q + capacity /\ capacity * q \in Nat
    BY <1>3
  <2>2. x + 1 = 0 + capacity * (q + 1) /\ r + 1 = 0 + capacity * 1 /\ 0 \in 0 .. capacity - 1
    BY <1>3, <1>5, <2>1
  <2>3. (x + 1) % capacity = 0 /\ (r + 1) % capacity = 0
    BY <2>1, <2>2, Quotient
  <2> QED BY <1>2, <2>3
<1>6. r + 1 < capacity \/ r + 1 = capacity
  BY <1>3
<1> QED BY <1>4, <1>5, <1>6

\* A lookup that comes to a free slot has passed the slot of every handle that has its
\* hash: its text is not in the pool.
LEMMA FreeMeansAbsent ==
  ASSUME TextInv, pc = "find", NEW string \in text, tags[slot + 1] = 0
  PROVE  Absent(string)
<1> DEFINE h == hash_str(string)
           cap == Len(tags)
<1>1. h \in Nat
  BY HashIs DEF TextInv
<1>2. PICK k \in Nat :
        /\ slot = At(h, cap, k)
        /\ \A e \in 0 .. k - 1 : /\ tags[At(h, cap, e) + 1] # 0
                                 /\ ~ (tags[At(h, cap, e) + 1] = tag_of(h)
                                         /\ resolve(slots[At(h, cap, e) + 1]) = string)
  BY DEF TextInv, Looking, Passed
<1>3. SUFFICES ASSUME NEW i \in DOMAIN ranges, Held[i] = string PROVE FALSE
  BY DEF Absent
<1>4. i \in 1 .. Len(hashes) /\ hashes[i] = h /\ resolve(i - 1) = string
  <2>1. hashes[i] = Hash[Held[i]]
    BY DEF TextInv, Named
  <2>2. DOMAIN ranges = 1 .. Len(ranges) /\ Held[i] = resolve(i - 1)
    BY HeldIs DEF TextInv
  <2>3. Len(hashes) = Len(ranges)
    BY TableIs DEF TextInv
  <2> QED BY <1>3, <2>1, <2>2, <2>3 DEF hash_str
<1>5. Met(tags, slots, h, i - 1)
  BY <1>4 DEF TextInv, PoolInv, TableOf
<1> HIDE DEF h, cap
<1>6. PICK d \in 0 .. cap - 1 :
        /\ slots[At(h, cap, d) + 1] = i - 1 /\ tags[At(h, cap, d) + 1] = tag_of(h)
        /\ \A e \in 0 .. d - 1 : tags[At(h, cap, e) + 1] # 0
  BY <1>5 DEF Met, cap
<1>7. d \in Nat
  OBVIOUS
<1>8. CASE d < k
  <2>1. d \in 0 .. k - 1
    BY <1>7, <1>8
  <2> QED BY <1>2, <1>4, <1>6, <2>1
<1>9. CASE d = k
  BY <1>1, <1>2, <1>6, <1>9, TagIsNotFree
<1>10. CASE k < d
  <2>1. k \in 0 .. d - 1
    BY <1>7, <1>10
  <2> QED BY <1>2, <1>6, <2>1
<1> QED BY <1>7, <1>8, <1>9, <1>10

\* A probe that finds another text in its slot passes it.
LEMMA ProbePasses ==
  ASSUME TextInv, pc = "find", NEW string \in text, tags[slot + 1] # 0, ~ Matches(string)
  PROVE  \E k \in Nat :
           /\ (slot + 1) % Len(tags) = At(hash_str(string), Len(tags), k)
           /\ \A e \in 0 .. k - 1 :
                LET p == At(hash_str(string), Len(tags), e) + 1
                IN  tags[p] # 0 /\ ~ (tags[p] = tag_of(hash_str(string)) /\ resolve(slots[p]) = string)
<1> DEFINE h == hash_str(string)
           cap == Len(tags)
           Other(p) == tags[p] # 0 /\ ~ (tags[p] = tag_of(h) /\ resolve(slots[p]) = string)
<1>1. h \in Nat /\ cap \in Nat /\ 0 < cap
  BY HashIs, TableIs DEF TextInv, PoolInv, Lookup
<1>2. PICK k \in Nat : slot = At(h, cap, k) /\ \A e \in 0 .. k - 1 : Other(At(h, cap, e) + 1)
  BY DEF TextInv, Looking, Passed
<1>3. Other(slot + 1)
  BY DEF Matches
<1> HIDE DEF h, cap, Other
<1>4. (slot + 1) % cap = At(h, cap, k + 1)
  BY <1>1, <1>2, NextPlace
<1>5. \A e \in 0 .. k + 1 - 1 : Other(At(h, cap, e) + 1)
  <2>1. \A e \in 0 .. k + 1 - 1 : e = k \/ e \in 0 .. k - 1
    OBVIOUS
  <2> QED BY <1>2, <1>3, <2>1
<1>6. k + 1 \in Nat
  OBVIOUS
<1> QED BY <1>4, <1>5, <1>6 DEF h, cap, Other

\* A slot that holds the text of a lookup holds its handle.
LEMMA MatchIsHandle ==
  ASSUME TextInv, pc = "find", NEW string \in text, tags[slot + 1] # 0, Matches(string)
  PROVE  /\ slots[slot + 1] + 1 \in DOMAIN ranges /\ slots[slot + 1] \in Nat
         /\ Held[slots[slot + 1] + 1] = string
<1> DEFINE id == slots[slot + 1]
<1>1. slot + 1 \in 1 .. Len(tags) /\ slot + 1 \in 1 .. Len(slots)
  BY TableIs DEF TextInv, PoolInv, Lookup
<1>2. id \in Nat
  BY <1>1, TableIs, ElementOfSeq DEF TextInv
<1>3. id < Len(hashes)
  BY <1>1 DEF TextInv, PoolInv, TableOf
<1>4. resolve(id) = string
  BY DEF Matches
<1> HIDE DEF id
<1>5. id + 1 \in 1 .. Len(ranges) /\ id + 1 - 1 = id
  BY <1>2, <1>3, TableIs DEF TextInv
<1>6. DOMAIN ranges = 1 .. Len(ranges) /\ Held[id + 1] = resolve(id)
  <2>1. DOMAIN ranges = 1 .. Len(ranges) /\ \A i \in 1 .. Len(ranges) : Held[i] = resolve(i - 1)
    BY HeldIs DEF TextInv
  <2>2. PICK i \in 1 .. Len(ranges) : i = id + 1
    BY <1>5
  <2>3. i - 1 = id
    BY <1>2, <2>2
  <2>4. Held[i] = resolve(i - 1)
    BY <2>1
  <2> QED BY <2>1, <2>2, <2>3, <2>4
<1> QED BY <1>2, <1>4, <1>5, <1>6 DEF id

\* The sum of the lengths an Interner keeps account of, as a function.
Summed(sum) ==
  sum = [n \in 0 .. Len(Held) |-> IF n = 0 THEN 0 ELSE sum[n - 1] + Len(Held[n])]

\* The ends of the texts are these sums, ...
LEMMA EndsAddUp ==
  ASSUME TextInv
  PROVE  /\ Summed([n \in 0 .. Len(Held) |-> End(n)])
         /\ \A n \in 0 .. Len(Held) : End(n) \in Nat
<1> DEFINE N == Len(Held)
           ends == [n \in 0 .. N |-> End(n)]
           sum(n) == IF n = 0 THEN 0 ELSE ends[n - 1] + Len(Held[n])
<1>1. N \in Nat /\ N = Len(ranges) /\ DOMAIN ranges = 1 .. N /\ ranges \in Seq(Nat \X Nat)
  BY HeldIs DEF TextInv, PoolInv, IInv, TextTypeOK
<1> HIDE DEF N
<1>2. ASSUME NEW n \in 0 .. N PROVE End(n) \in Nat /\ ends[n] = sum(n)
  <2>1. ends[n] = End(n)
    OBVIOUS
  <2>2. CASE n = 0
    BY <2>1, <2>2 DEF End
  <2>3. CASE n # 0
    <3>1. n \in DOMAIN ranges /\ n - 1 \in 0 .. N
      BY <1>1, <2>3
    <3>2. ranges[n][1] \in Nat /\ ranges[n][2] \in Nat
      BY <1>1, <3>1, RangeType
    <3>3. ends[n - 1] = End(n - 1)
      BY <3>1
    <3>4. ranges[n][1] = End(n - 1) /\ Len(Held[n]) = ranges[n][2]
      BY <3>1 DEF TextInv, Packed, Named
    <3>5. End(n) = ranges[n][1] + ranges[n][2]
      BY <2>3 DEF End
    <3> HIDE DEF ends
    <3> QED BY <2>1, <2>3, <3>2, <3>3, <3>4, <3>5
  <2> QED BY <2>2, <2>3
<1>3. ends = [n \in 0 .. N |-> sum(n)]
  <2>1. ends = [n \in 0 .. N |-> ends[n]]
    OBVIOUS
  <2> HIDE DEF sum
  <2> QED BY <1>2, <2>1
<1>4. Summed(ends)
  <2> HIDE DEF ends
  <2> QED BY <1>3 DEF Summed, N
<1> QED BY <1>2, <1>4 DEF N

\* ... and there are no others: an Interner's sum is the length of the buffer.
LEMMA SumIsLength ==
  ASSUME TextInv, NEW sum, Summed(sum)
  PROVE  sum[Len(Held)] = Len(buffer)
<1> DEFINE N == Len(Held)
           ends == [n \in 0 .. N |-> End(n)]
           S == {n \in Nat : n <= N => sum[n] = ends[n]}
<1>1. N \in Nat /\ N = Len(ranges)
  BY HeldIs DEF TextInv
<1>2. Summed(ends)
  BY EndsAddUp
<1>3. ends[N] = Len(buffer)
  BY <1>1 DEF TextInv, Packed
<1> HIDE DEF N, ends
<1>4. \A n \in 0 .. N : /\ sum[n] = IF n = 0 THEN 0 ELSE sum[n - 1] + Len(Held[n])
                        /\ ends[n] = IF n = 0 THEN 0 ELSE ends[n - 1] + Len(Held[n])
  BY <1>2 DEF Summed, N
<1>5. 0 \in S
  BY <1>1, <1>4
<1>6. ASSUME NEW n \in Nat, n \in S PROVE n + 1 \in S
  <2> SUFFICES ASSUME n + 1 <= N PROVE sum[n + 1] = ends[n + 1]
    OBVIOUS
  <2>1. n + 1 \in 0 .. N /\ n + 1 # 0 /\ n + 1 - 1 = n /\ n <= N
    BY <1>1
  <2> QED BY <1>4, <1>6, <2>1
<1>7. Nat \subseteq S
  <2> HIDE DEF S
  <2> QED BY <1>5, <1>6, FromZero
<1>8. sum[N] = ends[N]
  BY <1>1, <1>7
<1> QED BY <1>3, <1>8 DEF N

\* The account as the Interner keeps it.
LEMMA AccountIsLength ==
  ASSUME TextInv
  PROVE  Implements!SumOfLengths[Len(Held)] = Len(buffer)
<1> DEFINE sum == CHOOSE sum : Summed(sum)
<1>1. Summed(sum)
  BY EndsAddUp, Zenon
<1>2. Implements!SumOfLengths = sum
  BY Zenon DEF Implements!SumOfLengths, Summed, Held
<1> HIDE DEF sum
<1> QED BY <1>1, <1>2, SumIsLength

\* One text is looked for at a time.
LEMMA OnlyText == ASSUME TextInv, NEW string \in text PROVE text = {string}
BY DEF TextInv, Looking

\* intern is an Interner being asked.
LEMMA BeginInternAsks ==
  ASSUME TextInv, NEW string \in Texts, BeginIntern(string)
  PROVE  TextInv' /\ Implements!Ask
<1>1. /\ UNCHANGED <<buffer, ranges, hashes, tags, slots, answer>> /\ text' = {string}
      /\ pc = "ready" /\ text = {}
  BY DEF BeginIntern, pool_vars, TextInv, PoolInv, Lookup
<1>2. PoolInv' /\ Packed' /\ Named' /\ Held' = Held
  <2>1. PoolInv'
    BY BeginInternKeeps DEF TextInv
  <2> QED BY <1>1, <2>1, SameNames, HeldSame
<1>3. Looking'
  <2>1. CASE tags = <<>>
    <3>1. Len(ranges) = 0 /\ DOMAIN ranges = {}
      <4>1. Len(tags) = 0
        BY <2>1
      <4>2. Len(ranges) = 0
        BY <4>1, TableIs DEF TextInv
      <4>3. DOMAIN ranges = 1 .. Len(ranges)
        BY HeldIs DEF TextInv
      <4> QED BY <4>2, <4>3
    <3>2. pc' = "insert"
      BY <2>1 DEF BeginIntern
    <3>3. ranges' = ranges
      BY <1>1
    <3>4. \A other : Absent(other)'
      BY <3>1, <3>3 DEF Absent
    <3> QED BY <1>1, <3>2, <3>4 DEF Looking
  <2>2. CASE tags # <<>>
    <3>1. pc' = "find" /\ slot' = Home(hash_str(string), Len(tags))
      BY <2>2 DEF BeginIntern
    <3>2. hash_str(string) \in Nat /\ Len(tags) \in Nat /\ 0 < Len(tags)
      BY <2>2, TableIs, EmptySeq, PoolAssumption DEF TextInv, hash_str
    <3>3. slot' = At(hash_str(string), Len(tags), 0)
      BY <3>1, <3>2, Around
    <3>4. Passed(string)'
      <4>1. hash_str(string)' = hash_str(string) /\ tags' = tags
        BY <1>1 DEF hash_str
      <4>2. \A e \in 0 .. 0 - 1 : FALSE
        OBVIOUS
      <4>3. slot' = At(hash_str(string), Len(tags'), 0)
        BY <3>3, <4>1
      <4> QED BY <4>2, <4>3 DEF Passed, At, hash_str
    <3> QED BY <1>1, <3>1, <3>4 DEF Looking
  <2> QED BY <2>1, <2>2
<1>4. Implements!Ask
  BY <1>1, <1>2 DEF Implements!Ask, Held
<1> QED BY <1>2, <1>3, <1>4 DEF TextInv

\* A handle that stands for a text is the one an Interner knows it by.
LEMMA HandleIs ==
  ASSUME TextInv, NEW i \in DOMAIN ranges, NEW string, Held[i] = string
  PROVE  Implements!Handle(string) = i - 1
<1>1. DOMAIN Held = DOMAIN ranges
  BY HeldIs DEF TextInv
<1>2. \A j \in DOMAIN Held : Held[j] = string => j = i
  BY <1>1 DEF TextInv, Named
<1>3. (CHOOSE j \in DOMAIN Held : Held[j] = string) = i
  BY <1>1, <1>2
<1> QED BY <1>3 DEF Implements!Handle, Held

\* A probe that finds the text is an answer; the others an Interner does not see.
LEMMA ProbeAnswers ==
  ASSUME TextInv, Probe
  PROVE  TextInv' /\ (Implements!Known \/ UNCHANGED Implements!vars)
<1>1. UNCHANGED <<buffer, ranges, hashes, tags, slots>> /\ pc = "find"
  BY DEF Probe, pool_vars
<1>2. PoolInv' /\ Packed' /\ Named' /\ Held' = Held
  <2>1. PoolInv'
    BY ProbeKeeps DEF TextInv
  <2> QED BY <1>1, <2>1, SameNames, HeldSame
<1>3. PICK string \in text :
        \/ tags[slot + 1] = 0 /\ pc' = "insert" /\ UNCHANGED <<text, slot, answer>>
        \/ tags[slot + 1] # 0 /\ Matches(string) /\ Return(slots[slot + 1])
        \/ /\ tags[slot + 1] # 0 /\ ~ Matches(string)
           /\ slot' = (slot + 1) % Len(tags) /\ UNCHANGED <<pc, text, answer>>
  BY DEF Probe
<1>4. text = {string}
  BY OnlyText
<1>5. CASE tags[slot + 1] = 0 /\ pc' = "insert" /\ UNCHANGED <<text, slot, answer>>
  <2>1. Absent(string)
    BY <1>1, <1>5, FreeMeansAbsent
  <2>2. Absent(string)'
    BY <1>1, <1>2, <2>1 DEF Absent
  <2>3. Looking'
    BY <1>4, <1>5, <2>2 DEF Looking
  <2>4. UNCHANGED Implements!vars
    BY <1>2, <1>5 DEF Implements!vars, Held
  <2> QED BY <1>2, <2>3, <2>4 DEF TextInv
<1>6. CASE tags[slot + 1] # 0 /\ Matches(string) /\ Return(slots[slot + 1])
  <2>1. Looking'
    BY <1>6 DEF Looking, Return
  <2> DEFINE id == slots[slot + 1]
  <2>2. id + 1 \in DOMAIN ranges /\ id \in Nat /\ Held[id + 1] = string
    BY <1>1, <1>6, MatchIsHandle
  <2>3. answer' = id /\ text' = {}
    BY <1>6 DEF Return
  <2> HIDE DEF id
  <2>4. Implements!Handle(string) = id + 1 - 1
    BY <2>2, HandleIs
  <2>5. answer' = Implements!Handle(string)
    BY <2>2, <2>3, <2>4
  <2>6. DOMAIN Held = DOMAIN ranges
    BY HeldIs DEF TextInv
  <2>7. \E i \in DOMAIN Held : Held[i] = string
    BY <2>2, <2>6
  <2>8. Implements!Known
    BY <1>2, <1>4, <2>3, <2>5, <2>7 DEF Implements!Known, Held
  <2> QED BY <1>2, <2>1, <2>8 DEF TextInv
<1>7. CASE /\ tags[slot + 1] # 0 /\ ~ Matches(string)
           /\ slot' = (slot + 1) % Len(tags) /\ UNCHANGED <<pc, text, answer>>
  <2>1. PICK k \in Nat :
          /\ (slot + 1) % Len(tags) = At(hash_str(string), Len(tags), k)
          /\ \A e \in 0 .. k - 1 :
               LET p == At(hash_str(string), Len(tags), e) + 1
               IN  tags[p] # 0 /\ ~ (tags[p] = tag_of(hash_str(string)) /\ resolve(slots[p]) = string)
    BY <1>1, <1>7, ProbePasses
  <2>2. \A i : resolve(i)' = resolve(i)
    BY <1>1 DEF resolve
  <2>3. Passed(string)'
    BY <1>1, <1>7, <2>1, <2>2 DEF Passed, At, Home, hash_str, tag_of, resolve
  <2>4. Looking'
    BY <1>1, <1>4, <1>7, <2>3 DEF Looking
  <2>5. UNCHANGED Implements!vars
    BY <1>2, <1>7 DEF Implements!vars, Held
  <2> QED BY <1>2, <2>4, <2>5 DEF TextInv
<1> QED BY <1>3, <1>5, <1>6, <1>7

\* An insert is a new handle, or a refusal of a pool that has no room for the text.
LEMMA InsertAnswers ==
  ASSUME TextInv, Insert
  PROVE  TextInv' /\ (Implements!Add \/ Implements!Refuse)
<1>1. PICK string \in text :
        \/ ~ HasRoom(string) /\ Return(NoHandle) /\ UNCHANGED pool_vars
        \/ /\ HasRoom(string)
           /\ buffer' = buffer \o string
           /\ ranges' = Append(ranges, <<Len(buffer), Len(string)>>)
           /\ hashes' = Append(hashes, hash_str(string))
           /\ Return(Len(ranges))
  BY DEF Insert
<1>2. Absent(string) /\ pc = "insert"
  BY DEF Insert, TextInv, Looking
<1>3. pc' = "ready" /\ text' = {}
  BY <1>1 DEF Return
<1>4. PoolInv'
  BY InsertKeeps DEF TextInv
<1>5. Looking'
  BY <1>3 DEF Looking
<1>6. DOMAIN Held = DOMAIN ranges /\ Len(Held) = Len(ranges) /\ Len(ranges) \in Nat
  BY HeldIs DEF TextInv
<1>7. \A i \in DOMAIN Held : Held[i] # string
  BY <1>2, <1>6 DEF Absent
<1>8. CASE ~ HasRoom(string) /\ Return(NoHandle) /\ UNCHANGED pool_vars
  <2>1. Packed' /\ Named' /\ Held' = Held
    BY <1>8, SameNames, HeldSame DEF pool_vars
  <2>2. Len(Held) = MaxStrings \/ Implements!SumOfLengths[Len(Held)] + Len(string) > MaxBytes
    <3>1. Implements!SumOfLengths[Len(Held)] = Len(buffer)
      BY AccountIsLength
    <3>2. /\ Len(buffer) \in Nat /\ Len(string) \in Nat /\ MaxStrings \in Nat /\ MaxBytes \in Nat
          /\ Len(ranges) <= MaxStrings
      BY PoolAssumption DEF TextInv, PoolInv, IInv, TextTypeOK
    <3>3. ~ (Len(ranges) < MaxStrings) \/ ~ (Len(buffer) + Len(string) <= MaxBytes)
      BY <1>8 DEF HasRoom
    <3>4. Len(ranges) = MaxStrings \/ Len(buffer) + Len(string) > MaxBytes
      <4>1. \A a, b \in Nat : a <= b /\ ~ (a < b) => a = b
        OBVIOUS
      <4>2. \A a, b \in Nat : ~ (a <= b) => a > b
        OBVIOUS
      <4>3. Len(buffer) + Len(string) \in Nat
        BY <3>2
      <4>4. Len(ranges) \in Nat
        BY <1>6
      <4> QED BY <3>2, <3>3, <4>1, <4>2, <4>3, <4>4, Zenon
    <3> QED BY <1>6, <3>1, <3>4, Zenon
  <2>3. answer' = Implements!NoHandle
    BY <1>8 DEF Return, NoHandle, Implements!NoHandle
  <2>4. Implements!Refuse
    BY <1>3, <1>7, <2>1, <2>2, <2>3 DEF Implements!Refuse, Held
  <2> QED BY <1>4, <1>5, <2>1, <2>4 DEF TextInv
<1>9. CASE /\ HasRoom(string)
           /\ buffer' = buffer \o string
           /\ ranges' = Append(ranges, <<Len(buffer), Len(string)>>)
           /\ hashes' = Append(hashes, hash_str(string))
           /\ Return(Len(ranges))
  <2>1. IInv'
    BY <1>4 DEF PoolInv
  <2>2. Packed' /\ Named'
    BY <1>2, <1>9, <2>1, InsertNames
  <2>3. Held' = Append(Held, string)
    BY <1>9, <2>1, HeldAppended DEF TextInv
  <2>4. Len(Held) < MaxStrings /\ answer' = Len(Held)
    BY <1>6, <1>9 DEF HasRoom, Return
  <2>5. Implements!Add
    BY <1>3, <1>7, <2>3, <2>4 DEF Implements!Add, Held
  <2> QED BY <1>4, <1>5, <2>2, <2>5 DEF TextInv
<1> QED BY <1>1, <1>8, <1>9

\* truncate is an Interner's truncation.
LEMMA TruncateTruncates ==
  ASSUME TextInv, NEW len \in 0 .. Len(ranges), truncate(len)
  PROVE  TextInv' /\ Implements!Truncate
<1>1. UNCHANGED <<pc, text, slot, answer>> /\ pc = "ready" /\ text = {}
  BY DEF truncate, TextInv, PoolInv, Lookup
<1>2. PoolInv' /\ Packed' /\ Named' /\ Held' = SubSeq(Held, 1, len)
  BY TruncateKeeps, TruncateNames, HeldCut DEF TextInv
<1>3. Looking'
  BY <1>1 DEF Looking
<1>4. Len(Held) = Len(ranges)
  BY HeldIs DEF TextInv
<1>5. Implements!Truncate
  BY <1>1, <1>2, <1>4 DEF Implements!Truncate, Held
<1> QED BY <1>2, <1>3, <1>5 DEF TextInv

\* Every step of the pool is one of an Interner or none.
LEMMA StepImplements ==
  ASSUME TextInv, [Next]_vars
  PROVE  TextInv' /\ [Implements!Next]_(Implements!vars)
<1>1. ASSUME NEW string \in Texts, BeginIntern(string) PROVE TextInv' /\ Implements!Next
  BY <1>1, BeginInternAsks DEF Implements!Next
<1>2. CASE Probe
  BY <1>2, ProbeAnswers DEF Implements!Next
<1>3. CASE Insert
  BY <1>3, InsertAnswers DEF Implements!Next
<1>4. ASSUME NEW len \in 0 .. Len(ranges), truncate(len) PROVE TextInv' /\ Implements!Next
  BY <1>4, TruncateTruncates DEF Implements!Next
<1>5. CASE UNCHANGED vars
  <2>1. PoolInv'
    BY <1>5, StepKeepsPool DEF TextInv
  <2>2. UNCHANGED <<buffer, ranges, hashes, tags, slots, pc, text, slot, answer>>
    BY <1>5 DEF vars, pool_vars
  <2>3. Packed' /\ Named' /\ Held' = Held
    BY <2>2, SameNames, HeldSame
  <2>4. Looking'
    BY <2>2, <2>3 DEF TextInv, Looking, Passed, Absent, resolve
  <2>5. UNCHANGED Implements!vars
    BY <2>2, <2>3 DEF Implements!vars, Held
  <2> QED BY <2>1, <2>3, <2>4, <2>5 DEF TextInv
<1> QED BY <1>1, <1>2, <1>3, <1>4, <1>5 DEF Next

\* A new pool is a new Interner.
LEMMA InitImplements == Init => TextInv /\ Implements!Init
<1> SUFFICES ASSUME Init PROVE TextInv /\ Implements!Init
  OBVIOUS
<1>1. /\ ranges = <<>> /\ buffer = <<>> /\ Len(<<>>) = 0 /\ DOMAIN <<>> = {}
      /\ pc = "ready" /\ text = {} /\ answer = NoHandle
  BY DEF Init
<1>2. PoolInv
  BY InitPool
<1>3. Packed /\ Looking
  BY <1>1 DEF Packed, End, Looking
<1>4. Named
  BY <1>1 DEF Named
<1>5. Held = <<>>
  <2>1. Held \in Seq(Texts) /\ Len(Held) = 0
    BY <1>1, <1>2, <1>4, HeldIs
  <2> QED BY <2>1, EmptySeq
<1>6. Implements!Init
  BY <1>1, <1>5 DEF Implements!Init, Held, NoHandle, Implements!NoHandle
<1> QED BY <1>2, <1>3, <1>4, <1>6 DEF TextInv

\* The pool does what an Interner does, whatever the hashes: a text has one handle for as
\* long as it is not truncated away, a new text gets the next, and only a pool with no
\* room for a text refuses it.  The table, its probes and its growth cannot be seen.
THEOREM PoolIsInterner == Spec => ImplementsInterner
<1>1. TextInv /\ [Next]_vars => TextInv' /\ [Implements!Next]_(Implements!vars)
  BY StepImplements
<1> QED BY <1>1, InitImplements, PTL DEF Spec, ImplementsInterner, Implements!Spec
================================================================================
