-------------------------------- MODULE Interner --------------------------------
(***************************************************************************)
(* What a pool of strings promises: one handle per text, counted from 0 in  *)
(* the order of interning, good until the text is truncated away.           *)
(***************************************************************************)
EXTENDS Integers, Sequences

CONSTANTS Texts, MaxStrings, MaxBytes

VARIABLES
  pool,    \* the texts, in the order of their handles
  asked,   \* the text being interned, as a set
  answer   \* the last answer: a handle, or NoHandle

vars == <<pool, asked, answer>>

NoHandle == -1
Handle(text) == (CHOOSE i \in DOMAIN pool : pool[i] = text) - 1

Init == pool = <<>> /\ asked = {} /\ answer = NoHandle

Ask == \E text \in Texts : asked = {} /\ asked' = {text} /\ UNCHANGED <<pool, answer>>

\* A text that is in the pool is answered with its handle.
Known ==
  \E text \in asked :
    /\ \E i \in DOMAIN pool : pool[i] = text
    /\ answer' = Handle(text) /\ asked' = {} /\ UNCHANGED pool

\* A new one gets the next handle and disturbs no other.
Add ==
  \E text \in asked :
    /\ \A i \in DOMAIN pool : pool[i] # text
    /\ Len(pool) < MaxStrings
    /\ pool' = Append(pool, text) /\ answer' = Len(pool) /\ asked' = {}

\* A pool with no room refuses, and only a pool with no room for the text does.
SumOfLengths[n \in 0 .. Len(pool)] == IF n = 0 THEN 0 ELSE SumOfLengths[n - 1] + Len(pool[n])
Refuse ==
  \E text \in asked :
    /\ \A i \in DOMAIN pool : pool[i] # text
    /\ Len(pool) = MaxStrings \/ SumOfLengths[Len(pool)] + Len(text) > MaxBytes
    /\ answer' = NoHandle /\ asked' = {} /\ UNCHANGED pool

Truncate ==
  /\ asked = {}
  /\ \E len \in 0 .. Len(pool) : pool' = SubSeq(pool, 1, len)
  /\ UNCHANGED <<asked, answer>>

Next == Ask \/ Known \/ Add \/ Refuse \/ Truncate

Spec == Init /\ [][Next]_vars
=============================================================================
