--------------------------- MODULE FeatureArrays ---------------------------
(***************************************************************************)
(* Values with a reference count and arrays of them (feature_exports.cpp): *)
(* one FtArray of strings, used by the thread that runs the script, while  *)
(* every thread may duplicate and free the strings it holds.               *)
(*                                                                         *)
(* FeatureDupValue and FeatureFreeValue load the count and then compare    *)
(* and swap it, again and again until no other thread came between: two    *)
(* actions here.  The functions of arrays do the same for the elements one *)
(* by one; each is a single step, as their order is not seen.              *)
(***************************************************************************)
EXTENDS Integers, FiniteSets, Sequences, SequencesExt

CONSTANTS
  Block,    (* The places of memory a string may be allocated at.          *)
  Junk,     (* What a slot holds that was never written.                   *)
  Holder,   (* Threads.                                                    *)
  Script,   (* The one of them that uses the array.                        *)
  Growth,   (* ARRAY_NEW_CAPACITY adds 5 in the code.                      *)
  MaxSize,  (* Bound: the elements of the array.                           *)
  MaxHeld,  (* Bound: the references of threads to a string.               *)
  Managed,  (* TRUE: FeatureArrayInsertAfter is called for strings.        *)
  Beyond    (* TRUE: FeatureArrayRemove may start behind the last element. *)

ASSUME ArraysAssumption ==
  /\ IsFiniteSet(Block) /\ Junk \notin Block
  /\ IsFiniteSet(Holder) /\ Script \in Holder
  /\ Growth \in Nat \ {0} /\ MaxSize \in Nat /\ MaxHeld \in Nat
  /\ Managed \in BOOLEAN /\ Beyond \in BOOLEAN

VARIABLES
  ref_count, (* FTObjHeader::ref_count of the string at a place, 0: freed  *)
  holds,     (* how many references a thread has to it                     *)
  loop,      (* the loop a thread is in: [op, block, expected]             *)
  array,     (* the FtArray: "none", "live"                                *)
  _size,     (* FtArray::_size                                             *)
  _element   (* FtArray::_element, as long as FtArray::_capacity           *)

avVars == <<ref_count, holds, loop, array, _size, _element>>

NoLoop == [op |-> "none", block |-> Junk, expected |-> 0]

ArraysInit ==
  /\ ref_count = [b \in Block |-> 0]
  /\ holds = [t \in Holder |-> [b \in Block |-> 0]]
  /\ loop = [t \in Holder |-> NoLoop]
  /\ array = "none" /\ _size = 0 /\ _element = <<>>

(* Position n of the code is _element[n + 1]. *)
Elements == SubSeq(_element, 1, _size)

Uses(s, b) == Cardinality({n \in DOMAIN s : s[n] = b})

(* The references of all threads to a string. *)
ThreadRefs(b) == UNION {{t} \X (1..holds[t][b]) : t \in Holder}
HeldBy(b) == Cardinality(ThreadRefs(b))

-----------------------------------------------------------------------------
(* Values *)

(* FeatureStrCopy: a new string with one reference. *)
StrCopy(t, b) ==
  /\ loop[t] = NoLoop /\ ref_count[b] = 0
  /\ ref_count' = [ref_count EXCEPT ![b] = 1]
  /\ holds' = [holds EXCEPT ![t][b] = @ + 1]
  /\ UNCHANGED <<loop, array, _size, _element>>

(* A thread that holds a string begins to duplicate or free it. *)
Load(t, b, op) ==
  /\ loop[t] = NoLoop /\ holds[t][b] > 0
  /\ op = "dup" => HeldBy(b) < MaxHeld
  /\ loop' = [loop EXCEPT ![t] =
                [op |-> op, block |-> b, expected |-> ref_count[b]]]
  /\ UNCHANGED <<ref_count, holds, array, _size, _element>>

(* A reference goes to another thread, as the data of a task does.         *)
HandOver(t, u, b) ==
  /\ loop[t] = NoLoop /\ holds[t][b] > 0
  /\ holds' = [holds EXCEPT ![t][b] = @ - 1, ![u][b] = @ + 1]
  /\ UNCHANGED <<ref_count, loop, array, _size, _element>>

(* Mutant: the new count is stored, whatever the count is by now.          *)
Store(t) ==
  /\ loop[t].op # "none"
  /\ LET b == loop[t].block
         step == IF loop[t].op = "dup" THEN 1 ELSE -1
     IN  /\ ref_count' = [ref_count EXCEPT ![b] = loop[t].expected + step]
         /\ holds' = [holds EXCEPT ![t][b] = @ + step]
         /\ loop' = [loop EXCEPT ![t] = NoLoop]
  /\ UNCHANGED <<array, _size, _element>>

(* compare_exchange_weak: it fails when another thread came between, and   *)
(* may fail without a reason; the count is loaded again.                   *)
CompareExchange(t) ==
  /\ loop[t].op # "none"
  /\ LET b == loop[t].block
         step == IF loop[t].op = "dup" THEN 1 ELSE -1
     IN  \/ /\ ref_count[b] = loop[t].expected
            /\ ref_count' = [ref_count EXCEPT ![b] = @ + step]
            /\ holds' = [holds EXCEPT ![t][b] = @ + step]
            /\ loop' = [loop EXCEPT ![t] = NoLoop]
         \/ /\ loop' = [loop EXCEPT ![t].expected = ref_count[b]]
            /\ UNCHANGED <<ref_count, holds>>
  /\ UNCHANGED <<array, _size, _element>>

-----------------------------------------------------------------------------
(* Arrays *)

ScriptIdle == loop[Script] = NoLoop

ArrayAtHand == ScriptIdle /\ array = "live"

Empty(capacity) == [n \in 1..capacity |-> Junk]

(* s over the beginning of what is there. *)
Over(s, old) ==
  [n \in DOMAIN old |-> IF n \in DOMAIN s THEN s[n] ELSE old[n]]

(* realloc *)
Grown(capacity) ==
  IF capacity <= Len(_element) THEN _element
  ELSE _element \o Empty(capacity - Len(_element))

(* References taken and given back for the elements of s. *)
Taken(s) == [b \in Block |-> ref_count[b] + Uses(s, b)]
Given(s) == [b \in Block |-> ref_count[b] - Uses(s, b)]

Fresh(s) == \A n \in DOMAIN s : ref_count[s[n]] = 0 /\ Uses(s, s[n]) = 1

Held(s) == \A n \in DOMAIN s : holds[Script][s[n]] > 0

Runs == UNION {[1..n -> Block] : n \in 1..MaxSize}

CreateArray(capacity) ==
  /\ ScriptIdle /\ array = "none" /\ array' = "live"
  /\ _size' = 0 /\ _element' = Empty(capacity)
  /\ UNCHANGED <<ref_count, holds, loop>>

(* FeatureArrayCopy takes references, FeatureArrayCopyRaw makes strings.   *)
ArrayCopy(s) ==
  /\ ScriptIdle /\ array = "none" /\ array' = "live"
  /\ Held(s) \/ Fresh(s)
  /\ _size' = Len(s) /\ _element' = s /\ ref_count' = Taken(s)
  /\ UNCHANGED <<holds, loop>>

ArrayResize(new_size) ==
  /\ ArrayAtHand /\ _element' = Grown(new_size)
  /\ UNCHANGED <<ref_count, holds, loop, array, _size>>

(* FeatureArrayAppend takes a reference; FeatureArrayAppendRaw makes a     *)
(* string, appends it and frees its own reference.                         *)
ArrayAppend(b) ==
  /\ ArrayAtHand /\ _size < MaxSize
  /\ holds[Script][b] > 0 \/ ref_count[b] = 0
  /\ _element' = Over(Append(Elements, b),
                      IF _size + 1 > Len(_element)
                        THEN Grown(_size + Growth) ELSE _element)
  /\ _size' = _size + 1 /\ ref_count' = Taken(<<b>>)
  /\ UNCHANGED <<holds, loop, array>>

(* The new elements behind position start, which may be -1: in front.      *)
InsertAfter(start, s, memory) ==
  /\ _element' = Over(SubSeq(_element, 1, start + 1) \o s
                        \o SubSeq(_element, start + 2, _size), memory)
  /\ _size' = _size + Len(s)
  /\ UNCHANGED <<holds, loop, array>>

(* FeatureArrayInsertRawAfter makes a string of each, duplicates it for    *)
(* the array and frees it.  FeatureArrayInsertAfter, of those the caller   *)
(* holds, passes to FeatureInstanceDupValue the address of each reference  *)
(* and not the reference: the count that grows is none of a string.        *)
InsertRefs(s, raw) ==
  IF raw THEN Fresh(s) /\ ref_count' = Taken(s)
  ELSE Held(s) /\ UNCHANGED ref_count

(* Before a position is after the one in front of it.  The raw functions   *)
(* always let the memory grow.                                             *)
ArrayInsert(start, s, raw) ==
  /\ ArrayAtHand /\ start < _size /\ _size + Len(s) <= MaxSize
  /\ InsertRefs(s, raw)
  /\ InsertAfter(start, s, IF raw \/ _size + Len(s) > Len(_element)
                             THEN Grown(_size + Len(s) + Growth)
                             ELSE _element)

ArrayClear ==
  /\ ArrayAtHand /\ ref_count' = Given(Elements) /\ _size' = 0
  /\ UNCHANGED <<holds, loop, array, _element>>

(* FeatureArrayRemove.  del_size is unsigned: with a start behind the end  *)
(* it is the large number that, added to start, gives _size again.  Then   *)
(* nothing is freed or moved, and taking it from _size leaves start.       *)
ArrayRemove(start, count) ==
  /\ ArrayAtHand
  /\ IF start <= _size
       THEN LET del_size == IF start + count < _size THEN count
                            ELSE _size - start
                removed == SubSeq(_element, start + 1, start + del_size)
                rest == SubSeq(_element, start + del_size + 1, _size)
            IN  /\ ref_count' = Given(removed) /\ _size' = _size - del_size
                /\ _element' = Over(SubSeq(_element, 1, start) \o rest,
                                    _element)
       ELSE Beyond /\ _size' = start /\ UNCHANGED <<ref_count, _element>>
  /\ UNCHANGED <<holds, loop, array>>

(* FeatureFreeValue for the last reference of the array: its elements are  *)
(* freed one by one.                                                       *)
FreeArray ==
  /\ ArrayAtHand /\ array' = "none"
  /\ ref_count' = Given(Elements) /\ _size' = 0 /\ _element' = <<>>
  /\ UNCHANGED <<holds, loop>>

ArraysNext ==
  \/ \E t \in Holder, b \in Block :
       StrCopy(t, b) \/ \E op \in {"dup", "free"} : Load(t, b, op)
  \/ \E t \in Holder : CompareExchange(t)
  \/ \E t, u \in Holder, b \in Block : t # u /\ HandOver(t, u, b)
  \/ \E n \in 0..MaxSize : CreateArray(n) \/ ArrayResize(n)
  \/ \E b \in Block : ArrayAppend(b)
  \/ \E s \in Runs :
       \/ ArrayCopy(s)
       \/ \E n \in -1..(MaxSize - 1) : 
            \E raw \in {TRUE, ~Managed} : ArrayInsert(n, s, raw)
  \/ \E n \in 0..MaxSize, count \in 0..MaxSize : ArrayRemove(n, count)
  \/ ArrayClear \/ FreeArray

ArraysSpec == ArraysInit /\ [][ArraysNext]_avVars

-----------------------------------------------------------------------------
(* Properties *)

ArraysTypeOK ==
  /\ ref_count \in [Block -> Nat] /\ holds \in [Holder -> [Block -> Nat]]
  /\ loop \in [Holder -> [op : {"none", "dup", "free"},
                          block : Block \cup {Junk}, expected : Nat]]
  /\ array \in {"none", "live"}
  /\ _size \in 0..MaxSize /\ _element \in Seq(Block \cup {Junk})

(* The count of a string is the number of references that threads and the  *)
(* elements of the array have to it, whatever comes between the load and   *)
(* the exchange of a thread: it is freed with the last one, never before   *)
(* (an element or a thread would be left with freed memory) nor not at all.*)
CountsExact ==
  \A b \in Block : ref_count[b] = HeldBy(b) + Uses(Elements, b)
=============================================================================
