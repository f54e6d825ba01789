--------------------------- MODULE SequenceLemmas ---------------------------
(***************************************************************************)
(* What the proofs of several components need of sequences and of the      *)
(* least of a set of numbers, beside what the library states.              *)
(***************************************************************************)
EXTENDS SequencesExt, FiniteSetTheorems, SequenceTheorems,
        WellFoundedInduction, TLAPS

LEMMA RangeOf ==
  ASSUME NEW T, NEW s \in Seq(T)
  PROVE  \A e : e \in Range(s) <=> \E i \in 1..Len(s) : s[i] = e
BY RangeEquality

LEMMA RangeAppend ==
  ASSUME NEW T, NEW s \in Seq(T), NEW e \in T
  PROVE  e \in Range(Append(s, e))
<1>1. /\ Append(s, e) \in Seq(T) /\ Len(Append(s, e)) = Len(s) + 1
      /\ Append(s, e)[Len(s) + 1] = e
  BY AppendProperties
<1>2. Len(s) + 1 \in DOMAIN Append(s, e)
  BY <1>1, LenProperties
<1> QED BY <1>1, <1>2 DEF Range

LEMMA RangeTail ==
  ASSUME NEW T, NEW s \in Seq(T), s # <<>>
  PROVE  /\ Tail(s) \in Seq(T) /\ Head(s) \in T
         /\ Range(s) = Range(Tail(s)) \cup {Head(s)}
<1> DEFINE t == Tail(s)
<1>1. /\ t \in Seq(T) /\ Head(s) \in T /\ Head(s) = s[1] /\ Len(t) = Len(s) - 1
      /\ \A i \in 1..Len(t) : t[i] = s[i + 1]
  BY HeadTailProperties
<1>2. Len(s) \in Nat \ {0}
  BY EmptySeq
<1> HIDE DEF t
<1>3. ASSUME NEW i \in 1..Len(s) PROVE s[i] \in Range(t) \cup {Head(s)}
  <2>1. CASE i = 1  BY <1>1, <2>1
  <2>2. CASE i # 1
    <3>1. i - 1 \in 1..Len(t) /\ (i - 1) + 1 = i
      BY <1>1, <1>2, <2>2
    <3>2. t[i - 1] = s[i]
      BY <1>1, <3>1
    <3> QED BY <1>1, <3>1, <3>2, RangeOf
  <2> QED BY <2>1, <2>2
<1>4. ASSUME NEW i \in 1..Len(t) PROVE t[i] \in Range(s)
  <2>1. i + 1 \in 1..Len(s) /\ t[i] = s[i + 1]
    BY <1>1, <1>2
  <2> QED BY <2>1, RangeOf
<1>5. Head(s) \in Range(s)
  <2>1. 1 \in 1..Len(s) /\ s[1] = Head(s)
    BY <1>1, <1>2
  <2> QED BY <2>1, RangeOf
<1>6. \A e : e \in Range(s) <=> e \in Range(t) \cup {Head(s)}
  BY <1>1, <1>3, <1>4, <1>5, RangeOf
<1> QED BY <1>1, <1>6 DEF t

LEMMA InjectiveTail ==
  ASSUME NEW T, NEW s \in Seq(T), s # <<>>, IsInjective(s)
  PROVE  IsInjective(Tail(s)) /\ Head(s) \notin Range(Tail(s))
<1> DEFINE t == Tail(s)
<1>1. /\ t \in Seq(T) /\ Head(s) = s[1] /\ Len(t) = Len(s) - 1
      /\ \A n \in 1..Len(t) : t[n] = s[n + 1]
  BY HeadTailProperties
<1>2. Len(s) \in Nat \ {0} /\ DOMAIN s = 1..Len(s) /\ DOMAIN t = 1..Len(t)
  BY <1>1, EmptySeq, LenProperties
<1> HIDE DEF t
<1>3. \A n \in 1..Len(t) : n + 1 \in 1..Len(s) /\ n + 1 # 1 /\ t[n] = s[n + 1]
  BY <1>1, <1>2
<1>4. \A m, n \in 1..Len(s) : s[m] = s[n] => m = n
  BY <1>2 DEF IsInjective
<1>5. IsInjective(t)
  <2> SUFFICES ASSUME NEW m \in 1..Len(t), NEW n \in 1..Len(t), t[m] = t[n]
               PROVE  m = n
    BY <1>2 DEF IsInjective
  <2>1. m + 1 = n + 1
    BY <1>3, <1>4
  <2> QED BY <2>1
<1>6. Head(s) \notin Range(t)
  <2>1. 1 \in 1..Len(s)
    BY <1>2
  <2>2. \A n \in 1..Len(t) : t[n] # s[1]
    BY <1>3, <1>4, <2>1
  <2> QED BY <1>1, <2>2, RangeOf
<1> QED BY <1>5, <1>6 DEF t

LEMMA InjectiveAppend ==
  ASSUME NEW T, NEW s \in Seq(T), NEW e \in T, IsInjective(s),
         e \notin Range(s)
  PROVE  /\ IsInjective(Append(s, e))
         /\ Range(Append(s, e)) = Range(s) \cup {e}
<1> DEFINE a == Append(s, e)
<1>1. /\ a \in Seq(T) /\ Len(a) = Len(s) + 1 /\ a[Len(s) + 1] = e
      /\ \A n \in 1..Len(s) : a[n] = s[n]
  BY AppendProperties
<1>2. Len(s) \in Nat /\ DOMAIN s = 1..Len(s) /\ DOMAIN a = 1..Len(a)
  BY <1>1, LenProperties
<1> HIDE DEF a
<1>3. \A n \in 1..Len(a) : n = Len(s) + 1 \/ n \in 1..Len(s)
  BY <1>1, <1>2
<1>4. \A n \in 1..Len(s) : s[n] # e
  BY RangeOf
<1>5. IsInjective(a)
  <2> SUFFICES ASSUME NEW m \in 1..Len(a), NEW n \in 1..Len(a), a[m] = a[n]
               PROVE  m = n
    BY <1>2 DEF IsInjective
  <2>1. CASE m \in 1..Len(s) /\ n \in 1..Len(s)
    BY <1>1, <1>2, <2>1 DEF IsInjective
  <2>2. CASE m = Len(s) + 1 \/ n = Len(s) + 1
    BY <1>1, <1>3, <1>4, <2>2
  <2> QED BY <1>3, <2>1, <2>2
<1>6. Range(a) = Range(s) \cup {e}
  <2>1. Range(a) \subseteq Range(s) \cup {e}
    BY <1>1, <1>3, RangeOf
  <2>2. Range(s) \subseteq Range(a)
    <3>1. \A n \in 1..Len(s) : n \in 1..Len(a)
      BY <1>1, <1>2
    <3> QED BY <1>1, <3>1, RangeOf
  <2>3. e \in Range(a)
    <3>1. Len(s) + 1 \in 1..Len(a)
      BY <1>1, <1>2
    <3> QED BY <1>1, <3>1, RangeOf
  <2> QED BY <2>1, <2>2, <2>3
<1> QED BY <1>5, <1>6 DEF a

(* Where an element is erased the others stay, in their order. *)
LEMMA ErasedAt ==
  ASSUME NEW S, NEW s \in Seq(S), NEW n \in DOMAIN s
  PROVE  /\ RemoveAt(s, n) \in Seq(S)
         /\ Len(RemoveAt(s, n)) = Len(s) - 1
         /\ \A k \in 1..Len(s) - 1 :
              RemoveAt(s, n)[k] = IF k < n THEN s[k] ELSE s[k + 1]
<1> DEFINE front == SubSeq(s, 1, n - 1)
           back == SubSeq(s, n + 1, Len(s))
<1>1. n \in 1..Len(s) /\ Len(s) \in Nat  OBVIOUS
<1>2. /\ front \in Seq(S) /\ Len(front) = n - 1
      /\ \A k \in 1..n - 1 : front[k] = s[k]
  BY <1>1
<1>3. /\ back \in Seq(S) /\ Len(back) = Len(s) - n
      /\ \A k \in 1..Len(s) - n : back[k] = s[n + k]
  BY <1>1
<1>4. RemoveAt(s, n) = front \o back  BY DEF RemoveAt
<1> HIDE DEF front, back
<1>5. /\ front \o back \in Seq(S) /\ Len(front \o back) = Len(s) - 1
      /\ \A k \in 1..n - 1 : (front \o back)[k] = front[k]
      /\ \A k \in n..Len(s) - 1 : (front \o back)[k] = back[k - (n - 1)]
  BY <1>1, <1>2, <1>3, SMTT(20)
<1>6. ASSUME NEW k \in 1..Len(s) - 1
      PROVE  (front \o back)[k] = IF k < n THEN s[k] ELSE s[k + 1]
  <2>1. CASE k < n  BY <2>1, <1>1, <1>2, <1>5
  <2>2. CASE ~(k < n)
    <3>1. k \in n..Len(s) - 1 /\ k - (n - 1) \in 1..Len(s) - n
      BY <2>2, <1>1
    <3>2. n + (k - (n - 1)) = k + 1  BY <1>1
    <3> QED BY <2>2, <3>1, <3>2, <1>3, <1>5
  <2> QED BY <2>1, <2>2
<1> QED BY <1>4, <1>5, <1>6

(* The entry behind k is the first one with a greater id. *)
LEMMA LeastExists ==
  ASSUME NEW T \in SUBSET Nat, T # {}
  PROVE  \E m \in T : \A i \in T : m <= i
<1> DEFINE Ups == {0..n : n \in T}
<1>1. Ups \subseteq FiniteSubsetsOf(Nat) /\ Ups # {}
  <2>1. ASSUME NEW n \in T PROVE 0..n \in FiniteSubsetsOf(Nat)
    BY FS_Interval DEF FiniteSubsetsOf
  <2> QED BY <2>1
<1>2. IsWellFoundedOn(StrictSubsetOrdering(Nat), FiniteSubsetsOf(Nat))
  BY FS_StrictSubsetOrderingWellFounded
<1>3. PICK U \in Ups : \A V \in Ups : <<V, U>> \notin StrictSubsetOrdering(Nat)
  <2> HIDE DEF Ups
  <2> QED BY <1>1, <1>2, WFMin
<1>4. PICK m \in T : U = 0..m
  OBVIOUS
<1>5. ASSUME NEW i \in T, i < m PROVE FALSE
  <2>1. 0..i \in Ups
    OBVIOUS
  <2>2. 0..i \subseteq 0..m /\ m \in 0..m /\ m \notin 0..i
    BY <1>5
  <2>3. <<0..i, 0..m>> \in StrictSubsetOrdering(Nat)
    BY <2>2 DEF StrictSubsetOrdering
  <2> QED BY <1>3, <1>4, <2>1, <2>3
<1> QED BY <1>5

LEMMA UpToCounted ==
  ASSUME NEW n \in Nat
  PROVE  IsFiniteSet(1..n) /\ Cardinality(1..n) = n
<1>1. /\ IsFiniteSet(1..n)
      /\ Cardinality(1..n) = IF 1 > n THEN 0 ELSE n - 1 + 1
  BY FS_Interval
<1> QED BY <1>1

(* An injective sequence is as long as its range is large. *)
LEMMA RangeCounted ==
  ASSUME NEW T, NEW s \in Seq(T), IsInjective(s)
  PROVE  IsFiniteSet(Range(s)) /\ Cardinality(Range(s)) = Len(s)
<1>1. Len(s) \in Nat /\ DOMAIN s = 1..Len(s)
  BY LenProperties
<1>2. IsFiniteSet(1..Len(s)) /\ Cardinality(1..Len(s)) = Len(s)
  BY <1>1, UpToCounted
<1>3. s \in Bijection(1..Len(s), Range(s))
  BY <1>1, RangeOf
  DEF Bijection, Injection, Surjection, IsInjective, Range
<1> QED BY <1>1, <1>2, <1>3, FS_Bijection DEF ExistsBijection

LEMMA RangeOfAppend ==
  ASSUME NEW T, NEW s \in Seq(T), NEW e \in T
  PROVE  Range(Append(s, e)) = Range(s) \cup {e}
<1> DEFINE a == Append(s, e)
<1>1. /\ a \in Seq(T) /\ Len(a) = Len(s) + 1 /\ a[Len(s) + 1] = e
      /\ \A n \in 1..Len(s) : a[n] = s[n]
  BY AppendProperties
<1>2. Len(s) \in Nat /\ DOMAIN s = 1..Len(s) /\ DOMAIN a = 1..Len(a)
  BY <1>1, LenProperties
<1> HIDE DEF a
<1>3. \A n \in 1..Len(a) : n = Len(s) + 1 \/ n \in 1..Len(s)
  BY <1>1, <1>2
<1>4. Range(a) \subseteq Range(s) \cup {e}
  BY <1>1, <1>3, RangeOf
<1>5. Range(s) \subseteq Range(a)
  <2>1. \A n \in 1..Len(s) : n \in 1..Len(a)
    BY <1>1, <1>2
  <2> QED BY <1>1, <2>1, RangeOf
<1>6. e \in Range(a)
  BY RangeAppend DEF a
<1> QED BY <1>4, <1>5, <1>6 DEF a

LEMMA RangeOfFront ==
  ASSUME NEW T, NEW s \in Seq(T), s # <<>>
  PROVE  LET t == SubSeq(s, 1, Len(s) - 1)
         IN  /\ t \in Seq(T) /\ Len(t) = Len(s) - 1
             /\ \A i \in 1..Len(s) - 1 : t[i] = s[i]
             /\ s[Len(s)] \in T
             /\ Range(s) = Range(t) \cup {s[Len(s)]}
<1> DEFINE t == SubSeq(s, 1, Len(s) - 1)
<1>1. PICK k \in Nat : k = Len(s)
  BY LenProperties
<1>2. k > 0 /\ DOMAIN s = 1..k /\ k \in 1..k /\ k - 1 \in 0..k
  BY <1>1, LenProperties, EmptySeq
<1>3. /\ t \in Seq(T) /\ Len(t) = k - 1
      /\ \A i \in 1..k - 1 : t[i] = s[i]
  BY <1>1, <1>2, SubSeqProperties
<1>4. s[k] \in T
  BY <1>1, <1>2, ElementOfSeq
<1> HIDE DEF t
<1>5. \A i \in 1..k : i = k \/ i \in 1..k - 1
  BY <1>2
<1>6. Range(s) \subseteq Range(t) \cup {s[k]}
  BY <1>1, <1>3, <1>5, RangeOf
<1>7. \A i \in 1..k - 1 : i \in 1..k
  BY <1>2
<1>8. Range(t) \subseteq Range(s) /\ s[k] \in Range(s)
  <2>1. /\ \A e : e \in Range(s) <=> \E i \in 1..k : s[i] = e
        /\ \A e : e \in Range(t) <=> \E i \in 1..k - 1 : t[i] = e
    BY <1>1, <1>3, RangeOf
  <2> QED BY <1>2, <1>3, <1>7, <2>1
<1> QED BY <1>1, <1>3, <1>4, <1>6, <1>8 DEF t
=============================================================================
