------------------------ MODULE ScriptEngine_proofs ------------------------
(***************************************************************************)
(* The results of calls (FeatureInstanceQjs) and the objects of instances  *)
(* (FeatureManagerQjs): an inductive invariant of each, and what follows   *)
(* for a script engine that steps either.                                  *)
(***************************************************************************)
EXTENDS MCScriptEngine, SequenceLemmas

-----------------------------------------------------------------------------
(***************************************************************************)
(* The results of calls.  A function that runs was counted when it was     *)
(* called and is on the stack until it returns; an id has one operation,   *)
(* and a function leaves callbacks_ when an operation it is shared with    *)
(* has heard its answer.                                                   *)
(***************************************************************************)

PromiseOps == {o \in Op : kind[o] \in {"promise", "async"}}
CallbackOps == {o \in Op : kind[o] = "callback"}

(* Ids are given out once, not more than operations have started, and      *)
(* promises_ has an operation nowhere but under its id.                    *)
IdsInv ==
  /\ curr_pid <= Cardinality(PromiseOps)
  /\ curr_cid <= Cardinality(CallbackOps)
  /\ \A o \in PromiseOps : id[o] \in Pid /\ id[o] < curr_pid
  /\ \A o \in CallbackOps : id[o] \in 1..curr_cid
  /\ \A p \in Pid : promises[p] # Nil =>
       promises[p] \in PromiseOps /\ id[promises[p]] = p
  /\ leaving = "yes" => \A p \in Pid : promises[p] = Nil
  /\ \A c \in Cid : callbacks[c] # Nil => c <= curr_cid

(* An operation has one function running at a time.                        *)
OnceOn(s) ==
  \A j, k \in DOMAIN s : s[j].op = s[k].op /\ s[j].op # Nil => j = k

(* What is running was called, and nothing behind it yet.                  *)
Entered(e) ==
  /\ e.op # Nil /\ e.run # "callback" =>
       kind[e.op] = "async" /\ e.op \in settled
  /\ e.run = "callback" =>
       kind[e.op] = "callback" /\ called[e.op]["callback"] >= 1
  /\ e.run \in Outcome =>
       /\ called[e.op]["success"] + called[e.op]["fail"] = 1
       /\ called[e.op]["complete"] = 0

StackInv == OnceOn(stack) /\ \A e \in Range(stack) : Entered(e)

(* An operation that is not settled was not called.                        *)
SettleInv ==
  /\ \A o \in Op :
       o \notin settled =>
         /\ called[o]["success"] = 0 /\ called[o]["fail"] = 0
         /\ called[o]["complete"] = 0
  /\ settled \subseteq PromiseOps /\ unheard \subseteq CallbackOps

Shared(o) == \E p \in CallbackOps \ {o} : fn[p] = fn[o]

(* A function leaves callbacks_ when an operation that shares it returns.  *)
Registered(o) ==
  /\ fn[o] \in Fn
  /\ callbacks[id[o]] \in {fn[o], Nil}
  /\ \A p \in CallbackOps : id[p] = id[o] => fn[p] = fn[o]
  /\ \/ leaving = "yes" \/ called[o]["callback"] >= 1
     \/ callbacks[id[o]] = fn[o] \/ Shared(o)

HeardInv == \A o \in CallbackOps : Registered(o)

Unheard == \A o \in unheard : Shared(o)

ResultsInv ==
  /\ ResultsTypeOK /\ IdsInv /\ StackInv /\ SettleInv /\ HeardInv
  /\ OutcomeOnce /\ Unheard

-----------------------------------------------------------------------------
(* The stack of running functions *)

LEMMA PushOne ==
  ASSUME NEW s \in Seq(Inside), OnceOn(s), NEW e \in Inside,
         e.op = Nil \/ \A d \in Range(s) : d.op # e.op
  PROVE  /\ Append(s, e) \in Seq(Inside) /\ OnceOn(Append(s, e))
         /\ Range(Append(s, e)) = Range(s) \cup {e}
<1> DEFINE t == Append(s, e)
<1>1. /\ t \in Seq(Inside) /\ Len(t) = Len(s) + 1 /\ Len(s) \in Nat
      /\ \A i \in 1..Len(s) : t[i] = s[i]
      /\ t[Len(s) + 1] = e
  BY AppendProperties, LenProperties
<1>2. Range(t) = Range(s) \cup {e}
  BY RangeOfAppend
<1> HIDE DEF t
<1>3. DOMAIN s = 1..Len(s) /\ DOMAIN t = 1..Len(s) + 1
  BY <1>1, LenProperties
<1>4. \A i \in 1..Len(s) : s[i] \in Range(s)
  BY <1>3 DEF Range
<1>5. OnceOn(t)
  <2> SUFFICES ASSUME NEW j \in 1..Len(s) + 1, NEW k \in 1..Len(s) + 1,
                      t[j].op = t[k].op, t[j].op # Nil
               PROVE  j = k
    BY <1>3 DEF OnceOn
  <2>1. CASE j <= Len(s) /\ k <= Len(s)
    BY <1>1, <1>3, <2>1 DEF OnceOn
  <2>2. CASE j = Len(s) + 1 /\ k <= Len(s)
    BY <1>1, <1>4, <2>2
  <2>3. CASE k = Len(s) + 1 /\ j <= Len(s)
    BY <1>1, <1>4, <2>3
  <2> QED BY <1>1, <2>1, <2>2, <2>3
<1> QED BY <1>1, <1>2, <1>5 DEF t

LEMMA PopOne ==
  ASSUME NEW s \in Seq(Inside), OnceOn(s), s # <<>>
  PROVE  LET t == SubSeq(s, 1, Len(s) - 1)
             e == s[Len(s)]
         IN  /\ t \in Seq(Inside) /\ OnceOn(t) /\ e \in Inside
             /\ Range(s) = Range(t) \cup {e}
             /\ e.op # Nil => \A d \in Range(t) : d.op # e.op
<1> DEFINE t == SubSeq(s, 1, Len(s) - 1)
           e == s[Len(s)]
<1>1. /\ t \in Seq(Inside) /\ e \in Inside
      /\ Range(s) = Range(t) \cup {e}
  BY RangeOfFront
<1>2. PICK k \in Nat : k = Len(s)
  BY LenProperties
<1>3. /\ DOMAIN s = 1..k /\ k > 0
      /\ DOMAIN t = 1..k - 1 /\ \A i \in 1..k - 1 : t[i] = s[i]
  <2>1. k > 0 /\ DOMAIN s = 1..k
    BY <1>2, LenProperties, EmptySeq
  <2>2. Len(t) = k - 1 /\ \A i \in 1..k - 1 : t[i] = s[i]
    BY <1>2, RangeOfFront
  <2> QED BY <1>1, <2>1, <2>2, LenProperties
<1> HIDE DEF t
<1>4. \A i \in 1..k - 1 : i \in 1..k /\ i # k
  BY <1>3
<1>5. OnceOn(t)
  BY <1>3, <1>4 DEF OnceOn
<1>6. e.op # Nil => \A d \in Range(t) : d.op # e.op
  <2> SUFFICES ASSUME e.op # Nil, NEW i \in 1..k - 1, t[i].op = e.op
               PROVE  FALSE
    BY <1>3 DEF Range
  <2>1. s[i].op = s[k].op /\ s[k].op # Nil
    BY <1>2, <1>3
  <2> QED BY <1>3, <1>4, <2>1 DEF OnceOn
<1> QED BY <1>1, <1>5, <1>6 DEF t

LEMMA OnStackRange == \A o : OnStack(o) <=> \E e \in Range(stack) : e.op = o
BY DEF OnStack, Range

LEMMA InsideOp ==
  ASSUME NEW e \in Inside
  PROVE  /\ e.op \in Op \cup {Nil}
         /\ e.op = Nil <=> e.run = "onDetached"
         /\ e.run \in Function \cup {"onDetached"}
BY NilAssumption DEF Inside, Function, Outcome

-----------------------------------------------------------------------------
(* Counting *)

CountOne(o, f) == called' = [called EXCEPT ![o][f] = @ + 1]

LEMMA CallCounts ==
  ASSUME ResultsTypeOK, NEW o \in Op, NEW f \in Function, CountOne(o, f)
  PROVE  /\ called' \in [Op -> [Function -> Nat]]
         /\ called'[o][f] = called[o][f] + 1
         /\ \A g \in Function \ {f} : called'[o][g] = called[o][g]
         /\ \A q \in Op \ {o} : called'[q] = called[q]
BY DEF ResultsTypeOK, CountOne

LEMMA CountsTyped ==
  ASSUME ResultsTypeOK, NEW o \in Op
  PROVE  /\ called[o]["success"] \in Nat /\ called[o]["fail"] \in Nat
         /\ called[o]["complete"] \in Nat /\ called[o]["callback"] \in Nat
BY DEF ResultsTypeOK, Function, Outcome

LEMMA RemoveTyped ==
  ASSUME ResultsTypeOK, NEW o \in Op, RemovePromise(o)
  PROVE  /\ promises' \in [Pid -> Op \cup {Nil}]
         /\ \A p \in Pid : promises'[p] = Nil \/ promises'[p] = promises[p]
         /\ \A p \in Pid : promises'[p] # o
         /\ \A q \in Op \ {o}, p \in Pid : promises'[p] = q <=> promises[p] = q
BY NilAssumption DEF ResultsTypeOK, RemovePromise

(* Steps that give out no id, and at most take data away.                  *)
LEMMA IdsStay ==
  ASSUME ResultsTypeOK, IdsInv,
         UNCHANGED <<kind, id, curr_pid, curr_cid, leaving>>,
         \A p \in Pid : promises'[p] = Nil \/ promises'[p] = promises[p],
         \A c \in Cid : callbacks'[c] = Nil \/ callbacks'[c] = callbacks[c]
  PROVE  IdsInv'
BY DEF IdsInv, PromiseOps, CallbackOps

LEMMA HeardStays ==
  ASSUME ResultsTypeOK, HeardInv, CallbackOps' = CallbackOps,
         \A q \in CallbackOps : id'[q] = id[q], fn' = fn,
         callbacks' = callbacks,
         leaving' = leaving \/ (leaving' = "running" /\ leaving = "no"),
         \A q \in Op : called'[q]["callback"] \in Nat
                       /\ called'[q]["callback"] >= called[q]["callback"]
  PROVE  HeardInv'
<1>1. CallbackOps \subseteq Op
  BY DEF CallbackOps
<1>2. ASSUME NEW q \in CallbackOps PROVE Shared(q)' <=> Shared(q)
  BY DEF Shared
<1>3. ASSUME NEW q \in CallbackOps PROVE Registered(q)'
  <2>1. Registered(q) /\ q \in Op
    BY <1>1 DEF HeardInv
  <2>2. called[q]["callback"] \in Nat
    BY <2>1, CountsTyped
  <2> QED BY <1>1, <1>2, <2>1, <2>2 DEF Registered
<1> QED BY <1>3 DEF HeardInv

LEMMA UnheardStays ==
  ASSUME Unheard, CallbackOps \subseteq CallbackOps', fn' = fn,
         unheard' = unheard
  PROVE  Unheard'
BY DEF Unheard, Shared

-----------------------------------------------------------------------------
(* The two parts of OutcomeOnce                                            *)

CountsOnce(o) ==
  /\ called[o]["success"] + called[o]["fail"] <= 1
  /\ called[o]["complete"] <= 1
  /\ called[o]["complete"] = 1 /\ Outcome \subseteq given[o] =>
       called[o]["success"] + called[o]["fail"] = 1

KeptUntil(o) ==
  leaving # "yes" /\ kind[o] \in {"promise", "async"} =>
    (Live(o) <=> (o \notin settled \/ OnStack(o)))

LEMMA OutcomeParts == OutcomeOnce <=> \A o \in Op : CountsOnce(o) /\ KeptUntil(o)
BY Zenon DEF OutcomeOnce, CountsOnce, KeptUntil

LEMMA OutcomePartsNext ==
  (\A o \in Op : CountsOnce(o)' /\ KeptUntil(o)') => OutcomeOnce'
BY Zenon DEF OutcomeOnce, CountsOnce, KeptUntil

(* What a step does for one operation, the others do not notice.           *)
LEMMA OthersKept ==
  ASSUME OutcomeOnce, NEW o, NEW q \in Op, q # o,
         called'[q] = called[q], given'[q] = given[q], kind'[q] = kind[q],
         leaving' = leaving \/ leaving' = "yes"
           \/ (leaving' = "running" /\ leaving = "no"),
         leaving' # "yes" /\ kind[q] \in {"promise", "async"} =>
           (Live(q)' <=> Live(q)),
         q \in settled' <=> q \in settled,
         OnStack(q)' <=> OnStack(q)
  PROVE  CountsOnce(q)' /\ KeptUntil(q)'
<1>1. CountsOnce(q) /\ KeptUntil(q)
  BY OutcomeParts
<1>2. CountsOnce(q)'
  BY <1>1 DEF CountsOnce
<1>3. leaving' # "yes" => leaving # "yes"
  OBVIOUS
<1>4. KeptUntil(q)'
  BY <1>1, <1>3, Zenon DEF KeptUntil
<1> QED BY <1>2, <1>4

LEMMA OthersEntered ==
  ASSUME NEW e, Entered(e), called'[e.op] = called[e.op],
         kind'[e.op] = kind[e.op], settled \subseteq settled'
  PROVE  Entered(e)'
BY DEF Entered

-----------------------------------------------------------------------------
(* Starting operations *)

LEMMA RoomToStart ==
  ASSUME ResultsTypeOK, IdsInv, NEW o \in Op, kind[o] = "none"
  PROVE  /\ curr_pid \in Pid /\ curr_cid + 1 \in Cid
         /\ curr_pid \in Nat /\ curr_cid \in Nat /\ Cardinality(Op) \in Nat
         /\ IsFiniteSet(PromiseOps) /\ IsFiniteSet(CallbackOps)
         /\ o \notin PromiseOps /\ o \notin CallbackOps
<1>1. PromiseOps \subseteq Op \ {o} /\ CallbackOps \subseteq Op \ {o}
  BY DEF PromiseOps, CallbackOps
<1>2. /\ IsFiniteSet(Op \ {o}) /\ Cardinality(Op \ {o}) = Cardinality(Op) - 1
      /\ Cardinality(Op) \in Nat
  BY OpAssumption, FS_RemoveElement, FS_CardinalityType
<1>3. /\ IsFiniteSet(PromiseOps) /\ IsFiniteSet(CallbackOps)
      /\ Cardinality(PromiseOps) <= Cardinality(Op) - 1
      /\ Cardinality(CallbackOps) <= Cardinality(Op) - 1
  BY <1>1, <1>2, FS_Subset
<1>4. Cardinality(PromiseOps) \in Nat /\ Cardinality(CallbackOps) \in Nat
  BY <1>3, FS_CardinalityType
<1>5. /\ curr_pid \in Nat /\ curr_pid <= Cardinality(PromiseOps)
      /\ curr_cid \in Nat /\ curr_cid <= Cardinality(CallbackOps)
  BY <1>2 DEF ResultsTypeOK, IdsInv
<1> HIDE DEF PromiseOps, CallbackOps
<1>6. curr_pid \in 0..(Cardinality(Op) - 1) /\ curr_cid + 1 \in 1..Cardinality(Op)
  BY <1>2, <1>3, <1>4, <1>5
<1> QED BY <1>1, <1>2, <1>3, <1>5, <1>6 DEF Pid, Cid

LEMMA NotStartedNotOn ==
  ASSUME ResultsTypeOK, StackInv, NEW o \in Op, kind[o] = "none"
  PROVE  \A e \in Range(stack) : e.op # o
<1> SUFFICES ASSUME NEW e \in Range(stack), e.op = o PROVE FALSE
  OBVIOUS
<1>1. Entered(e) /\ o # Nil
  BY NilAssumption DEF StackInv
<1> QED BY <1>1 DEF Entered

LEMMA StartKeeps ==
  ASSUME ResultsInv, NEW o \in Op, NEW k \in {"promise", "async"},
         kind[o] = "none", leaving = "no",
         kind' = [kind EXCEPT ![o] = k], AddPromise(o),
         given' \in [Op -> SUBSET (Outcome \cup {"complete"})],
         \A q \in Op \ {o} : given'[q] = given[q],
         UNCHANGED <<fn, callbacks, curr_cid, leaving, stack, called, settled,
                     unheard>>
  PROVE  ResultsInv'
<1> USE DEF ResultsInv
<1>1. /\ curr_pid \in Pid /\ curr_pid \in Nat /\ Cardinality(Op) \in Nat
      /\ IsFiniteSet(PromiseOps) /\ o \notin PromiseOps
      /\ o \notin CallbackOps
  BY RoomToStart
<1>2. /\ kind \in [Op -> {"none", "promise", "async", "callback"}]
      /\ id \in [Op -> Pid \cup Cid] /\ promises \in [Pid -> Op \cup {Nil}]
  BY DEF ResultsTypeOK
<1>3. /\ promises' = [promises EXCEPT ![curr_pid] = o]
      /\ id' = [id EXCEPT ![o] = curr_pid]
      /\ curr_pid' = curr_pid + 1
  BY DEF AddPromise
<1>4. ResultsTypeOK'
  <2>1. curr_pid' \in 0..Cardinality(Op)
    BY <1>1, <1>3 DEF Pid
  <2> QED BY <1>1, <1>2, <1>3, <2>1 DEF ResultsTypeOK
<1>5. PromiseOps' = PromiseOps \cup {o} /\ CallbackOps' = CallbackOps
  BY <1>1, <1>2 DEF PromiseOps, CallbackOps
<1>6. \A q \in Op \ {o} : kind'[q] = kind[q] /\ id'[q] = id[q]
  BY <1>2, <1>3
<1>7. kind'[o] = k /\ id'[o] = curr_pid
  BY <1>2, <1>3
<1>8. PromiseOps \subseteq Op \ {o} /\ CallbackOps \subseteq Op \ {o}
  BY <1>1 DEF PromiseOps, CallbackOps
<1>9. IdsInv'
  <2>1. curr_pid' <= Cardinality(PromiseOps')
    <3>1. Cardinality(PromiseOps \cup {o}) = Cardinality(PromiseOps) + 1
          /\ Cardinality(PromiseOps) \in Nat
      BY <1>1, FS_AddElement, FS_CardinalityType
    <3>2. curr_pid <= Cardinality(PromiseOps)
      BY DEF IdsInv
    <3> QED BY <1>1, <1>3, <1>5, <3>1, <3>2
  <2>2. \A q \in PromiseOps' : id'[q] \in Pid /\ id'[q] < curr_pid'
    BY <1>1, <1>3, <1>5, <1>6, <1>7, <1>8 DEF IdsInv, Pid
  <2>3. \A q \in CallbackOps' : id'[q] \in 1..curr_cid'
    BY <1>5, <1>6, <1>8 DEF IdsInv
  <2>4. ASSUME NEW p \in Pid, promises'[p] # Nil
        PROVE  promises'[p] \in PromiseOps' /\ id'[promises'[p]] = p
    <3>1. CASE p = curr_pid
      BY <1>2, <1>3, <1>5, <1>7, <3>1
    <3>2. CASE p # curr_pid
      BY <1>2, <1>3, <1>5, <1>6, <1>8, <2>4, <3>2 DEF IdsInv
    <3> QED BY <3>1, <3>2
  <2>5. curr_cid' <= Cardinality(CallbackOps')
    BY <1>5 DEF IdsInv
  <2>6. \A c \in Cid : callbacks'[c] # Nil => c <= curr_cid'
    BY DEF IdsInv
  <2> QED BY <2>1, <2>2, <2>3, <2>4, <2>5, <2>6 DEF IdsInv
<1>10. \A e \in Range(stack) : e.op # o
  BY NotStartedNotOn
<1>11. StackInv'
  <2>1. ASSUME NEW e \in Range(stack) PROVE Entered(e)'
    <3>1. Entered(e) /\ e.op # o
      BY <1>10 DEF StackInv
    <3>2. kind'[e.op] = kind[e.op]
      BY <1>2, <3>1
    <3> QED BY <3>1, <3>2, OthersEntered
  <2> QED BY <2>1 DEF StackInv
<1>12. SettleInv'
  BY <1>5 DEF SettleInv
<1>13. HeardInv'
  <2>1. \A q \in Op : called[q]["callback"] \in Nat
    BY CountsTyped
  <2> QED BY <1>5, <1>6, <1>8, <2>1, HeardStays
<1>14. Unheard'
  BY <1>5, UnheardStays
<1>15. OutcomeOnce'
  <2>1. CountsOnce(o)' /\ KeptUntil(o)'
    <3>1. /\ called[o]["success"] = 0 /\ called[o]["fail"] = 0
          /\ called[o]["complete"] = 0 /\ o \notin settled
      BY <1>1 DEF SettleInv
    <3>2. Live(o)'
      BY <1>1, <1>2, <1>3, <1>7 DEF Live
    <3>3. CountsOnce(o)'
      BY <3>1 DEF CountsOnce
    <3>4. KeptUntil(o)'
      BY <3>1, <3>2, Zenon DEF KeptUntil
    <3> QED BY <3>3, <3>4
  <2>2. ASSUME NEW q \in Op, q # o PROVE CountsOnce(q)' /\ KeptUntil(q)'
    <3>1. kind[q] \in {"promise", "async"} => (Live(q)' <=> Live(q))
      <4> HAVE kind[q] \in {"promise", "async"}
      <4>1. id[q] \in Pid /\ id[q] # curr_pid
        BY <1>1 DEF IdsInv, PromiseOps, Pid
      <4>2. promises'[id[q]] = promises[id[q]] /\ id'[q] = id[q]
        BY <1>2, <1>3, <1>6, <2>2, <4>1
      <4> QED BY <4>2 DEF Live
    <3>2. OnStack(q)' <=> OnStack(q)
      BY DEF OnStack
    <3>3. kind'[q] = kind[q]
      BY <1>6, <2>2
    <3> QED BY <2>2, <3>1, <3>2, <3>3, OthersKept
  <2>3. \A q \in Op : CountsOnce(q)' /\ KeptUntil(q)'
    BY <2>1, <2>2
  <2> QED BY <2>3, OutcomePartsNext
<1> QED BY <1>4, <1>9, <1>11, <1>12, <1>13, <1>14, <1>15
LEMMA StartCallbackKeeps ==
  ASSUME ResultsInv, NEW o \in Op, NEW f \in Fn, StartCallback(o, f)
  PROVE  ResultsInv'
<1> USE DEF ResultsInv
<1>1. /\ curr_cid + 1 \in Cid /\ curr_cid \in Nat /\ Cardinality(Op) \in Nat
      /\ IsFiniteSet(CallbackOps) /\ o \notin PromiseOps
      /\ o \notin CallbackOps /\ kind[o] = "none"
  <2>1. kind[o] = "none"
    BY DEF StartCallback
  <2> QED BY <2>1, RoomToStart
<1>2. /\ kind \in [Op -> {"none", "promise", "async", "callback"}]
      /\ id \in [Op -> Pid \cup Cid] /\ callbacks \in [Cid -> Fn \cup {Nil}]
      /\ fn \in [Op -> Fn \cup {Nil}]
  BY DEF ResultsTypeOK
<1>3. /\ kind' = [kind EXCEPT ![o] = "callback"]
      /\ fn' = [fn EXCEPT ![o] = f] /\ AddCallback(o, f)
      /\ leaving = "no"
      /\ UNCHANGED <<given, promises, curr_pid, leaving, stack, called,
                     settled, unheard>>
  BY DEF StartCallback, ScriptRuns
<1>4. PICK c \in Cid :
        /\ id' = [id EXCEPT ![o] = c]
        /\ callbacks' = [callbacks EXCEPT ![c] = f]
        /\ \/ callbacks[c] = f /\ curr_cid' = curr_cid
           \/ c = curr_cid + 1 /\ curr_cid' = curr_cid + 1
  <2>1. CASE \E c \in Cid :
               /\ callbacks[c] = f /\ id' = [id EXCEPT ![o] = c]
               /\ UNCHANGED <<callbacks, curr_cid>>
    <3>1. PICK c \in Cid :
            /\ callbacks[c] = f /\ id' = [id EXCEPT ![o] = c]
            /\ UNCHANGED <<callbacks, curr_cid>>
      BY <2>1
    <3>2. callbacks' = [callbacks EXCEPT ![c] = f]
      BY <1>2, <3>1
    <3> QED BY <3>1, <3>2
  <2>2. CASE /\ id' = [id EXCEPT ![o] = curr_cid + 1]
             /\ callbacks' = [callbacks EXCEPT ![curr_cid + 1] = f]
             /\ curr_cid' = curr_cid + 1
    BY <1>1, <2>2
  <2> QED BY <1>3, <2>1, <2>2 DEF AddCallback
<1>5. PromiseOps' = PromiseOps /\ CallbackOps' = CallbackOps \cup {o}
  BY <1>1, <1>2, <1>3 DEF PromiseOps, CallbackOps
<1>6. PromiseOps \subseteq Op \ {o} /\ CallbackOps \subseteq Op \ {o}
  BY <1>1 DEF PromiseOps, CallbackOps
<1>7. \A q \in Op \ {o} : kind'[q] = kind[q] /\ id'[q] = id[q] /\ fn'[q] = fn[q]
  BY <1>2, <1>3, <1>4
<1>8. kind'[o] = "callback" /\ id'[o] = c /\ fn'[o] = f /\ callbacks'[c] = f
  BY <1>2, <1>3, <1>4
<1>9. /\ Cardinality(CallbackOps') = Cardinality(CallbackOps) + 1
      /\ Cardinality(CallbackOps) \in Nat
      /\ curr_cid <= Cardinality(CallbackOps)
  BY <1>1, <1>5, FS_AddElement, FS_CardinalityType DEF IdsInv
<1>10. ResultsTypeOK'
  <2>1. curr_cid' \in 0..Cardinality(Op)
    <3>1. curr_cid + 1 \in 0..Cardinality(Op)
      BY <1>1 DEF Cid
    <3> QED BY <1>4, <3>1 DEF ResultsTypeOK
  <2> QED BY <1>2, <1>3, <1>4, <2>1 DEF ResultsTypeOK
<1>11. \A q \in CallbackOps : id[q] \in 1..curr_cid /\ id[q] \in Cid
  <2>1. \A n \in 1..curr_cid : n \in Cid
    BY <1>1 DEF Cid
  <2> QED BY <2>1 DEF IdsInv
<1>12. \A q \in CallbackOps : id[q] = c => fn[q] = f
  <2> SUFFICES ASSUME NEW q \in CallbackOps, id[q] = c PROVE fn[q] = f
    OBVIOUS
  <2>1. callbacks[c] = f
    BY <1>1, <1>4, <1>11
  <2>2. callbacks[c] \in {fn[q], Nil}
    BY DEF HeardInv, Registered
  <2> QED BY <2>1, <2>2, NilAssumption
<1>13. c \in 1..curr_cid' /\ \A n \in 1..curr_cid : n \in 1..curr_cid'
  <2>1. callbacks[c] = f => c <= curr_cid
    BY NilAssumption DEF IdsInv
  <2> QED BY <1>1, <1>4, <2>1 DEF Cid
<1>14. IdsInv'
  <2>1. curr_pid' <= Cardinality(PromiseOps')
    BY <1>3, <1>5 DEF IdsInv
  <2>2. curr_cid' <= Cardinality(CallbackOps')
    BY <1>1, <1>4, <1>9
  <2>3. \A q \in PromiseOps' : id'[q] \in Pid /\ id'[q] < curr_pid'
    BY <1>3, <1>5, <1>6, <1>7 DEF IdsInv
  <2>4. \A q \in CallbackOps' : id'[q] \in 1..curr_cid'
    BY <1>5, <1>6, <1>7, <1>8, <1>13 DEF IdsInv
  <2>5. \A p \in Pid : promises'[p] # Nil =>
          promises'[p] \in PromiseOps' /\ id'[promises'[p]] = p
    BY <1>3, <1>5, <1>6, <1>7 DEF IdsInv
  <2>6. ASSUME NEW d \in Cid, callbacks'[d] # Nil PROVE d <= curr_cid'
    <3>1. CASE d = c
      BY <1>13, <3>1
    <3>2. CASE d # c
      <4>1. d <= curr_cid
        BY <1>2, <1>4, <2>6, <3>2 DEF IdsInv
      <4>2. d \in Nat
        BY <1>1 DEF Cid
      <4> QED BY <1>1, <1>4, <4>1, <4>2
    <3> QED BY <3>1, <3>2
  <2>7. leaving' # "yes"
    BY <1>3
  <2> QED BY <2>1, <2>2, <2>3, <2>4, <2>5, <2>6, <2>7 DEF IdsInv
<1>15. StackInv'
  <2>1. \A e \in Range(stack) : e.op # o
    BY <1>1, NotStartedNotOn
  <2>2. ASSUME NEW e \in Range(stack) PROVE Entered(e)'
    <3>1. Entered(e) /\ e.op # o
      BY <2>1 DEF StackInv
    <3>2. kind'[e.op] = kind[e.op]
      BY <1>2, <1>3, <3>1
    <3> QED BY <1>3, <3>1, <3>2, OthersEntered
  <2> QED BY <1>3, <2>2 DEF StackInv
<1>16. SettleInv'
  BY <1>3, <1>5 DEF SettleInv
<1>17. \A q \in CallbackOps : Shared(q) => Shared(q)'
  BY <1>5, <1>6, <1>7 DEF Shared
<1>18. HeardInv'
  <2>1. Registered(o)'
    BY <1>5, <1>6, <1>7, <1>8, <1>12 DEF Registered
  <2>2. ASSUME NEW q \in CallbackOps PROVE Registered(q)'
    <3>1. Registered(q) /\ q \in Op \ {o} /\ id[q] \in Cid
      BY <1>6, <1>11 DEF HeardInv
    <3>2. id'[q] = id[q] /\ fn'[q] = fn[q]
      BY <1>7, <3>1
    <3>3. \A p \in CallbackOps' : id'[p] = id'[q] => fn'[p] = fn'[q]
      <4>1. \A p \in CallbackOps : id'[p] = id'[q] => fn'[p] = fn'[q]
        BY <1>6, <1>7, <3>1, <3>2 DEF Registered
      <4> QED BY <1>5, <1>8, <1>12, <3>2, <4>1
    <3>4. callbacks'[id[q]] = IF id[q] = c THEN fn[q] ELSE callbacks[id[q]]
      BY <1>2, <1>4, <1>12, <3>1
    <3> QED BY <1>3, <1>17, <3>1, <3>2, <3>3, <3>4 DEF Registered
  <2> QED BY <1>5, <2>1, <2>2 DEF HeardInv
<1>19. Unheard'
  BY <1>3, <1>17 DEF Unheard, SettleInv
<1>20. OutcomeOnce'
  <2>1. CountsOnce(o)' /\ KeptUntil(o)'
    <3>1. /\ called[o]["success"] = 0 /\ called[o]["fail"] = 0
          /\ called[o]["complete"] = 0
      BY <1>1 DEF SettleInv
    <3>2. CountsOnce(o)'
      BY <1>3, <3>1 DEF CountsOnce
    <3>3. KeptUntil(o)'
      BY <1>8 DEF KeptUntil
    <3> QED BY <3>2, <3>3
  <2>2. ASSUME NEW q \in Op, q # o PROVE CountsOnce(q)' /\ KeptUntil(q)'
    <3>1. Live(q)' <=> Live(q)
      BY <1>3, <1>7, <2>2 DEF Live
    <3>2. OnStack(q)' <=> OnStack(q)
      BY <1>3 DEF OnStack
    <3>3. kind'[q] = kind[q]
      BY <1>7, <2>2
    <3> QED BY <1>3, <2>2, <3>1, <3>2, <3>3, OthersKept
  <2> QED BY <2>1, <2>2, OutcomePartsNext
<1> QED BY <1>10, <1>14, <1>15, <1>16, <1>18, <1>19, <1>20
-----------------------------------------------------------------------------
(* Settling *)

(* An operation that may be settled was not called yet.                    *)
LEMMA UnsettledLive ==
  ASSUME "resettle" \notin Liberty, ResultsInv, NEW o \in Op,
         kind[o] \in {"promise", "async"}, MaySettle(o)
  PROVE  /\ leaving # "yes" /\ ~OnStack(o) /\ o \notin settled
         /\ called[o]["success"] = 0 /\ called[o]["fail"] = 0
         /\ called[o]["complete"] = 0 /\ o \in PromiseOps
<1>1. leaving # "yes" /\ ~OnStack(o) /\ Live(o)
  BY DEF MaySettle, NativeRuns
<1>2. KeptUntil(o)
  BY OutcomeParts DEF ResultsInv
<1>3. o \notin settled
  BY <1>1, <1>2 DEF KeptUntil
<1> QED BY <1>1, <1>3 DEF ResultsInv, SettleInv, PromiseOps

(* A step that settles operation o and calls at most its function f, not   *)
(* its plain callback.                                                     *)
SettlesOne(o, f) ==
  /\ called' = called \/ CountOne(o, f)
  /\ settled' = settled \cup {o}
  /\ promises' = promises \/ RemovePromise(o)
  /\ UNCHANGED <<kind, id, given, fn, curr_pid, callbacks, curr_cid, leaving,
                 unheard>>

LEMMA CalledOthers ==
  ASSUME ResultsTypeOK, NEW o \in Op, NEW f \in Outcome \cup {"complete"},
         SettlesOne(o, f)
  PROVE  /\ called' \in [Op -> [Function -> Nat]]
         /\ \A q \in Op \ {o} : called'[q] = called[q]
         /\ \A q \in Op : called'[q]["callback"] = called[q]["callback"]
<1>1. f \in Function /\ "callback" \in Function \ {f}
  BY DEF Function, Outcome
<1>2. CASE called' = called
  BY <1>2 DEF ResultsTypeOK
<1>3. CASE CountOne(o, f)
  BY <1>1, <1>3, CallCounts
<1> QED BY <1>2, <1>3 DEF SettlesOne

(* What else is running is not disturbed.                                  *)
LEMMA RunningUndisturbed ==
  ASSUME ResultsInv, NEW o \in Op, NEW f \in Outcome \cup {"complete"},
         SettlesOne(o, f), NEW e \in Range(stack), e.op # o
  PROVE  Entered(e)'
<1>1. Entered(e) /\ e \in Inside
  BY RangeOf, ElementOfSeq DEF ResultsInv, StackInv, ResultsTypeOK
<1>2. e.op \in Op \cup {Nil}
  BY <1>1, InsideOp
<1>3. CASE e.op \in Op
  <2>1. called'[e.op] = called[e.op]
    BY <1>3, CalledOthers DEF ResultsInv
  <2>2. kind'[e.op] = kind[e.op] /\ settled \subseteq settled'
    BY DEF SettlesOne
  <2> QED BY <1>1, <2>1, <2>2, OthersEntered
<1>4. CASE e.op = Nil
  <2>1. e.run = "onDetached"
    BY <1>1, <1>4, InsideOp
  <2> QED BY <1>4, <2>1 DEF Entered, Outcome
<1> QED BY <1>2, <1>3, <1>4

LEMMA SettledStep ==
  ASSUME ResultsInv, NEW o \in Op, NEW f \in Outcome \cup {"complete"},
         SettlesOne(o, f), o \in PromiseOps,
         stack' \in Seq(Inside), OnceOn(stack'),
         \A e \in Range(stack') : Entered(e)',
         \A q \in Op \ {o} : OnStack(q)' <=> OnStack(q),
         CountsOnce(o)', KeptUntil(o)'
  PROVE  ResultsInv'
<1> USE DEF ResultsInv
<1>1. /\ kind' = kind /\ id' = id /\ given' = given /\ fn' = fn
      /\ curr_pid' = curr_pid /\ callbacks' = callbacks
      /\ curr_cid' = curr_cid /\ leaving' = leaving /\ unheard' = unheard
      /\ settled' = settled \cup {o}
      /\ promises' = promises \/ RemovePromise(o)
  BY DEF SettlesOne
<1>2. /\ called' \in [Op -> [Function -> Nat]]
      /\ \A q \in Op \ {o} : called'[q] = called[q]
      /\ \A q \in Op : called'[q]["callback"] = called[q]["callback"]
  BY CalledOthers
<1>3. /\ promises' \in [Pid -> Op \cup {Nil}]
      /\ \A p \in Pid : promises'[p] = Nil \/ promises'[p] = promises[p]
      /\ \A q \in Op \ {o}, p \in Pid : promises'[p] = q <=> promises[p] = q
  BY <1>1, RemoveTyped DEF ResultsTypeOK
<1>4. ResultsTypeOK'
  BY <1>1, <1>2, <1>3 DEF ResultsTypeOK
<1>5. IdsInv'
  BY <1>1, <1>3, IdsStay
<1>6. StackInv'
  BY DEF StackInv
<1>7. SettleInv'
  BY <1>1, <1>2 DEF SettleInv, PromiseOps, CallbackOps
<1>8. CallbackOps' = CallbackOps
  BY <1>1 DEF CallbackOps
<1>9. HeardInv'
  <2>1. \A q \in Op : called'[q]["callback"] \in Nat
                      /\ called'[q]["callback"] >= called[q]["callback"]
    BY <1>2, CountsTyped
  <2>2. \A q \in CallbackOps : id'[q] = id[q]
    BY <1>1
  <2>3. ResultsTypeOK /\ HeardInv
    OBVIOUS
  <2> QED BY <1>1, <1>8, <2>1, <2>2, <2>3, HeardStays
<1>10. Unheard'
  BY <1>1, <1>8, UnheardStays
<1>11. ASSUME NEW q \in Op, q # o PROVE CountsOnce(q)' /\ KeptUntil(q)'
  <2>1. kind[q] \in {"promise", "async"} => (Live(q)' <=> Live(q))
    <3> HAVE kind[q] \in {"promise", "async"}
    <3>1. id[q] \in Pid
      BY DEF IdsInv, PromiseOps
    <3> QED BY <1>1, <1>3, <1>11, <3>1 DEF Live
  <2>2. /\ called'[q] = called[q] /\ given'[q] = given[q]
        /\ kind'[q] = kind[q] /\ (q \in settled' <=> q \in settled)
        /\ (OnStack(q)' <=> OnStack(q)) /\ OutcomeOnce
    BY <1>1, <1>2, <1>11
  <2>3. leaving' = leaving /\ q # o
    BY <1>1, <1>11
  <2>4. leaving' # "yes" /\ kind[q] \in {"promise", "async"} =>
          (Live(q)' <=> Live(q))
    BY <2>1
  <2> QED BY <2>2, <2>3, <2>4, OthersKept, Zenon
<1>12. OutcomeOnce'
  BY <1>11, OutcomePartsNext
<1> QED BY <1>4, <1>5, <1>6, <1>7, <1>9, <1>10, <1>12

LEMMA SettlePromiseKeeps ==
  ASSUME "resettle" \notin Liberty, ResultsInv, NEW o \in Op,
         NEW how \in Outcome, SettlePromise(o, how)
  PROVE  ResultsInv'
<1> USE DEF ResultsInv
<1>1. /\ leaving # "yes" /\ ~OnStack(o) /\ o \notin settled
      /\ called[o]["success"] = 0 /\ called[o]["fail"] = 0
      /\ called[o]["complete"] = 0 /\ o \in PromiseOps
  BY UnsettledLive DEF SettlePromise
<1>2. /\ SettlesOne(o, how) /\ RemovePromise(o) /\ stack' = stack
      /\ id' = id /\ settled' = settled \cup {o}
      /\ called' = called \/ CountOne(o, how)
  BY DEF SettlePromise, SettlesOne, CountOne
<1>3. stack' \in Seq(Inside) /\ OnceOn(stack')
  BY <1>2 DEF ResultsTypeOK, StackInv
<1>4. \A e \in Range(stack) : e.op # o
  BY <1>1, OnStackRange
<1>5. \A e \in Range(stack') : Entered(e)'
  BY <1>2, <1>4, RunningUndisturbed
<1>6. CountsOnce(o)'
  <2>1. CASE called' = called
    BY <1>1, <2>1 DEF CountsOnce
  <2>2. CASE CountOne(o, how)
    <3>0. how \in Function /\ called[o][how] = 0
      BY <1>1 DEF Function, Outcome
    <3>1. /\ called'[o][how] = 1
          /\ \A g \in Function \ {how} : called'[o][g] = called[o][g]
      BY <2>2, <3>0, CallCounts
    <3>2. /\ called'[o]["success"] + called'[o]["fail"] = 1
          /\ called'[o]["complete"] = 0
      BY <1>1, <3>1 DEF Function, Outcome
    <3> QED BY <3>2 DEF CountsOnce
  <2> QED BY <1>2, <2>1, <2>2
<1>7. KeptUntil(o)'
  <2>1. id[o] \in Pid
    BY <1>1 DEF IdsInv
  <2>2. ~Live(o)'
    BY <1>2, <2>1, RemoveTyped DEF Live
  <2>3. ~OnStack(o)' /\ o \in settled'
    BY <1>1, <1>2 DEF OnStack
  <2> QED BY <2>2, <2>3, Zenon DEF KeptUntil
<1>8. \A q \in Op \ {o} : OnStack(q)' <=> OnStack(q)
  BY <1>2 DEF OnStack
<1> QED BY <1>1, <1>2, <1>3, <1>5, <1>6, <1>7, <1>8, SettledStep

LEMMA SettleAsyncKeeps ==
  ASSUME "resettle" \notin Liberty, ResultsInv, NEW o \in Op,
         NEW how \in Outcome, SettleAsync(o, how)
  PROVE  ResultsInv'
<1> USE DEF ResultsInv
<1>1. /\ leaving # "yes" /\ ~OnStack(o) /\ o \notin settled
      /\ called[o]["success"] = 0 /\ called[o]["fail"] = 0
      /\ called[o]["complete"] = 0 /\ o \in PromiseOps
  BY UnsettledLive DEF SettleAsync
<1>2. /\ kind[o] = "async" /\ settled' = settled \cup {o}
      /\ UNCHANGED <<kind, id, given, fn, curr_pid, callbacks, curr_cid,
                     leaving, unheard>>
      /\ kind' = kind /\ id' = id /\ given' = given
      /\ Live(o) /\ id[o] \in Pid
  BY <1>1 DEF SettleAsync, MaySettle, IdsInv
<1>3. \A e \in Range(stack) : e.op # o
  BY <1>1, OnStackRange
<1>4. ASSUME NEW f \in Outcome \cup {"complete"}, CallOf(o, f),
             UNCHANGED promises,
             f = "complete" => how \notin given[o]
      PROVE  ResultsInv'
  <2> DEFINE e == [op |-> o, run |-> f]
  <2>1. f \in Function /\ e \in Inside
    BY DEF Function, Inside
  <2>2. CountOne(o, f) /\ stack' = Append(stack, e)
    BY <1>4 DEF CallOf, CountOne
  <2>3. /\ called'[o][f] = called[o][f] + 1
        /\ \A g \in Function \ {f} : called'[o][g] = called[o][g]
    BY <2>1, <2>2, CallCounts
  <2>4. /\ stack' \in Seq(Inside) /\ OnceOn(stack')
        /\ Range(stack') = Range(stack) \cup {e}
    BY <1>3, <2>1, <2>2, PushOne DEF ResultsTypeOK, StackInv
  <2>5. /\ f \in Outcome =>
             /\ called'[o]["success"] + called'[o]["fail"] = 1
             /\ called'[o]["complete"] = 0
        /\ f = "complete" =>
             /\ called'[o]["success"] = 0 /\ called'[o]["fail"] = 0
             /\ called'[o]["complete"] = 1
    BY <1>1, <2>3 DEF Function, Outcome
  <2>6. CountsOnce(o)'
    <3>1. CASE f \in Outcome
      BY <2>5, <3>1 DEF CountsOnce
    <3>2. CASE f = "complete"
      <4>1. ~(Outcome \subseteq given'[o])
        BY <1>2, <1>4, <3>2
      <4> QED BY <2>5, <3>2, <4>1 DEF CountsOnce
    <3> QED BY <3>1, <3>2
  <2>7. KeptUntil(o)'
    <3>1. Live(o)'
      BY <1>2, <1>4 DEF Live
    <3>2. e \in Range(stack') /\ e.op = o
      BY <2>4
    <3>3. OnStack(o)'
      BY <3>2 DEF OnStack, Range
    <3> QED BY <3>1, <3>3, Zenon DEF KeptUntil
  <2>8. Entered(e)'
    <3>1. f # "callback"
      BY DEF Outcome
    <3> QED BY <1>2, <2>5, <3>1 DEF Entered
  <2>9. SettlesOne(o, f)
    BY <1>2, <1>4, <2>2 DEF SettlesOne
  <2>10. \A d \in Range(stack') : Entered(d)'
    BY <1>3, <2>4, <2>8, <2>9, RunningUndisturbed
  <2>11. \A q \in Op \ {o} : OnStack(q)' <=> OnStack(q)
    <3>1. \A q : OnStack(q)' <=> \E d \in Range(stack') : d.op = q
      BY DEF OnStack, Range
    <3> QED BY <2>4, <3>1, OnStackRange
  <2> QED BY <1>1, <2>4, <2>6, <2>7, <2>9, <2>10, <2>11, SettledStep
<1>5. ASSUME RemovePromise(o), UNCHANGED <<stack, called>>
      PROVE  ResultsInv'
  <2>1. stack' \in Seq(Inside) /\ OnceOn(stack')
    BY <1>5 DEF ResultsTypeOK, StackInv
  <2>2. SettlesOne(o, how)
    BY <1>2, <1>5 DEF SettlesOne
  <2>5. \A e \in Range(stack') : Entered(e)'
    BY <1>3, <1>5, <2>2, RunningUndisturbed
  <2>6. \A q \in Op \ {o} : OnStack(q)' <=> OnStack(q)
    BY <1>5 DEF OnStack
  <2>3. CountsOnce(o)'
    BY <1>1, <1>5 DEF CountsOnce
  <2>4. KeptUntil(o)'
    <3>1. ~Live(o)'
      BY <1>2, <1>5, RemoveTyped DEF Live
    <3>2. ~OnStack(o)' /\ o \in settled'
      BY <1>1, <1>2, <1>5 DEF OnStack
    <3> QED BY <3>1, <3>2, Zenon DEF KeptUntil
  <2> QED BY <1>1, <2>1, <2>2, <2>3, <2>4, <2>5, <2>6, SettledStep
<1>6. \/ how \in given[o] /\ CallOf(o, how) /\ UNCHANGED promises
      \/ /\ how \notin given[o] /\ CallOf(o, "complete") /\ UNCHANGED promises
      \/ RemovePromise(o) /\ UNCHANGED <<stack, called>>
  BY DEF SettleAsync
<1>7. how # "complete"
  BY DEF Outcome
<1> QED BY <1>4, <1>5, <1>6, <1>7
-----------------------------------------------------------------------------
(* Functions that return *)

LEMMA Popped ==
  ASSUME ResultsInv, stack # <<>>
  PROVE  /\ Below \in Seq(Inside) /\ OnceOn(Below) /\ Top \in Inside
         /\ Range(stack) = Range(Below) \cup {Top} /\ Entered(Top)
         /\ Top.op # Nil => \A d \in Range(Below) : d.op # Top.op
<1>1. stack \in Seq(Inside) /\ OnceOn(stack)
  BY DEF ResultsInv, ResultsTypeOK, StackInv
<1>2. /\ Below \in Seq(Inside) /\ OnceOn(Below) /\ Top \in Inside
      /\ Range(stack) = Range(Below) \cup {Top}
      /\ Top.op # Nil => \A d \in Range(Below) : d.op # Top.op
  BY <1>1, PopOne DEF Below, Top
<1>3. Entered(Top)
  BY <1>2 DEF ResultsInv, StackInv
<1> QED BY <1>2, <1>3

LEMMA OnStackNext == \A q : OnStack(q)' <=> \E e \in Range(stack') : e.op = q
BY DEF OnStack, Range

(* The function of an outcome returned: complete is next, if the data is   *)
(* there and has one, or the data goes.                                    *)
LEMMA OutcomeReturnedKeeps ==
  ASSUME ResultsInv, OutcomeReturned
  PROVE  ResultsInv'
<1> USE DEF ResultsInv
<1>1. stack # <<>> /\ Top.run \in Outcome
  BY DEF OutcomeReturned
<1>2. PICK o \in Op : o = Top.op
  <2>1. Top.run # "onDetached"
    BY <1>1 DEF Outcome
  <2> QED BY <1>1, <2>1, Popped, InsideOp
<1>3. /\ Below \in Seq(Inside) /\ OnceOn(Below) /\ o # Nil
      /\ Range(stack) = Range(Below) \cup {Top} /\ Entered(Top)
      /\ \A d \in Range(Below) : d.op # o
  BY <1>1, <1>2, Popped, NilAssumption
<1>4. /\ kind[o] = "async" /\ o \in settled /\ o \in PromiseOps
      /\ called[o]["success"] + called[o]["fail"] = 1
      /\ called[o]["complete"] = 0 /\ id[o] \in Pid
  BY <1>1, <1>2, <1>3 DEF Entered, Outcome, PromiseOps, IdsInv
<1>5. /\ UNCHANGED <<kind, id, given, fn, curr_pid, callbacks, curr_cid,
                     leaving, settled, unheard>>
      /\ settled' = settled \cup {o} /\ given' = given /\ id' = id
  BY <1>4 DEF OutcomeReturned
<1>6. \/ /\ Live(o) /\ "complete" \in given[o]
         /\ stack' = Append(Below, [op |-> o, run |-> "complete"])
         /\ CountOne(o, "complete") /\ promises' = promises
      \/ stack' = Below /\ RemovePromise(o) /\ called' = called
  BY <1>2 DEF OutcomeReturned, CountOne
<1>7. CASE /\ Live(o) /\ stack' = Append(Below, [op |-> o, run |-> "complete"])
           /\ CountOne(o, "complete") /\ promises' = promises
  <2> DEFINE e == [op |-> o, run |-> "complete"]
  <2>1. e \in Inside /\ e.op = o /\ e.run = "complete"
    BY DEF Inside, Function
  <2>2. /\ stack' \in Seq(Inside) /\ OnceOn(stack')
        /\ Range(stack') = Range(Below) \cup {e}
    BY <1>3, <1>7, <2>1, PushOne
  <2>3. /\ called'[o]["complete"] = 1
        /\ called'[o]["success"] + called'[o]["fail"] = 1
    <3>1. /\ "complete" \in Function
          /\ {"success", "fail"} \subseteq Function \ {"complete"}
      BY DEF Function, Outcome
    <3>2. /\ called'[o]["complete"] = called[o]["complete"] + 1
          /\ \A g \in Function \ {"complete"} : called'[o][g] = called[o][g]
      BY <1>7, <3>1, CallCounts
    <3> QED BY <1>4, <3>1, <3>2
  <2>4. SettlesOne(o, "complete")
    BY <1>5, <1>7 DEF SettlesOne
  <2>5. Entered(e)'
    BY <1>4, <1>5, <2>1 DEF Entered, Outcome
  <2>6. \A d \in Range(stack') : Entered(d)'
    BY <1>3, <2>2, <2>4, <2>5, RunningUndisturbed
  <2>7. \A q \in Op \ {o} : OnStack(q)' <=> OnStack(q)
    BY <1>2, <1>3, <2>1, <2>2, OnStackRange, OnStackNext
  <2>8. CountsOnce(o)'
    BY <2>3 DEF CountsOnce
  <2>9. KeptUntil(o)'
    <3>1. Live(o)'
      BY <1>5, <1>7 DEF Live
    <3>2. OnStack(o)'
      BY <2>1, <2>2, OnStackNext
    <3> QED BY <3>1, <3>2, Zenon DEF KeptUntil
  <2> QED BY <1>4, <2>2, <2>4, <2>6, <2>7, <2>8, <2>9, SettledStep
<1>8. CASE stack' = Below /\ RemovePromise(o) /\ called' = called
  <2>1. SettlesOne(o, "complete")
    BY <1>5, <1>8 DEF SettlesOne
  <2>2. \A d \in Range(stack') : Entered(d)'
    BY <1>3, <1>8, <2>1, RunningUndisturbed
  <2>3. \A q \in Op \ {o} : OnStack(q)' <=> OnStack(q)
    BY <1>2, <1>3, <1>8, OnStackRange, OnStackNext
  <2>4. CountsOnce(o)'
    BY <1>4, <1>8 DEF CountsOnce
  <2>5. KeptUntil(o)'
    <3>1. ~Live(o)'
      BY <1>4, <1>5, <1>8, RemoveTyped DEF Live
    <3>2. ~OnStack(o)' /\ o \in settled'
      BY <1>3, <1>5, <1>8, OnStackNext
    <3> QED BY <3>1, <3>2, Zenon DEF KeptUntil
  <2> QED BY <1>3, <1>4, <1>8, <2>1, <2>2, <2>3, <2>4, <2>5, SettledStep
<1> QED BY <1>6, <1>7, <1>8

LEMMA CompleteReturnedKeeps ==
  ASSUME ResultsInv, CompleteReturned
  PROVE  ResultsInv'
<1> USE DEF ResultsInv
<1>1. stack # <<>> /\ Top.run = "complete"
  BY DEF CompleteReturned
<1>2. PICK o \in Op : o = Top.op
  BY <1>1, Popped, InsideOp
<1>3. /\ Below \in Seq(Inside) /\ OnceOn(Below) /\ o # Nil
      /\ Range(stack) = Range(Below) \cup {Top} /\ Entered(Top)
      /\ \A d \in Range(Below) : d.op # o
  BY <1>1, <1>2, Popped, NilAssumption
<1>4. o \in settled /\ o \in PromiseOps /\ id[o] \in Pid
  BY <1>1, <1>2, <1>3 DEF Entered, PromiseOps, IdsInv
<1>5. /\ stack' = Below /\ RemovePromise(o) /\ called' = called
      /\ settled' = settled \cup {o} /\ given' = given /\ id' = id
  BY <1>2, <1>4 DEF CompleteReturned
<1>6. SettlesOne(o, "complete")
  BY <1>2, <1>4 DEF CompleteReturned, SettlesOne
<1>7. \A d \in Range(stack') : Entered(d)'
  BY <1>3, <1>5, <1>6, RunningUndisturbed
<1>8. \A q \in Op \ {o} : OnStack(q)' <=> OnStack(q)
  BY <1>2, <1>3, <1>5, OnStackRange, OnStackNext
<1>9. CountsOnce(o)'
  <2>1. CountsOnce(o)
    BY OutcomeParts
  <2> QED BY <1>5, <2>1 DEF CountsOnce
<1>10. KeptUntil(o)'
  <2>1. ~Live(o)'
    BY <1>4, <1>5, RemoveTyped DEF Live
  <2>2. ~OnStack(o)' /\ o \in settled'
    BY <1>3, <1>5, OnStackNext
  <2> QED BY <2>1, <2>2, Zenon DEF KeptUntil
<1> QED BY <1>3, <1>4, <1>5, <1>6, <1>7, <1>8, <1>9, <1>10, SettledStep

-----------------------------------------------------------------------------
(* Plain callbacks and the end *)

(* Steps that do nothing to promises.                                      *)
LEMMA PromisesApart ==
  ASSUME OutcomeOnce, UNCHANGED <<kind, id, given, promises, settled>>,
         leaving' = leaving \/ leaving' = "yes"
           \/ (leaving' = "running" /\ leaving = "no"),
         \A q \in Op : kind[q] \in {"promise", "async"} =>
           (OnStack(q)' <=> OnStack(q)),
         \A q \in Op :
           /\ called'[q]["success"] = called[q]["success"]
           /\ called'[q]["fail"] = called[q]["fail"]
           /\ called'[q]["complete"] = called[q]["complete"]
  PROVE  OutcomeOnce'
<1>1. ASSUME NEW q \in Op PROVE CountsOnce(q)' /\ KeptUntil(q)'
  <2>1. CountsOnce(q) /\ KeptUntil(q)
    BY OutcomeParts
  <2>2. CountsOnce(q)'
    BY <2>1 DEF CountsOnce
  <2>3. leaving' # "yes" => leaving # "yes"
    OBVIOUS
  <2>4. Live(q)' <=> Live(q)
    BY DEF Live
  <2>5. kind' = kind /\ settled' = settled
    OBVIOUS
  <2>6. KeptUntil(q)'
    BY <2>1, <2>3, <2>4, <2>5, Zenon DEF KeptUntil
  <2> QED BY <2>2, <2>6
<1> QED BY <1>1, OutcomePartsNext

LEMMA AnswerKeeps ==
  ASSUME ResultsInv, NEW o \in Op, Answer(o)
  PROVE  ResultsInv'
<1> USE DEF ResultsInv
<1>1. /\ leaving # "yes" /\ kind[o] = "callback" /\ o \in CallbackOps
      /\ called[o]["callback"] = 0
      /\ kind' = kind /\ id' = id /\ given' = given /\ fn' = fn
      /\ promises' = promises /\ curr_pid' = curr_pid
      /\ callbacks' = callbacks /\ curr_cid' = curr_cid
      /\ leaving' = leaving /\ settled' = settled
  BY DEF Answer, NativeRuns, CallbackOps
<1>2. CallbackOps' = CallbackOps /\ PromiseOps' = PromiseOps
  BY <1>1 DEF CallbackOps, PromiseOps
<1>3. IdsInv'
  <2>1. IdsInv
    OBVIOUS
  <2> QED BY <1>1, <1>2, <2>1 DEF IdsInv
<1>4. CASE CallOf(o, "callback") /\ unheard' = unheard
  <2> DEFINE e == [op |-> o, run |-> "callback"]
  <2>1. e \in Inside /\ e.op = o /\ e.run = "callback" /\ "callback" \in Function
    BY DEF Inside, Function
  <2>2. CountOne(o, "callback") /\ stack' = Append(stack, e)
    BY <1>4 DEF CallOf, CountOne
  <2>3. \A d \in Range(stack) : d.op # o
    <3> SUFFICES ASSUME NEW d \in Range(stack), d.op = o PROVE FALSE
      OBVIOUS
    <3>1. Entered(d) /\ o # Nil
      BY NilAssumption DEF StackInv
    <3> QED BY <1>1, <3>1 DEF Entered
  <2>4. /\ stack' \in Seq(Inside) /\ OnceOn(stack')
        /\ Range(stack') = Range(stack) \cup {e}
    BY <2>1, <2>2, <2>3, PushOne DEF ResultsTypeOK, StackInv
  <2>5. /\ called' \in [Op -> [Function -> Nat]]
        /\ called'[o]["callback"] = 1
        /\ \A g \in Function \ {"callback"} : called'[o][g] = called[o][g]
        /\ \A q \in Op \ {o} : called'[q] = called[q]
    BY <1>1, <2>1, <2>2, CallCounts
  <2>6. {"success", "fail", "complete"} \subseteq Function \ {"callback"}
    BY DEF Function, Outcome
  <2>7. \A q \in Op :
          /\ called'[q]["success"] = called[q]["success"]
          /\ called'[q]["fail"] = called[q]["fail"]
          /\ called'[q]["complete"] = called[q]["complete"]
    BY <2>5, <2>6
  <2>8. ResultsTypeOK'
    BY <1>1, <1>4, <2>4, <2>5 DEF ResultsTypeOK
  <2>9. StackInv'
    <3>1. Entered(e)'
      BY <1>1, <2>1, <2>5 DEF Entered, Outcome
    <3>2. ASSUME NEW d \in Range(stack) PROVE Entered(d)'
      <4>1. Entered(d) /\ d \in Inside /\ d.op # o
        <5>1. stack \in Seq(Inside) /\ Entered(d)
          BY DEF StackInv, ResultsTypeOK
        <5>2. d \in Inside
          BY <5>1, RangeOf, ElementOfSeq
        <5> QED BY <2>3, <5>1, <5>2
      <4>2. CASE d.op \in Op
        BY <1>1, <2>5, <4>1, <4>2, OthersEntered
      <4>3. CASE d.op = Nil
        <5>1. d.run = "onDetached"
          BY <4>1, <4>3, InsideOp
        <5> QED BY <4>3, <5>1 DEF Entered, Outcome
      <4> QED BY <4>1, <4>2, <4>3, InsideOp
    <3> QED BY <2>4, <3>1, <3>2 DEF StackInv
  <2>10. SettleInv'
    BY <1>1, <1>2, <1>4, <2>7 DEF SettleInv
  <2>11. HeardInv'
    <3>1. \A q \in Op : called'[q]["callback"] \in Nat
                        /\ called'[q]["callback"] >= called[q]["callback"]
      BY <1>1, <2>5, CountsTyped
    <3>2. \A q \in CallbackOps : id'[q] = id[q]
      BY <1>1
    <3> QED BY <1>1, <1>2, <3>1, <3>2, HeardStays
  <2>12. Unheard'
    BY <1>1, <1>2, <1>4, UnheardStays
  <2>13. OutcomeOnce'
    <3>1. \A q \in Op : kind[q] \in {"promise", "async"} =>
            (OnStack(q)' <=> OnStack(q))
      BY <1>1, <2>1, <2>4, OnStackRange, OnStackNext
    <3> QED BY <1>1, <2>7, <3>1, PromisesApart
  <2> QED BY <1>3, <2>8, <2>9, <2>10, <2>11, <2>12, <2>13
<1>5. CASE /\ callbacks[id[o]] = Nil
           /\ unheard' = unheard \cup {o} /\ UNCHANGED <<stack, called>>
  <2>1. stack' = stack /\ called' = called
    BY <1>5
  <2>2. ResultsTypeOK'
    BY <1>1, <1>5 DEF ResultsTypeOK
  <2>3. StackInv'
    <3>1. ASSUME NEW d \in Range(stack) PROVE Entered(d)'
      BY <1>1, <2>1, OthersEntered DEF StackInv
    <3> QED BY <2>1, <3>1 DEF StackInv
  <2>4. SettleInv'
    BY <1>1, <1>2, <1>5 DEF SettleInv
  <2>5. HeardInv'
    <3>1. \A q \in Op : called'[q]["callback"] \in Nat
                        /\ called'[q]["callback"] >= called[q]["callback"]
      BY <2>1, CountsTyped
    <3>2. \A q \in CallbackOps : id'[q] = id[q]
      BY <1>1
    <3> QED BY <1>1, <1>2, <3>1, <3>2, HeardStays
  <2>6. Unheard'
    <3>1. Shared(o)
      BY <1>1, <1>5, NilAssumption DEF HeardInv, Registered
    <3> QED BY <1>1, <1>2, <1>5, <3>1 DEF Unheard, Shared
  <2>7. OutcomeOnce'
    <3>1. \A q \in Op : OnStack(q)' <=> OnStack(q)
      BY <2>1 DEF OnStack
    <3> QED BY <1>1, <2>1, <3>1, PromisesApart
  <2> QED BY <1>3, <2>2, <2>3, <2>4, <2>5, <2>6, <2>7
<1> QED BY <1>4, <1>5 DEF Answer
(* A function that returns is registered no more: not for its operation,   *)
(* which was called, and not for those that share it.                      *)
LEMMA FunctionReturnedKeeps ==
  ASSUME ResultsInv, FunctionReturned
  PROVE  ResultsInv'
<1> USE DEF ResultsInv
<1>1. stack # <<>> /\ Top.run = "callback"
  BY DEF FunctionReturned
<1>2. PICK o \in Op : o = Top.op
  BY <1>1, Popped, InsideOp
<1>3. /\ Below \in Seq(Inside) /\ OnceOn(Below)
      /\ Range(stack) = Range(Below) \cup {Top} /\ Entered(Top)
  BY <1>1, Popped
<1>4. kind[o] = "callback" /\ called[o]["callback"] >= 1 /\ o \in CallbackOps
  BY <1>1, <1>2, <1>3 DEF Entered, CallbackOps
<1>5. /\ stack' = Below /\ kind' = kind /\ id' = id /\ given' = given
      /\ fn' = fn /\ promises' = promises /\ curr_pid' = curr_pid
      /\ curr_cid' = curr_cid /\ leaving' = leaving /\ called' = called
      /\ settled' = settled /\ unheard' = unheard
  BY DEF FunctionReturned
<1>6. \/ callbacks' = callbacks /\ leaving = "yes"
      \/ callbacks' = [callbacks EXCEPT ![id[o]] = Nil]
  BY <1>2 DEF FunctionReturned
<1>7. callbacks \in [Cid -> Fn \cup {Nil}]
  BY DEF ResultsTypeOK
<1>8. CallbackOps' = CallbackOps /\ PromiseOps' = PromiseOps
  BY <1>5 DEF CallbackOps, PromiseOps
<1>9. /\ callbacks' \in [Cid -> Fn \cup {Nil}]
      /\ \A c \in Cid : callbacks'[c] = Nil \/ callbacks'[c] = callbacks[c]
      /\ \A c \in Cid : c # id[o] => callbacks'[c] = callbacks[c]
  BY <1>6, <1>7
<1>10. ResultsTypeOK'
  BY <1>3, <1>5, <1>9 DEF ResultsTypeOK
<1>11. IdsInv'
  BY <1>5, <1>9, IdsStay
<1>12. StackInv'
  <2>1. ASSUME NEW d \in Range(Below) PROVE Entered(d)'
    BY <1>3, <1>5, OthersEntered DEF StackInv
  <2> QED BY <1>3, <1>5, <2>1 DEF StackInv
<1>13. SettleInv'
  BY <1>5, <1>8 DEF SettleInv
<1>14. ASSUME NEW q \in CallbackOps PROVE Registered(q)'
  <2>1. Registered(q)
    BY DEF HeardInv
  <2>2. Shared(q)' <=> Shared(q)
    BY <1>5, <1>8 DEF Shared
  <2>3. id[q] \in Cid
    <3>1. id[q] \in 1..curr_cid /\ curr_cid \in 0..Cardinality(Op)
      BY DEF IdsInv, ResultsTypeOK
    <3>2. Cardinality(Op) \in Nat
      BY OpAssumption, FS_CardinalityType
    <3> QED BY <3>1, <3>2 DEF Cid
  <2>4. CASE id[q] # id[o] \/ leaving = "yes"
    BY <1>5, <1>8, <1>9, <2>1, <2>2, <2>3, <2>4 DEF Registered
  <2>5. CASE q = o
    BY <1>4, <1>5, <1>8, <1>9, <2>1, <2>2, <2>3, <2>5 DEF Registered
  <2>6. CASE id[q] = id[o] /\ q # o
    <3>1. Shared(q)
      BY <1>4, <2>1, <2>6 DEF Registered, Shared
    <3> QED BY <1>5, <1>8, <1>9, <2>1, <2>2, <2>3, <3>1 DEF Registered
  <2> QED BY <2>4, <2>5, <2>6
<1>15. HeardInv'
  BY <1>8, <1>14 DEF HeardInv
<1>16. Unheard'
  BY <1>5, <1>8, UnheardStays
<1>17. OutcomeOnce'
  <2>1. \A q \in Op : kind[q] \in {"promise", "async"} =>
          (OnStack(q)' <=> OnStack(q))
    BY <1>2, <1>3, <1>4, <1>5, OnStackRange, OnStackNext
  <2> QED BY <1>5, <2>1, PromisesApart
<1> QED BY <1>10, <1>11, <1>12, <1>13, <1>15, <1>16, <1>17

LEMMA DetachBeginKeeps ==
  ASSUME ResultsInv, DetachBegin
  PROVE  ResultsInv'
<1> USE DEF ResultsInv
<1> DEFINE e == [op |-> Nil, run |-> "onDetached"]
<1>1. e \in Inside /\ e.op = Nil /\ e.run = "onDetached"
  BY DEF Inside
<1>2. /\ stack' = Append(stack, e) /\ leaving = "no" /\ leaving' = "running"
      /\ kind' = kind /\ id' = id /\ given' = given
      /\ fn' = fn /\ promises' = promises /\ curr_pid' = curr_pid
      /\ curr_cid' = curr_cid /\ callbacks' = callbacks /\ called' = called
      /\ settled' = settled /\ unheard' = unheard
  BY DEF DetachBegin
<1>3. /\ stack' \in Seq(Inside) /\ OnceOn(stack')
      /\ Range(stack') = Range(stack) \cup {e}
  BY <1>1, <1>2, PushOne DEF ResultsTypeOK, StackInv
<1>4. CallbackOps' = CallbackOps /\ PromiseOps' = PromiseOps
  BY <1>2 DEF CallbackOps, PromiseOps
<1>5. ResultsTypeOK'
  BY <1>2, <1>3 DEF ResultsTypeOK
<1>6. IdsInv'
  BY <1>2, <1>4 DEF IdsInv
<1>7. StackInv'
  <2>1. ASSUME NEW d \in Range(stack) PROVE Entered(d)'
    BY <1>2, OthersEntered DEF StackInv
  <2>2. Entered(e)'
    BY <1>1 DEF Entered, Outcome
  <2> QED BY <1>3, <2>1, <2>2 DEF StackInv
<1>8. SettleInv'
  BY <1>2, <1>4 DEF SettleInv
<1>9. HeardInv'
  <2>1. \A q \in Op : called'[q]["callback"] \in Nat
                      /\ called'[q]["callback"] >= called[q]["callback"]
    BY <1>2, CountsTyped
  <2>2. \A q \in CallbackOps : id'[q] = id[q]
    BY <1>2
  <2> QED BY <1>2, <1>4, <2>1, <2>2, HeardStays
<1>10. Unheard'
  BY <1>2, <1>4, UnheardStays
<1>11. OutcomeOnce'
  <2>1. \A q \in Op : OnStack(q)' <=> OnStack(q)
    BY <1>1, <1>3, NilAssumption, OnStackRange, OnStackNext
  <2> QED BY <1>2, <2>1, PromisesApart
<1> QED BY <1>5, <1>6, <1>7, <1>8, <1>9, <1>10, <1>11

LEMMA DetachEndKeeps ==
  ASSUME ResultsInv, DetachEnd
  PROVE  ResultsInv'
<1> USE DEF ResultsInv
<1>1. stack # <<>> /\ Top.run = "onDetached"
  BY DEF DetachEnd
<1>2. /\ Below \in Seq(Inside) /\ OnceOn(Below)
      /\ Range(stack) = Range(Below) \cup {Top}
  BY <1>1, Popped
<1>3. /\ stack' = Below /\ leaving' = "yes"
      /\ promises' = [p \in Pid |-> Nil] /\ callbacks' = [c \in Cid |-> Nil]
      /\ kind' = kind /\ id' = id /\ given' = given
      /\ fn' = fn /\ curr_pid' = curr_pid
      /\ curr_cid' = curr_cid /\ called' = called
      /\ settled' = settled /\ unheard' = unheard
  BY DEF DetachEnd
<1>4. CallbackOps' = CallbackOps /\ PromiseOps' = PromiseOps
  BY <1>3 DEF CallbackOps, PromiseOps
<1>5. ResultsTypeOK'
  BY <1>2, <1>3 DEF ResultsTypeOK
<1>6. IdsInv'
  BY <1>3, <1>4 DEF IdsInv
<1>7. StackInv'
  <2>1. ASSUME NEW d \in Range(Below) PROVE Entered(d)'
    BY <1>2, <1>3, OthersEntered DEF StackInv
  <2> QED BY <1>2, <1>3, <2>1 DEF StackInv
<1>8. SettleInv'
  BY <1>3, <1>4 DEF SettleInv
<1>9. HeardInv'
  <2>1. ASSUME NEW q \in CallbackOps PROVE Registered(q)'
    <3>1. Registered(q) /\ id[q] \in 1..curr_cid
          /\ curr_cid \in 0..Cardinality(Op)
      BY DEF HeardInv, IdsInv, ResultsTypeOK
    <3>2. Cardinality(Op) \in Nat
      BY OpAssumption, FS_CardinalityType
    <3>3. id[q] \in Cid
      BY <3>1, <3>2 DEF Cid
    <3> QED BY <1>3, <1>4, <3>1, <3>3 DEF Registered
  <2> QED BY <1>4, <2>1 DEF HeardInv
<1>10. Unheard'
  BY <1>3, <1>4, UnheardStays
<1>11. ASSUME NEW q \in Op PROVE CountsOnce(q)' /\ KeptUntil(q)'
  <2>1. CountsOnce(q)
    BY OutcomeParts
  <2>2. CountsOnce(q)'
    BY <1>3, <2>1 DEF CountsOnce
  <2>3. KeptUntil(q)'
    BY <1>3 DEF KeptUntil
  <2> QED BY <2>2, <2>3
<1>12. OutcomeOnce'
  BY <1>11, OutcomePartsNext
<1> QED BY <1>5, <1>6, <1>7, <1>8, <1>9, <1>10, <1>12

-----------------------------------------------------------------------------

LEMMA ResultsInvInit == ResultsInit => ResultsInv
<1> SUFFICES ASSUME ResultsInit PROVE ResultsInv
  OBVIOUS
<1>1. /\ kind = [o \in Op |-> "none"] /\ id = [o \in Op |-> 0]
      /\ given = [o \in Op |-> {}] /\ fn = [o \in Op |-> Nil]
      /\ promises = [p \in Pid |-> Nil] /\ curr_pid = 0
      /\ callbacks = [c \in Cid |-> Nil] /\ curr_cid = 0
      /\ leaving = "no" /\ stack = <<>>
      /\ called = [o \in Op |-> [f \in Function |-> 0]]
      /\ settled = {} /\ unheard = {}
  BY DEF ResultsInit
<1>2. Cardinality(Op) \in Nat
  BY OpAssumption, FS_CardinalityType
<1>3. \A o \in Op : 0 \in Pid
  <2> SUFFICES ASSUME NEW o \in Op PROVE 0 \in Pid
    OBVIOUS
  <2>1. Cardinality(Op) # 0
    BY OpAssumption, FS_EmptySet
  <2> QED BY <1>2, <2>1 DEF Pid
<1>4. stack \in Seq(Inside) /\ Range(stack) = {} /\ DOMAIN stack = {}
  BY <1>1 DEF Range
<1>5. called \in [Op -> [Function -> Nat]]
  BY <1>1
<1>6. ResultsTypeOK
  BY <1>1, <1>2, <1>3, <1>4, <1>5 DEF ResultsTypeOK
<1>7. PromiseOps = {} /\ CallbackOps = {}
  BY <1>1 DEF PromiseOps, CallbackOps
<1>8. IdsInv
  BY <1>1, <1>7, FS_EmptySet DEF IdsInv
<1>9. StackInv
  BY <1>4 DEF StackInv, OnceOn
<1>10. \A o \in Op :
         /\ called[o]["success"] = 0 /\ called[o]["fail"] = 0
         /\ called[o]["complete"] = 0
  BY <1>1 DEF Function, Outcome
<1>11. SettleInv /\ HeardInv /\ Unheard
  BY <1>1, <1>7, <1>10 DEF SettleInv, HeardInv, Unheard
<1>12. \A o \in Op : CountsOnce(o) /\ KeptUntil(o)
  BY <1>1, <1>10 DEF CountsOnce, KeptUntil
<1>13. OutcomeOnce
  BY <1>12, OutcomeParts
<1> QED BY <1>6, <1>8, <1>9, <1>11, <1>13 DEF ResultsInv

LEMMA ResultsInvStep ==
  ASSUME "resettle" \notin Liberty
  PROVE  ResultsInv /\ [ResultsNext]_rsVars => ResultsInv'
<1> SUFFICES ASSUME ResultsInv, [ResultsNext]_rsVars PROVE ResultsInv'
  OBVIOUS
<1>1. ASSUME NEW o \in Op, StartPromise(o) PROVE ResultsInv'
  <2>1. /\ kind[o] = "none" /\ leaving = "no"
        /\ kind' = [kind EXCEPT ![o] = "promise"] /\ AddPromise(o)
        /\ given' = given
        /\ UNCHANGED <<fn, callbacks, curr_cid, leaving, stack, called,
                       settled, unheard>>
    BY <1>1 DEF StartPromise, ScriptRuns
  <2>2. given' \in [Op -> SUBSET (Outcome \cup {"complete"})]
    BY <2>1 DEF ResultsInv, ResultsTypeOK
  <2> QED BY <2>1, <2>2, StartKeeps
<1>2. ASSUME NEW o \in Op, NEW fs \in SUBSET (Outcome \cup {"complete"}),
             StartAsync(o, fs)
      PROVE  ResultsInv'
  <2>1. /\ kind[o] = "none" /\ leaving = "no"
        /\ kind' = [kind EXCEPT ![o] = "async"] /\ AddPromise(o)
        /\ given' = [given EXCEPT ![o] = fs]
        /\ UNCHANGED <<fn, callbacks, curr_cid, leaving, stack, called,
                       settled, unheard>>
    BY <1>2 DEF StartAsync, ScriptRuns
  <2>2. /\ given' \in [Op -> SUBSET (Outcome \cup {"complete"})]
        /\ \A q \in Op \ {o} : given'[q] = given[q]
    BY <2>1 DEF ResultsInv, ResultsTypeOK
  <2> QED BY <2>1, <2>2, StartKeeps
<1>3. ASSUME NEW o \in Op, NEW f \in Fn, StartCallback(o, f)
      PROVE  ResultsInv'
  BY <1>3, StartCallbackKeeps
<1>4. CASE Settle
  BY <1>4, SettlePromiseKeeps, SettleAsyncKeeps, AnswerKeeps DEF Settle
<1>5. CASE Return
  BY <1>5, OutcomeReturnedKeeps, CompleteReturnedKeeps,
     FunctionReturnedKeeps, DetachEndKeeps DEF Return
<1>6. CASE DetachBegin
  BY <1>6, DetachBeginKeeps
<1>7. CASE UNCHANGED rsVars
  BY <1>7 DEF rsVars, ResultsInv, ResultsTypeOK, IdsInv, PromiseOps,
     CallbackOps, StackInv, Entered, SettleInv, HeardInv, Registered, Shared,
     Unheard, OutcomeOnce, Live, OnStack
<1>8. ResultsEnd => UNCHANGED rsVars
  BY DEF ResultsEnd
<1> QED BY <1>1, <1>2, <1>3, <1>4, <1>5, <1>6, <1>7, <1>8 DEF ResultsNext

LEMMA ResultsInvHolds ==
  ASSUME "resettle" \notin Liberty
  PROVE  ResultsSpec => []ResultsInv
BY ResultsInvInit, ResultsInvStep, PTL DEF ResultsSpec

LEMMA ResultsInvGives ==
  ResultsInv => ResultsTypeOK /\ OutcomeOnce /\ UnsharedAnswerHeard
<1> SUFFICES ASSUME ResultsInv
             PROVE  ResultsTypeOK /\ OutcomeOnce /\ UnsharedAnswerHeard
  OBVIOUS
<1>1. ResultsTypeOK /\ OutcomeOnce /\ Unheard
  BY DEF ResultsInv
<1>2. UnsharedAnswerHeard
  BY <1>1 DEF Unheard, Shared, CallbackOps, UnsharedAnswerHeard
<1> QED BY <1>1, <1>2

(* What the script runs for a call stays within its types, and every call  *)
(* keeps to one outcome then complete, or its function hears the answer    *)
(* unless another call shares it: for any number of calls and functions,   *)
(* when native code settles an operation once.                             *)
THEOREM ResultsTypesHold ==
  ASSUME "resettle" \notin Liberty
  PROVE  ResultsSpec => []ResultsTypeOK
BY ResultsInvHolds, ResultsInvGives, PTL

-----------------------------------------------------------------------------
(***************************************************************************)
(* The objects of instances.  An object carries its opaque from the moment *)
(* its instance has an id until the instance is detached; a slot with an   *)
(* instance is the one its id names; the loop of uninit has every instance *)
(* that is not detached yet before it.                                     *)
(***************************************************************************)

HoldsInv ==
  /\ \A i \in Inst : i \in opaque <=> Initialized(i) /\ i \notin detached
  /\ condemned \subseteq opaque
  /\ \A i \in detached \cup kept : of[i] # NoInst
  /\ \A i \in Inst : of[i] = NoInst => iid[i] = -1 /\ detaches[i] = 0
  /\ deleted \subseteq detached

SlotsInv ==
  \A p \in Proto : \A k \in DOMAIN slots[p] :
    slots[p][k] # NoInst => of[slots[p][k]] = p /\ iid[slots[p][k]] = k - 1

RequiredInv ==
  \A i \in required :
    /\ IsModule(i) /\ Initialized(i)
    /\ detaches[i] = IF i \in detached THEN 1 ELSE 0

(* The loop of uninit has every instance that is not detached before it.   *)
Passed(n) ==
  \A k \in DOMAIN list :
    list[k] \notin detached => \E m \in DOMAIN list : m <= k /\ list[m] = n

CursorInv ==
  /\ phase = "visit" =>
       /\ condemned = {} /\ Passed(node)
       /\ \E k \in DOMAIN list :
            list[k] = node /\ temp = IF k < Len(list) THEN list[k + 1] ELSE NoInst
  /\ phase = "visited" =>
       temp \in deleted \/ (temp \in Range(list) \cup {NoInst} /\ Passed(temp))
  /\ phase \in {"clear", "end", "freed"} => Alive \subseteq detached

LifecycleInv ==
  LifecycleTypeOK /\ HoldsInv /\ SlotsInv /\ OpaqueInSlot /\ RequiredInv /\ CursorInv

-----------------------------------------------------------------------------
LEMMA FirstAt ==
  ASSUME NEW T, NEW s \in Seq(T), NEW e
  PROVE  LET n == SelectInSeq(s, LAMBDA x : x = e)
         IN  \/ n = 0 /\ \A k \in 1..Len(s) : s[k] # e
             \/ n \in 1..Len(s) /\ s[n] = e
<1> DEFINE I == {k \in 1..Len(s) : s[k] = e}
           n == SelectInSeq(s, LAMBDA x : x = e)
<1>1. n = IF I # {} THEN Min(I) ELSE 0
  BY DEF SelectInSeq
<1>2. Len(s) \in Nat /\ I \in SUBSET Nat
  BY LenProperties
<1>3. CASE I = {}
  BY <1>1, <1>3
<1>4. CASE I # {}
  <2>1. PICK m \in I : \A k \in I : m <= k
    BY <1>2, <1>4, LeastExists, Zenon
  <2>2. Min(I) \in I
    BY <2>1 DEF Min
  <2> QED BY <1>1, <1>4, <2>2
<1> QED BY <1>3, <1>4

LEMMA AfterIs ==
  ASSUME list \in Seq(Inst), IsInjective(list)
  PROVE  /\ After(NoInst) = IF Len(list) > 0 THEN list[1] ELSE NoInst
         /\ \A k \in 1..Len(list) :
              After(list[k]) = IF k < Len(list) THEN list[k + 1] ELSE NoInst
<1>1. Len(list) \in Nat /\ DOMAIN list = 1..Len(list)
      /\ \A k \in 1..Len(list) : list[k] \in Inst
  BY LenProperties
<1>2. After(NoInst) = IF Len(list) > 0 THEN list[1] ELSE NoInst
  <2> DEFINE n == SelectInSeq(list, LAMBDA x : x = NoInst)
  <2>1. \/ n = 0 /\ \A k \in 1..Len(list) : list[k] # NoInst
        \/ n \in 1..Len(list) /\ list[n] = NoInst
    BY FirstAt
  <2>2. n = 0
    BY <1>1, <2>1, NoInstAssumption
  <2>3. After(NoInst) = IF n < Len(list) THEN list[n + 1] ELSE NoInst
    BY DEF After
  <2> QED BY <1>1, <2>2, <2>3
<1>3. ASSUME NEW k \in 1..Len(list)
      PROVE  After(list[k]) = IF k < Len(list) THEN list[k + 1] ELSE NoInst
  <2> DEFINE n == SelectInSeq(list, LAMBDA x : x = list[k])
  <2>1. \/ n = 0 /\ \A j \in 1..Len(list) : list[j] # list[k]
        \/ n \in 1..Len(list) /\ list[n] = list[k]
    BY FirstAt
  <2>2. n = k
    BY <1>1, <2>1 DEF IsInjective
  <2>3. After(list[k]) = IF n < Len(list) THEN list[n + 1] ELSE NoInst
    BY DEF After
  <2> QED BY <2>2, <2>3
<1> QED BY <1>2, <1>3

LEMMA Deleting ==
  ASSUME list \in Seq(Inst), IsInjective(list), NEW gone, Delete(gone)
  PROVE  /\ list' \in Seq(Inst) /\ IsInjective(list')
         /\ Range(list') = Range(list) \ gone
         /\ deleted' = deleted \cup gone
         /\ \A j \in DOMAIN list' : \E b \in DOMAIN list :
              /\ list'[j] = list[b]
              /\ \A a \in DOMAIN list :
                   a <= b /\ list[a] \notin gone =>
                     \E i \in DOMAIN list' : i <= j /\ list'[i] = list[a]
<1> DEFINE stay == {k \in DOMAIN list : list[k] \notin gone}
<1>1. Len(list) \in Nat /\ DOMAIN list = 1..Len(list)
      /\ \A k \in 1..Len(list) : list[k] \in Inst
  BY LenProperties
<1>2. IsFiniteSet(stay)
  <2>1. IsFiniteSet(1..Len(list)) /\ stay \subseteq 1..Len(list)
    BY <1>1, UpToCounted
  <2> QED BY <2>1, FS_Subset
<1> DEFINE n == Cardinality(stay)
<1>3. n \in Nat
  BY <1>2, FS_CardinalityType
<1>4. PICK from \in [1..n -> stay] :
        /\ \A j, k \in DOMAIN from : j < k => from[j] < from[k]
        /\ list' = [k \in DOMAIN from |-> list[from[k]]]
  BY DEF Delete
<1>5. deleted' = deleted \cup gone
  BY DEF Delete
<1>6. /\ \A k \in stay : k \in DOMAIN list /\ k \in Nat /\ list[k] \notin gone
      /\ \A k \in DOMAIN list : list[k] \notin gone => k \in stay
  BY <1>1
<1> HIDE DEF stay
<1>7. \A j, k \in 1..n : from[j] = from[k] => j = k
  BY <1>3, <1>4, <1>6
<1>8. \A k \in stay : \E j \in 1..n : from[j] = k
  <2>1. from \in Injection(1..n, stay)
    BY <1>4, <1>7 DEF Injection, IsInjective
  <2>2. Cardinality(1..n) = n
    BY <1>3, UpToCounted
  <2>3. from \in Surjection(1..n, stay)
    BY <1>2, <2>1, <2>2, FS_Injection
  <2> QED BY <2>3 DEF Surjection
<1> HIDE DEF n
<1>9. DOMAIN from = 1..n /\ \A j \in 1..n : from[j] \in stay
  BY <1>4
<1>10. DOMAIN list' = 1..n /\ \A j \in 1..n : list'[j] = list[from[j]]
  BY <1>4, <1>9
<1>11. list' \in Seq(Inst)
  <2>1. list' = [k \in 1..n |-> list[from[k]]]
    BY <1>4, <1>9
  <2>2. \A k \in 1..n : list[from[k]] \in Inst
    BY <1>1, <1>6, <1>9
  <2> QED BY <1>3, <2>1, <2>2, IsASeq
<1>12. IsInjective(list')
  BY <1>6, <1>7, <1>9, <1>10 DEF IsInjective
<1>13. Range(list') = Range(list) \ gone
  <2>1. ASSUME NEW x \in Range(list') PROVE x \in Range(list) \ gone
    BY <2>1, <1>6, <1>9, <1>10 DEF Range
  <2>2. ASSUME NEW x \in Range(list) \ gone PROVE x \in Range(list')
    <3>1. PICK k \in DOMAIN list : list[k] = x
      BY <2>2 DEF Range
    <3>2. PICK j \in 1..n : from[j] = k
      BY <1>6, <1>8, <2>2, <3>1
    <3> QED BY <1>10, <3>1, <3>2 DEF Range
  <2> QED BY <2>1, <2>2
<1>14. ASSUME NEW j \in DOMAIN list'
       PROVE  \E b \in DOMAIN list :
                /\ list'[j] = list[b]
                /\ \A a \in DOMAIN list :
                     a <= b /\ list[a] \notin gone =>
                       \E i \in DOMAIN list' : i <= j /\ list'[i] = list[a]
  <2>1. from[j] \in DOMAIN list /\ list'[j] = list[from[j]] /\ j \in 1..n
    BY <1>6, <1>9, <1>10
  <2>2. ASSUME NEW a \in DOMAIN list, a <= from[j], list[a] \notin gone
        PROVE  \E i \in DOMAIN list' : i <= j /\ list'[i] = list[a]
    <3>1. PICK i \in 1..n : from[i] = a
      BY <1>6, <1>8, <2>2
    <3>2. i <= j
      <4>1. CASE j < i
        <5>1. from[j] < from[i]
          BY <1>4, <1>9, <2>1, <4>1
        <5>2. from[j] \in Nat /\ a \in Nat
          BY <1>1, <2>1
        <5> QED BY <2>2, <3>1, <5>1, <5>2
      <4> QED BY <1>3, <2>1, <4>1
    <3> QED BY <1>10, <3>1, <3>2
  <2> QED BY <2>1, <2>2
<1> QED BY <1>5, <1>11, <1>12, <1>13, <1>14

-----------------------------------------------------------------------------
(* A new instance in a slot *)

LEMMA Adding ==
  ASSUME LifecycleTypeOK, NEW p \in Proto, NEW i \in Inst, AddInstance(p, i)
  PROVE  /\ slots' \in [Proto -> Seq(Inst \cup {NoInst})]
         /\ \A q \in Proto : q # p => slots'[q] = slots[q]
         /\ \E pos \in Nat \ {0} :
              /\ iid' = [iid EXCEPT ![i] = pos - 1]
              /\ pos \in DOMAIN slots[p] => slots[p][pos] = NoInst
              /\ DOMAIN slots'[p] = DOMAIN slots[p] \cup {pos}
              /\ slots'[p][pos] = i
              /\ \A k \in DOMAIN slots[p] \ {pos} : slots'[p][k] = slots[p][k]
<1> DEFINE Place == Inst \cup {NoInst}
           s == slots[p]
           empty == SelectInSeq(s, LAMBDA x : x = NoInst)
           pos == IF empty = 0 THEN Len(s) + 1 ELSE empty
           t == IF empty = 0 THEN Append(s, i) ELSE [s EXCEPT ![pos] = i]
<1>1. /\ slots \in [Proto -> Seq(Place)] /\ s \in Seq(Place) /\ i \in Place
      /\ Len(s) \in Nat /\ DOMAIN s = 1..Len(s)
  BY LenProperties DEF LifecycleTypeOK
<1>2. \/ empty = 0 /\ \A k \in 1..Len(s) : s[k] # NoInst
      \/ empty \in 1..Len(s) /\ s[empty] = NoInst
  BY <1>1, FirstAt
<1>3. slots' = [slots EXCEPT ![p] = t] /\ iid' = [iid EXCEPT ![i] = pos - 1]
  BY DEF AddInstance
<1> HIDE DEF s, empty
<1>4. CASE empty = 0
  <2> DEFINE a == Append(s, i)
  <2>1. /\ a \in Seq(Place) /\ Len(a) = Len(s) + 1 /\ a[Len(s) + 1] = i
        /\ \A k \in 1..Len(s) : a[k] = s[k]
    BY <1>1, AppendProperties
  <2>2. DOMAIN a = 1..Len(s) + 1
    BY <1>1, <2>1, LenProperties
  <2>3. pos = Len(s) + 1 /\ t = a
    BY <1>4
  <2> HIDE DEF a, t, pos
  <2>4. slots' \in [Proto -> Seq(Place)]
    BY <1>1, <1>3, <2>1, <2>3
  <2>5. slots'[p] = a /\ \A q \in Proto : q # p => slots'[q] = slots[q]
    BY <1>1, <1>3, <2>3
  <2>6. /\ pos \in Nat \ {0} /\ pos \notin 1..Len(s)
        /\ DOMAIN a = DOMAIN s \cup {pos} /\ a[pos] = i
        /\ \A k \in DOMAIN s \ {pos} : a[k] = s[k]
    BY <1>1, <2>1, <2>2, <2>3
  <2> QED BY <1>1, <1>3, <2>4, <2>5, <2>6 DEF s
<1>5. CASE empty # 0
  <2> DEFINE a == [s EXCEPT ![empty] = i]
  <2>1. empty \in 1..Len(s) /\ s[empty] = NoInst
    BY <1>2, <1>5
  <2>2. a \in Seq(Place) /\ DOMAIN a = DOMAIN s /\ a[empty] = i
        /\ \A k \in DOMAIN s \ {empty} : a[k] = s[k]
    BY <1>1, <2>1, ExceptSeq
  <2>3. pos = empty /\ t = a
    BY <1>5
  <2> HIDE DEF a, t, pos
  <2>4. slots' \in [Proto -> Seq(Place)]
    BY <1>1, <1>3, <2>2, <2>3
  <2>5. slots'[p] = a /\ \A q \in Proto : q # p => slots'[q] = slots[q]
    BY <1>1, <1>3, <2>3
  <2>6. /\ pos \in Nat \ {0} /\ s[pos] = NoInst
        /\ DOMAIN a = DOMAIN s \cup {pos} /\ a[pos] = i
        /\ \A k \in DOMAIN s \ {pos} : a[k] = s[k]
    BY <1>1, <2>1, <2>2, <2>3
  <2> QED BY <1>1, <1>3, <2>4, <2>5, <2>6 DEF s
<1> QED BY <1>4, <1>5

LEMMA AddingHolds ==
  ASSUME LifecycleTypeOK, HoldsInv, SlotsInv, OpaqueInSlot,
         NEW p \in Proto, NEW i \in Inst,
         iid[i] = -1, i \notin deleted \cup detached, AddInstance(p, i),
         of' = [of EXCEPT ![i] = p], proto' = [proto EXCEPT ![p] = "live"],
         opaque' = opaque \cup {i}, deleted' = deleted, detached' = detached
  PROVE  SlotsInv' /\ OpaqueInSlot'
<1>1. /\ of \in [Inst -> Proto \cup {NoInst}] /\ iid \in [Inst -> Nat \cup {-1}]
      /\ proto \in [Proto -> {"none", "live", "deleted"}]
      /\ opaque \subseteq Inst
      /\ \A q \in Proto : slots[q] \in Seq(Inst \cup {NoInst})
  BY DEF LifecycleTypeOK
<1>2. \A q \in Proto : \A k \in DOMAIN slots[q] :
        k \in Nat \ {0} /\ slots[q][k] \in Inst \cup {NoInst}
  <2>1. ASSUME NEW q \in Proto, NEW k \in DOMAIN slots[q]
        PROVE  k \in Nat \ {0} /\ slots[q][k] \in Inst \cup {NoInst}
    <3>1. slots[q] \in Seq(Inst \cup {NoInst})
      BY <1>1
    <3>2. Len(slots[q]) \in Nat /\ DOMAIN slots[q] = 1..Len(slots[q])
      BY <3>1, LenProperties
    <3>3. slots[q][k] \in Inst \cup {NoInst}
      BY <3>1, <3>2, ElementOfSeq
    <3> QED BY <3>2, <3>3
  <2> QED BY <2>1
<1>3. \A q \in Proto : q # p => slots'[q] = slots[q]
  BY Adding
<1>4. PICK pos \in Nat \ {0} :
        /\ iid' = [iid EXCEPT ![i] = pos - 1]
        /\ pos \in DOMAIN slots[p] => slots[p][pos] = NoInst
        /\ DOMAIN slots'[p] = DOMAIN slots[p] \cup {pos}
        /\ slots'[p][pos] = i
        /\ \A k \in DOMAIN slots[p] \ {pos} : slots'[p][k] = slots[p][k]
  BY Adding
<1>5. /\ of'[i] = p /\ iid'[i] = pos - 1
      /\ \A j \in Inst \ {i} : of'[j] = of[j] /\ iid'[j] = iid[j]
  BY <1>1, <1>4
<1>6. \A q \in Proto, k \in Nat : k \in DOMAIN slots[q] => slots[q][k] # i
  BY <1>2, NoInstAssumption DEF SlotsInv
<1>7. SlotsInv'
  <2>1. ASSUME NEW q \in Proto, NEW k \in DOMAIN slots'[q], slots'[q][k] # NoInst
        PROVE  of'[slots'[q][k]] = q /\ iid'[slots'[q][k]] = k - 1
    <3>1. CASE q = p /\ k = pos
      BY <1>4, <1>5, <3>1
    <3>2. CASE ~(q = p /\ k = pos)
      <4>1. k \in DOMAIN slots[q] /\ slots'[q][k] = slots[q][k]
        BY <1>3, <1>4, <3>2
      <4>2. slots[q][k] \in Inst \ {i}
        BY <1>2, <1>6, <2>1, <4>1
      <4> QED BY <1>5, <2>1, <4>1, <4>2 DEF SlotsInv
    <3> QED BY <3>1, <3>2
  <2> QED BY <2>1 DEF SlotsInv
<1>8. OpaqueInSlot'
  <2>1. ASSUME NEW j \in opaque'
        PROVE  /\ j \notin deleted \cup detached /\ proto'[of'[j]] = "live"
               /\ iid'[j] + 1 \in DOMAIN slots'[of'[j]]
               /\ slots'[of'[j]][iid'[j] + 1] = j
    <3>1. CASE j = i
      <4>1. (pos - 1) + 1 = pos
        OBVIOUS
      <4> QED BY <1>1, <1>4, <1>5, <3>1, <4>1
    <3>2. CASE j # i
      <4>1. j \in opaque /\ j \in Inst
        BY <1>1, <2>1, <3>2
      <4>2. /\ j \notin deleted \cup detached /\ proto[of[j]] = "live"
            /\ iid[j] + 1 \in DOMAIN slots[of[j]]
            /\ slots[of[j]][iid[j] + 1] = j
        BY <4>1 DEF OpaqueInSlot
      <4>3. of[j] \in Proto
        BY <1>1, <4>1 DEF HoldsInv, Initialized
      <4>4. proto'[of[j]] = "live"
        BY <1>1, <4>2, <4>3
      <4>5. iid[j] + 1 \in DOMAIN slots'[of[j]] /\ slots'[of[j]][iid[j] + 1] = j
        BY <1>3, <1>4, <4>1, <4>2, <4>3, NoInstAssumption
      <4>6. of'[j] = of[j] /\ iid'[j] = iid[j]
        BY <1>5, <3>2, <4>1
      <4> QED BY <4>2, <4>4, <4>5, <4>6
    <3> QED BY <3>1, <3>2
  <2> QED BY <2>1 DEF OpaqueInSlot
<1> QED BY <1>7, <1>8


-----------------------------------------------------------------------------
(* Detaching and deleting *)

LEMMA Detaching ==
  ASSUME LifecycleTypeOK, HoldsInv, RequiredInv,
         NEW i \in Inst, i \notin detached, of[i] # NoInst, OnDetached(i)
  PROVE  /\ opaque' = opaque \ {i} /\ detached' = detached \cup {i}
         /\ roots' \subseteq opaque' /\ condemned' \subseteq opaque'
         /\ cb' \in [Inst -> SUBSET Inst] /\ on' \in [Inst -> SUBSET Inst]
         /\ detaches' \in [Inst -> Nat]
         /\ \A j \in required :
              detaches'[j] = IF j \in detached' THEN 1 ELSE 0
         /\ \A j \in Inst : of[j] = NoInst => detaches'[j] = 0
<1>1. /\ opaque' = opaque \ {i} /\ detached' = detached \cup {i}
      /\ roots' = roots \ {i}
      /\ cb' = [cb EXCEPT ![i] = {}] /\ on' = [on EXCEPT ![i] = {}]
      /\ detaches' = [detaches EXCEPT ![i] = @ + (IF IsModule(i) THEN 1 ELSE 0)]
  BY DEF OnDetached
<1>2. condemned' \subseteq (condemned \ {i}) \cup (opaque \ {i})
  BY DEF OnDetached
<1>3. /\ detaches \in [Inst -> Nat] /\ required \subseteq Inst
      /\ cb \in [Inst -> SUBSET Inst] /\ on \in [Inst -> SUBSET Inst]
      /\ roots \subseteq opaque /\ condemned \subseteq opaque
  BY DEF LifecycleTypeOK, HoldsInv
<1>4. /\ cb' \in [Inst -> SUBSET Inst] /\ on' \in [Inst -> SUBSET Inst]
      /\ detaches' \in [Inst -> Nat]
  BY <1>1, <1>3
<1>5. ASSUME NEW j \in required
      PROVE  detaches'[j] = IF j \in detached' THEN 1 ELSE 0
  BY <1>1, <1>3 DEF RequiredInv
<1>6. ASSUME NEW j \in Inst, of[j] = NoInst PROVE detaches'[j] = 0
  BY <1>1, <1>3, <1>6 DEF HoldsInv
<1> QED BY <1>1, <1>2, <1>3, <1>4, <1>5, <1>6

LEMMA PassedKept ==
  ASSUME list \in Seq(Inst), IsInjective(list), NEW gone, Delete(gone),
         detached \subseteq detached', NEW n, n \notin gone, Passed(n)
  PROVE  Passed(n)'
<1>1. ASSUME NEW k \in DOMAIN list', list'[k] \notin detached'
      PROVE  \E m \in DOMAIN list' : m <= k /\ list'[m] = n
  <2>1. PICK b \in DOMAIN list :
          /\ list'[k] = list[b]
          /\ \A a \in DOMAIN list :
               a <= b /\ list[a] \notin gone =>
                 \E m \in DOMAIN list' : m <= k /\ list'[m] = list[a]
    BY Deleting
  <2>2. PICK a \in DOMAIN list : a <= b /\ list[a] = n
    BY <1>1, <2>1 DEF Passed
  <2> QED BY <2>1, <2>2
<1> QED BY <1>1 DEF Passed

LEMMA FinalizeHolds ==
  ASSUME LifecycleInv, NEW i \in Inst, Finalize(i)
  PROVE  LifecycleInv'
<1> DEFINE p == of[i]
           k == iid[i] + 1
           gone == IF i \in kept THEN {} ELSE {i}
<1> USE DEF LifecycleInv
<1>1. /\ i \in opaque /\ i \notin detached /\ of[i] # NoInst /\ iid[i] >= 0
      /\ phase # "visit" /\ phase \notin {"clear", "end", "freed"}
      /\ i \notin deleted
  BY DEF Finalize, HoldsInv, Initialized, CursorInv, Alive, LifecycleTypeOK
<1>2. /\ OnDetached(i) /\ Delete(gone)
      /\ slots' = [slots EXCEPT ![p] = [@ EXCEPT ![k] = NoInst]]
      /\ proto' = proto /\ of' = of /\ iid' = iid /\ kept' = kept
      /\ phase' = phase /\ node' = node /\ temp' = temp
      /\ required' = required
  BY DEF Finalize
<1> HIDE DEF gone
<1>3. /\ opaque' = opaque \ {i} /\ detached' = detached \cup {i}
      /\ roots' \subseteq opaque' /\ condemned' \subseteq opaque'
      /\ cb' \in [Inst -> SUBSET Inst] /\ on' \in [Inst -> SUBSET Inst]
      /\ detaches' \in [Inst -> Nat]
      /\ \A j \in required : detaches'[j] = IF j \in detached' THEN 1 ELSE 0
      /\ \A j \in Inst : of[j] = NoInst => detaches'[j] = 0
  BY <1>1, <1>2, Detaching
<1>4. gone \subseteq {i}
  BY DEF gone
<1>5. /\ list' \in Seq(Inst) /\ IsInjective(list')
      /\ Range(list') = Range(list) \ gone /\ deleted' = deleted \cup gone
  BY <1>2, Deleting DEF LifecycleTypeOK
<1>6. p \in Proto /\ slots[p] \in Seq(Inst \cup {NoInst}) /\ k \in DOMAIN slots[p]
      /\ slots[p][k] = i
  BY <1>1 DEF LifecycleTypeOK, OpaqueInSlot
<1>7. /\ slots' \in [Proto -> Seq(Inst \cup {NoInst})]
      /\ \A q \in Proto : DOMAIN slots'[q] = DOMAIN slots[q]
      /\ \A q \in Proto : \A m \in DOMAIN slots[q] :
           slots'[q][m] = IF q = p /\ m = k THEN NoInst ELSE slots[q][m]
  <2> DEFINE s == slots[p]
             t == [s EXCEPT ![k] = NoInst]
  <2>1. DOMAIN s = 1..Len(s)
    BY <1>6, LenProperties
  <2>2. t \in Seq(Inst \cup {NoInst})
    BY <1>6, <2>1, ExceptSeq
  <2>3. DOMAIN t = DOMAIN s /\ \A m \in DOMAIN s : t[m] = IF m = k THEN NoInst ELSE s[m]
    BY <1>6
  <2>4. slots' = [slots EXCEPT ![p] = t]
    BY <1>2
  <2> HIDE DEF t
  <2> QED BY <1>6, <2>2, <2>3, <2>4 DEF LifecycleTypeOK
<1> HIDE DEF k, p
<1>8. LifecycleTypeOK'
  <2>1. Range(list) = Alive
    BY DEF LifecycleTypeOK, ToSet, Range
  <2>2. Range(list') = Alive'
    BY <1>2, <1>5, <2>1 DEF Alive
  <2>3. opaque' \subseteq Inst /\ detached' \subseteq Inst /\ deleted' \subseteq Inst
        /\ condemned' \subseteq Inst
    BY <1>3, <1>4, <1>5 DEF LifecycleTypeOK
  <2>4. ToSet(list') = Alive'
    BY <2>2 DEF ToSet, Range
  <2>5. UNION {opaque', kept', detached', condemned', deleted', required'}
          \subseteq Inst
    BY <1>2, <2>3 DEF LifecycleTypeOK
  <2> QED BY <1>2, <1>3, <1>5, <1>7, <2>4, <2>5 DEF LifecycleTypeOK
<1>9. HoldsInv'
  <2>1. \A j \in Inst : j \in opaque' <=> iid[j] >= 0 /\ j \notin detached'
    BY <1>3 DEF HoldsInv, Initialized
  <2>2. \A j \in Inst : of[j] = NoInst => iid[j] = -1
    BY DEF HoldsInv
  <2>3. deleted' \subseteq detached'
    BY <1>3, <1>4, <1>5 DEF HoldsInv
  <2>4. \A j \in detached' \cup kept : of[j] # NoInst
    BY <1>1, <1>3 DEF HoldsInv
  <2> QED BY <1>2, <1>3, <2>1, <2>2, <2>3, <2>4 DEF HoldsInv, Initialized
<1>10. SlotsInv'
  BY <1>2, <1>7 DEF SlotsInv
<1>11. OpaqueInSlot'
  <2>1. ASSUME NEW j \in opaque'
        PROVE  /\ j \notin deleted' \cup detached' /\ proto[of[j]] = "live"
               /\ iid[j] + 1 \in DOMAIN slots'[of[j]]
               /\ slots'[of[j]][iid[j] + 1] = j
    <3>1. j \in opaque /\ j # i /\ j \in Inst
      BY <1>3, <2>1 DEF LifecycleTypeOK
    <3>2. /\ j \notin deleted \cup detached /\ proto[of[j]] = "live"
          /\ iid[j] + 1 \in DOMAIN slots[of[j]]
          /\ slots[of[j]][iid[j] + 1] = j
      BY <3>1 DEF OpaqueInSlot
    <3>3. of[j] \in Proto
      BY <3>1 DEF LifecycleTypeOK, HoldsInv, Initialized
    <3>4. ~(of[j] = p /\ iid[j] + 1 = k)
      BY <1>6, <3>1, <3>2
    <3> QED BY <1>3, <1>4, <1>5, <1>7, <3>1, <3>2, <3>3, <3>4
  <2> QED BY <1>2, <2>1 DEF OpaqueInSlot
<1>12. RequiredInv'
  BY <1>2, <1>3 DEF RequiredInv, IsModule, Initialized
<1>13. CursorInv'
  <2>1. CASE phase = "visited"
    <3>1. CASE temp \in deleted'
      BY <1>2, <2>1, <3>1 DEF CursorInv
    <3>2. CASE temp \notin deleted'
      <4>1. temp \notin gone /\ temp \in Range(list) \cup {NoInst} /\ Passed(temp)
        BY <1>5, <2>1, <3>2 DEF CursorInv
      <4>2. detached \subseteq detached'
        BY <1>3
      <4>3. list \in Seq(Inst) /\ IsInjective(list)
        BY DEF LifecycleTypeOK
      <4> DEFINE n == temp
      <4>4. n \notin gone /\ Passed(n)
        BY <4>1
      <4> HIDE DEF n
      <4>5. \A m : m \notin gone /\ Passed(m) => Passed(m)'
        BY <1>2, <4>2, <4>3, PassedKept
      <4>6. \A c \in DOMAIN list' : list'[c] \notin detached' =>
              \E m \in DOMAIN list' : m <= c /\ list'[m] = temp
        BY <4>1, <4>5 DEF Passed
      <4> QED BY <1>2, <1>5, <2>1, <4>1, <4>6 DEF CursorInv, Passed
    <3> QED BY <3>1, <3>2
  <2>2. CASE phase # "visited"
    BY <1>1, <1>2, <2>2 DEF CursorInv
  <2> QED BY <2>1, <2>2
<1> QED BY <1>8, <1>9, <1>10, <1>11, <1>12, <1>13


LEMMA LetGoHolds ==
  ASSUME LifecycleInv, NEW i \in Inst, LetGo(i)
  PROVE  LifecycleInv'
<1> USE DEF LifecycleInv
<1>1. /\ phase \in {"run", "end", "freed"} /\ kept' = kept \ {i} /\ condemned = {}
      /\ slots' = slots /\ proto' = proto /\ of' = of /\ iid' = iid
      /\ phase' = phase /\ node' = node /\ temp' = temp /\ required' = required
      /\ of[i] # NoInst
  BY DEF LetGo, HoldsInv
<1>2. CASE InSlot(i)
  <2>1. UNCHANGED <<list, opaque, roots, cb, on, detached, condemned, deleted,
                    detaches>>
    BY <1>2 DEF LetGo
  <2>2. LifecycleTypeOK'
    <3>1. UNION {opaque', kept', detached', condemned', deleted', required'}
            \subseteq Inst
      BY <1>1, <2>1 DEF LifecycleTypeOK
    <3> QED BY <1>1, <2>1, <3>1 DEF LifecycleTypeOK, Alive
  <2>3. HoldsInv'
    BY <1>1, <2>1 DEF HoldsInv, Initialized
  <2>4. SlotsInv' /\ OpaqueInSlot'
    BY <1>1, <2>1 DEF SlotsInv, OpaqueInSlot
  <2>5. RequiredInv' /\ CursorInv'
    BY <1>1, <2>1 DEF RequiredInv, IsModule, Initialized, CursorInv, Alive
  <2> QED BY <2>2, <2>3, <2>4, <2>5
<1>3. CASE ~InSlot(i)
  <2>1. Delete({i})
    BY <1>3 DEF LetGo
  <2>2. i \notin opaque
    <3>1. i \in opaque => of[i] \in Proto
      BY <1>1 DEF LifecycleTypeOK
    <3> QED BY <1>3, <3>1 DEF OpaqueInSlot, InSlot
  <2>3. \/ /\ i \in detached
           /\ UNCHANGED <<opaque, roots, cb, on, detached, condemned, detaches>>
        \/ i \notin detached /\ OnDetached(i)
    BY <1>3 DEF LetGo
  <2>4. /\ opaque' = opaque /\ detached' = detached \cup {i}
        /\ roots' \subseteq opaque' /\ condemned' \subseteq opaque'
        /\ cb' \in [Inst -> SUBSET Inst] /\ on' \in [Inst -> SUBSET Inst]
        /\ detaches' \in [Inst -> Nat]
        /\ \A j \in required : detaches'[j] = IF j \in detached' THEN 1 ELSE 0
        /\ \A j \in Inst : of[j] = NoInst => detaches'[j] = 0
    <3>1. CASE i \in detached
      BY <2>3, <3>1 DEF LifecycleTypeOK, HoldsInv, RequiredInv
    <3>2. CASE i \notin detached
      <4>1. opaque \ {i} = opaque
        BY <2>2
      <4> HIDE DEF LifecycleInv
      <4>2. LifecycleTypeOK /\ HoldsInv /\ RequiredInv /\ OnDetached(i)
        BY <2>3, <3>2 DEF LifecycleInv
      <4> QED BY <1>1, <3>2, <4>1, <4>2, Detaching
    <3> QED BY <3>1, <3>2
  <2>5. /\ list' \in Seq(Inst) /\ IsInjective(list')
        /\ Range(list') = Range(list) \ {i} /\ deleted' = deleted \cup {i}
    BY <2>1, Deleting DEF LifecycleTypeOK
  <2>6. LifecycleTypeOK'
    <3>1. ToSet(list') = Alive'
      BY <1>1, <2>5 DEF Alive, LifecycleTypeOK, ToSet, Range
    <3>2. UNION {opaque', kept', detached', condemned', deleted', required'}
            \subseteq Inst
      BY <1>1, <2>4, <2>5 DEF LifecycleTypeOK
    <3> QED BY <1>1, <2>4, <2>5, <3>1, <3>2 DEF LifecycleTypeOK
  <2>7. HoldsInv'
    <3>1. \A j \in Inst : j \in opaque' <=> iid[j] >= 0 /\ j \notin detached'
      BY <2>2, <2>4 DEF HoldsInv, Initialized
    <3> QED BY <1>1, <2>4, <2>5, <3>1 DEF HoldsInv, Initialized
  <2>8. SlotsInv' /\ OpaqueInSlot'
    BY <1>1, <2>2, <2>4, <2>5 DEF SlotsInv, OpaqueInSlot
  <2>9. RequiredInv'
    BY <1>1, <2>4 DEF RequiredInv, IsModule, Initialized
  <2>10. CursorInv'
    BY <1>1, <2>4, <2>5 DEF CursorInv, Alive
  <2> QED BY <2>6, <2>7, <2>8, <2>9, <2>10
<1> QED BY <1>2, <1>3

LEMMA VisitHolds ==
  ASSUME LifecycleInv, Visit
  PROVE  LifecycleInv'
<1> USE DEF LifecycleInv
<1>1. /\ slots' = slots /\ proto' = proto /\ of' = of /\ iid' = iid /\ list' = list
      /\ kept' = kept /\ node' = node /\ temp' = temp /\ deleted' = deleted
      /\ required' = required /\ phase = "visit" /\ phase' = "visited"
  BY DEF Visit
<1>2. PICK k \in DOMAIN list :
        list[k] = node /\ temp = IF k < Len(list) THEN list[k + 1] ELSE NoInst
  BY <1>1 DEF CursorInv
<1>3. /\ Len(list) \in Nat /\ DOMAIN list = 1..Len(list)
      /\ IsInjective(list) /\ list \in Seq(Inst)
  BY LenProperties DEF LifecycleTypeOK
<1>4. node \in Inst /\ node \in Alive
  <2>1. node \in ToSet(list)
    BY <1>2 DEF ToSet
  <2> QED BY <2>1 DEF LifecycleTypeOK, Alive
<1>5. /\ opaque' = opaque \ {node} /\ detached' = detached \cup {node}
      /\ roots' \subseteq opaque' /\ condemned' \subseteq opaque'
      /\ cb' \in [Inst -> SUBSET Inst] /\ on' \in [Inst -> SUBSET Inst]
      /\ detaches' \in [Inst -> Nat]
      /\ \A j \in required : detaches'[j] = IF j \in detached' THEN 1 ELSE 0
      /\ \A j \in Inst : of[j] = NoInst => detaches'[j] = 0
  <2>1. CASE node \in detached
    <3>1. UNCHANGED <<opaque, roots, cb, on, detached, condemned, detaches>>
      BY <2>1 DEF Visit
    <3>2. node \notin opaque
      BY <1>4, <2>1 DEF HoldsInv
    <3> QED BY <2>1, <3>1, <3>2 DEF LifecycleTypeOK, HoldsInv, RequiredInv
  <2>2. CASE node \notin detached
    BY <1>4, <2>2, Detaching DEF Visit, Alive
  <2> QED BY <2>1, <2>2
<1>6. LifecycleTypeOK'
  <2>1. UNION {opaque', kept', detached', condemned', deleted', required'}
          \subseteq Inst
    BY <1>1, <1>4, <1>5 DEF LifecycleTypeOK
  <2> QED BY <1>1, <1>5, <2>1 DEF LifecycleTypeOK, Alive
<1>7. HoldsInv'
  <2>1. \A j \in Inst : j \in opaque' <=> iid[j] >= 0 /\ j \notin detached'
    BY <1>5 DEF HoldsInv, Initialized
  <2> QED BY <1>1, <1>4, <1>5, <2>1 DEF HoldsInv, Initialized, Alive
<1>8. SlotsInv' /\ OpaqueInSlot'
  BY <1>1, <1>5 DEF SlotsInv, OpaqueInSlot
<1>9. RequiredInv'
  BY <1>1, <1>5 DEF RequiredInv, IsModule, Initialized
<1>10. CursorInv'
  <2>1. ASSUME NEW c \in DOMAIN list, list[c] \notin detached'
        PROVE  k < c
    <3>1. PICK m \in DOMAIN list : m <= c /\ list[m] = node
      BY <1>1, <1>5, <2>1 DEF CursorInv, Passed
    <3>2. m = k /\ c # k
      BY <1>2, <1>3, <1>5, <2>1, <3>1 DEF IsInjective
    <3> QED BY <1>3, <3>1, <3>2
  <2>2. CASE k < Len(list)
    <3>1. k + 1 \in DOMAIN list /\ list[k + 1] = temp
      BY <1>2, <1>3, <2>2
    <3>2. \A c \in DOMAIN list : list[c] \notin detached' =>
            k + 1 <= c
      BY <1>3, <2>1
    <3>3. temp \in Range(list)
      BY <3>1 DEF Range
    <3> QED BY <1>1, <3>1, <3>2, <3>3 DEF CursorInv, Passed
  <2>3. CASE ~(k < Len(list))
    <3>1. temp = NoInst
      BY <1>2, <2>3
    <3>2. \A c \in DOMAIN list : list[c] \in detached'
      BY <1>3, <2>1, <2>3
    <3> QED BY <1>1, <3>1, <3>2 DEF CursorInv, Passed
  <2> QED BY <2>2, <2>3
<1> QED BY <1>6, <1>7, <1>8, <1>9, <1>10


LEMMA AdvanceHolds ==
  ASSUME LifecycleInv, Advance
  PROVE  LifecycleInv'
<1> USE DEF LifecycleInv
<1>1. /\ UNCHANGED <<proto, slots, of, iid, list, opaque, roots, cb, on, kept,
                     detached, condemned, deleted, required, detaches>>
      /\ phase = "visited" /\ condemned = {} /\ temp \notin deleted
      /\ node' = temp /\ temp' = IF temp = NoInst THEN NoInst ELSE After(temp)
      /\ phase' = IF temp = NoInst THEN "clear" ELSE "visit"
  BY DEF Advance
<1>2. temp \in Range(list) \cup {NoInst} /\ Passed(temp)
  BY <1>1 DEF CursorInv
<1>3. /\ Len(list) \in Nat /\ DOMAIN list = 1..Len(list) /\ list \in Seq(Inst)
      /\ IsInjective(list) /\ \A k \in 1..Len(list) : list[k] \in Inst
  BY LenProperties DEF LifecycleTypeOK
<1>4. HoldsInv' /\ SlotsInv' /\ OpaqueInSlot' /\ RequiredInv'
  <2>1. HoldsInv'
    BY <1>1 DEF HoldsInv, Initialized
  <2>2. SlotsInv' /\ OpaqueInSlot'
    BY <1>1 DEF SlotsInv, OpaqueInSlot
  <2>3. RequiredInv'
    BY <1>1 DEF RequiredInv, IsModule, Initialized
  <2> QED BY <2>1, <2>2, <2>3
<1>5. Alive' = Alive
  BY <1>1 DEF Alive
<1>6. CASE temp = NoInst
  <2>1. \A k \in DOMAIN list : list[k] \in detached
    <3>1. \A m \in DOMAIN list : list[m] # NoInst
      BY <1>3, NoInstAssumption
    <3> QED BY <1>2, <1>6, <3>1 DEF Passed
  <2>2. Alive \subseteq detached
    BY <2>1 DEF LifecycleTypeOK, ToSet
  <2>3. CursorInv'
    BY <1>1, <1>5, <1>6, <2>2 DEF CursorInv
  <2>4. LifecycleTypeOK'
    BY <1>1, <1>5, <1>6 DEF LifecycleTypeOK
  <2> QED BY <1>4, <2>3, <2>4
<1>7. CASE temp # NoInst
  <2>1. PICK k \in 1..Len(list) : list[k] = temp
    BY <1>2, <1>3, <1>7 DEF Range
  <2>2. temp' = IF k < Len(list) THEN list[k + 1] ELSE NoInst
    <3>1. After(list[k]) = IF k < Len(list) THEN list[k + 1] ELSE NoInst
      BY <1>3, <2>1, AfterIs
    <3> QED BY <1>1, <1>7, <2>1, <3>1
  <2>3. temp' \in Inst \cup {NoInst} /\ node' \in Inst
    BY <1>1, <1>3, <2>1, <2>2
  <2>4. LifecycleTypeOK'
    BY <1>1, <1>5, <1>7, <2>3 DEF LifecycleTypeOK
  <2>5. CursorInv'
    BY <1>1, <1>2, <1>3, <1>7, <2>1, <2>2 DEF CursorInv, Passed
  <2> QED BY <1>4, <2>4, <2>5
<1> QED BY <1>6, <1>7

LEMMA UninitBeginHolds ==
  ASSUME LifecycleInv, UninitBegin
  PROVE  LifecycleInv'
<1> USE DEF LifecycleInv
<1>1. /\ UNCHANGED <<proto, slots, of, iid, list, opaque, roots, cb, on, kept,
                     detached, condemned, deleted, required, detaches>>
      /\ phase = "run" /\ condemned = {} /\ node' = After(NoInst)
      /\ temp' = IF node' = NoInst THEN NoInst ELSE After(node')
      /\ phase' = IF node' = NoInst THEN "clear" ELSE "visit"
  BY DEF UninitBegin, ScriptMayRun
<1>2. /\ Len(list) \in Nat /\ DOMAIN list = 1..Len(list) /\ list \in Seq(Inst)
      /\ IsInjective(list) /\ \A k \in 1..Len(list) : list[k] \in Inst
  BY LenProperties DEF LifecycleTypeOK
<1>3. /\ node' = IF Len(list) > 0 THEN list[1] ELSE NoInst
      /\ \A k \in 1..Len(list) :
           After(list[k]) = IF k < Len(list) THEN list[k + 1] ELSE NoInst
  BY <1>1, <1>2, AfterIs
<1>4. HoldsInv' /\ SlotsInv' /\ OpaqueInSlot' /\ RequiredInv'
  <2>1. HoldsInv'
    BY <1>1 DEF HoldsInv, Initialized
  <2>2. SlotsInv' /\ OpaqueInSlot'
    BY <1>1 DEF SlotsInv, OpaqueInSlot
  <2>3. RequiredInv'
    BY <1>1 DEF RequiredInv, IsModule, Initialized
  <2> QED BY <2>1, <2>2, <2>3
<1>5. Alive' = Alive
  BY <1>1 DEF Alive
<1>6. CASE Len(list) = 0
  <2>1. Alive = {}
    BY <1>2, <1>6 DEF LifecycleTypeOK, ToSet
  <2>2. node' = NoInst /\ temp' = NoInst /\ phase' = "clear"
    BY <1>1, <1>2, <1>3, <1>6
  <2> HIDE DEF LifecycleInv
  <2>3. LifecycleTypeOK'
    BY <1>1, <1>5, <2>2 DEF LifecycleTypeOK, LifecycleInv
  <2>4. CursorInv'
    BY <1>1, <1>5, <2>1, <2>2 DEF CursorInv
  <2> QED BY <1>4, <2>3, <2>4 DEF LifecycleInv
<1>7. CASE Len(list) # 0
  <2>1. 1 \in 1..Len(list) /\ node' = list[1] /\ node' # NoInst
    BY <1>2, <1>3, <1>7, NoInstAssumption
  <2>2. phase' = "visit" /\ temp' = IF 1 < Len(list) THEN list[1 + 1] ELSE NoInst
    BY <1>1, <1>3, <2>1
  <2>3. temp' \in Inst \cup {NoInst} /\ node' \in Inst
    BY <1>2, <2>1, <2>2
  <2>4. LifecycleTypeOK'
    BY <1>1, <1>5, <2>2, <2>3 DEF LifecycleTypeOK
  <2>5. \A k \in DOMAIN list : 1 <= k
    BY <1>2
  <2>6. CursorInv'
    BY <1>1, <1>2, <2>1, <2>2, <2>5 DEF CursorInv, Passed
  <2> QED BY <1>4, <2>4, <2>6
<1> QED BY <1>6, <1>7

LEMMA ClearPrototypeHolds ==
  ASSUME LifecycleInv, NEW f \in Feat, ClearPrototype(f)
  PROVE  LifecycleInv'
<1> USE DEF LifecycleInv
<1> DEFINE gone == {i \in Inst : InSlot(i) /\ of[i][1] = f} \ kept
           mod == <<f, "module">>
           face == <<f, "interface">>
<1>1. /\ phase = "clear" /\ phase' = phase /\ Delete(gone)
      /\ slots' = [slots EXCEPT ![mod] = <<>>, ![face] = <<>>]
      /\ proto' = [proto EXCEPT ![mod] = "deleted", ![face] = "deleted"]
      /\ UNCHANGED <<of, iid, opaque, roots, cb, on, kept, detached, condemned,
                     node, temp, required, detaches>>
  BY DEF ClearPrototype
<1>2. Alive \subseteq detached /\ opaque = {}
  <2>1. Alive \subseteq detached
    BY <1>1 DEF CursorInv
  <2>2. \A i \in opaque : i \in Inst /\ of[i] # NoInst /\ i \notin detached
    BY DEF HoldsInv, LifecycleTypeOK, Initialized
  <2>3. \A i \in opaque : i \notin deleted
    BY <2>2 DEF HoldsInv
  <2> QED BY <2>1, <2>2, <2>3 DEF Alive
<1>3. gone \subseteq Inst /\ gone \subseteq deleted \cup detached
  <2>1. ASSUME NEW i \in Inst, InSlot(i) PROVE of[i] # NoInst
    <3>1. PICK p \in Proto : \E k \in DOMAIN slots[p] : slots[p][k] = i
      BY <2>1 DEF InSlot
    <3>2. of[i] = p
      BY <3>1, NoInstAssumption DEF SlotsInv
    <3> QED BY <3>1, <3>2, NoInstAssumption
  <2> QED BY <1>2, <2>1 DEF Alive
<1> HIDE DEF gone
<1>4. /\ list' \in Seq(Inst) /\ IsInjective(list')
      /\ Range(list') = Range(list) \ gone /\ deleted' = deleted \cup gone
  BY <1>1, Deleting DEF LifecycleTypeOK
<1>5. mod \in Proto /\ face \in Proto
  BY DEF Proto
<1> HIDE DEF mod, face
<1>6. /\ proto' \in [Proto -> {"none", "live", "deleted"}]
      /\ \A q \in Proto : slots'[q] = slots[q] \/ slots'[q] = <<>>
      /\ slots' \in [Proto -> Seq(Inst \cup {NoInst})]
  <2>1. <<>> \in Seq(Inst \cup {NoInst})
    BY EmptySeq
  <2> QED BY <1>1, <1>5, <2>1 DEF LifecycleTypeOK
<1>7. LifecycleTypeOK'
  <2>1. ToSet(list') = Alive'
    BY <1>1, <1>4 DEF Alive, LifecycleTypeOK, ToSet, Range
  <2>2. UNION {opaque', kept', detached', condemned', deleted', required'}
          \subseteq Inst
    BY <1>1, <1>3, <1>4 DEF LifecycleTypeOK
  <2> QED BY <1>1, <1>4, <1>6, <2>1, <2>2 DEF LifecycleTypeOK
<1>8. HoldsInv'
  BY <1>1, <1>3, <1>4 DEF HoldsInv, Initialized
<1>9. SlotsInv'
  <2>1. \A k : k \in DOMAIN <<>> => FALSE
    BY EmptySeq
  <2> QED BY <1>1, <1>6, <2>1 DEF SlotsInv
<1>10. OpaqueInSlot'
  BY <1>1, <1>2 DEF OpaqueInSlot
<1>11. RequiredInv'
  BY <1>1 DEF RequiredInv, IsModule, Initialized
<1>12. CursorInv'
  BY <1>1, <1>2, <1>4 DEF CursorInv, Alive
<1> QED BY <1>7, <1>8, <1>9, <1>10, <1>11, <1>12


(* A new node at the end of the list, before there is an object for it.    *)
LEMMA NewNode ==
  ASSUME LifecycleTypeOK, HoldsInv, NEW i \in Inst, of[i] = NoInst,
         list' = Append(list, i), NEW p \in Proto,
         of' = [of EXCEPT ![i] = p], deleted' = deleted
  PROVE  /\ list' \in Seq(Inst) /\ IsInjective(list') /\ ToSet(list') = Alive'
         /\ of' \in [Inst -> Proto \cup {NoInst}]
         /\ \A j \in Inst \ {i} : of'[j] = of[j]
         /\ of'[i] = p /\ i \notin detached \cup deleted \cup kept
<1>1. /\ of \in [Inst -> Proto \cup {NoInst}] /\ list \in Seq(Inst)
      /\ IsInjective(list)
  BY DEF LifecycleTypeOK
<1>2. /\ of' \in [Inst -> Proto \cup {NoInst}] /\ of'[i] = p
      /\ \A j \in Inst \ {i} : of'[j] = of[j]
  BY <1>1
<1>3. i \notin detached \cup deleted \cup kept
  BY DEF HoldsInv
<1>4. Range(list) = Alive
  BY DEF LifecycleTypeOK, ToSet, Range
<1>5. i \notin Range(list)
  BY <1>4 DEF Alive
<1>6. /\ IsInjective(list') /\ Range(list') = Range(list) \cup {i}
      /\ list' \in Seq(Inst)
  BY <1>1, <1>5, InjectiveAppend, AppendProperties
<1>7. p # NoInst
  BY NoInstAssumption
<1>8. Range(list') = Alive'
  BY <1>2, <1>3, <1>4, <1>6, <1>7 DEF Alive
<1> QED BY <1>2, <1>3, <1>6, <1>8 DEF ToSet, Range

LEMMA RequireHolds ==
  ASSUME LifecycleInv, NEW f \in Feat, NEW i \in Inst, Require(f, i)
  PROVE  LifecycleInv'
<1> DEFINE p == <<f, "module">>
<1>1. p \in Proto /\ p[2] = "module"
  BY DEF Proto
<1> HIDE DEF p
<1>2. /\ phase = "run" /\ condemned = {} /\ of[i] = NoInst
      /\ proto' = [proto EXCEPT ![p] = "live"] /\ of' = [of EXCEPT ![i] = p]
      /\ list' = Append(list, i) /\ AddInstance(p, i)
      /\ opaque' = opaque \cup {i} /\ roots' = roots \cup {i}
      /\ required' = required \cup {i}
      /\ cb' = cb /\ on' = on /\ kept' = kept /\ detached' = detached
      /\ condemned' = condemned /\ phase' = phase /\ node' = node /\ temp' = temp
      /\ deleted' = deleted /\ detaches' = detaches
  BY DEF Require, ScriptMayRun, p
<1>3. LifecycleTypeOK /\ HoldsInv /\ SlotsInv /\ OpaqueInSlot /\ RequiredInv
  BY DEF LifecycleInv
<1>4. /\ list' \in Seq(Inst) /\ IsInjective(list') /\ ToSet(list') = Alive'
      /\ of' \in [Inst -> Proto \cup {NoInst}]
      /\ \A j \in Inst \ {i} : of'[j] = of[j]
      /\ of'[i] = p /\ i \notin detached \cup deleted \cup kept
  BY <1>1, <1>2, <1>3, NewNode
<1>5. iid[i] = -1 /\ detaches[i] = 0
  BY <1>2, <1>3 DEF HoldsInv
<1>6. SlotsInv' /\ OpaqueInSlot'
  BY <1>1, <1>2, <1>3, <1>4, <1>5, AddingHolds
<1>7. slots' \in [Proto -> Seq(Inst \cup {NoInst})]
  BY <1>1, <1>2, <1>3, Adding
<1>8. PICK pos \in Nat \ {0} : iid' = [iid EXCEPT ![i] = pos - 1]
  BY <1>1, <1>2, <1>3, Adding
<1>9. /\ iid' \in [Inst -> Nat \cup {-1}] /\ iid'[i] >= 0
      /\ \A j \in Inst \ {i} : iid'[j] = iid[j]
  <2>1. pos - 1 \in Nat /\ iid \in [Inst -> Nat \cup {-1}]
    BY <1>3 DEF LifecycleTypeOK
  <2> QED BY <1>8, <2>1
<1>10. LifecycleTypeOK'
  <2>1. UNION {opaque', kept', detached', condemned', deleted', required'}
          \subseteq Inst
    BY <1>2, <1>3 DEF LifecycleTypeOK
  <2> QED BY <1>1, <1>2, <1>3, <1>4, <1>7, <1>9, <2>1 DEF LifecycleTypeOK
<1>11. HoldsInv'
  <2>1. ASSUME NEW j \in Inst
        PROVE  /\ j \in opaque' <=> iid'[j] >= 0 /\ j \notin detached
               /\ of'[j] = NoInst => iid'[j] = -1 /\ detaches[j] = 0
    BY <1>1, <1>2, <1>3, <1>4, <1>9, NoInstAssumption DEF HoldsInv, Initialized
  <2>2. \A j \in detached \cup kept : of'[j] # NoInst
    BY <1>3, <1>4 DEF HoldsInv, LifecycleTypeOK
  <2> QED BY <1>2, <1>3, <2>1, <2>2 DEF HoldsInv, Initialized
<1>12. RequiredInv'
  <2>1. ASSUME NEW j \in required'
        PROVE  /\ of'[j] # NoInst /\ of'[j][2] = "module" /\ iid'[j] >= 0
               /\ detaches[j] = IF j \in detached THEN 1 ELSE 0
    <3>1. CASE j = i
      BY <1>1, <1>4, <1>5, <1>9, <3>1, NoInstAssumption
    <3>2. CASE j # i
      <4>1. j \in required /\ j \in Inst
        BY <1>2, <1>3, <2>1, <3>2 DEF LifecycleTypeOK
      <4> QED BY <1>3, <1>4, <1>9, <3>2, <4>1 DEF RequiredInv, IsModule, Initialized
    <3> QED BY <3>1, <3>2
  <2> QED BY <1>2, <2>1 DEF RequiredInv, IsModule, Initialized
<1>13. CursorInv'
  BY <1>2 DEF CursorInv
<1> QED BY <1>6, <1>10, <1>11, <1>12, <1>13 DEF LifecycleInv

LEMMA CreateInterfaceHolds ==
  ASSUME LifecycleInv, NEW f \in Feat, NEW i \in Inst, CreateInterface(f, i)
  PROVE  LifecycleInv'
<1> DEFINE p == <<f, "module">>
<1>1. p \in Proto
  BY DEF Proto
<1> HIDE DEF p
<1>2. /\ phase = "run" /\ of[i] = NoInst /\ of' = [of EXCEPT ![i] = p]
      /\ list' = Append(list, i) /\ kept' = kept \cup {i}
      /\ UNCHANGED <<proto, slots, iid, opaque, roots, cb, on, detached, condemned,
                     phase, node, temp, deleted, required, detaches>>
  BY DEF CreateInterface, ScriptMayRun, p
<1>3. LifecycleTypeOK /\ HoldsInv /\ SlotsInv /\ OpaqueInSlot /\ RequiredInv
  BY DEF LifecycleInv
<1>4. /\ list' \in Seq(Inst) /\ IsInjective(list') /\ ToSet(list') = Alive'
      /\ of' \in [Inst -> Proto \cup {NoInst}]
      /\ \A j \in Inst \ {i} : of'[j] = of[j]
      /\ of'[i] = p /\ i \notin detached \cup deleted \cup kept
  BY <1>1, <1>2, <1>3, NewNode
<1>5. iid[i] = -1 /\ detaches[i] = 0
  BY <1>2, <1>3 DEF HoldsInv
<1>6. p # NoInst
  BY <1>1, NoInstAssumption
<1>7. LifecycleTypeOK'
  <2>1. UNION {opaque', kept', detached', condemned', deleted', required'}
          \subseteq Inst
    BY <1>2, <1>3 DEF LifecycleTypeOK
  <2> QED BY <1>2, <1>3, <1>4, <2>1 DEF LifecycleTypeOK
<1>8. HoldsInv'
  <2>1. \A j \in detached \cup kept' : of'[j] # NoInst
    BY <1>2, <1>3, <1>4, <1>6 DEF HoldsInv, LifecycleTypeOK
  <2>2. \A j \in Inst : of'[j] = NoInst => iid[j] = -1 /\ detaches[j] = 0
    BY <1>3, <1>4, <1>6 DEF HoldsInv
  <2> QED BY <1>2, <1>3, <2>1, <2>2 DEF HoldsInv, Initialized
<1>9. SlotsInv'
  <2>1. ASSUME NEW q \in Proto, NEW k \in DOMAIN slots[q], slots[q][k] # NoInst
        PROVE  of'[slots[q][k]] = q /\ iid[slots[q][k]] = k - 1
    <3>1. of[slots[q][k]] = q /\ iid[slots[q][k]] = k - 1
      BY <1>3, <2>1 DEF SlotsInv
    <3>2. slots[q][k] # i
      BY <1>2, <3>1, NoInstAssumption
    <3>3. slots[q][k] \in Inst
      <4>1. slots[q] \in Seq(Inst \cup {NoInst})
        BY <1>3 DEF LifecycleTypeOK
      <4>2. DOMAIN slots[q] = 1..Len(slots[q])
        BY <4>1, LenProperties
      <4>3. slots[q][k] \in Inst \cup {NoInst}
        BY <4>1, <4>2, ElementOfSeq
      <4> QED BY <2>1, <4>3
    <3> QED BY <1>4, <3>1, <3>2, <3>3
  <2> QED BY <1>2, <2>1 DEF SlotsInv
<1>10. OpaqueInSlot'
  <2>1. \A j \in opaque : j \in Inst /\ j # i
    BY <1>3, <1>5 DEF HoldsInv, Initialized, LifecycleTypeOK
  <2> QED BY <1>2, <1>3, <1>4, <2>1 DEF OpaqueInSlot
<1>11. RequiredInv'
  <2>1. \A j \in required : j \in Inst /\ j # i
    BY <1>3, <1>5 DEF RequiredInv, Initialized, LifecycleTypeOK
  <2> QED BY <1>2, <1>3, <1>4, <2>1 DEF RequiredInv, IsModule, Initialized
<1>12. CursorInv'
  BY <1>2 DEF CursorInv
<1> QED BY <1>7, <1>8, <1>9, <1>10, <1>11, <1>12 DEF LifecycleInv


LEMMA ConvertHolds ==
  ASSUME LifecycleInv, NEW i \in Inst, Convert(i)
  PROVE  LifecycleInv'
<1>1. /\ phase = "run" /\ of[i] # NoInst /\ i \notin detached \cup required
      /\ roots' = roots \cup {i}
      /\ UNCHANGED <<list, cb, on, detached, condemned, phase, node, temp, deleted,
                     required, detaches>>
  BY DEF Convert, ScriptMayRun
<1>2. LifecycleTypeOK /\ HoldsInv /\ SlotsInv /\ OpaqueInSlot /\ RequiredInv
  BY DEF LifecycleInv
<1>3. CursorInv'
  BY <1>1 DEF CursorInv
<1>4. CASE Initialized(i)
  <2>1. UNCHANGED <<proto, slots, of, iid, opaque, kept>>
    BY <1>4 DEF Convert
  <2>2. LifecycleTypeOK'
    <3>1. i \in opaque
      BY <1>1, <1>2, <1>4 DEF HoldsInv
    <3> QED BY <1>1, <1>2, <2>1, <3>1 DEF LifecycleTypeOK, Alive
  <2>3. HoldsInv'
    BY <1>1, <1>2, <2>1 DEF HoldsInv, Initialized
  <2>4. SlotsInv' /\ OpaqueInSlot'
    BY <1>1, <1>2, <2>1 DEF SlotsInv, OpaqueInSlot
  <2>5. RequiredInv'
    BY <1>1, <1>2, <2>1 DEF RequiredInv, IsModule, Initialized
  <2> QED BY <1>3, <2>2, <2>3, <2>4, <2>5 DEF LifecycleInv
<1>5. CASE ~Initialized(i)
  <2> DEFINE p == <<of[i][1], "interface">>
  <2>1. p \in Proto
    <3>1. of[i] \in Feat \X {"module", "interface"}
      BY <1>1, <1>2 DEF LifecycleTypeOK, Proto
    <3> QED BY <3>1 DEF Proto
  <2>2. /\ proto' = [proto EXCEPT ![p] = "live"] /\ of' = [of EXCEPT ![i] = p]
        /\ AddInstance(p, i) /\ opaque' = opaque \cup {i} /\ kept' = kept \ {i}
    BY <1>5 DEF Convert
  <2> HIDE DEF p
  <2>3. iid[i] = -1 /\ i \notin deleted \cup detached
    BY <1>1, <1>2, <1>5 DEF LifecycleTypeOK, HoldsInv, Initialized
  <2>4. SlotsInv' /\ OpaqueInSlot'
    BY <1>1, <1>2, <2>1, <2>2, <2>3, AddingHolds
  <2>5. slots' \in [Proto -> Seq(Inst \cup {NoInst})]
    BY <1>2, <2>1, <2>2, Adding
  <2>6. PICK pos \in Nat \ {0} : iid' = [iid EXCEPT ![i] = pos - 1]
    BY <1>2, <2>1, <2>2, Adding
  <2>7. /\ iid' \in [Inst -> Nat \cup {-1}] /\ iid'[i] >= 0
        /\ \A j \in Inst \ {i} : iid'[j] = iid[j]
    <3>1. pos - 1 \in Nat /\ iid \in [Inst -> Nat \cup {-1}]
      BY <1>2 DEF LifecycleTypeOK
    <3> QED BY <2>6, <3>1
  <2>8. /\ of' \in [Inst -> Proto \cup {NoInst}] /\ of'[i] = p /\ p # NoInst
        /\ \A j \in Inst \ {i} : of'[j] = of[j]
    BY <1>2, <2>1, <2>2, NoInstAssumption DEF LifecycleTypeOK
  <2>9. LifecycleTypeOK'
    <3>1. UNION {opaque', kept', detached', condemned', deleted', required'}
            \subseteq Inst
      BY <1>1, <1>2, <2>2 DEF LifecycleTypeOK
    <3>2. Alive' = Alive
      BY <1>1, <2>8 DEF Alive
    <3> QED BY <1>1, <1>2, <2>1, <2>2, <2>5, <2>7, <2>8, <3>1, <3>2
            DEF LifecycleTypeOK
  <2>10. HoldsInv'
    <3>1. ASSUME NEW j \in Inst
          PROVE  /\ j \in opaque' <=> iid'[j] >= 0 /\ j \notin detached
                 /\ of'[j] = NoInst => iid'[j] = -1 /\ detaches[j] = 0
      BY <1>2, <2>2, <2>3, <2>7, <2>8 DEF HoldsInv, Initialized
    <3>2. \A j \in detached \cup kept' : of'[j] # NoInst
      BY <1>2, <2>2, <2>8 DEF HoldsInv, LifecycleTypeOK
    <3> QED BY <1>1, <1>2, <2>2, <3>1, <3>2 DEF HoldsInv, Initialized
  <2>11. RequiredInv'
    <3>1. \A j \in required : j \in Inst /\ j # i
      BY <1>1, <1>2 DEF LifecycleTypeOK
    <3> QED BY <1>1, <1>2, <2>7, <2>8, <3>1 DEF RequiredInv, IsModule, Initialized
  <2> QED BY <1>3, <2>4, <2>9, <2>10, <2>11 DEF LifecycleInv
<1> QED BY <1>4, <1>5

(* Steps that only change who refers to an object, or the phase.           *)
LEMMA ReferenceHolds ==
  ASSUME LifecycleInv,
         UNCHANGED <<proto, slots, of, iid, list, opaque, detached, node, temp,
                     deleted, required, detaches>>,
         roots' \subseteq opaque, condemned' \subseteq opaque,
         cb' \in [Inst -> SUBSET Inst], on' \in [Inst -> SUBSET Inst],
         kept' \subseteq Inst, \A i \in kept' : of[i] # NoInst,
         CursorInv', phase' \in {"run", "visit", "visited", "clear", "end", "freed"}
  PROVE  LifecycleInv'
<1> USE DEF LifecycleInv
<1>1. LifecycleTypeOK'
  <2>1. UNION {opaque', kept', detached', condemned', deleted', required'}
          \subseteq Inst
    BY DEF LifecycleTypeOK
  <2> QED BY <2>1 DEF LifecycleTypeOK, Alive
<1>2. HoldsInv'
  BY DEF HoldsInv, Initialized
<1>3. SlotsInv' /\ OpaqueInSlot'
  BY DEF SlotsInv, OpaqueInSlot
<1>4. RequiredInv'
  BY DEF RequiredInv, IsModule, Initialized
<1> QED BY <1>1, <1>2, <1>3, <1>4

LEMMA ScriptHolds ==
  ASSUME LifecycleInv,
         \/ \E i, k \in Inst : Register(i, k)
         \/ \E i \in Inst : Drop(i) \/ Keep(i)
         \/ Collect \/ UninitEnd \/ FreeManager
  PROVE  LifecycleInv'
<1>1. LifecycleTypeOK /\ HoldsInv /\ CursorInv
  BY DEF LifecycleInv
<1>2. /\ roots \subseteq opaque /\ condemned \subseteq opaque /\ kept \subseteq Inst
      /\ cb \in [Inst -> SUBSET Inst] /\ on \in [Inst -> SUBSET Inst]
      /\ \A i \in kept : of[i] # NoInst
      /\ phase \in {"run", "visit", "visited", "clear", "end", "freed"}
  BY <1>1 DEF LifecycleTypeOK, HoldsInv
<1>3. phase = "run" /\ phase' = "run" => CursorInv'
  BY DEF CursorInv
<1>4. ASSUME NEW i \in Inst, NEW k \in Inst, Register(i, k)
      PROVE  LifecycleInv'
  <2>1. /\ UNCHANGED <<proto, slots, of, iid, list, opaque, roots, kept, detached,
                       condemned, phase, node, temp, deleted, required, detaches>>
        /\ phase = "run" /\ k \in Inst
        /\ \/ cb' = [cb EXCEPT ![i] = @ \cup {k}] /\ UNCHANGED on
           \/ on' = [on EXCEPT ![i] = @ \cup {k}] /\ UNCHANGED cb
    BY <1>4 DEF Register, ScriptMayRun
  <2>2. cb' \in [Inst -> SUBSET Inst] /\ on' \in [Inst -> SUBSET Inst]
    BY <1>2, <2>1
  <2> QED BY <1>2, <1>3, <2>1, <2>2, ReferenceHolds
<1>5. ASSUME NEW i \in Inst, Drop(i)
      PROVE  LifecycleInv'
  <2>1. /\ UNCHANGED <<proto, slots, of, iid, list, opaque, cb, on, kept, detached,
                       phase, node, temp, deleted, required, detaches>>
        /\ phase = "run" /\ roots' \subseteq roots /\ i \in roots
        /\ condemned' \subseteq {i}
    BY <1>5 DEF Drop, ScriptMayRun
  <2> QED BY <1>2, <1>3, <2>1, ReferenceHolds
<1>6. ASSUME NEW i \in Inst, Keep(i)
      PROVE  LifecycleInv'
  <2>1. /\ UNCHANGED <<proto, slots, of, iid, list, opaque, roots, cb, on, detached,
                       condemned, phase, node, temp, deleted, required, detaches>>
        /\ phase = "run" /\ kept' = kept \cup {i} /\ of[i] # NoInst
    BY <1>6 DEF Keep, ScriptMayRun, IsModule
  <2> QED BY <1>2, <1>3, <2>1, ReferenceHolds
<1>7. CASE Collect
  <2>1. /\ UNCHANGED <<proto, slots, of, iid, list, opaque, roots, cb, on, kept,
                       detached, phase, node, temp, deleted, required, detaches>>
        /\ phase = "run" /\ condemned' = Unreachable
    BY <1>7 DEF Collect, ScriptMayRun
  <2>2. Unreachable \subseteq opaque
    BY DEF Unreachable
  <2> QED BY <1>2, <1>3, <2>1, <2>2, ReferenceHolds
<1>8. CASE UninitEnd \/ FreeManager
  <2>1. /\ UNCHANGED <<proto, slots, of, iid, list, opaque, roots, cb, on, kept,
                       detached, condemned, node, temp, deleted, required, detaches>>
        /\ phase \in {"clear", "end"} /\ phase' \in {"end", "freed"}
    BY <1>8 DEF UninitEnd, FreeManager
  <2>2. CursorInv'
    BY <1>1, <2>1 DEF CursorInv, Alive
  <2> QED BY <1>2, <2>1, <2>2, ReferenceHolds
<1> QED BY <1>4, <1>5, <1>6, <1>7, <1>8

-----------------------------------------------------------------------------
LEMMA LifecycleInvHolds ==
  LifecycleInit /\ [][LifecycleNext]_fmVars => []LifecycleInv
<1>1. LifecycleInit => LifecycleInv
  <2> SUFFICES ASSUME LifecycleInit PROVE LifecycleInv
    OBVIOUS
  <2>1. /\ <<>> \in Seq(Inst) /\ <<>> \in Seq(Inst \cup {NoInst})
        /\ Len(<<>>) = 0 /\ DOMAIN <<>> = {}
    BY EmptySeq
  <2>2. LifecycleTypeOK
    <3>1. IsInjective(list) /\ ToSet(list) = Alive
      BY <2>1 DEF LifecycleInit, IsInjective, ToSet, Alive
    <3> QED BY <2>1, <3>1 DEF LifecycleInit, LifecycleTypeOK
  <2>3. HoldsInv /\ OpaqueInSlot /\ RequiredInv /\ CursorInv
    BY DEF LifecycleInit, HoldsInv, Initialized, OpaqueInSlot, RequiredInv,
           CursorInv
  <2>4. SlotsInv
    BY <2>1 DEF LifecycleInit, SlotsInv
  <2> QED BY <2>2, <2>3, <2>4 DEF LifecycleInv
<1>2. LifecycleInv /\ [LifecycleNext]_fmVars => LifecycleInv'
  <2> SUFFICES ASSUME LifecycleInv, [LifecycleNext]_fmVars PROVE LifecycleInv'
    OBVIOUS
  <2>1. ASSUME NEW f \in Feat, NEW i \in Inst, Require(f, i) PROVE LifecycleInv'
    BY <2>1, RequireHolds
  <2>2. ASSUME NEW f \in Feat, NEW i \in Inst, CreateInterface(f, i)
        PROVE  LifecycleInv'
    BY <2>2, CreateInterfaceHolds
  <2>3. ASSUME NEW i \in Inst, Convert(i) PROVE LifecycleInv'
    BY <2>3, ConvertHolds
  <2>4. ASSUME NEW i \in Inst, LetGo(i) PROVE LifecycleInv'
    BY <2>4, LetGoHolds
  <2>5. ASSUME NEW i \in Inst, Finalize(i) PROVE LifecycleInv'
    BY <2>5, FinalizeHolds
  <2>6. ASSUME NEW f \in Feat, ClearPrototype(f) PROVE LifecycleInv'
    BY <2>6, ClearPrototypeHolds
  <2>7. CASE Visit
    BY <2>7, VisitHolds
  <2>8. CASE Advance
    BY <2>8, AdvanceHolds
  <2>9. CASE UninitBegin
    BY <2>9, UninitBeginHolds
  <2>10. CASE \/ \E i, k \in Inst : Register(i, k)
              \/ \E i \in Inst : Drop(i) \/ Keep(i)
              \/ Collect \/ UninitEnd \/ FreeManager
    BY <2>10, ScriptHolds
  <2>11. CASE UNCHANGED fmVars
    <3>1. UNCHANGED <<proto, slots, of, iid, list, opaque, detached, node, temp,
                      deleted, required, detaches>>
      BY <2>11 DEF fmVars
    <3>2. /\ roots' = roots /\ cb' = cb /\ on' = on /\ kept' = kept
          /\ condemned' = condemned /\ phase' = phase
      BY <2>11 DEF fmVars
    <3>3. CursorInv'
      BY <3>1, <3>2 DEF LifecycleInv, CursorInv, Passed, Alive
    <3> QED BY <3>1, <3>2, <3>3, ReferenceHolds
            DEF LifecycleInv, LifecycleTypeOK, HoldsInv
  <2> QED
    BY <2>1, <2>2, <2>3, <2>4, <2>5, <2>6, <2>7, <2>8, <2>9, <2>10, <2>11
       DEF LifecycleNext, Engine, Uninit, LifecycleEnd
<1> QED BY <1>1, <1>2, PTL

LEMMA LifecycleInvGives ==
  LifecycleInv => LifecycleTypeOK /\ OpaqueInSlot /\ DetachedBeforeEnd
BY DEF LifecycleInv, HoldsInv, RequiredInv, CursorInv, DetachedBeforeEnd

(* Prototypes, slots, the list of instances and the cursors of uninit stay *)
(* within their types, and the list holds each living instance once.       *)
THEOREM LifecycleTypesHold ==
  LifecycleSpec => []LifecycleTypeOK
BY LifecycleInvHolds, LifecycleInvGives, PTL DEF LifecycleSpec

-----------------------------------------------------------------------------
(***************************************************************************)
(* The engine steps one of its parts.                                      *)
(***************************************************************************)

LEMMA EngineLoaded == EngineSpec => ResultsSpec /\ LifecycleSpec
<1>1. EngineInit => ResultsInit /\ LifecycleInit
  BY DEF EngineInit
<1>2. [EngineNext]_<<loaded, rsVars, fmVars, vars>> =>
        [ResultsNext]_rsVars /\ [LifecycleNext]_fmVars
  BY DEF EngineNext
<1> QED BY <1>1, <1>2, PTL DEF EngineSpec, ResultsSpec, LifecycleSpec

(* Each result of a call is heard once, and a function that is not shared  *)
(* hears it before it goes, whatever runs inside the functions of others   *)
(* and whenever the instance leaves.                                       *)
THEOREM EngineResultsHeard ==
  ASSUME "resettle" \notin Liberty
  PROVE  EngineSpec => []ResultsHeard
<1>1. ResultsInv => ResultsHeard
  BY ResultsInvGives DEF ResultsHeard
<1> QED BY <1>1, EngineLoaded, ResultsInvHolds, PTL

(* The opaque of an object and the slot of its instance agree in every     *)
(* order of requiring, dropping, collecting, finalizing and uninit, also   *)
(* where detaching an instance frees the object of another, and the module *)
(* hears onDetached once before an instance goes.                          *)
THEOREM EngineObjectsInStep == EngineSpec => []ObjectsInStep
<1>1. LifecycleInv => ObjectsInStep
  BY LifecycleInvGives DEF ObjectsInStep
<1> QED BY <1>1, EngineLoaded, LifecycleInvHolds, PTL DEF LifecycleSpec
=============================================================================
