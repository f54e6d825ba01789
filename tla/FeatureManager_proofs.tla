----------------------- MODULE FeatureManager_proofs ------------------------
(***************************************************************************)
(* Theorems about FeatureManager, for every finite set of instances and    *)
(* threads, every bound on the posts and both values of Quiesce.           *)
(*                                                                         *)
(* The inductive invariant IInv is the conjunction of                      *)
(*   IntType     the type invariant with the counts only known to be       *)
(*               integers: that they are never negative is a consequence   *)
(*               of the accounting, not of one step;                       *)
(*   FrameInv    how main's frame determines the local queue of            *)
(*               runAllTasks;                                              *)
(*   UnbornInv   nobody owns an instance that was never required;          *)
(*   HistoryInv  batch and queue are the accepted tasks that have not been *)
(*               released, in order, and ran counts the others;            *)
(*   RefCountExact  the accounting itself.                                 *)
(* TeardownInv and, for a host that stops the posting first, QuietInv add  *)
(* what the end of the manager needs: that nothing is left behind, and     *)
(* that the manager is a mailbox which closes only when it is empty.       *)
(*                                                                         *)
(* The last section is about Conversions, the arguments of the calls that  *)
(* these instances get.                                                    *)
(***************************************************************************)
EXTENDS FeatureManager, Conversions, FiniteSetTheorems, SequenceTheorems, TLAPS

IntType ==
  /\ ref \in [Inst -> Int]
  /\ slot \in [Inst -> {"empty", "held", "cleared"}]
  /\ detached \in [Inst -> BOOLEAN]
  /\ detaching \in Inst \cup {None}
  /\ held \in [Thread -> Inst \cup {None}]
  /\ pc \in [Thread -> PostStep]
  /\ queue \in Seq(Task) /\ batch \in Seq(Task)
  /\ async \in BOOLEAN /\ wakeup \in BOOLEAN /\ ctx \in BOOLEAN
  /\ main \in MainFrame /\ mode \in {"NORMAL", "FREE"}
  /\ accepted \in Seq(Inst) /\ ran \in Seq(Nat \ {0})

FrameInv ==
  /\ main = "callback" => batch # <<>>
  /\ main \notin {"tasks", "callback"} => batch = <<>>
  /\ \A t \in Thread : pc[t] # "idle" => held[t] # None
  /\ detaching # None /\ main # "uninit" => slot[detaching] = "held"

(* An instance that was never required is not counted nor being detached. *)
UnbornInv ==
  \A i \in Inst : slot[i] = "empty" => ref[i] = 0 /\ detaching # i

(* The task that was accepted as number n. *)
TaskOf(n) == [id |-> n, inst |-> accepted[n]]

HistoryInv ==
  /\ Unreleased >= 0
  /\ \A k \in 1..Len(batch) : batch[k] = TaskOf(Unreleased + k)
  /\ \A k \in 1..Len(queue) : queue[k] = TaskOf(Unreleased + Len(batch) + k)
  /\ Len(ran) = Unreleased + (IF main = "callback" THEN 1 ELSE 0)
  /\ InOrderOnce

IInv == IntType /\ FrameInv /\ UnbornInv /\ HistoryInv /\ RefCountExact

-----------------------------------------------------------------------------
(* Facts about tasks and queues. *)

(* What a task's fields are. *)
LEMMA TaskFields ==
  ASSUME NEW x \in Task
  PROVE  x.id \in Nat \ {0} /\ x.inst \in Inst
BY DEF Task

(* A new task is a task. *)
LEMMA NewTask ==
  ASSUME NEW n \in Nat, NEW i \in Inst
  PROVE  [id |-> n + 1, inst |-> i] \in Task
BY DEF Task

(* Taking the head off a queue that is not empty. *)
LEMMA HeadAndTail ==
  ASSUME NEW T, NEW q \in Seq(T), q # <<>>
  PROVE  /\ Head(q) \in T /\ Tail(q) \in Seq(T)
         /\ Head(q) = q[1]
         /\ Len(q) \in Nat \ {0} /\ Len(Tail(q)) = Len(q) - 1
         /\ \A k \in 1..Len(Tail(q)) : Tail(q)[k] = q[k + 1]
OBVIOUS

(* The queue after the swap. *)
LEMMA EmptyQueue == \A T : <<>> \in Seq(T) /\ Len(<<>>) = 0
OBVIOUS

(* Appending to a queue. *)
LEMMA AppendAtEnd ==
  ASSUME NEW T, NEW q \in Seq(T), NEW x \in T
  PROVE  /\ Append(q, x) \in Seq(T)
         /\ Len(Append(q, x)) = Len(q) + 1
         /\ \A k \in 1..Len(q) : Append(q, x)[k] = q[k]
         /\ Append(q, x)[Len(q) + 1] = x
OBVIOUS

(* Changing one count keeps the counts integers. *)
LEMMA CountUpdate ==
  ASSUME NEW f \in [Inst -> Int], NEW i \in Inst, NEW n \in Int
  PROVE  [f EXCEPT ![i] = n] \in [Inst -> Int]
OBVIOUS

(* Every step preserves the types. *)
LEMMA IntTypeStep ==
  ASSUME IntType, FrameInv, [Next]_vars
  PROVE  IntType'
<1> USE DEF IntType, PostStep, MainFrame
<1>1. ASSUME NEW i \in Inst, Require(i)
      PROVE  IntType'
  BY <1>1 DEF Require
<1>2. ASSUME NEW i \in Inst, DetachBegin(i)
      PROVE  IntType'
  BY <1>2 DEF DetachBegin
<1>3. ASSUME NEW i \in Inst, DetachEnd(i)
      PROVE  IntType'
  <2>1. CASE main = "uninit"
    BY <1>3, <2>1 DEF DetachEnd
  <2>2. CASE main # "uninit"
    <3>1. ref' \in [Inst -> Int]
      BY <1>3, <2>2, ref[i] - 1 \in Int, CountUpdate DEF DetachEnd
    <3>2. slot' \in [Inst -> {"empty", "held", "cleared"}]
      BY <1>3, <2>2 DEF DetachEnd
    <3>3. detached' \in [Inst -> BOOLEAN]
      BY <1>3 DEF DetachEnd
    <3> QED
      BY <1>3, <3>1, <3>2, <3>3 DEF DetachEnd
  <2> QED
    BY <2>1, <2>2
<1>4. ASSUME NEW i \in Inst, MainPost(i)
      PROVE  IntType'
  <2>1. queue' \in Seq(Task) /\ accepted' \in Seq(Inst)
    BY <1>4, NewTask, AppendAtEnd DEF MainPost, Push
  <2> QED
    BY <1>4, <2>1 DEF MainPost
<1>5. ASSUME NEW t \in Thread, NEW i \in Inst, StartThread(t, i)
      PROVE  IntType'
  BY <1>5 DEF StartThread
<1>6. ASSUME NEW t \in Thread, ReleaseHandle(t)
      PROVE  IntType'
  BY <1>6 DEF ReleaseHandle
<1>7. ASSUME NEW t \in Thread, PostCheck(t)
      PROVE  IntType'
  BY <1>7 DEF PostCheck
<1>8. ASSUME NEW t \in Thread, PostDup(t)
      PROVE  IntType'
  <2>1. held[t] \in Inst
    BY <1>8 DEF PostDup, FrameInv
  <2> QED
    BY <1>8, <2>1 DEF PostDup
<1>9. ASSUME NEW t \in Thread, PostPush(t)
      PROVE  IntType'
  <2>1. held[t] \in Inst
    BY <1>9 DEF PostPush, FrameInv
  <2>2. queue' \in Seq(Task) /\ accepted' \in Seq(Inst)
    BY <1>9, <2>1, NewTask, AppendAtEnd DEF PostPush, Push
  <2>3. pc' \in [Thread -> PostStep]
    BY <1>9 DEF PostPush
  <2> QED
    BY <1>9, <2>2, <2>3 DEF PostPush
<1>10. ASSUME NEW t \in Thread, PostTest(t)
      PROVE  IntType'
  BY <1>10 DEF PostTest
<1>11. ASSUME NEW t \in Thread, PostSend(t)
      PROVE  IntType'
  BY <1>11 DEF PostSend
<1>12. CASE AsyncCallback
  <2>1. queue' \in Seq(Task) /\ batch' \in Seq(Task)
    BY <1>12, EmptyQueue DEF AsyncCallback, SwapTasks
  <2> QED
    BY <1>12, <2>1 DEF AsyncCallback, SwapTasks
<1>13. CASE BeginTask
  <2>1. Head(batch).id \in Nat \ {0}
    BY <1>13, HeadAndTail, TaskFields DEF BeginTask
  <2>2. ran' \in Seq(Nat \ {0})
    BY <1>13, <2>1, AppendAtEnd DEF BeginTask
  <2> QED
    BY <1>13, <2>2 DEF BeginTask
<1>14. CASE EndTask
  <2>1. batch # <<>>
    BY <1>14 DEF EndTask, FrameInv
  <2>2. batch' \in Seq(Task) /\ Head(batch).inst \in Inst
    BY <1>14, <2>1, HeadAndTail, TaskFields DEF EndTask
  <2>3. ref' \in [Inst -> Int]
    BY <1>14, <2>2 DEF EndTask
  <2> QED
    BY <1>14, <2>2, <2>3 DEF EndTask
<1>15. CASE EndBatch
  BY <1>15 DEF EndBatch
<1>16. CASE UnsetUVLoop
  BY <1>16 DEF UnsetUVLoop
<1>17. CASE UninitBegin
  BY <1>17 DEF UninitBegin
<1>18. CASE UninitEnd
  <2>1. ref' \in [Inst -> Int]
    BY <1>18 DEF UninitEnd
  <2>2. slot' \in [Inst -> {"empty", "held", "cleared"}]
    BY <1>18 DEF UninitEnd
  <2> QED
    BY <1>18, <2>1, <2>2 DEF UninitEnd
<1>19. CASE FreeManager
  BY <1>19 DEF FreeManager, SwapTasks
<1>20. CASE Finished \/ UNCHANGED vars
  BY <1>20 DEF Finished, vars
<1> QED
  BY <1>1, <1>2, <1>3, <1>4, <1>5, <1>6, <1>7, <1>8, <1>9, <1>10, <1>11,
     <1>12, <1>13, <1>14, <1>15, <1>16, <1>17, <1>18, <1>19, <1>20
     DEF Next, PostSteps, Teardown

(* Every step preserves the frames. *)
LEMMA FrameStep ==
  ASSUME IntType, FrameInv, NoneAssumption, [Next]_vars
  PROVE  FrameInv'
<1> USE DEF IntType, FrameInv, PostStep, MainFrame
<1>1. ASSUME NEW i \in Inst, Require(i)
      PROVE  FrameInv'
  BY <1>1 DEF Require
<1>2. ASSUME NEW i \in Inst, DetachBegin(i)
      PROVE  FrameInv'
  BY <1>2 DEF DetachBegin
<1>3. ASSUME NEW i \in Inst, DetachEnd(i)
      PROVE  FrameInv'
  BY <1>3 DEF DetachEnd
<1>4. ASSUME NEW i \in Inst, MainPost(i)
      PROVE  FrameInv'
  BY <1>4 DEF MainPost, Push
<1>5. ASSUME NEW t \in Thread, NEW i \in Inst, StartThread(t, i)
      PROVE  FrameInv'
  BY <1>5 DEF StartThread
<1>6. ASSUME NEW t \in Thread, ReleaseHandle(t)
      PROVE  FrameInv'
  BY <1>6 DEF ReleaseHandle
<1>7. ASSUME NEW t \in Thread, PostCheck(t)
      PROVE  FrameInv'
  BY <1>7 DEF PostCheck
<1>8. ASSUME NEW t \in Thread, PostDup(t)
      PROVE  FrameInv'
  BY <1>8 DEF PostDup
<1>9. ASSUME NEW t \in Thread, PostPush(t)
      PROVE  FrameInv'
  BY <1>9 DEF PostPush, Push
<1>10. ASSUME NEW t \in Thread, PostTest(t)
      PROVE  FrameInv'
  BY <1>10 DEF PostTest
<1>11. ASSUME NEW t \in Thread, PostSend(t)
      PROVE  FrameInv'
  BY <1>11 DEF PostSend
<1>12. CASE AsyncCallback
  BY <1>12 DEF AsyncCallback, SwapTasks
<1>13. CASE BeginTask
  BY <1>13 DEF BeginTask
<1>14. CASE EndTask
  BY <1>14 DEF EndTask
<1>15. CASE EndBatch
  BY <1>15 DEF EndBatch
<1>16. CASE UnsetUVLoop
  BY <1>16 DEF UnsetUVLoop
<1>17. CASE UninitBegin
  BY <1>17 DEF UninitBegin
<1>18. CASE UninitEnd
  BY <1>18 DEF UninitEnd
<1>19. CASE FreeManager
  BY <1>19 DEF FreeManager, SwapTasks
<1>20. CASE Finished \/ UNCHANGED vars
  BY <1>20 DEF Finished, vars
<1> QED
  BY <1>1, <1>2, <1>3, <1>4, <1>5, <1>6, <1>7, <1>8, <1>9, <1>10, <1>11,
     <1>12, <1>13, <1>14, <1>15, <1>16, <1>17, <1>18, <1>19, <1>20
     DEF Next, PostSteps, Teardown

-----------------------------------------------------------------------------
(* The history: what is queued is what was accepted and not yet released. *)

(* A push keeps the history, whoever pushes. *)
LEMMA PushHistory ==
  ASSUME IntType, HistoryInv, NEW i \in Inst, Push(i),
         UNCHANGED <<batch, main, ran>>
  PROVE  HistoryInv' /\ Unreleased' = Unreleased
<1> DEFINE x == [id |-> Len(accepted) + 1, inst |-> i]
<1>1. /\ Len(accepted) \in Nat /\ Len(batch) \in Nat /\ Len(queue) \in Nat
      /\ x \in Task
  BY NewTask DEF IntType
<1>2. /\ Len(queue') = Len(queue) + 1
      /\ \A k \in 1..Len(queue) : queue'[k] = queue[k]
      /\ queue'[Len(queue) + 1] = x
  BY <1>1, AppendAtEnd DEF IntType, Push
<1>3. /\ Len(accepted') = Len(accepted) + 1
      /\ \A k \in 1..Len(accepted) : accepted'[k] = accepted[k]
      /\ accepted'[Len(accepted) + 1] = i
  BY AppendAtEnd DEF IntType, Push
<1>4. Unreleased' = Unreleased
  BY <1>1, <1>2, <1>3 DEF Unreleased
<1>5. \A k \in 1..Len(accepted) : TaskOf(k)' = TaskOf(k)
  BY <1>3 DEF TaskOf
<1>6. Unreleased \in Nat /\ Unreleased + Len(batch) + Len(queue) = Len(accepted)
  BY <1>1 DEF HistoryInv, Unreleased
<1>7. \A k \in 1..Len(batch') : batch'[k] = TaskOf(Unreleased + k)'
  <2>1. \A k \in 1..Len(batch) :
          batch[k] = TaskOf(Unreleased + k) /\ Unreleased + k \in 1..Len(accepted)
    BY <1>1, <1>6 DEF HistoryInv
  <2> QED BY <1>4, <1>5, <2>1
<1>8. \A k \in 1..Len(queue') : queue'[k] = TaskOf(Unreleased + Len(batch) + k)'
  <2> SUFFICES ASSUME NEW k \in 1..Len(queue')
               PROVE  queue'[k] = TaskOf(Unreleased + Len(batch) + k)'
    OBVIOUS
  <2>1. CASE k \in 1..Len(queue)
    <3>1. Unreleased + Len(batch) + k \in 1..Len(accepted)
      BY <1>1, <1>6, <2>1
    <3>2. queue[k] = TaskOf(Unreleased + Len(batch) + k)
      BY <2>1 DEF HistoryInv
    <3> QED
      BY <1>2, <1>4, <1>5, <2>1, <3>1, <3>2
  <2>2. CASE k = Len(queue) + 1
    <3>1. Unreleased + Len(batch) + k = Len(accepted) + 1
      BY <1>1, <1>6, <2>2
    <3> QED
      BY <1>2, <1>3, <1>4, <2>2, <3>1 DEF TaskOf
  <2> QED
    BY <1>1, <1>2, <2>1, <2>2
<1> QED
  BY <1>4, <1>6, <1>7, <1>8 DEF HistoryInv, InOrderOnce

(* A step that leaves the queues alone keeps the history. *)
LEMMA SameHistory ==
  ASSUME HistoryInv, UNCHANGED <<queue, batch, accepted, ran>>,
         (main' = "callback") <=> (main = "callback")
  PROVE  HistoryInv' /\ Unreleased' = Unreleased
BY DEF HistoryInv, InOrderOnce, Unreleased, TaskOf

(* The swap turns the queue into the batch of an idle runAllTasks. *)
LEMMA SwapHistory ==
  ASSUME IntType, HistoryInv, batch = <<>>, main # "callback", SwapTasks,
         UNCHANGED <<accepted, ran>>
  PROVE  HistoryInv' /\ Unreleased' = Unreleased
<1>1. /\ Len(accepted) \in Nat /\ Len(queue) \in Nat
      /\ Len(batch) = 0 /\ Len(batch') = Len(queue) /\ Len(queue') = 0
  BY EmptyQueue DEF IntType, SwapTasks
<1>2. Unreleased' = Unreleased /\ Unreleased \in Int
  BY <1>1 DEF Unreleased, SwapTasks
<1>3. \A k \in 1..Len(batch') : batch'[k] = TaskOf(Unreleased + k)'
  BY <1>1, <1>2 DEF HistoryInv, TaskOf, SwapTasks
<1>4. \A k \in 1..Len(queue') : queue'[k] = TaskOf(Unreleased + Len(batch) + k)'
  BY <1>1
<1> QED
  BY <1>2, <1>3, <1>4 DEF HistoryInv, InOrderOnce, SwapTasks

(* The head of the batch is the oldest task not released. *)
LEMMA HeadOfBatch ==
  ASSUME IntType, HistoryInv, batch # <<>>
  PROVE  /\ Unreleased \in Nat /\ Unreleased + 1 \in 1..Len(accepted)
         /\ Head(batch) = TaskOf(Unreleased + 1)
         /\ Head(batch).inst = accepted[Unreleased + 1]
         /\ accepted[Unreleased + 1] \in Inst
<1>1. /\ Head(batch) = batch[1] /\ Len(batch) \in Nat \ {0}
      /\ Len(queue) \in Nat /\ Len(accepted) \in Nat
  BY HeadAndTail DEF IntType
<1>2. batch[1] = TaskOf(Unreleased + 1)
  BY <1>1 DEF HistoryInv
<1>3. Unreleased \in Nat /\ Unreleased + 1 \in 1..Len(accepted)
  BY <1>1 DEF HistoryInv, Unreleased
<1> QED
  BY <1>1, <1>2, <1>3 DEF TaskOf, IntType

(* Releasing the head of the batch moves Unreleased one on. *)
LEMMA EndHistory ==
  ASSUME IntType, FrameInv, HistoryInv, EndTask
  PROVE  HistoryInv' /\ Unreleased' = Unreleased + 1
<1>1. batch # <<>>
  BY DEF EndTask, FrameInv
<1>2. /\ Len(batch) \in Nat \ {0} /\ Len(batch') = Len(batch) - 1
      /\ \A k \in 1..Len(batch') : batch'[k] = batch[k + 1]
      /\ Len(queue) \in Nat /\ Len(accepted) \in Nat
  BY <1>1, HeadAndTail DEF IntType, EndTask
<1>3. Unreleased' = Unreleased + 1 /\ Unreleased \in Int
  BY <1>2 DEF Unreleased, EndTask
<1>4. \A n : TaskOf(n)' = TaskOf(n)
  BY DEF TaskOf, EndTask
<1>5. \A k \in 1..Len(batch') : batch'[k] = TaskOf(Unreleased + k)'
  <2> SUFFICES ASSUME NEW k \in 1..Len(batch')
               PROVE  batch'[k] = TaskOf(Unreleased + k)'
    OBVIOUS
  <2>1. batch[k + 1] = TaskOf(Unreleased + (k + 1))
    BY <1>2 DEF HistoryInv
  <2>2. Unreleased + (k + 1) = Unreleased' + k
    BY <1>2, <1>3
  <2> QED
    BY <1>2, <1>4, <2>1, <2>2
<1>6. \A k \in 1..Len(queue') : queue'[k] = TaskOf(Unreleased + Len(batch) + k)'
  <2> SUFFICES ASSUME NEW k \in 1..Len(queue')
               PROVE  queue'[k] = TaskOf(Unreleased + Len(batch) + k)'
    OBVIOUS
  <2>1. queue[k] = TaskOf(Unreleased + Len(batch) + k) /\ queue' = queue
    BY DEF HistoryInv, EndTask
  <2>2. Unreleased' + Len(batch') + k = Unreleased + Len(batch) + k
    BY <1>2, <1>3 DEF EndTask
  <2> QED
    BY <1>4, <2>1, <2>2
<1>7. Len(ran') = Unreleased' + 0 /\ main' # "callback" /\ Unreleased' >= 0
  BY <1>3 DEF HistoryInv, EndTask
<1> QED
  BY <1>3, <1>5, <1>6, <1>7 DEF HistoryInv, InOrderOnce, EndTask

(* Calling the head of the batch appends its number to the log. *)
LEMMA BeginHistory ==
  ASSUME IntType, HistoryInv, BeginTask
  PROVE  HistoryInv' /\ Unreleased' = Unreleased
<1>1. Head(batch).id = Unreleased + 1 /\ Unreleased \in Nat
  BY HeadOfBatch DEF BeginTask, TaskOf
<1>2. /\ Len(ran) = Unreleased /\ Len(ran') = Len(ran) + 1
      /\ \A k \in 1..Len(ran) : ran'[k] = ran[k]
      /\ ran'[Len(ran) + 1] = Unreleased + 1
  BY <1>1, AppendAtEnd DEF IntType, HistoryInv, BeginTask
<1>3. ran' \in Seq(Nat \ {0})
  BY <1>1, AppendAtEnd DEF IntType, BeginTask
<1>4. InOrderOnce'
  <2>1. DOMAIN ran = 1..Len(ran) /\ DOMAIN ran' = 1..Len(ran') /\ Len(ran) \in Nat
    BY <1>3 DEF IntType
  <2>2. \A k \in 1..Len(ran) : ran[k] = k
    BY <2>1 DEF HistoryInv, InOrderOnce
  <2>3. \A k \in 1..Len(ran') : k \in 1..Len(ran) \/ k = Len(ran) + 1
    BY <1>2, <2>1
  <2>4. \A k \in 1..Len(ran') : ran'[k] = k
    BY <1>2, <2>2, <2>3
  <2> QED
    BY <2>1, <2>4 DEF InOrderOnce
<1>5. Unreleased' = Unreleased
  BY DEF Unreleased, BeginTask
<1> QED
  BY <1>2, <1>4, <1>5 DEF HistoryInv, BeginTask, TaskOf

(* Every step preserves the history. *)
LEMMA HistoryStep ==
  ASSUME IntType, FrameInv, HistoryInv, [Next]_vars
  PROVE  HistoryInv'
<1>1. ASSUME NEW i \in Inst, Require(i)
      PROVE  HistoryInv'
  BY <1>1, SameHistory DEF Require
<1>2. ASSUME NEW i \in Inst, DetachBegin(i)
      PROVE  HistoryInv'
  BY <1>2, SameHistory DEF DetachBegin
<1>3. ASSUME NEW i \in Inst, DetachEnd(i)
      PROVE  HistoryInv'
  BY <1>3, SameHistory DEF DetachEnd
<1>4. ASSUME NEW i \in Inst, MainPost(i)
      PROVE  HistoryInv'
  BY <1>4, PushHistory DEF MainPost
<1>5. ASSUME NEW t \in Thread, NEW i \in Inst, StartThread(t, i)
      PROVE  HistoryInv'
  BY <1>5, SameHistory DEF StartThread
<1>6. ASSUME NEW t \in Thread, ReleaseHandle(t)
      PROVE  HistoryInv'
  BY <1>6, SameHistory DEF ReleaseHandle
<1>7. ASSUME NEW t \in Thread, PostCheck(t)
      PROVE  HistoryInv'
  BY <1>7, SameHistory DEF PostCheck
<1>8. ASSUME NEW t \in Thread, PostDup(t)
      PROVE  HistoryInv'
  BY <1>8, SameHistory DEF PostDup
<1>9. ASSUME NEW t \in Thread, PostPush(t)
      PROVE  HistoryInv'
  <2>1. held[t] \in Inst
    BY <1>9 DEF PostPush, FrameInv, IntType
  <2> QED
    BY <1>9, <2>1, PushHistory DEF PostPush
<1>10. ASSUME NEW t \in Thread, PostTest(t)
      PROVE  HistoryInv'
  BY <1>10, SameHistory DEF PostTest
<1>11. ASSUME NEW t \in Thread, PostSend(t)
      PROVE  HistoryInv'
  BY <1>11, SameHistory DEF PostSend
<1>12. CASE AsyncCallback
  BY <1>12, SwapHistory DEF AsyncCallback, FrameInv
<1>13. CASE BeginTask
  BY <1>13, BeginHistory
<1>14. CASE EndTask
  BY <1>14, EndHistory
<1>15. CASE EndBatch
  BY <1>15, SameHistory DEF EndBatch
<1>16. CASE UnsetUVLoop
  BY <1>16, SameHistory DEF UnsetUVLoop
<1>17. CASE UninitBegin
  BY <1>17, SameHistory DEF UninitBegin
<1>18. CASE UninitEnd
  BY <1>18, SameHistory DEF UninitEnd
<1>19. CASE FreeManager
  BY <1>19, SwapHistory DEF FreeManager, FrameInv
<1>20. CASE Finished \/ UNCHANGED vars
  BY <1>20, SameHistory DEF Finished, vars
<1> QED
  BY <1>1, <1>2, <1>3, <1>4, <1>5, <1>6, <1>7, <1>8, <1>9, <1>10, <1>11,
     <1>12, <1>13, <1>14, <1>15, <1>16, <1>17, <1>18, <1>19, <1>20
     DEF Next, PostSteps, Teardown

-----------------------------------------------------------------------------
(* The accounting: what a step does to the owners of an instance. *)

(* The owners of an instance are finitely many. *)
LEMMA OwnersFinite ==
  ASSUME IntType, FiniteAssumption, NEW i \in Inst
  PROVE  /\ IsFiniteSet(TaskRefs(i)) /\ Cardinality(TaskRefs(i)) \in Nat
         /\ IsFiniteSet(HandleRefs(i)) /\ Cardinality(HandleRefs(i)) \in Nat
         /\ IsFiniteSet(PosterRefs(i)) /\ Cardinality(PosterRefs(i)) \in Nat
<1>1. Unreleased + 1 \in Int /\ Len(accepted) \in Int
  BY DEF IntType, Unreleased
<1>2. IsFiniteSet((Unreleased + 1)..Len(accepted))
  BY <1>1, FS_Interval
<1>3. IsFiniteSet(TaskRefs(i))
  BY <1>2, FS_Subset DEF TaskRefs
<1>4. IsFiniteSet(HandleRefs(i)) /\ IsFiniteSet(PosterRefs(i))
  BY FS_Subset DEF HandleRefs, PosterRefs, FiniteAssumption
<1> QED
  BY <1>3, <1>4, FS_CardinalityType

(* A push makes one more task own the instance pushed for. *)
LEMMA PushOwners ==
  ASSUME IntType, HistoryInv, FiniteAssumption, NEW i \in Inst, Push(i),
         UNCHANGED <<batch, main, ran>>, NEW j \in Inst
  PROVE  Cardinality(TaskRefs(j)')
           = Cardinality(TaskRefs(j)) + (IF j = i THEN 1 ELSE 0)
<1>1. Unreleased' = Unreleased /\ Unreleased \in Int /\ Len(accepted) \in Nat
      /\ Unreleased <= Len(accepted)
  BY PushHistory DEF HistoryInv, IntType, Unreleased
<1>2. /\ Len(accepted') = Len(accepted) + 1
      /\ \A k \in 1..Len(accepted) : accepted'[k] = accepted[k]
      /\ accepted'[Len(accepted) + 1] = i
  BY AppendAtEnd DEF IntType, Push
<1>3. IsFiniteSet(TaskRefs(j)) /\ Cardinality(TaskRefs(j)) \in Nat
  BY OwnersFinite
<1>4. CASE j = i
  <2>1. TaskRefs(j)' = TaskRefs(j) \cup {Len(accepted) + 1}
    BY <1>1, <1>2, <1>4 DEF TaskRefs, HistoryInv
  <2>2. Len(accepted) + 1 \notin TaskRefs(j)
    BY <1>1 DEF TaskRefs
  <2> QED
    BY <1>3, <1>4, <2>1, <2>2, FS_AddElement
<1>5. CASE j # i
  <2>1. TaskRefs(j)' = TaskRefs(j)
    BY <1>1, <1>2, <1>5 DEF TaskRefs, HistoryInv
  <2> QED
    BY <1>3, <1>5, <2>1
<1> QED
  BY <1>4, <1>5

(* A task that returns stops owning its instance. *)
LEMMA EndOwners ==
  ASSUME IntType, FrameInv, HistoryInv, FiniteAssumption, EndTask, NEW j \in Inst
  PROVE  Cardinality(TaskRefs(j)')
           = Cardinality(TaskRefs(j)) - (IF j = Head(batch).inst THEN 1 ELSE 0)
<1>1. /\ Unreleased \in Nat /\ Unreleased + 1 \in 1..Len(accepted)
      /\ Head(batch).inst = accepted[Unreleased + 1]
      /\ Len(accepted) \in Nat
  BY HeadOfBatch DEF EndTask, FrameInv, IntType
<1>2. Unreleased' = Unreleased + 1 /\ accepted' = accepted
  BY EndHistory DEF EndTask
<1>3. IsFiniteSet(TaskRefs(j)) /\ Cardinality(TaskRefs(j)) \in Nat
  BY OwnersFinite
<1>4. TaskRefs(j)' = TaskRefs(j) \ {Unreleased + 1}
  BY <1>1, <1>2 DEF TaskRefs
<1>5. Unreleased + 1 \in TaskRefs(j) <=> j = Head(batch).inst
  BY <1>1 DEF TaskRefs
<1>6. CASE j = Head(batch).inst
  BY <1>3, <1>4, <1>5, <1>6, FS_RemoveElement
<1>7. CASE j # Head(batch).inst
  <2>1. TaskRefs(j)' = TaskRefs(j)
    BY <1>4, <1>5, <1>7
  <2> QED
    BY <1>3, <1>7, <2>1
<1> QED
  BY <1>6, <1>7

(* A step that leaves the queues and the history alone leaves the tasks'   *)
(* references alone; one that leaves the threads alone, theirs.            *)
LEMMA SameTaskOwners ==
  ASSUME UNCHANGED <<queue, batch, accepted>>, NEW j \in Inst
  PROVE  TaskRefs(j)' = TaskRefs(j)
BY DEF TaskRefs, Unreleased

LEMMA SameThreadOwners ==
  ASSUME UNCHANGED <<held, pc>>, NEW j \in Inst
  PROVE  HandleRefs(j)' = HandleRefs(j) /\ PosterRefs(j)' = PosterRefs(j)
BY DEF HandleRefs, PosterRefs

(* The swap moves references from the queue to the batch. *)
LEMMA SwapOwners ==
  ASSUME IntType, HistoryInv, batch = <<>>, main # "callback", SwapTasks,
         UNCHANGED <<accepted, ran>>, NEW j \in Inst
  PROVE  TaskRefs(j)' = TaskRefs(j)
BY SwapHistory DEF TaskRefs

(* Entering or leaving a place of FeaturePost that owns no reference. *)
LEMMA SamePosters ==
  ASSUME NEW t \in Thread, NEW p \in PostStep, IntType,
         pc' = [pc EXCEPT ![t] = p], UNCHANGED held,
         pc[t] # "duplicated", p # "duplicated", NEW j \in Inst
  PROVE  HandleRefs(j)' = HandleRefs(j) /\ PosterRefs(j)' = PosterRefs(j)
BY DEF HandleRefs, PosterRefs, IntType

(* A thread starting or ending the ownership of a handle; the other        *)
(* instances' handles stay the same.                                       *)
LEMMA StartOwners ==
  ASSUME IntType, FiniteAssumption, NoneAssumption, FrameInv,
         NEW t \in Thread, NEW i \in Inst, StartThread(t, i), NEW j \in Inst
  PROVE  /\ Cardinality(HandleRefs(j)')
              = Cardinality(HandleRefs(j)) + (IF j = i THEN 1 ELSE 0)
         /\ PosterRefs(j)' = PosterRefs(j)
<1>1. IsFiniteSet(HandleRefs(j)) /\ Cardinality(HandleRefs(j)) \in Nat
  BY OwnersFinite
<1>2. /\ held[t] = None /\ held' = [held EXCEPT ![t] = i] /\ pc' = pc
      /\ pc[t] = "idle" /\ held \in [Thread -> Inst \cup {None}]
  BY DEF StartThread, FrameInv, IntType
<1>3. PosterRefs(j)' = PosterRefs(j)
  BY <1>2 DEF PosterRefs
<1>4. CASE j = i
  <2>1. HandleRefs(j)' = HandleRefs(j) \cup {t} /\ t \notin HandleRefs(j)
    BY <1>2, <1>4 DEF HandleRefs, NoneAssumption
  <2> QED
    BY <1>1, <1>3, <1>4, <2>1, FS_AddElement
<1>5. CASE j # i
  <2>1. HandleRefs(j)' = HandleRefs(j)
    BY <1>2, <1>5 DEF HandleRefs, NoneAssumption
  <2> QED
    BY <1>1, <1>3, <1>5, <2>1
<1> QED
  BY <1>4, <1>5

LEMMA ReleaseOwners ==
  ASSUME IntType, FiniteAssumption, NoneAssumption,
         NEW t \in Thread, ReleaseHandle(t), NEW j \in Inst
  PROVE  /\ Cardinality(HandleRefs(j)')
              = Cardinality(HandleRefs(j)) - (IF j = held[t] THEN 1 ELSE 0)
         /\ PosterRefs(j)' = PosterRefs(j)
<1>1. IsFiniteSet(HandleRefs(j)) /\ Cardinality(HandleRefs(j)) \in Nat
  BY OwnersFinite
<1>2. /\ held[t] # None /\ held' = [held EXCEPT ![t] = None] /\ pc' = pc
      /\ pc[t] = "idle" /\ held \in [Thread -> Inst \cup {None}]
  BY DEF ReleaseHandle, IntType
<1>3. PosterRefs(j)' = PosterRefs(j)
  BY <1>2 DEF PosterRefs
<1>4. CASE j = held[t]
  <2>1. HandleRefs(j)' = HandleRefs(j) \ {t} /\ t \in HandleRefs(j)
    BY <1>2, <1>4 DEF HandleRefs, NoneAssumption
  <2> QED
    BY <1>1, <1>3, <1>4, <2>1, FS_RemoveElement
<1>5. CASE j # held[t]
  <2>1. HandleRefs(j)' = HandleRefs(j)
    BY <1>2, <1>5 DEF HandleRefs, NoneAssumption
  <2> QED
    BY <1>1, <1>3, <1>5, <2>1
<1> QED
  BY <1>4, <1>5

(* addTask's own reference, from the duplication to the push. *)
LEMMA DupOwners ==
  ASSUME IntType, FiniteAssumption, NEW t \in Thread, PostDup(t), NEW j \in Inst
  PROVE  /\ Cardinality(PosterRefs(j)')
              = Cardinality(PosterRefs(j)) + (IF j = held[t] THEN 1 ELSE 0)
         /\ HandleRefs(j)' = HandleRefs(j)
<1>1. IsFiniteSet(PosterRefs(j)) /\ Cardinality(PosterRefs(j)) \in Nat
  BY OwnersFinite
<1>2. /\ held' = held /\ pc' = [pc EXCEPT ![t] = "duplicated"]
      /\ pc[t] = "checked" /\ pc \in [Thread -> PostStep]
  BY DEF PostDup, IntType
<1>3. HandleRefs(j)' = HandleRefs(j)
  BY <1>2 DEF HandleRefs
<1>4. CASE j = held[t]
  <2>1. PosterRefs(j)' = PosterRefs(j) \cup {t} /\ t \notin PosterRefs(j)
    BY <1>2, <1>4 DEF PosterRefs
  <2> QED
    BY <1>1, <1>3, <1>4, <2>1, FS_AddElement
<1>5. CASE j # held[t]
  <2>1. PosterRefs(j)' = PosterRefs(j)
    BY <1>2, <1>5 DEF PosterRefs
  <2> QED
    BY <1>1, <1>3, <1>5, <2>1
<1> QED
  BY <1>4, <1>5

LEMMA PushedOwners ==
  ASSUME IntType, FiniteAssumption, NEW t \in Thread, PostPush(t), NEW j \in Inst
  PROVE  /\ Cardinality(PosterRefs(j)')
              = Cardinality(PosterRefs(j)) - (IF j = held[t] THEN 1 ELSE 0)
         /\ HandleRefs(j)' = HandleRefs(j)
<1>1. IsFiniteSet(PosterRefs(j)) /\ Cardinality(PosterRefs(j)) \in Nat
  BY OwnersFinite
<1>2. /\ held' = held /\ pc' = [pc EXCEPT ![t] = "pushed"]
      /\ pc[t] = "duplicated" /\ pc \in [Thread -> PostStep]
  BY DEF PostPush, IntType
<1>3. HandleRefs(j)' = HandleRefs(j)
  BY <1>2 DEF HandleRefs
<1>4. CASE j = held[t]
  <2>1. PosterRefs(j)' = PosterRefs(j) \ {t} /\ t \in PosterRefs(j)
    BY <1>2, <1>4 DEF PosterRefs
  <2> QED
    BY <1>1, <1>3, <1>4, <2>1, FS_RemoveElement
<1>5. CASE j # held[t]
  <2>1. PosterRefs(j)' = PosterRefs(j)
    BY <1>2, <1>5 DEF PosterRefs
  <2> QED
    BY <1>1, <1>3, <1>5, <2>1
<1> QED
  BY <1>4, <1>5

(* The accounting of one instance. *)
Account(i) ==
  ref[i] = SlotRefs(i) + Cardinality(TaskRefs(i))
             + Cardinality(HandleRefs(i)) + Cardinality(PosterRefs(i))

(* An owned instance has a positive count. *)
LEMMA AccountNat ==
  ASSUME IntType, FiniteAssumption, RefCountExact, NEW i \in Inst
  PROVE  /\ Account(i) /\ ref[i] \in Nat /\ SlotRefs(i) \in Nat
         /\ Cardinality(TaskRefs(i)) \in Nat
         /\ Cardinality(HandleRefs(i)) \in Nat
         /\ Cardinality(PosterRefs(i)) \in Nat
BY OwnersFinite DEF RefCountExact, Account, SlotRefs

LEMMA OwnedIsAlive ==
  ASSUME IntType, FiniteAssumption, RefCountExact, NEW i \in Inst,
         TaskRefs(i) # {} \/ HandleRefs(i) # {}
  PROVE  ref[i] > 0
<1>1. Cardinality(TaskRefs(i)) # 0 \/ Cardinality(HandleRefs(i)) # 0
  BY OwnersFinite, FS_EmptySet
<1> QED
  BY <1>1, AccountNat DEF Account

(* Nothing owned, nothing counted differently. *)
LEMMA SameAccount ==
  ASSUME NEW i \in Inst, Account(i), ref'[i] = ref[i], slot'[i] = slot[i],
         TaskRefs(i)' = TaskRefs(i), HandleRefs(i)' = HandleRefs(i),
         PosterRefs(i)' = PosterRefs(i)
  PROVE  Account(i)'
BY DEF Account, SlotRefs

(* Every step preserves the accounting. *)
LEMMA RefCountStep ==
  ASSUME FiniteAssumption, NoneAssumption, IInv, [Next]_vars
  PROVE  RefCountExact'
<1> USE DEF IInv
<1>1. ASSUME NEW i \in Inst, Require(i)
      PROVE  RefCountExact'
  <2> SUFFICES ASSUME NEW j \in Inst PROVE Account(j)'
    BY DEF RefCountExact, Account
  <2>1. /\ Account(j) /\ ref[j] \in Nat /\ SlotRefs(j) \in Nat
        /\ Cardinality(TaskRefs(j)) \in Nat
        /\ Cardinality(HandleRefs(j)) \in Nat
        /\ Cardinality(PosterRefs(j)) \in Nat
    BY AccountNat
  <2>2. TaskRefs(j)' = TaskRefs(j)
    BY <1>1, SameTaskOwners DEF Require
  <2>3. HandleRefs(j)' = HandleRefs(j) /\ PosterRefs(j)' = PosterRefs(j)
    BY <1>1, SameThreadOwners DEF Require
  <2>4. CASE j = i
    <3>1. ref[j] = 0 /\ SlotRefs(j) = 0
      BY <1>1, <2>4 DEF Require, UnbornInv, SlotRefs
    <3>2. ref'[j] = 1 /\ SlotRefs(j)' = 1
      BY <1>1, <2>4 DEF Require, SlotRefs, IntType
    <3> QED
      BY <2>1, <2>2, <2>3, <3>1, <3>2 DEF Account
  <2>5. CASE j # i
    BY <1>1, <2>1, <2>2, <2>3, <2>5, SameAccount DEF Require, IntType
  <2> QED
    BY <2>4, <2>5
<1>2. ASSUME NEW i \in Inst, DetachBegin(i)
      PROVE  RefCountExact'
  <2> SUFFICES ASSUME NEW j \in Inst PROVE Account(j)'
    BY DEF RefCountExact, Account
  <2>1. /\ Account(j) /\ ref[j] \in Nat /\ SlotRefs(j) \in Nat
        /\ Cardinality(TaskRefs(j)) \in Nat
        /\ Cardinality(HandleRefs(j)) \in Nat
        /\ Cardinality(PosterRefs(j)) \in Nat
    BY AccountNat
  <2> QED
    BY <1>2, <2>1, SameAccount, SameTaskOwners, SameThreadOwners DEF DetachBegin
<1>3. ASSUME NEW i \in Inst, DetachEnd(i)
      PROVE  RefCountExact'
  <2> SUFFICES ASSUME NEW j \in Inst PROVE Account(j)'
    BY DEF RefCountExact, Account
  <2>1. /\ Account(j) /\ ref[j] \in Nat /\ SlotRefs(j) \in Nat
        /\ Cardinality(TaskRefs(j)) \in Nat
        /\ Cardinality(HandleRefs(j)) \in Nat
        /\ Cardinality(PosterRefs(j)) \in Nat
    BY AccountNat
  <2>2. TaskRefs(j)' = TaskRefs(j)
    BY <1>3, SameTaskOwners DEF DetachEnd
  <2>3. HandleRefs(j)' = HandleRefs(j) /\ PosterRefs(j)' = PosterRefs(j)
    BY <1>3, SameThreadOwners DEF DetachEnd
  <2>4. CASE main = "uninit" \/ j # i
    BY <1>3, <2>1, <2>2, <2>3, <2>4, SameAccount DEF DetachEnd, IntType
  <2>5. CASE main # "uninit" /\ j = i
    <3>1. slot[i] = "held"
      BY <1>3, <2>5 DEF DetachEnd, FrameInv
    <3>2. slot'[j] = "cleared" /\ ref'[j] = ref[j] - 1
      BY <1>3, <2>5 DEF DetachEnd, IntType
    <3> QED
      BY <2>1, <2>2, <2>3, <2>5, <3>1, <3>2 DEF Account, SlotRefs
  <2> QED
    BY <2>4, <2>5
<1>4. ASSUME NEW i \in Inst, MainPost(i)
      PROVE  RefCountExact'
  <2> SUFFICES ASSUME NEW j \in Inst PROVE Account(j)'
    BY DEF RefCountExact, Account
  <2>1. /\ Account(j) /\ ref[j] \in Nat /\ SlotRefs(j) \in Nat
        /\ Cardinality(TaskRefs(j)) \in Nat
        /\ Cardinality(HandleRefs(j)) \in Nat
        /\ Cardinality(PosterRefs(j)) \in Nat
    BY AccountNat
  <2>2. Cardinality(TaskRefs(j)')
          = Cardinality(TaskRefs(j)) + (IF j = i THEN 1 ELSE 0)
    BY <1>4, PushOwners DEF MainPost
  <2>3. HandleRefs(j)' = HandleRefs(j) /\ PosterRefs(j)' = PosterRefs(j)
    BY <1>4, SameThreadOwners DEF MainPost
  <2>4. ref'[j] = ref[j] + (IF j = i THEN 1 ELSE 0) /\ slot' = slot
    BY <1>4 DEF MainPost, IntType
  <2> QED
    BY <2>1, <2>2, <2>3, <2>4 DEF Account, SlotRefs
<1>5. ASSUME NEW t \in Thread, NEW i \in Inst, StartThread(t, i)
      PROVE  RefCountExact'
  <2> SUFFICES ASSUME NEW j \in Inst PROVE Account(j)'
    BY DEF RefCountExact, Account
  <2>1. /\ Account(j) /\ ref[j] \in Nat /\ SlotRefs(j) \in Nat
        /\ Cardinality(TaskRefs(j)) \in Nat
        /\ Cardinality(HandleRefs(j)) \in Nat
        /\ Cardinality(PosterRefs(j)) \in Nat
    BY AccountNat
  <2>2. TaskRefs(j)' = TaskRefs(j)
    BY <1>5, SameTaskOwners DEF StartThread
  <2>3. /\ Cardinality(HandleRefs(j)')
             = Cardinality(HandleRefs(j)) + (IF j = i THEN 1 ELSE 0)
        /\ PosterRefs(j)' = PosterRefs(j)
    BY <1>5, StartOwners
  <2>4. ref'[j] = ref[j] + (IF j = i THEN 1 ELSE 0) /\ slot' = slot
    BY <1>5 DEF StartThread, IntType
  <2> QED
    BY <2>1, <2>2, <2>3, <2>4 DEF Account, SlotRefs
<1>6. ASSUME NEW t \in Thread, ReleaseHandle(t)
      PROVE  RefCountExact'
  <2> SUFFICES ASSUME NEW j \in Inst PROVE Account(j)'
    BY DEF RefCountExact, Account
  <2>1. /\ Account(j) /\ ref[j] \in Nat /\ SlotRefs(j) \in Nat
        /\ Cardinality(TaskRefs(j)) \in Nat
        /\ Cardinality(HandleRefs(j)) \in Nat
        /\ Cardinality(PosterRefs(j)) \in Nat
    BY AccountNat
  <2>2. TaskRefs(j)' = TaskRefs(j)
    BY <1>6, SameTaskOwners DEF ReleaseHandle
  <2>3. /\ Cardinality(HandleRefs(j)')
             = Cardinality(HandleRefs(j)) - (IF j = held[t] THEN 1 ELSE 0)
        /\ PosterRefs(j)' = PosterRefs(j)
    BY <1>6, ReleaseOwners
  <2>4. ref'[j] = ref[j] - (IF j = held[t] THEN 1 ELSE 0) /\ slot' = slot
    BY <1>6 DEF ReleaseHandle, IntType
  <2> QED
    BY <2>1, <2>2, <2>3, <2>4 DEF Account, SlotRefs
<1>7. ASSUME NEW t \in Thread, PostCheck(t)
      PROVE  RefCountExact'
  <2> SUFFICES ASSUME NEW j \in Inst PROVE Account(j)'
    BY DEF RefCountExact, Account
  <2>1. /\ Account(j) /\ ref[j] \in Nat /\ SlotRefs(j) \in Nat
        /\ Cardinality(TaskRefs(j)) \in Nat
        /\ Cardinality(HandleRefs(j)) \in Nat
        /\ Cardinality(PosterRefs(j)) \in Nat
    BY AccountNat
  <2>2. TaskRefs(j)' = TaskRefs(j)
    BY <1>7, SameTaskOwners DEF PostCheck
  <2>3. HandleRefs(j)' = HandleRefs(j) /\ PosterRefs(j)' = PosterRefs(j)
    BY <1>7, "checked" \in PostStep, SamePosters DEF PostCheck, PostStep
  <2> QED
    BY <1>7, <2>1, <2>2, <2>3, SameAccount DEF PostCheck
<1>8. ASSUME NEW t \in Thread, PostDup(t)
      PROVE  RefCountExact'
  <2> SUFFICES ASSUME NEW j \in Inst PROVE Account(j)'
    BY DEF RefCountExact, Account
  <2>1. /\ Account(j) /\ ref[j] \in Nat /\ SlotRefs(j) \in Nat
        /\ Cardinality(TaskRefs(j)) \in Nat
        /\ Cardinality(HandleRefs(j)) \in Nat
        /\ Cardinality(PosterRefs(j)) \in Nat
    BY AccountNat
  <2>2. TaskRefs(j)' = TaskRefs(j)
    BY <1>8, SameTaskOwners DEF PostDup
  <2>3. /\ Cardinality(PosterRefs(j)')
             = Cardinality(PosterRefs(j)) + (IF j = held[t] THEN 1 ELSE 0)
        /\ HandleRefs(j)' = HandleRefs(j)
    BY <1>8, DupOwners
  <2>4. ref'[j] = ref[j] + (IF j = held[t] THEN 1 ELSE 0) /\ slot' = slot
    BY <1>8 DEF PostDup, IntType
  <2> QED
    BY <2>1, <2>2, <2>3, <2>4 DEF Account, SlotRefs
<1>9. ASSUME NEW t \in Thread, PostPush(t)
      PROVE  RefCountExact'
  <2> SUFFICES ASSUME NEW j \in Inst PROVE Account(j)'
    BY DEF RefCountExact, Account
  <2>1. /\ Account(j) /\ ref[j] \in Nat /\ SlotRefs(j) \in Nat
        /\ Cardinality(TaskRefs(j)) \in Nat
        /\ Cardinality(HandleRefs(j)) \in Nat
        /\ Cardinality(PosterRefs(j)) \in Nat
    BY AccountNat
  <2>2. held[t] \in Inst
    BY <1>9 DEF PostPush, FrameInv, IntType
  <2>3. Cardinality(TaskRefs(j)')
          = Cardinality(TaskRefs(j)) + (IF j = held[t] THEN 1 ELSE 0)
    BY <1>9, <2>2, PushOwners DEF PostPush
  <2>4. /\ Cardinality(PosterRefs(j)')
             = Cardinality(PosterRefs(j)) - (IF j = held[t] THEN 1 ELSE 0)
        /\ HandleRefs(j)' = HandleRefs(j)
    BY <1>9, PushedOwners
  <2>5. ref' = ref /\ slot' = slot
    BY <1>9 DEF PostPush
  <2> QED
    BY <2>1, <2>3, <2>4, <2>5 DEF Account, SlotRefs
<1>10. ASSUME NEW t \in Thread, PostTest(t)
      PROVE  RefCountExact'
  <2> SUFFICES ASSUME NEW j \in Inst PROVE Account(j)'
    BY DEF RefCountExact, Account
  <2>1. /\ Account(j) /\ ref[j] \in Nat /\ SlotRefs(j) \in Nat
        /\ Cardinality(TaskRefs(j)) \in Nat
        /\ Cardinality(HandleRefs(j)) \in Nat
        /\ Cardinality(PosterRefs(j)) \in Nat
    BY AccountNat
  <2>2. TaskRefs(j)' = TaskRefs(j)
    BY <1>10, SameTaskOwners DEF PostTest
  <2>3. HandleRefs(j)' = HandleRefs(j) /\ PosterRefs(j)' = PosterRefs(j)
    BY <1>10, (IF async THEN "sending" ELSE "idle") \in PostStep, SamePosters DEF PostTest, PostStep
  <2> QED
    BY <1>10, <2>1, <2>2, <2>3, SameAccount DEF PostTest
<1>11. ASSUME NEW t \in Thread, PostSend(t)
      PROVE  RefCountExact'
  <2> SUFFICES ASSUME NEW j \in Inst PROVE Account(j)'
    BY DEF RefCountExact, Account
  <2>1. /\ Account(j) /\ ref[j] \in Nat /\ SlotRefs(j) \in Nat
        /\ Cardinality(TaskRefs(j)) \in Nat
        /\ Cardinality(HandleRefs(j)) \in Nat
        /\ Cardinality(PosterRefs(j)) \in Nat
    BY AccountNat
  <2>2. TaskRefs(j)' = TaskRefs(j)
    BY <1>11, SameTaskOwners DEF PostSend
  <2>3. HandleRefs(j)' = HandleRefs(j) /\ PosterRefs(j)' = PosterRefs(j)
    BY <1>11, "idle" \in PostStep, SamePosters DEF PostSend, PostStep
  <2> QED
    BY <1>11, <2>1, <2>2, <2>3, SameAccount DEF PostSend
<1>12. CASE AsyncCallback
  <2> SUFFICES ASSUME NEW j \in Inst PROVE Account(j)'
    BY DEF RefCountExact, Account
  <2>1. /\ Account(j) /\ ref[j] \in Nat /\ SlotRefs(j) \in Nat
        /\ Cardinality(TaskRefs(j)) \in Nat
        /\ Cardinality(HandleRefs(j)) \in Nat
        /\ Cardinality(PosterRefs(j)) \in Nat
    BY AccountNat
  <2>2. TaskRefs(j)' = TaskRefs(j)
    BY <1>12, SwapOwners DEF AsyncCallback, FrameInv
  <2> QED
    BY <1>12, <2>1, <2>2, SameAccount, SameThreadOwners DEF AsyncCallback
<1>13. CASE BeginTask
  <2> SUFFICES ASSUME NEW j \in Inst PROVE Account(j)'
    BY DEF RefCountExact, Account
  <2>1. /\ Account(j) /\ ref[j] \in Nat /\ SlotRefs(j) \in Nat
        /\ Cardinality(TaskRefs(j)) \in Nat
        /\ Cardinality(HandleRefs(j)) \in Nat
        /\ Cardinality(PosterRefs(j)) \in Nat
    BY AccountNat
  <2> QED
    BY <1>13, <2>1, SameAccount, SameTaskOwners, SameThreadOwners DEF BeginTask
<1>14. CASE EndTask
  <2> SUFFICES ASSUME NEW j \in Inst PROVE Account(j)'
    BY DEF RefCountExact, Account
  <2>1. /\ Account(j) /\ ref[j] \in Nat /\ SlotRefs(j) \in Nat
        /\ Cardinality(TaskRefs(j)) \in Nat
        /\ Cardinality(HandleRefs(j)) \in Nat
        /\ Cardinality(PosterRefs(j)) \in Nat
    BY AccountNat
  <2>2. Cardinality(TaskRefs(j)')
          = Cardinality(TaskRefs(j)) - (IF j = Head(batch).inst THEN 1 ELSE 0)
    BY <1>14, EndOwners
  <2>3. HandleRefs(j)' = HandleRefs(j) /\ PosterRefs(j)' = PosterRefs(j)
    BY <1>14, SameThreadOwners DEF EndTask
  <2>4. ref'[j] = ref[j] - (IF j = Head(batch).inst THEN 1 ELSE 0) /\ slot' = slot
    BY <1>14 DEF EndTask, IntType
  <2> QED
    BY <2>1, <2>2, <2>3, <2>4 DEF Account, SlotRefs
<1>15. CASE EndBatch
  <2> SUFFICES ASSUME NEW j \in Inst PROVE Account(j)'
    BY DEF RefCountExact, Account
  <2>1. /\ Account(j) /\ ref[j] \in Nat /\ SlotRefs(j) \in Nat
        /\ Cardinality(TaskRefs(j)) \in Nat
        /\ Cardinality(HandleRefs(j)) \in Nat
        /\ Cardinality(PosterRefs(j)) \in Nat
    BY AccountNat
  <2> QED
    BY <1>15, <2>1, SameAccount, SameTaskOwners, SameThreadOwners DEF EndBatch
<1>16. CASE UnsetUVLoop
  <2> SUFFICES ASSUME NEW j \in Inst PROVE Account(j)'
    BY DEF RefCountExact, Account
  <2>1. /\ Account(j) /\ ref[j] \in Nat /\ SlotRefs(j) \in Nat
        /\ Cardinality(TaskRefs(j)) \in Nat
        /\ Cardinality(HandleRefs(j)) \in Nat
        /\ Cardinality(PosterRefs(j)) \in Nat
    BY AccountNat
  <2> QED
    BY <1>16, <2>1, SameAccount, SameTaskOwners, SameThreadOwners DEF UnsetUVLoop
<1>17. CASE UninitBegin
  <2> SUFFICES ASSUME NEW j \in Inst PROVE Account(j)'
    BY DEF RefCountExact, Account
  <2>1. /\ Account(j) /\ ref[j] \in Nat /\ SlotRefs(j) \in Nat
        /\ Cardinality(TaskRefs(j)) \in Nat
        /\ Cardinality(HandleRefs(j)) \in Nat
        /\ Cardinality(PosterRefs(j)) \in Nat
    BY AccountNat
  <2> QED
    BY <1>17, <2>1, SameAccount, SameTaskOwners, SameThreadOwners DEF UninitBegin
<1>18. CASE UninitEnd
  <2> SUFFICES ASSUME NEW j \in Inst PROVE Account(j)'
    BY DEF RefCountExact, Account
  <2>1. /\ Account(j) /\ ref[j] \in Nat /\ SlotRefs(j) \in Nat
        /\ Cardinality(TaskRefs(j)) \in Nat
        /\ Cardinality(HandleRefs(j)) \in Nat
        /\ Cardinality(PosterRefs(j)) \in Nat
    BY AccountNat
  <2>2. TaskRefs(j)' = TaskRefs(j)
    BY <1>18, SameTaskOwners DEF UninitEnd
  <2>3. HandleRefs(j)' = HandleRefs(j) /\ PosterRefs(j)' = PosterRefs(j)
    BY <1>18, SameThreadOwners DEF UninitEnd
  <2> QED
    BY <1>18, <2>1, <2>2, <2>3 DEF UninitEnd, Account, SlotRefs
<1>19. CASE FreeManager
  <2> SUFFICES ASSUME NEW j \in Inst PROVE Account(j)'
    BY DEF RefCountExact, Account
  <2>1. /\ Account(j) /\ ref[j] \in Nat /\ SlotRefs(j) \in Nat
        /\ Cardinality(TaskRefs(j)) \in Nat
        /\ Cardinality(HandleRefs(j)) \in Nat
        /\ Cardinality(PosterRefs(j)) \in Nat
    BY AccountNat
  <2>2. TaskRefs(j)' = TaskRefs(j)
    BY <1>19, SwapOwners DEF FreeManager, FrameInv
  <2> QED
    BY <1>19, <2>1, <2>2, SameAccount, SameThreadOwners DEF FreeManager
<1>20. CASE Finished \/ UNCHANGED vars
  <2> SUFFICES ASSUME NEW j \in Inst PROVE Account(j)'
    BY DEF RefCountExact, Account
  <2>1. /\ Account(j) /\ ref[j] \in Nat /\ SlotRefs(j) \in Nat
        /\ Cardinality(TaskRefs(j)) \in Nat
        /\ Cardinality(HandleRefs(j)) \in Nat
        /\ Cardinality(PosterRefs(j)) \in Nat
    BY AccountNat
  <2> QED
    BY <1>20, <2>1, SameAccount, SameTaskOwners, SameThreadOwners DEF Finished, vars
<1> QED
  BY <1>1, <1>2, <1>3, <1>4, <1>5, <1>6, <1>7, <1>8, <1>9, <1>10, <1>11,
     <1>12, <1>13, <1>14, <1>15, <1>16, <1>17, <1>18, <1>19, <1>20
     DEF Next, PostSteps, Teardown

(* No step uses an instance that was never required. *)
LEMMA UnbornStep ==
  ASSUME FiniteAssumption, NoneAssumption, IInv, [Next]_vars
  PROVE  UnbornInv'
<1> USE DEF IInv
<1>1. ASSUME NEW i \in Inst, Require(i)
      PROVE  UnbornInv'
  BY <1>1 DEF Require, UnbornInv, IntType
<1>2. ASSUME NEW i \in Inst, DetachBegin(i)
      PROVE  UnbornInv'
  BY <1>2 DEF DetachBegin, UnbornInv, IntType
<1>3. ASSUME NEW i \in Inst, DetachEnd(i)
      PROVE  UnbornInv'
  BY <1>3 DEF DetachEnd, UnbornInv, IntType
<1>4. ASSUME NEW i \in Inst, MainPost(i)
      PROVE  UnbornInv'
  <2>1. slot[i] # "empty"
    <3>1. CASE Reachable(i) \/ detaching = i
      BY <3>1 DEF Reachable, UnbornInv
    <3>2. CASE main = "callback" /\ Head(batch).inst = i
      <4>1. TaskRefs(i) # {}
        BY <3>2, HeadOfBatch DEF FrameInv, TaskRefs
      <4> QED
        BY <4>1, OwnedIsAlive DEF UnbornInv
    <3> QED
      BY <1>4, <3>1, <3>2 DEF MainPost
  <2> QED
    BY <1>4, <2>1 DEF MainPost, UnbornInv, IntType
<1>5. ASSUME NEW t \in Thread, NEW i \in Inst, StartThread(t, i)
      PROVE  UnbornInv'
  BY <1>5 DEF StartThread, Reachable, UnbornInv, IntType
<1>6. ASSUME NEW t \in Thread, ReleaseHandle(t)
      PROVE  UnbornInv'
  <2>1. held[t] \in Inst /\ slot[held[t]] # "empty"
    <3>1. held[t] \in Inst /\ t \in HandleRefs(held[t])
      BY <1>6 DEF ReleaseHandle, HandleRefs, IntType, FrameInv
    <3> QED
      BY <3>1, OwnedIsAlive DEF UnbornInv
  <2> QED
    BY <1>6, <2>1 DEF ReleaseHandle, UnbornInv, IntType
<1>7. ASSUME NEW t \in Thread, PostCheck(t)
      PROVE  UnbornInv'
  BY <1>7 DEF PostCheck, UnbornInv, IntType
<1>8. ASSUME NEW t \in Thread, PostDup(t)
      PROVE  UnbornInv'
  <2>1. held[t] \in Inst /\ slot[held[t]] # "empty"
    <3>1. held[t] \in Inst /\ t \in HandleRefs(held[t])
      BY <1>8 DEF PostDup, HandleRefs, IntType, FrameInv
    <3> QED
      BY <3>1, OwnedIsAlive DEF UnbornInv
  <2> QED
    BY <1>8, <2>1 DEF PostDup, UnbornInv, IntType
<1>9. ASSUME NEW t \in Thread, PostPush(t)
      PROVE  UnbornInv'
  BY <1>9 DEF PostPush, UnbornInv, IntType
<1>10. ASSUME NEW t \in Thread, PostTest(t)
      PROVE  UnbornInv'
  BY <1>10 DEF PostTest, UnbornInv, IntType
<1>11. ASSUME NEW t \in Thread, PostSend(t)
      PROVE  UnbornInv'
  BY <1>11 DEF PostSend, UnbornInv, IntType
<1>12. CASE AsyncCallback
  BY <1>12 DEF AsyncCallback, UnbornInv, IntType
<1>13. CASE BeginTask
  BY <1>13 DEF BeginTask, UnbornInv, IntType
<1>14. CASE EndTask
  <2>1. Head(batch).inst \in Inst /\ slot[Head(batch).inst] # "empty"
    <3>1. Head(batch).inst \in Inst /\ TaskRefs(Head(batch).inst) # {}
      BY <1>14, HeadOfBatch DEF EndTask, FrameInv, TaskRefs
    <3> QED
      BY <3>1, OwnedIsAlive DEF UnbornInv
  <2> QED
    BY <1>14, <2>1 DEF EndTask, UnbornInv, IntType
<1>15. CASE EndBatch
  BY <1>15 DEF EndBatch, UnbornInv, IntType
<1>16. CASE UnsetUVLoop
  BY <1>16 DEF UnsetUVLoop, UnbornInv, IntType
<1>17. CASE UninitBegin
  BY <1>17 DEF UninitBegin, UnbornInv, IntType
<1>18. CASE UninitEnd
  BY <1>18 DEF UninitEnd, UnbornInv, IntType
<1>19. CASE FreeManager
  BY <1>19 DEF FreeManager, UnbornInv, IntType
<1>20. CASE Finished \/ UNCHANGED vars
  BY <1>20 DEF Finished, vars, UnbornInv
<1> QED
  BY <1>1, <1>2, <1>3, <1>4, <1>5, <1>6, <1>7, <1>8, <1>9, <1>10, <1>11,
     <1>12, <1>13, <1>14, <1>15, <1>16, <1>17, <1>18, <1>19, <1>20
     DEF Next, PostSteps, Teardown

-----------------------------------------------------------------------------
(* Theorems *)

(* The invariant holds in every state. *)
THEOREM Invariance == Spec => []IInv
<1>1. Init => IInv
  <2> SUFFICES ASSUME Init PROVE IInv
    OBVIOUS
  <2>1. IntType
    <3>1. queue \in Seq(Task) /\ Len(queue) = 0
      BY DEF Init
    <3>2. batch \in Seq(Task) /\ Len(batch) = 0
      BY DEF Init
    <3>3. accepted \in Seq(Inst) /\ ran \in Seq(Nat \ {0})
      BY DEF Init
    <3>4. pc \in [Thread -> PostStep] /\ ref \in [Inst -> Int]
      BY DEF Init, PostStep
    <3>5. held \in [Thread -> Inst \cup {None}] /\ detaching \in Inst \cup {None}
      BY DEF Init
    <3>6. /\ slot \in [Inst -> {"empty", "held", "cleared"}]
          /\ detached \in [Inst -> BOOLEAN]
      BY DEF Init
    <3> QED
      BY <3>1, <3>2, <3>3, <3>4, <3>5, <3>6 DEF Init, IntType, MainFrame
  <2>2. FrameInv /\ UnbornInv
    BY NoneAssumption DEF Init, FrameInv, UnbornInv
  <2>3. Unreleased = 0 /\ Len(accepted) = 0
    <3>1. Len(accepted) = 0
      BY DEF Init
    <3>2. Len(queue) = 0
      BY DEF Init
    <3>3. Len(batch) = 0
      BY DEF Init
    <3> QED
      BY <3>1, <3>2, <3>3 DEF Unreleased
  <2>4. HistoryInv
    BY <2>3, EmptyQueue DEF Init, HistoryInv, InOrderOnce
  <2>5. RefCountExact
    <3> SUFFICES ASSUME NEW i \in Inst
                 PROVE  /\ ref[i] = 0 /\ SlotRefs(i) = 0
                        /\ Cardinality(TaskRefs(i)) = 0
                        /\ Cardinality(HandleRefs(i)) = 0
                        /\ Cardinality(PosterRefs(i)) = 0
      BY DEF RefCountExact
    <3>1. TaskRefs(i) = {}
      BY <2>3 DEF TaskRefs
    <3>2. HandleRefs(i) = {} /\ PosterRefs(i) = {}
      BY NoneAssumption DEF Init, HandleRefs, PosterRefs
    <3> QED
      BY <3>1, <3>2, FS_EmptySet DEF Init, SlotRefs
  <2> QED
    BY <2>1, <2>2, <2>4, <2>5 DEF IInv
<1>2. IInv /\ [Next]_vars => IInv'
  <2> SUFFICES ASSUME IInv, [Next]_vars PROVE IInv'
    OBVIOUS
  <2>1. IntType' /\ FrameInv' /\ HistoryInv'
    BY IntTypeStep, FrameStep, HistoryStep, NoneAssumption DEF IInv
  <2>2. UnbornInv' /\ RefCountExact'
    BY UnbornStep, RefCountStep, NoneAssumption, FiniteAssumption
  <2> QED
    BY <2>1, <2>2 DEF IInv
<1> QED
  BY <1>1, <1>2, PTL DEF Spec

(* The count of every instance is the number of its owners: slot, handles  *)
(* of native threads, the post under way, the tasks queued or in the batch *)
(* (addRef in featureRequire, FeatureDupInstanceHandle and addTask; release *)
(* in FeatureFreeInstanceHandle, runAllTasks, removeInstance and uninit).  *)
THEOREM RefCountIsExact == Spec => []RefCountExact
<1>1. IInv => RefCountExact
  BY DEF IInv
<1> QED
  BY <1>1, Invariance, PTL

(* runAllTasks calls the accepted tasks in order of acceptance, each once. *)
THEOREM TasksRunInOrderOnce == Spec => []InOrderOnce
<1>1. IInv => InOrderOnce
  BY DEF IInv, HistoryInv
<1> QED
  BY <1>1, Invariance, PTL

(* Type correctness; that no count is negative rests on the accounting. *)
THEOREM TypeCorrect == Spec => []TypeOK
<1>1. IInv => TypeOK
  <2> SUFFICES ASSUME IInv PROVE TypeOK
    OBVIOUS
  <2>1. \A i \in Inst : ref[i] \in Nat
    BY AccountNat, FiniteAssumption DEF IInv
  <2>2. ref \in [Inst -> Nat]
    BY <2>1 DEF IInv, IntType
  <2> QED
    BY <2>2 DEF IInv, IntType, TypeOK
<1> QED
  BY <1>1, Invariance, PTL

-----------------------------------------------------------------------------
(* The teardown: what can still happen once the host has begun it.         *)

(* After uninit() no instance is in a slot, and one that somebody still    *)
(* owns is detached; only then, and without the loop, can the FREE run     *)
(* begin, and only it leads to the end of the manager.                     *)
TeardownInv ==
  /\ main = "uninit" => ctx
  /\ detaching # None => ctx
  /\ ~ctx => \A i \in Inst : slot[i] # "held" /\ (ref[i] > 0 => detached[i])
  /\ mode = "FREE" => ~ctx /\ ~async /\ main \in {"tasks", "callback", "gone"}
  /\ main = "gone" => mode = "FREE"

(* With a host that has stopped the threads, nobody posts into the FREE    *)
(* run.                                                                    *)
QuietInv ==
  /\ Closing => \A t \in Thread : pc[t] = "idle"
  /\ mode = "FREE" => queue = <<>>

(* A task on the stack owns its instance, and a thread its handle.         *)
LEMMA OwnersCounted ==
  ASSUME IInv, FiniteAssumption
  PROVE  /\ main = "callback" => Head(batch).inst \in Inst
                                   /\ ref[Head(batch).inst] > 0
         /\ \A t \in Thread : held[t] # None => held[t] \in Inst
                                                  /\ ref[held[t]] > 0
<1>1. ASSUME main = "callback"
      PROVE  Head(batch).inst \in Inst /\ ref[Head(batch).inst] > 0
  <2>1. Head(batch).inst \in Inst /\ TaskRefs(Head(batch).inst) # {}
    BY <1>1, HeadOfBatch DEF IInv, FrameInv, TaskRefs
  <2> QED
    BY <2>1, OwnedIsAlive DEF IInv
<1>2. ASSUME NEW t \in Thread, held[t] # None
      PROVE  held[t] \in Inst /\ ref[held[t]] > 0
  <2>1. held[t] \in Inst /\ t \in HandleRefs(held[t])
    BY <1>2 DEF HandleRefs, IInv, IntType
  <2> QED
    BY <2>1, OwnedIsAlive DEF IInv
<1> QED
  BY <1>1, <1>2

(* Without a context main posts nothing: its instances are detached.       *)
LEMMA NoPostWithoutContext ==
  ASSUME IInv, TeardownInv, FiniteAssumption, NoneAssumption,
         NEW i \in Inst, MainPost(i)
  PROVE  ctx
<1> USE DEF TeardownInv, IInv, IntType
<1>1. CASE ScriptRuns
  BY <1>1 DEF ScriptRuns
<1>2. CASE detaching = i
  BY <1>2, NoneAssumption
<1>3. CASE main = "callback" /\ Head(batch).inst = i
  BY <1>3, OwnersCounted DEF MainPost
<1> QED
  BY <1>1, <1>2, <1>3 DEF MainPost

(* Every step preserves the order of the teardown.                         *)
LEMMA TeardownStep ==
  ASSUME IInv, TeardownInv, FiniteAssumption, NoneAssumption, [Next]_vars
  PROVE  TeardownInv'
<1> USE DEF TeardownInv, IInv, IntType
<1>1. ASSUME NEW i \in Inst,
             Require(i) \/ DetachBegin(i) \/ \E t \in Thread : StartThread(t, i)
      PROVE  TeardownInv'
  BY <1>1 DEF Require, DetachBegin, StartThread, ScriptRuns
<1>2. ASSUME NEW i \in Inst, DetachEnd(i)
      PROVE  TeardownInv'
  BY <1>2, NoneAssumption DEF DetachEnd
<1>3. ASSUME NEW i \in Inst, MainPost(i)
      PROVE  TeardownInv'
  <2>1. ctx /\ UNCHANGED <<ctx, main, mode, async, detaching, slot, detached>>
    BY <1>3, NoPostWithoutContext, FiniteAssumption, NoneAssumption
       DEF MainPost
  <2> QED
    BY <2>1
<1>4. ASSUME NEW t \in Thread, ReleaseHandle(t)
      PROVE  TeardownInv'
  <2>1. held[t] \in Inst /\ ref' = [ref EXCEPT ![held[t]] = @ - 1]
    BY <1>4 DEF ReleaseHandle
  <2>2. \A i \in Inst : ref'[i] > 0 => ref[i] > 0
    BY <2>1
  <2> QED
    BY <1>4, <2>2 DEF ReleaseHandle
<1>5. ASSUME NEW t \in Thread, PostDup(t)
      PROVE  TeardownInv'
  <2>1. held[t] \in Inst /\ ref[held[t]] > 0
    BY <1>5, OwnersCounted, FiniteAssumption DEF PostDup, FrameInv
  <2>2. \A i \in Inst : ref'[i] > 0 => ref[i] > 0
    BY <1>5, <2>1 DEF PostDup
  <2> QED
    BY <1>5, <2>2 DEF PostDup
<1>6. ASSUME NEW t \in Thread,
             PostCheck(t) \/ PostPush(t) \/ PostTest(t) \/ PostSend(t)
      PROVE  TeardownInv'
  <2>1. UNCHANGED <<ref, slot, detached, detaching, async, main, mode, ctx>>
    BY <1>6 DEF PostCheck, PostPush, PostTest, PostSend
  <2> QED
    BY <2>1
<1>7. CASE AsyncCallback \/ BeginTask \/ EndBatch
  BY <1>7 DEF AsyncCallback, BeginTask, EndBatch, SwapTasks
<1>8. CASE EndTask
  <2>1. Head(batch).inst \in Inst
    BY <1>8, OwnersCounted, FiniteAssumption DEF EndTask
  <2>2. \A i \in Inst : ref'[i] > 0 => ref[i] > 0
    BY <1>8, <2>1 DEF EndTask
  <2> QED
    BY <1>8, <2>2 DEF EndTask
<1>9. CASE UnsetUVLoop \/ UninitBegin \/ FreeManager
  BY <1>9 DEF UnsetUVLoop, UninitBegin, FreeManager, SwapTasks
<1>10. CASE UninitEnd
  BY <1>10 DEF UninitEnd
<1>11. CASE Finished \/ UNCHANGED vars
  BY <1>11 DEF Finished, vars
<1> QED
  BY <1>1, <1>2, <1>3, <1>4, <1>5, <1>6, <1>7, <1>8, <1>9, <1>10, <1>11
     DEF Next, PostSteps, Teardown

(* Every step preserves the quiet of a host that stops the threads.        *)
LEMMA QuietStep ==
  ASSUME IInv, TeardownInv, QuietInv, FiniteAssumption, NoneAssumption,
         Quiesce, [Next]_vars
  PROVE  QuietInv'
<1> USE DEF QuietInv, Closing, IInv, IntType
<1>1. ASSUME NEW i \in Inst, Require(i) \/ DetachBegin(i) \/ DetachEnd(i)
                               \/ \E t \in Thread : StartThread(t, i)
      PROVE  QuietInv'
  BY <1>1 DEF Require, DetachBegin, DetachEnd, StartThread
<1>2. ASSUME NEW i \in Inst, MainPost(i)
      PROVE  QuietInv'
  <2>1. ctx /\ UNCHANGED <<ctx, main, mode, async, pc>>
    BY <1>2, NoPostWithoutContext, FiniteAssumption, NoneAssumption
       DEF MainPost
  <2> QED
    BY <2>1 DEF TeardownInv
<1>3. ASSUME NEW t \in Thread, ReleaseHandle(t)
      PROVE  QuietInv'
  BY <1>3 DEF ReleaseHandle
<1>4. ASSUME NEW t \in Thread, PostCheck(t)
      PROVE  QuietInv'
  BY <1>4 DEF PostCheck
<1>5. ASSUME NEW t \in Thread, PostSteps(t)
      PROVE  QuietInv'
  <2>1. ~Closing /\ UNCHANGED <<async, ctx, main, mode>>
    BY <1>5 DEF PostSteps, PostDup, PostPush, PostTest, PostSend
  <2> QED
    BY <2>1 DEF TeardownInv
<1>6. CASE AsyncCallback \/ BeginTask \/ EndTask \/ EndBatch
  BY <1>6 DEF AsyncCallback, BeginTask, EndTask, EndBatch, SwapTasks
<1>7. CASE UnsetUVLoop \/ UninitBegin
  BY <1>7 DEF UnsetUVLoop, UninitBegin, ThreadsQuiet
<1>8. CASE UninitEnd \/ FreeManager
  BY <1>8 DEF UninitEnd, FreeManager, SwapTasks
<1>9. CASE Finished \/ UNCHANGED vars
  BY <1>9 DEF Finished, vars
<1> QED
  BY <1>1, <1>2, <1>3, <1>4, <1>5, <1>6, <1>7, <1>8, <1>9
     DEF Next, Teardown

(* The teardown keeps its order, whatever the host does with the threads.  *)
THEOREM TeardownInOrder == Spec => []TeardownInv
<1>1. Init => TeardownInv
  BY NoneAssumption DEF Init, TeardownInv
<1>2. IInv /\ TeardownInv /\ [Next]_vars => TeardownInv'
  BY TeardownStep, FiniteAssumption, NoneAssumption
<1> QED
  BY <1>1, <1>2, Invariance, PTL DEF Spec

(* Under a host that stops the threads first, no post is under way when    *)
(* ~FeatureManager runs, and nothing is queued behind the tasks that its   *)
(* FREE run has taken.                                                     *)
THEOREM TeardownIsQuiet ==
  ASSUME Quiesce
  PROVE  Spec => []QuietInv
<1>1. Init => QuietInv
  BY DEF Init, QuietInv, Closing
<1>2. IInv /\ TeardownInv /\ QuietInv /\ [Next]_vars => QuietInv'
  BY QuietStep, FiniteAssumption, NoneAssumption, Quiesce
<1> QED
  BY <1>1, <1>2, Invariance, TeardownInOrder, PTL DEF Spec

(* Under a host that stops the posting first, ~FeatureManager leaves       *)
(* nothing behind once the threads have let their handles go: the FREE run *)
(* has returned the reference of every task (RefCountExact), none was      *)
(* queued behind it, and uninit() has emptied the slots.                   *)
THEOREM NothingIsLeaked ==
  ASSUME Quiesce
  PROVE  Spec => []NothingLeaks
<1>1. IInv /\ TeardownInv /\ QuietInv => NothingLeaks
  <2> SUFFICES ASSUME IInv, TeardownInv, QuietInv, main = "gone",
                      \A t \in Thread : held[t] = None
               PROVE  queue = <<>> /\ \A i \in Inst : ref[i] = 0
    BY DEF NothingLeaks
  <2>1. queue = <<>> /\ batch = <<>> /\ ~ctx
    BY DEF QuietInv, TeardownInv, IInv, FrameInv
  <2>2. ASSUME NEW i \in Inst
        PROVE  ref[i] = 0
    <3>1. HandleRefs(i) = {} /\ PosterRefs(i) = {}
      BY NoneAssumption DEF HandleRefs, PosterRefs
    <3>2. Len(accepted) \in Nat /\ Unreleased = Len(accepted)
      BY <2>1, EmptyQueue DEF Unreleased, IInv, IntType
    <3>3. TaskRefs(i) = {}
      BY <3>2 DEF TaskRefs
    <3>4. SlotRefs(i) = 0
      BY <2>1 DEF TeardownInv, SlotRefs
    <3> QED
      BY <3>1, <3>3, <3>4, FS_EmptySet DEF IInv, RefCountExact
  <2> QED
    BY <2>1, <2>2
<1> QED
  BY <1>1, Invariance, TeardownInOrder, TeardownIsQuiet, PTL

-----------------------------------------------------------------------------
(* The refinement of TaskMailbox, one lemma for each kind of step.         *)

(* Concatenation of the batch and the queue.                               *)
LEMMA HeadOfConcat ==
  ASSUME NEW T, NEW q \in Seq(T), NEW r \in Seq(T), q # <<>>
  PROVE  /\ q \o r # <<>> /\ Head(q \o r) = Head(q)
         /\ Tail(q \o r) = Tail(q) \o r
<1>1. /\ q \o r \in Seq(T) /\ Len(q \o r) = Len(q) + Len(r)
      /\ \A k \in 1..Len(q) + Len(r) :
           (q \o r)[k] = IF k <= Len(q) THEN q[k] ELSE r[k - Len(q)]
  BY ConcatProperties
<1>2. /\ Len(q) \in Nat \ {0} /\ Len(r) \in Nat /\ Tail(q) \in Seq(T)
      /\ Head(q) = q[1] /\ Len(Tail(q)) = Len(q) - 1
      /\ \A k \in 1..Len(Tail(q)) : Tail(q)[k] = q[k + 1]
  BY HeadAndTail
<1>3. q \o r # <<>>
  BY <1>1, <1>2
<1>4. /\ Head(q \o r) = (q \o r)[1] /\ Tail(q \o r) \in Seq(T)
      /\ Len(Tail(q \o r)) = Len(q) + Len(r) - 1
      /\ \A k \in 1..Len(Tail(q \o r)) : Tail(q \o r)[k] = (q \o r)[k + 1]
  BY <1>1, <1>3, HeadAndTail
<1>5. Head(q \o r) = Head(q)
  BY <1>1, <1>2, <1>4
<1>6. /\ Tail(q) \o r \in Seq(T) /\ Len(Tail(q) \o r) = Len(Tail(q)) + Len(r)
      /\ \A k \in 1..Len(Tail(q)) + Len(r) :
           (Tail(q) \o r)[k] = IF k <= Len(Tail(q)) THEN Tail(q)[k]
                               ELSE r[k - Len(Tail(q))]
  BY <1>2, ConcatProperties
<1>7. ASSUME NEW k \in 1..Len(Tail(q \o r))
      PROVE  Tail(q \o r)[k] = (Tail(q) \o r)[k]
  BY <1>1, <1>2, <1>4, <1>6, <1>7
<1>8. Tail(q \o r) = Tail(q) \o r
  BY <1>2, <1>4, <1>6, <1>7, SeqEqual
<1> QED
  BY <1>3, <1>5, <1>8

LEMMA AppendToConcat ==
  ASSUME NEW T, NEW q \in Seq(T), NEW r \in Seq(T), NEW x \in T
  PROVE  q \o Append(r, x) = Append(q \o r, x)
<1>1. <<x>> \in Seq(T) /\ q \o r \in Seq(T)
  BY ConcatProperties
<1>2. Append(r, x) = r \o <<x>> /\ Append(q \o r, x) = (q \o r) \o <<x>>
  BY <1>1, AppendIsConcat
<1> QED
  BY <1>1, <1>2, ConcatAssociative

(* What is left of the batch besides the running task.                     *)
LEMMA UncalledBatch ==
  ASSUME IInv
  PROVE  (IF main = "callback" THEN Tail(batch) ELSE batch) \in Seq(Task)
BY HeadAndTail DEF IInv, IntType, FrameInv

(* Both ways of posting are the mailbox's.                                 *)
LEMMA PushPosts ==
  ASSUME IInv, NEW i \in Inst, Push(i), main # "gone",
         UNCHANGED <<batch, main, ran>>
  PROVE  Mailbox!Post(i)
<1> DEFINE x == [id |-> Len(accepted) + 1, inst |-> i]
<1>1. x \in Task /\ Len(accepted') = Len(accepted) + 1
  BY NewTask, AppendAtEnd DEF IInv, IntType, Push
<1> DEFINE b == IF main = "callback" THEN Tail(batch) ELSE batch
<1>2. b \in Seq(Task) /\ queue \in Seq(Task)
  BY UncalledBatch DEF IInv, IntType
<1>3. Uncalled = b \o queue /\ Uncalled' = b \o Append(queue, x)
  BY DEF Push, Uncalled
<1>4. b \o Append(queue, x) = Append(b \o queue, x)
  <2> HIDE DEF b, x
  <2> QED
    BY <1>1, <1>2, AppendToConcat
<1> QED
  BY <1>1, <1>3, <1>4 DEF Mailbox!Post

(* Steps that leave the tasks alone are none of the mailbox.               *)
LEMMA SameTasks ==
  ASSUME UNCHANGED <<queue, batch, accepted, ran>>,
         (main' = "callback") <=> (main = "callback"),
         (main' = "gone") <=> (main = "gone")
  PROVE  UNCHANGED Mailbox!mailboxVars
BY DEF Mailbox!mailboxVars, Uncalled

(* Every step of the manager is one of the mailbox, or none.               *)
LEMMA MailboxStep ==
  ASSUME IInv, TeardownInv, QuietInv, Quiesce, FiniteAssumption,
         NoneAssumption, [Next]_vars
  PROVE  [Mailbox!Next]_Mailbox!mailboxVars
<1>1. ASSUME NEW i \in Inst, Require(i) \/ DetachBegin(i) \/ DetachEnd(i)
                               \/ \E t \in Thread : StartThread(t, i)
      PROVE  UNCHANGED Mailbox!mailboxVars
  BY <1>1, SameTasks DEF Require, DetachBegin, DetachEnd, StartThread
<1>2. ASSUME NEW i \in Inst, MainPost(i)
      PROVE  Mailbox!Next
  <2>1. main # "gone"
    BY <1>2, NoPostWithoutContext DEF TeardownInv
  <2> QED
    BY <1>2, <2>1, PushPosts DEF MainPost, Mailbox!Next
<1>3. ASSUME NEW t \in Thread, PostPush(t)
      PROVE  Mailbox!Next
  <2>1. held[t] \in Inst
    BY <1>3 DEF PostPush, IInv, FrameInv, IntType
  <2>2. main # "gone"
    BY <1>3 DEF PostPush, QuietInv, Closing, TeardownInv
  <2> QED
    BY <1>3, <2>1, <2>2, PushPosts DEF PostPush, Mailbox!Next
<1>4. ASSUME NEW t \in Thread, ReleaseHandle(t) \/ PostCheck(t) \/ PostDup(t)
                                 \/ PostTest(t) \/ PostSend(t)
      PROVE  UNCHANGED Mailbox!mailboxVars
  BY <1>4, SameTasks DEF ReleaseHandle, PostCheck, PostDup, PostTest, PostSend
<1>5. ASSUME AsyncCallback \/ FreeManager
      PROVE  UNCHANGED Mailbox!mailboxVars
  <2>1. /\ batch = <<>> /\ batch' = queue /\ queue' = <<>>
        /\ main = "loop" /\ main' = "tasks" /\ UNCHANGED <<accepted, ran>>
    BY <1>5 DEF AsyncCallback, FreeManager, SwapTasks, IInv, FrameInv
  <2>2. Uncalled = <<>> \o queue /\ Uncalled' = queue \o <<>>
    BY <2>1 DEF Uncalled
  <2>3. Uncalled' = Uncalled
    BY <2>2, ConcatEmptySeq DEF IInv, IntType
  <2> QED
    BY <2>1, <2>3 DEF Mailbox!mailboxVars
<1>6. ASSUME BeginTask
      PROVE  Mailbox!Call
  <2>1. /\ main = "tasks" /\ main' = "callback" /\ batch # <<>>
        /\ Uncalled = batch \o queue /\ Uncalled' = Tail(batch) \o queue
        /\ ran' = Append(ran, Head(batch).id) /\ accepted' = accepted
    BY <1>6 DEF BeginTask, Uncalled
  <2>2. batch \in Seq(Task) /\ queue \in Seq(Task)
    BY DEF IInv, IntType
  <2>3. /\ batch \o queue # <<>> /\ Head(batch \o queue) = Head(batch)
        /\ Tail(batch \o queue) = Tail(batch) \o queue
    BY <2>1, <2>2, HeadOfConcat
  <2> QED
    BY <2>1, <2>3 DEF Mailbox!Call
<1>7. ASSUME EndTask
      PROVE  UNCHANGED Mailbox!mailboxVars
  BY <1>7 DEF EndTask, Uncalled, Mailbox!mailboxVars
<1>8. ASSUME EndBatch
      PROVE  Mailbox!Close \/ UNCHANGED Mailbox!mailboxVars
  <2>1. CASE mode = "FREE"
    <3>1. /\ batch = <<>> /\ queue = <<>> /\ main = "tasks" /\ main' = "gone"
          /\ UNCHANGED <<batch, queue, ran, accepted>>
      BY <1>8, <2>1 DEF EndBatch, QuietInv
    <3>2. Uncalled = <<>> /\ Uncalled' = Uncalled
      BY <3>1, EmptyQueue, ConcatEmptySeq DEF Uncalled
    <3> QED
      BY <3>1, <3>2 DEF Mailbox!Close
  <2>2. CASE mode # "FREE"
    BY <1>8, <2>2, SameTasks DEF EndBatch
  <2> QED
    BY <2>1, <2>2
<1>9. ASSUME Teardown, ~FreeManager
      PROVE  UNCHANGED Mailbox!mailboxVars
  BY <1>9, SameTasks DEF Teardown, UnsetUVLoop, UninitBegin, UninitEnd
<1>10. ASSUME Finished \/ UNCHANGED vars
       PROVE  UNCHANGED Mailbox!mailboxVars
  BY <1>10, SameTasks DEF Finished, vars
<1> QED
  BY <1>1, <1>2, <1>3, <1>4, <1>5, <1>6, <1>7, <1>8, <1>9, <1>10
     DEF Next, PostSteps, Mailbox!Next

(* The queue implements the mailbox of TaskMailbox, for a host that stops  *)
(* the posting first: swap, batch and FREE run are invisible, a task is    *)
(* called once and in turn, and nothing is left when the manager ends.     *)
THEOREM ManagerImplementsMailbox ==
  ASSUME Quiesce
  PROVE  Spec => ImplementsMailbox
<1>1. Init => Mailbox!Init
  <2> SUFFICES ASSUME Init PROVE Mailbox!Init
    OBVIOUS
  <2>1. queue = <<>> /\ batch = <<>> /\ main = "loop" /\ accepted = <<>>
    BY DEF Init
  <2>2. Uncalled = <<>>
    BY <2>1, EmptyQueue, ConcatEmptySeq DEF Uncalled
  <2> QED
    BY <2>1, <2>2, EmptyQueue DEF Init, Mailbox!Init
<1>2. IInv /\ TeardownInv /\ QuietInv /\ [Next]_vars
        => [Mailbox!Next]_Mailbox!mailboxVars
  BY MailboxStep, Quiesce, FiniteAssumption, NoneAssumption
<1> QED
  BY <1>1, <1>2, Invariance, TeardownInOrder, TeardownIsQuiet, PTL
     DEF Spec, ImplementsMailbox, Mailbox!Spec

-----------------------------------------------------------------------------
(* Arguments of calls (Conversions), for any set of places and any types   *)
(* and values at them: ArgumentsOwned.                                     *)
(*                                                                         *)
(* What a conversion does at a place is stated by all places above it, so  *)
(* that the proof needs no induction over types: a part is converted only  *)
(* if all the places above it are (ConvertedAbove), and then the walk that *)
(* frees gets to it and to nothing else (FreedAreMade).  ArgumentsInv says *)
(* what is held by the stage of the call and by whether it waits.          *)

(* There is memory that the slot of the argument points to.                *)
Holds(mem, type) == mem[Root] # Null /\ NeedFree(type[Root])

(* The places above a place.                                               *)
LEMMA UptoIs ==
  ASSUME NEW p \in Places, NEW n \in 0..Len(p)
  PROVE  /\ Len(p) \in Nat /\ n \in Nat /\ Upto(p, n) \in Places /\ Len(Upto(p, n)) = n
         /\ \A m \in 0..n : Upto(Upto(p, n), m) = Upto(p, m)
         /\ \A m \in 1..n : Upto(p, n)[m] = p[m]
         /\ Upto(p, Len(p)) = p /\ Upto(p, 0) = Root
<1>1. p \in Seq(Nat) /\ Upto(p, n) \in Places /\ Len(p) \in Nat /\ n \in Nat
  BY PlaceAssumption
<1>2. p = [i \in 1..Len(p) |-> p[i]]
  BY <1>1
<1>3. Upto(p, n) \in Seq(Nat) /\ Len(Upto(p, n)) = n
  <2>1. \A i \in 1..n : p[i] \in Nat
    BY <1>1
  <2>2. Upto(p, n) \in [1..n -> Nat]
    BY <2>1 DEF Upto
  <2> QED BY <1>1, <2>2, LenProperties
<1>4. \A m \in 0..n : Upto(Upto(p, n), m) = Upto(p, m)
  BY <1>1 DEF Upto
<1>5. \A m \in 1..n : Upto(p, n)[m] = p[m]
  BY DEF Upto
<1>6. Upto(p, 0) = Root
  <2>1. Upto(p, 0) \in [1..0 -> Nat]
    BY DEF Upto
  <2>2. Upto(p, 0) \in Seq(Nat) /\ Len(Upto(p, 0)) = 0
    BY <2>1, LenProperties
  <2> QED BY <2>2, EmptySeq DEF Root
<1> QED BY <1>1, <1>2, <1>3, <1>4, <1>5, <1>6 DEF Upto

(* A step of a walk goes to a part.                                        *)
LEMMA StepIs ==
  ASSUME NEW p \in Places, NEW n \in 1..Len(p)
  PROVE  /\ Upto(p, n - 1) \in Places /\ n - 1 \in 0..Len(p) /\ n \in 0..Len(p)
         /\ Upto(p, n) \in PartsOf(Upto(p, n - 1))
<1>1. Len(p) \in Nat
  BY PlaceAssumption
<1>2. n - 1 \in 0..Len(p) /\ n \in 0..Len(p) /\ n = (n - 1) + 1 /\ n - 1 \in 0..n
  BY <1>1
<1>3. Upto(p, n - 1) \in Places /\ Len(Upto(p, n - 1)) = n - 1
  BY <1>2, UptoIs
<1>4. /\ Upto(p, n) \in Places /\ Len(Upto(p, n)) = n
      /\ Upto(Upto(p, n), n - 1) = Upto(p, n - 1)
  BY <1>2, UptoIs
<1> QED BY <1>2, <1>3, <1>4 DEF PartsOf

LEMMA ReachesAbove ==
  ASSUME NEW mem, NEW p \in Places, Reaches(mem, p), NEW n \in 0..Len(p)
  PROVE  Reaches(mem, Upto(p, n))
<1>1. /\ Len(Upto(p, n)) = n /\ Len(p) \in Nat /\ n \in Nat
      /\ \A m \in 0..n : Upto(Upto(p, n), m) = Upto(p, m)
  BY UptoIs
<1>2. SUFFICES ASSUME NEW m \in 1..n
      PROVE  Upto(Upto(p, n), m) \in mem[Upto(Upto(p, n), m - 1)].parts
  BY <1>1 DEF Reaches
<1>3. m \in 0..n /\ m - 1 \in 0..n /\ m \in 1..Len(p)
  BY <1>1
<1> QED BY <1>1, <1>3 DEF Reaches

-----------------------------------------------------------------------------
(* What is converted *)

LEMMA ArgumentIs ==
  ASSUME NEW a \in Arguments, NEW p \in Places
  PROVE  /\ a.type[p] \in TypeNodes /\ a.value[p] \in ValueKinds
         /\ a.type[p].opt = "default" => a.type[p].kind \in Numbers \cup {"string"}
         /\ a.type[p].kind = "json" => a.value[p] # "function"
BY ArgumentsAssumption DEF WellFormed

LEMMA SlotFields ==
  ASSUME NEW k, NEW o, NEW s
  PROVE  /\ Slot(k, o, s).kind = k /\ Slot(k, o, s).of = o /\ Slot(k, o, s).parts = s
         /\ Null.kind = "null" /\ Null.of = "null" /\ Null.parts = {}
         /\ Refused.kind = "refused" /\ Refused.of = "null" /\ Refused.parts = {}
BY DEF Slot, Null, Refused

(* What a slot is by the kind of its type.                                 *)
LEMMA SlotIs ==
  ASSUME NEW a \in Arguments, NEW p \in Places
  PROVE  LET s == Slots(a)[p]
             k == a.type[p].kind
         IN  /\ \/ s = Refused \/ s = Null
                \/ s.kind = "number" /\ k \in Numbers
                \/ s.kind = k /\ k \in Managed \cup {"callback", "struct", "array"}
             /\ s.parts # {} => s.kind = k /\ k \in {"struct", "array"}
             /\ \A q \in PartsOf(p) :
                  q \in s.parts <=>
                    \/ k = "struct" /\ a.value[p] = "object" /\ a.type[q].kind # "none"
                    \/ k = "array" /\ a.value[p] = "array" /\ a.value[q] # "undefined"
<1> DEFINE s == Slots(a)[p]
           t == a.type[p]
           k == t.kind
           v == a.value[p]
<1> USE SlotFields
<1>1. t \in TypeNodes /\ v \in ValueKinds /\ (t.opt = "default" => k \in Numbers \cup {"string"})
  BY ArgumentIs
<1>2. s = IF IsMember(a, p) /\ v = "undefined"
          THEN MissingToNative(a, p) ELSE ValueToNative(a, p)
  BY DEF Slots
<1> DEFINE Is(x) ==
      /\ \/ x = Refused \/ x = Null
         \/ x.kind = "number" /\ k \in Numbers
         \/ x.kind = k /\ k \in Managed \cup {"callback", "struct", "array"}
      /\ x.parts # {} => x.kind = k /\ k \in {"struct", "array"}
      /\ \A q \in PartsOf(p) :
           q \in x.parts <=>
             \/ k = "struct" /\ v = "object" /\ a.type[q].kind # "none"
             \/ k = "array" /\ v = "array" /\ a.value[q] # "undefined"
<1>3. Is(ValueToNative(a, p))
  <2>1. CASE k = "struct"
    <3>1. ValueToNative(a, p) = StructToNative(a, p)
      BY <2>1 DEF ValueToNative
    <3>2. CASE Absent(v)
      BY <2>1, <3>1, <3>2 DEF StructToNative, Absent
    <3>3. CASE ~Absent(v) /\ v = "object"
      BY <2>1, <3>1, <3>3 DEF StructToNative, IsPlainObject
    <3>4. CASE ~Absent(v) /\ v # "object"
      BY <2>1, <3>1, <3>4 DEF StructToNative, IsPlainObject
    <3> QED BY <3>2, <3>3, <3>4
  <2>2. CASE k = "array"
    <3>1. ValueToNative(a, p) = ArrayToNative(a, p)
      BY <2>2 DEF ValueToNative
    <3>2. CASE Absent(v)
      BY <2>2, <3>1, <3>2 DEF ArrayToNative, Absent
    <3>3. CASE ~Absent(v) /\ v = "array"
      BY <2>2, <3>1, <3>3 DEF ArrayToNative, Elements
    <3>4. CASE ~Absent(v) /\ v # "array"
      BY <2>2, <3>1, <3>4 DEF ArrayToNative
    <3> QED BY <3>2, <3>3, <3>4
  <2>3. CASE k \notin {"struct", "array"}
    <3>1. ValueToNative(a, p) = ScalarToNative(k, v)
      BY <2>3 DEF ValueToNative
    <3>2. \/ ScalarToNative(k, v) = Refused \/ ScalarToNative(k, v) = Null
          \/ ScalarToNative(k, v) = Slot("number", v, {}) /\ k \in Numbers
          \/ /\ ScalarToNative(k, v) = Slot(k, v, {})
             /\ k \in Managed \cup {"callback", "struct", "array"}
      BY DEF ScalarToNative
    <3> HIDE DEF k, v
    <3> QED BY <2>3, <3>1, <3>2
  <2> QED BY <2>1, <2>2, <2>3
<1>4. ASSUME v = "undefined" PROVE Is(MissingToNative(a, p))
  <2>1. CASE t.opt = "no"
    <3>1. \/ MissingToNative(a, p) = Refused
          \/ MissingToNative(a, p) = ValueToNative(a, p)
      BY <2>1 DEF MissingToNative
    <3>2. Is(Refused)
      BY <1>4
    <3> HIDE DEF Is
    <3> QED BY <1>3, <3>1, <3>2
  <2>2. CASE t.opt # "no"
    <3>1. MissingToNative(a, p) = DefaultOf(t)
      BY <2>2 DEF MissingToNative
    <3>2. \/ DefaultOf(t) = Refused \/ DefaultOf(t) = Null
          \/ DefaultOf(t).kind = "number" /\ k \in Numbers /\ DefaultOf(t).parts = {}
          \/ DefaultOf(t).kind = "string" /\ k = "string" /\ DefaultOf(t).parts = {}
      BY <1>1 DEF DefaultOf, Numbers
    <3> HIDE DEF t
    <3> QED BY <1>4, <3>1, <3>2 DEF Managed
  <2> QED BY <2>1, <2>2
<1> HIDE DEF Is
<1>5. Is(s)
  BY <1>2, <1>3, <1>4
<1> QED BY <1>5 DEF Is

(* A walk over what is converted is one over what was passed.              *)
LEMMA PassedIs ==
  ASSUME NEW a \in Arguments, NEW p \in Places
  PROVE  Reaches(Slots(a), p) <=> Passed(a, p)
<1>1. ASSUME NEW n \in 1..Len(p)
      PROVE  Upto(p, n) \in Slots(a)[Upto(p, n - 1)].parts <=>
               \/ /\ a.type[Upto(p, n - 1)].kind = "struct"
                  /\ a.value[Upto(p, n - 1)] = "object"
                  /\ a.type[Upto(p, n)].kind # "none"
               \/ /\ a.type[Upto(p, n - 1)].kind = "array"
                  /\ a.value[Upto(p, n - 1)] = "array"
                  /\ a.value[Upto(p, n)] # "undefined"
  <2>1. Upto(p, n - 1) \in Places /\ Upto(p, n) \in PartsOf(Upto(p, n - 1))
    BY StepIs
  <2> QED BY <2>1, SlotIs
<1> QED BY <1>1 DEF Reaches, Passed

(* What is above a part that is converted is converted: it was not         *)
(* refused, and what is refused before it is refused before the part.      *)
LEMMA ConvertedAbove ==
  ASSUME NEW a \in Arguments, NEW p \in Converted(a), NEW n \in 0..Len(p)
  PROVE  Upto(p, n) \in Converted(a)
<1>1. /\ p \in Places /\ Reaches(Slots(a), p)
      /\ \A f \in Refusals(a) : f # p /\ ~Before(f, p)
  BY DEF Converted
<1>2. /\ Upto(p, n) \in Places /\ Len(Upto(p, n)) = n /\ Len(p) \in Nat /\ n \in Nat
      /\ \A m \in 0..n : Upto(Upto(p, n), m) = Upto(p, m)
      /\ \A m \in 1..n : Upto(p, n)[m] = p[m]
      /\ Upto(p, Len(p)) = p
  BY <1>1, UptoIs
<1>3. Reaches(Slots(a), Upto(p, n))
  BY <1>1, ReachesAbove
<1>4. ASSUME NEW f \in Refusals(a) PROVE f # Upto(p, n) /\ ~Before(f, Upto(p, n))
  <2>1. f # Upto(p, n)
    <3>1. SUFFICES ASSUME f = Upto(p, n), n # Len(p) PROVE FALSE
      BY <1>1, <1>2
    <3>2. n + 1 \in 1..Len(p) /\ (n + 1) - 1 = n
      BY <1>2, <3>1
    <3>3. Slots(a)[Upto(p, n)].parts # {}
      BY <1>1, <3>2 DEF Reaches
    <3>4. Slots(a)[Upto(p, n)] = Refused
      BY <1>4, <3>1 DEF Refusals
    <3> QED BY <3>3, <3>4, SlotFields
  <2>2. ASSUME Before(f, Upto(p, n)) PROVE Before(f, p)
    <3>1. PICK m \in 1..Len(f) :
            /\ m <= Len(Upto(p, n)) /\ Upto(f, m - 1) = Upto(Upto(p, n), m - 1)
            /\ f[m] < Upto(p, n)[m]
      BY <2>2 DEF Before
    <3>2. f \in Places /\ Len(f) \in Nat
      BY <1>4, PlaceAssumption DEF Refusals
    <3>3. m \in 1..n /\ m - 1 \in 0..n /\ m <= Len(p)
      BY <1>2, <3>1, <3>2
    <3>4. Upto(f, m - 1) = Upto(p, m - 1) /\ f[m] < p[m]
      BY <1>2, <3>1, <3>3
    <3> QED BY <3>3, <3>4 DEF Before
  <2> QED BY <1>1, <1>4, <2>1, <2>2
<1> QED BY <1>2, <1>3, <1>4 DEF Converted

(* A walk over the memory gets to what is converted.                       *)
LEMMA NativeReaches ==
  ASSUME NEW a \in Arguments, NEW p \in Places
  PROVE  /\ p \in Converted(a) =>
              Reaches(ToNative(a), p) /\ ToNative(a)[p] = Slots(a)[p]
         /\ Reaches(ToNative(a), p) /\ ToNative(a)[p] # Null => p \in Converted(a)
         /\ Reaches(ToNative(a), p) => Reaches(Slots(a), p)
<1>1. \A q \in Places :
        ToNative(a)[q] = IF q \in Converted(a) THEN Slots(a)[q] ELSE Null
  BY DEF ToNative
<1>2. ASSUME p \in Converted(a) PROVE Reaches(ToNative(a), p)
  <2>1. SUFFICES ASSUME NEW n \in 1..Len(p)
        PROVE  Upto(p, n) \in ToNative(a)[Upto(p, n - 1)].parts
    BY DEF Reaches
  <2>2. Upto(p, n - 1) \in Places /\ n - 1 \in 0..Len(p)
    BY StepIs
  <2>3. Upto(p, n - 1) \in Converted(a)
    BY <1>2, <2>2, ConvertedAbove
  <2>4. Upto(p, n) \in Slots(a)[Upto(p, n - 1)].parts
    BY <1>2 DEF Converted, Reaches
  <2> QED BY <1>1, <2>2, <2>3, <2>4
<1>3. ASSUME Reaches(ToNative(a), p) PROVE Reaches(Slots(a), p)
  <2>1. SUFFICES ASSUME NEW n \in 1..Len(p)
        PROVE  Upto(p, n) \in Slots(a)[Upto(p, n - 1)].parts
    BY DEF Reaches
  <2>2. Upto(p, n - 1) \in Places
    BY StepIs
  <2>3. Upto(p, n) \in ToNative(a)[Upto(p, n - 1)].parts
    BY <1>3 DEF Reaches
  <2> QED BY <1>1, <2>2, <2>3, SlotFields
<1> QED BY <1>1, <1>2, <1>3

(* What is above what a walk gets to has parts, and so has memory.         *)
LEMMA AboveHasParts ==
  ASSUME NEW a \in Arguments, NEW p \in Places, Reaches(Slots(a), p),
         NEW n \in 0..Len(p), n # Len(p)
  PROVE  /\ NeedFree(a.type[Upto(p, n)]) /\ Slots(a)[Upto(p, n)] # Null
         /\ Slots(a)[Upto(p, n)].parts # {}
<1>1. Len(p) \in Nat /\ n + 1 \in 1..Len(p) /\ (n + 1) - 1 = n
  BY PlaceAssumption
<1>2. Upto(p, n) \in Places
  BY UptoIs
<1>3. Slots(a)[Upto(p, n)].parts # {}
  BY <1>1 DEF Reaches
<1> QED BY <1>2, <1>3, SlotIs, SlotFields DEF NeedFree

-----------------------------------------------------------------------------
(* What is freed *)

(* The blocks of a part that is converted.                                 *)
LEMMA BlocksAre ==
  ASSUME NEW a \in Arguments, NEW p \in Converted(a)
  PROVE  LET s == Slots(a)[p]
             t == a.type[p]
         IN  /\ s.kind \in Managed \cup {"struct", "array"} <=> s # Null /\ NeedFree(t)
             /\ s.kind = "array" /\ s.parts # {} <=>
                  s # Null /\ NeedFree(t) /\ t.kind = "array" /\ s.parts # {}
<1> DEFINE s == Slots(a)[p]
           k == a.type[p].kind
<1>1. p \in Places /\ s # Refused
  <2>1. /\ p \in Places /\ Reaches(Slots(a), p) /\ p \notin Refusals(a)
    BY DEF Converted
  <2> QED BY <2>1 DEF Refusals
<1>2. /\ \/ s = Null
         \/ s.kind = "number" /\ k \in Numbers
         \/ s.kind = k /\ k \in Managed \cup {"callback", "struct", "array"}
      /\ s.parts # {} => s.kind = k /\ k \in {"struct", "array"}
  BY <1>1, SlotIs
<1> HIDE DEF s
<1> QED BY <1>2, SlotFields DEF NeedFree, Managed, Numbers, s

(* Every block that was made is freed, and no other, if there is one.      *)
LEMMA FreedAreMade ==
  ASSUME NEW a \in Arguments
  PROVE  /\ Holds(ToNative(a), a.type) =>
              FreedWith(a.type, ToNative(a)) = BlocksMade(a)
         /\ ~Holds(ToNative(a), a.type) => BlocksMade(a) = {}
<1> DEFINE N == ToNative(a)
           S == Slots(a)
<1>1. ASSUME NEW b \in Block
      PROVE  b \in BlocksMade(a) <=>
               /\ b[1] \in Converted(a) /\ S[b[1]] # Null /\ NeedFree(a.type[b[1]])
               /\ b[2] = "own" \/ (a.type[b[1]].kind = "array" /\ S[b[1]].parts # {})
  <2>1. b[1] \in Places /\ b[2] \in {"own", "elements"}
    BY DEF Block
  <2>2. b \in BlocksMade(a) <=>
          /\ b[1] \in Converted(a)
          /\ IF b[2] = "own" THEN S[b[1]].kind \in Managed \cup {"struct", "array"}
             ELSE S[b[1]].kind = "array" /\ S[b[1]].parts # {}
    BY DEF BlocksMade
  <2>3. CASE b[2] = "own"
    BY <2>2, <2>3, BlocksAre
  <2>4. CASE b[2] = "elements"
    BY <2>2, <2>4, BlocksAre
  <2> QED BY <2>1, <2>3, <2>4
<1>2. ASSUME NEW b \in BlocksMade(a) PROVE Holds(N, a.type) /\ b \in FreedWith(a.type, N)
  <2>1. b \in Block /\ b[1] \in Places
    BY DEF BlocksMade, Block
  <2>2. /\ b[1] \in Converted(a) /\ S[b[1]] # Null /\ NeedFree(a.type[b[1]])
        /\ b[2] = "own" \/ (a.type[b[1]].kind = "array" /\ S[b[1]].parts # {})
    BY <1>1, <1>2, <2>1
  <2>3. Reaches(N, b[1]) /\ N[b[1]] = S[b[1]] /\ Reaches(S, b[1])
    BY <2>1, <2>2, NativeReaches
  <2>4. ASSUME NEW n \in 0..Len(b[1])
        PROVE  NeedFree(a.type[Upto(b[1], n)]) /\ S[Upto(b[1], n)] # Null
    <3>1. Upto(b[1], Len(b[1])) = b[1]
      BY <2>1, <2>4, UptoIs
    <3> QED BY <2>1, <2>2, <2>3, <3>1, AboveHasParts
  <2>5. Holds(N, a.type)
    <3>1. Len(b[1]) \in Nat /\ 0 \in 0..Len(b[1])
      BY <2>1, PlaceAssumption
    <3>2. Upto(b[1], 0) = Root /\ Root \in Converted(a) /\ Root \in Places
      BY <2>1, <2>2, <3>1, UptoIs, ConvertedAbove, PlaceAssumption
    <3>3. N[Root] = S[Root]
      BY <3>2, NativeReaches
    <3> QED BY <2>4, <3>1, <3>2, <3>3 DEF Holds
  <2> QED BY <2>1, <2>2, <2>3, <2>4, <2>5 DEF FreedWith
<1>3. ASSUME NEW b \in FreedWith(a.type, N) PROVE b \in BlocksMade(a)
  <2>1. /\ b \in Block /\ b[1] \in Places
        /\ Reaches(N, b[1]) /\ N[b[1]] # Null
        /\ \A n \in 0..Len(b[1]) : NeedFree(a.type[Upto(b[1], n)])
        /\ b[2] = "own" \/ (a.type[b[1]].kind = "array" /\ N[b[1]].parts # {})
    BY DEF FreedWith, Block
  <2>2. b[1] \in Converted(a) /\ N[b[1]] = S[b[1]]
    BY <2>1, NativeReaches
  <2>3. NeedFree(a.type[b[1]])
    <3>1. Len(b[1]) \in 0..Len(b[1])
      BY <2>1, PlaceAssumption
    <3> QED BY <2>1, <3>1, UptoIs
  <2> QED BY <1>1, <2>1, <2>2, <2>3
<1>4. BlocksMade(a) \subseteq Block /\ FreedWith(a.type, N) \subseteq Block
  BY DEF BlocksMade, FreedWith
<1> QED BY <1>2, <1>3, <1>4

(* An argument without memory holds no value of the script.                *)
LEMMA NothingHeld ==
  ASSUME NEW a \in Arguments, ~Holds(ToNative(a), a.type)
  PROVE  AnysIn(a.type, ToNative(a)) = {}
<1> DEFINE N == ToNative(a)
           S == Slots(a)
<1>1. SUFFICES ASSUME NEW p \in AnysIn(a.type, N) PROVE FALSE
  OBVIOUS
<1>2. p \in Places /\ Reaches(N, p) /\ a.type[p].kind = "any" /\ N[p] # Null
  BY DEF AnysIn
<1>3. p \in Converted(a) /\ N[p] = S[p] /\ Reaches(S, p) /\ NeedFree(a.type[p])
  BY <1>2, NativeReaches DEF NeedFree, Managed
<1>4. Len(p) \in Nat /\ 0 \in 0..Len(p)
  BY <1>2, PlaceAssumption
<1>5. Upto(p, 0) = Root /\ Upto(p, Len(p)) = p /\ Root \in Converted(a) /\ Root \in Places
  BY <1>2, <1>3, <1>4, UptoIs, ConvertedAbove, PlaceAssumption
<1>6. N[Root] = S[Root]
  BY <1>5, NativeReaches
<1>7. NeedFree(a.type[Root]) /\ S[Root] # Null
  BY <1>2, <1>3, <1>4, <1>5, AboveHasParts
<1> QED BY <1>6, <1>7 DEF Holds

-----------------------------------------------------------------------------
(* What it says *)

(* A part that is not refused says what was passed for it.                 *)
LEMMA PartSaysWhatIsMeant ==
  ASSUME NEW a \in Arguments, NEW p \in Places, Slots(a)[p] # Refused
  PROVE  ValueToTarget(a.type[p].kind, Slots(a)[p])
         = MeantAt(a.type[p], a.value[p], IsMember(a, p))
<1> DEFINE s == Slots(a)[p]
           t == a.type[p]
           k == t.kind
           v == a.value[p]
           member == IsMember(a, p)
<1> USE SlotFields
<1>1. t \in TypeNodes /\ v \in ValueKinds /\ (t.opt = "default" => k \in Numbers \cup {"string"})
  BY ArgumentIs
<1>2. s = IF member /\ v = "undefined"
          THEN MissingToNative(a, p) ELSE ValueToNative(a, p)
  BY DEF Slots
<1>3. t.opt \in {"no", "optional", "default"} /\ k \in Kinds \cup {"none"}
  BY <1>1 DEF TypeNodes
<1>4. ASSUME s = ValueToNative(a, p), ~(member /\ v = "undefined" /\ t.opt # "no")
      PROVE  ValueToTarget(k, s) = MeantAt(t, v, member)
  <2>1. CASE k = "struct"
    <3>1. s = StructToNative(a, p)
      BY <1>4, <2>1 DEF ValueToNative
    <3>2. MeantAt(t, v, member) = IF Absent(v) THEN "null" ELSE v
      BY <1>4, <2>1 DEF MeantAt
    <3>3. Absent(v) => s = Null
      BY <3>1 DEF StructToNative
    <3>4. ~Absent(v) => v = "object" /\ s.kind = "struct"
      BY <3>1 DEF StructToNative, IsPlainObject
    <3>5. ValueToTarget(k, s) = IF s = Null THEN "null" ELSE "object"
      BY <2>1 DEF ValueToTarget
    <3> QED BY <3>2, <3>3, <3>4, <3>5
  <2>2. CASE k = "array"
    <3>1. s = ArrayToNative(a, p)
      BY <1>4, <2>2 DEF ValueToNative
    <3>2. MeantAt(t, v, member) = IF Absent(v) THEN "null" ELSE v
      BY <1>4, <2>2 DEF MeantAt
    <3>3. Absent(v) => s = Null
      BY <3>1 DEF ArrayToNative
    <3>4. ~Absent(v) => v = "array" /\ s.kind = "array"
      BY <3>1 DEF ArrayToNative
    <3>5. ValueToTarget(k, s) = IF s = Null THEN "null" ELSE "array"
      BY <2>2 DEF ValueToTarget
    <3> QED BY <3>2, <3>3, <3>4, <3>5
  <2>3. CASE k \in Numbers
    <3>1. s = ScalarToNative(k, v)
      BY <1>4, <2>3 DEF ValueToNative, Numbers
    <3>2. NumberFits(k, v) /\ s = Slot("number", v, {})
      BY <2>3, <3>1 DEF ScalarToNative
    <3>3. ~Absent(v) /\ v # "undefined"
      BY <3>2 DEF NumberFits, Absent
    <3>4. ValueToTarget(k, s) = v
      BY <2>3, <3>2 DEF ValueToTarget, ScalarToTarget, NumberToTarget, Numbers
    <3>5. MeantAt(t, v, member) = v
      BY <2>3, <3>3 DEF MeantAt, Numbers
    <3> QED BY <3>4, <3>5
  <2>4. CASE k \notin {"struct", "array"} \cup Numbers
    <3>1. s = ScalarToNative(k, v)
      BY <1>4, <2>4 DEF ValueToNative
    <3>2. IF Absent(v) THEN s = Null ELSE s = Slot(k, v, {}) /\ k # "null"
      <4>1. k # "null"
        BY <1>3 DEF Kinds, Numbers, Managed
      <4> QED BY <2>4, <3>1, <4>1 DEF ScalarToNative
    <3>3. s.of = IF Absent(v) THEN "null" ELSE v
      BY <3>2
    <3>4. s = Null <=> Absent(v)
      BY <3>2
    <3>5. ValueToTarget(k, s) = IF k = "callback" THEN "int"
                                ELSE IF k = "string" /\ s = Null THEN "empty" ELSE s.of
      BY <2>4 DEF ValueToTarget, ScalarToTarget, ManagedToTarget
    <3>6. MeantAt(t, v, member) =
            IF k = "callback" THEN "int"
            ELSE IF Absent(v) THEN IF k = "string" THEN "empty" ELSE "null" ELSE v
      BY <1>4, <2>4 DEF MeantAt
    <3> QED BY <3>3, <3>4, <3>5, <3>6
  <2> QED BY <2>1, <2>2, <2>3, <2>4
<1>5. CASE ~(member /\ v = "undefined")
  BY <1>2, <1>4, <1>5
<1>6. CASE member /\ v = "undefined" /\ t.opt = "no"
  <2>1. MissingToNative(a, p) \in {Refused, ValueToNative(a, p)}
    BY <1>6 DEF MissingToNative
  <2>2. s = ValueToNative(a, p)
    BY <1>2, <1>6, <2>1
  <2> QED BY <1>4, <1>6, <2>2
<1>7. CASE member /\ v = "undefined" /\ t.opt # "no"
  <2>1. s = DefaultOf(t)
    BY <1>2, <1>7 DEF MissingToNative
  <2>2. CASE t.opt = "default"
    <3>1. CASE k \in Numbers
      BY <1>7, <2>1, <2>2, <3>1 DEF DefaultOf, MeantAt, ValueToTarget, ScalarToTarget,
                                    NumberToTarget, Numbers
    <3>2. CASE k = "string"
      <4>1. s = Slot("string", Default[k], {}) /\ s # Null
        BY <2>1, <2>2, <3>2 DEF DefaultOf, Numbers
      <4> QED BY <1>7, <2>2, <3>2, <4>1 DEF MeantAt, ValueToTarget, ScalarToTarget,
                                            ManagedToTarget, Numbers
    <3> QED BY <1>1, <2>2, <3>1, <3>2
  <2>3. CASE t.opt = "optional"
    <3>1. CASE k \in Numbers
      <4>1. s = Slot("number", "zero", {}) /\ s.of = "zero"
        BY <2>1, <2>3, <3>1 DEF DefaultOf, Numbers
      <4>2. ValueToTarget(k, s) = "zero"
        BY <3>1, <4>1 DEF ValueToTarget, ScalarToTarget, NumberToTarget, Numbers
      <4>3. MeantAt(t, v, member) = "zero"
        BY <1>7, <2>3, <3>1 DEF MeantAt
      <4> QED BY <4>2, <4>3
    <3>2. CASE k \notin Numbers
      <4>1. s = Null
        BY <2>1, <2>3, <3>2 DEF DefaultOf
      <4>2. MeantAt(t, v, member) = IF k = "callback" THEN "int"
                                    ELSE IF k = "string" THEN "empty" ELSE "null"
        BY <1>7, <2>3, <3>2 DEF MeantAt, Absent
      <4>3. ValueToTarget(k, s) = IF k = "callback" THEN "int"
                                  ELSE IF k = "string" THEN "empty" ELSE "null"
        BY <3>2, <4>1 DEF ValueToTarget, ScalarToTarget, ManagedToTarget
      <4> QED BY <4>2, <4>3
    <3> QED BY <3>1, <3>2
  <2> QED BY <1>3, <1>7, <2>2, <2>3
<1> QED BY <1>3, <1>5, <1>6, <1>7

(* A conversion that succeeds says what was passed.                        *)
LEMMA SaysWhatIsMeant ==
  ASSUME NEW a \in Arguments, Refusals(a) = {}
  PROVE  ToTarget(a.type, ToNative(a)) = Meant(a)
<1>1. SUFFICES ASSUME NEW p \in Places
      PROVE  ToTarget(a.type, ToNative(a))[p] = Meant(a)[p]
  BY DEF ToTarget, Meant
<1>2. p \in Converted(a) <=> Reaches(Slots(a), p)
  BY DEF Converted
<1>3. Reaches(ToNative(a), p) <=> Passed(a, p)
  BY <1>2, NativeReaches, PassedIs
<1>4. ASSUME Passed(a, p)
      PROVE  ValueToTarget(a.type[p].kind, ToNative(a)[p])
             = MeantAt(a.type[p], a.value[p], IsMember(a, p))
  <2>1. Reaches(Slots(a), p) /\ p \in Converted(a)
    BY <1>2, <1>4, PassedIs
  <2>2. ToNative(a)[p] = Slots(a)[p] /\ Slots(a)[p] # Refused
    BY <2>1, NativeReaches DEF Refusals
  <2> QED BY <2>2, PartSaysWhatIsMeant
<1> QED BY <1>3, <1>4 DEF ToTarget, Meant

(* A function that was passed in a struct is found by its member.          *)
LEMMA CallbackIsFound ==
  ASSUME NEW a \in Arguments, Refusals(a) = {}, a.type[Root].kind = "struct",
         a.value[Root] = "object", NEW q \in PartsOf(Root)
  PROVE  CallbackOf(a.type, ToNative(a), q) =
           IF a.type[q].kind = "callback" /\ a.value[q] = "function"
           THEN Slot("callback", "function", {}) ELSE Null
<1> DEFINE N == ToNative(a)
           S == Slots(a)
<1> USE SlotFields
<1>1. q \in Places /\ Root \in Places /\ Len(Root) = 0 /\ Len(q) = 1
  BY PlaceAssumption DEF PartsOf, Root
<1>2. Upto(q, 0) = Root /\ Upto(q, 1) = q
  <2>1. 0 \in 0..Len(q)
    BY <1>1
  <2>2. Upto(q, 0) = Root /\ Upto(q, Len(q)) = q
    BY ONLY <1>1, <2>1, UptoIs
  <2> QED BY <1>1, <2>2
<1>3. Reaches(S, Root)
  BY <1>1 DEF Reaches
<1>4. \A p \in Places : Reaches(S, p) => p \in Converted(a) /\ N[p] = S[p] /\ S[p] # Refused
  <2>1. ASSUME NEW p \in Places, Reaches(S, p)
        PROVE  p \in Converted(a) /\ S[p] # Refused
    BY <2>1 DEF Converted, Refusals
  <2> QED BY <2>1, NativeReaches
<1>5. CASE a.type[q].kind # "callback"
  BY <1>5 DEF CallbackOf
<1>6. CASE a.type[q].kind = "callback"
  <2>1. q \in S[Root].parts
    BY <1>1, <1>6, SlotIs
  <2>2. Reaches(S, q)
    <3>1. \A n \in 1..Len(q) : n = 1 /\ n - 1 = 0
      BY <1>1
    <3> QED BY <1>2, <2>1, <3>1 DEF Reaches
  <2>3. N[q] = S[q] /\ S[q] # Refused /\ N[Root] # Null
    BY <1>1, <1>3, <1>4, <2>1, <2>2
  <2>4. CallbackOf(a.type, N, q) = S[q]
    BY <1>6, <2>3 DEF CallbackOf
  <2>5. \/ S[q] = ValueToNative(a, q)
        \/ a.value[q] = "undefined" /\ S[q] = DefaultOf(a.type[q])
    BY <1>1, <1>6, <2>3 DEF Slots, MissingToNative, Numbers
  <2>6. ValueToNative(a, q) = ScalarToNative("callback", a.value[q])
    BY <1>6 DEF ValueToNative
  <2>7. ScalarToNative("callback", a.value[q]) =
          IF Absent(a.value[q]) THEN Null
          ELSE IF a.value[q] = "function" THEN Slot("callback", "function", {}) ELSE Refused
    BY DEF ScalarToNative, Numbers, Managed
  <2>8. DefaultOf(a.type[q]) = Null
    BY <1>1, <1>6, ArgumentIs DEF DefaultOf, Numbers
  <2>9. Absent(a.value[q]) => a.value[q] # "function"
    BY DEF Absent
  <2>10. a.value[q] = "undefined" => Absent(a.value[q])
    BY DEF Absent
  <2> QED BY <1>6, <2>3, <2>4, <2>5, <2>6, <2>7, <2>8, <2>9, <2>10
<1> QED BY <1>5, <1>6

-----------------------------------------------------------------------------
(* The life of an argument: who holds it by the stage of the call.         *)
InCallStage == stage \in {"converted", "refused"}
HeldInv ==
  LET holds == Holds(native, arg.type)
  IN  /\ native = ToNative(arg) /\ blocks = BlocksMade(arg)
      /\ refs = IF ~holds THEN 0
                ELSE (IF InCallStage THEN 1 ELSE 0) + (IF waits THEN 1 ELSE 0)
      /\ gone = Counts(IF holds /\ ~InCallStage /\ ~waits THEN BlocksMade(arg) ELSE {},
                       Block)
      /\ dups = Counts(IF holds /\ waits THEN AnysFound(arg.type, native) ELSE {}, Places)
ArgumentsInv ==
  /\ arg \in Arguments /\ waits \in BOOLEAN
  /\ stage \in {"given", "converted", "refused", "returned", "dropped"}
  /\ stage = "given" => /\ ~waits /\ refs = 0
                        /\ gone = Counts({}, Block) /\ dups = Counts({}, Places)
  /\ stage # "given" => HeldInv
  /\ stage = "converted" => Refusals(arg) = {}
  /\ waits => /\ stage # "refused"
              /\ arg.type[Root].opt = "no" \/ AnysIn(arg.type, native) = {}

(* Counting once, and back.                                                *)
LEMMA CountsAre ==
  ASSUME NEW S, NEW T
  PROVE  /\ [x \in T |-> Counts({}, T)[x] + IF x \in S THEN 1 ELSE 0] = Counts(S, T)
         /\ [x \in T |-> Counts(S, T)[x] - IF x \in S THEN 1 ELSE 0] = Counts({}, T)
BY DEF Counts

(* One reference less: the last one frees the blocks.                      *)
LEMMA UnrefIs ==
  ASSUME ArgumentsInv, stage # "given", gone = Counts({}, Block), Unref
  PROVE  /\ refs = 0 => refs' = 0 /\ gone' = Counts({}, Block)
         /\ refs = 1 => refs' = 0 /\ gone' = Counts(BlocksMade(arg), Block)
         /\ refs = 2 => refs' = 1 /\ gone' = Counts({}, Block)
<1>1. arg \in Arguments /\ native = ToNative(arg)
      /\ (refs # 0 => Holds(ToNative(arg), arg.type))
  BY DEF ArgumentsInv, HeldInv
<1>2. CASE refs = 0
  BY <1>2 DEF Unref
<1>3. CASE refs = 1
  <2>1. FreedWith(arg.type, native) = BlocksMade(arg)
    BY <1>1, <1>3, FreedAreMade
  <2>2. gone' = [b \in Block |-> Counts({}, Block)[b] + IF b \in BlocksMade(arg) THEN 1 ELSE 0]
    BY <1>3, <2>1 DEF Unref
  <2>3. gone' = Counts(BlocksMade(arg), Block)
    BY <2>2, CountsAre
  <2>4. refs' = 0
    BY <1>3 DEF Unref
  <2> QED BY <1>3, <2>3, <2>4
<1>4. CASE refs = 2
  BY <1>4 DEF Unref
<1> QED BY <1>2, <1>3, <1>4

LEMMA ArgumentsStart == ConversionsInit => ArgumentsInv
BY DEF ConversionsInit, ArgumentsInv

LEMMA ConvertKeeps ==
  ASSUME ArgumentsInv, ConvertValueToNative
  PROVE  ArgumentsInv'
<1>1. /\ arg \in Arguments /\ ~waits /\ UNCHANGED <<arg, waits, dups, gone>>
      /\ gone = Counts({}, Block) /\ dups = Counts({}, Places)
      /\ native' = ToNative(arg) /\ blocks' = BlocksMade(arg)
      /\ stage' = IF Refusals(arg) = {} THEN "converted" ELSE "refused"
      /\ refs' = IF Holds(native', arg.type) THEN 1 ELSE 0
  BY DEF ArgumentsInv, ConvertValueToNative, Holds
<1>2. stage' \in {"converted", "refused"}
  BY <1>1
<1>3. HeldInv'
  BY <1>1, <1>2 DEF HeldInv, InCallStage
<1> QED BY <1>1, <1>2, <1>3 DEF ArgumentsInv

LEMMA KeepKeeps ==
  ASSUME ~OptionalsWait, ArgumentsInv, KeepArgs
  PROVE  ArgumentsInv'
<1> DEFINE holds == Holds(native, arg.type)
           found == AnysFound(arg.type, native)
<1>1. /\ arg \in Arguments /\ stage = "converted" /\ ~waits /\ waits' = TRUE
      /\ Refusals(arg) = {} /\ UNCHANGED <<arg, native, blocks, stage, gone>>
      /\ arg.type[Root].opt = "no" \/ AnysIn(arg.type, native) = {}
      /\ refs' = IF refs = 0 THEN 0 ELSE refs + 1
      /\ dups' = IF refs = 0 THEN dups
                 ELSE [p \in Places |-> dups[p] + IF p \in found THEN 1 ELSE 0]
  BY DEF ArgumentsInv, KeepArgs
<1>2. /\ native = ToNative(arg) /\ blocks = BlocksMade(arg)
      /\ refs = IF holds THEN 1 ELSE 0
      /\ gone = Counts({}, Block) /\ dups = Counts({}, Places)
  BY <1>1 DEF ArgumentsInv, HeldInv, InCallStage
<1>3. holds' = holds /\ found' = found
  BY <1>1
<1>4. dups' = Counts(IF holds THEN found ELSE {}, Places)
  <2>1. CASE holds
    <3>1. dups' = [p \in Places |-> Counts({}, Places)[p] + IF p \in found THEN 1 ELSE 0]
      BY <1>1, <1>2, <2>1
    <3> HIDE DEF found
    <3> QED BY <2>1, <3>1, CountsAre
  <2>2. CASE ~holds
    BY <1>1, <1>2, <2>2
  <2> QED BY <2>1, <2>2
<1>5. HeldInv'
  <2>1. refs' = IF holds THEN 2 ELSE 0
    BY <1>1, <1>2
  <2>2. native' = ToNative(arg') /\ blocks' = BlocksMade(arg') /\ InCallStage'
        /\ gone' = Counts({}, Block)
    BY <1>1, <1>2 DEF InCallStage
  <2> QED BY <1>1, <1>3, <1>4, <2>1, <2>2 DEF HeldInv
<1> QED BY <1>1, <1>5 DEF ArgumentsInv

LEMMA ReturnKeeps ==
  ASSUME ArgumentsInv, CallReturns
  PROVE  ArgumentsInv'
<1> DEFINE holds == Holds(native, arg.type)
           found == AnysFound(arg.type, native)
<1>1. /\ arg \in Arguments /\ stage \in {"converted", "refused"} /\ stage' = "returned"
      /\ waits \in BOOLEAN /\ UNCHANGED <<arg, native, blocks, waits, dups>> /\ Unref
      /\ waits => arg.type[Root].opt = "no" \/ AnysIn(arg.type, native) = {}
  BY DEF ArgumentsInv, CallReturns
<1>2. /\ native = ToNative(arg) /\ blocks = BlocksMade(arg)
      /\ refs = IF ~holds THEN 0 ELSE IF waits THEN 2 ELSE 1
      /\ gone = Counts({}, Block)
      /\ dups = Counts(IF holds /\ waits THEN found ELSE {}, Places)
  BY <1>1 DEF ArgumentsInv, HeldInv, InCallStage
<1>3. holds' = holds /\ found' = found /\ ~InCallStage'
  BY <1>1 DEF InCallStage
<1>4. /\ refs' = IF holds /\ waits THEN 1 ELSE 0
      /\ gone' = Counts(IF holds /\ ~waits THEN BlocksMade(arg) ELSE {}, Block)
  BY <1>1, <1>2, UnrefIs
<1>5. HeldInv'
  <2> HIDE DEF holds, found
  <2>1. HeldInv' =
          /\ native' = ToNative(arg') /\ blocks' = BlocksMade(arg')
          /\ refs' = IF ~holds' THEN 0
                     ELSE (IF InCallStage' THEN 1 ELSE 0) + (IF waits' THEN 1 ELSE 0)
          /\ gone' = Counts(IF holds' /\ ~InCallStage' /\ ~waits' THEN BlocksMade(arg') ELSE {},
                            Block)
          /\ dups' = Counts(IF holds' /\ waits' THEN found' ELSE {}, Places)
    BY DEF HeldInv, holds, found
  <2> QED BY <1>1, <1>2, <1>3, <1>4, <2>1
<1> QED BY <1>1, <1>5 DEF ArgumentsInv

LEMMA DropsKeep ==
  ASSUME ArgumentsInv, ScriptDrops
  PROVE  ArgumentsInv'
<1>1. /\ stage = "returned" /\ stage' = "dropped" /\ HeldInv
      /\ UNCHANGED <<arg, native, blocks, waits, refs, dups, gone>>
  BY DEF ArgumentsInv, ScriptDrops
<1>2. HeldInv'
  BY <1>1 DEF HeldInv, InCallStage
<1> QED BY <1>1, <1>2 DEF ArgumentsInv

LEMMA ReleaseKeeps ==
  ASSUME ArgumentsInv, ReleaseArgs
  PROVE  ArgumentsInv'
<1> DEFINE holds == Holds(native, arg.type)
           found == AnysFound(arg.type, native)
<1>1. /\ arg \in Arguments /\ stage \in {"returned", "dropped"} /\ waits /\ waits' = FALSE
      /\ UNCHANGED <<arg, native, blocks, stage>> /\ Unref
      /\ dups' = IF refs = 0 THEN dups
                 ELSE [p \in Places |-> dups[p] - IF p \in found THEN 1 ELSE 0]
  BY DEF ArgumentsInv, ReleaseArgs
<1>2. /\ native = ToNative(arg) /\ blocks = BlocksMade(arg)
      /\ refs = IF holds THEN 1 ELSE 0
      /\ gone = Counts({}, Block)
      /\ dups = Counts(IF holds THEN found ELSE {}, Places)
  BY <1>1 DEF ArgumentsInv, HeldInv, InCallStage
<1>3. holds' = holds /\ found' = found /\ ~InCallStage'
  BY <1>1 DEF InCallStage
<1>4. /\ refs' = 0
      /\ gone' = Counts(IF holds THEN BlocksMade(arg) ELSE {}, Block)
  BY <1>1, <1>2, UnrefIs
<1>5. dups' = Counts({}, Places)
  <2>1. CASE holds
    <3>1. dups' = [p \in Places |-> Counts(found, Places)[p] - IF p \in found THEN 1 ELSE 0]
      BY <1>1, <1>2, <2>1
    <3> HIDE DEF found
    <3> QED BY <3>1, CountsAre
  <2>2. CASE ~holds
    BY <1>1, <1>2, <2>2
  <2> QED BY <2>1, <2>2
<1>6. HeldInv'
  <2> HIDE DEF holds, found
  <2>1. HeldInv' =
          /\ native' = ToNative(arg') /\ blocks' = BlocksMade(arg')
          /\ refs' = IF ~holds' THEN 0
                     ELSE (IF InCallStage' THEN 1 ELSE 0) + (IF waits' THEN 1 ELSE 0)
          /\ gone' = Counts(IF holds' /\ ~InCallStage' /\ ~waits' THEN BlocksMade(arg') ELSE {},
                            Block)
          /\ dups' = Counts(IF holds' /\ waits' THEN found' ELSE {}, Places)
    BY DEF HeldInv, holds, found
  <2> QED BY <1>1, <1>2, <1>3, <1>4, <1>5, <2>1
<1> QED BY <1>1, <1>6 DEF ArgumentsInv

LEMMA ArgumentsKept ==
  ASSUME ~OptionalsWait, ArgumentsInv, [ConversionsNext]_cvVars
  PROVE  ArgumentsInv'
<1>1. CASE UNCHANGED cvVars
  BY <1>1 DEF cvVars, ArgumentsInv, HeldInv, InCallStage
<1>2. CASE ConvertValueToNative
  BY <1>2, ConvertKeeps
<1>3. CASE KeepArgs
  BY <1>3, KeepKeeps
<1>4. CASE CallReturns
  BY <1>4, ReturnKeeps
<1>5. CASE ScriptDrops
  BY <1>5, DropsKeep
<1>6. CASE ReleaseArgs
  BY <1>6, ReleaseKeeps
<1> QED BY <1>1, <1>2, <1>3, <1>4, <1>5, <1>6 DEF ConversionsNext, ConversionsOver

LEMMA ArgumentsShow == ASSUME ArgumentsInv PROVE ArgumentsOwned
<1> DEFINE t == arg.type
           v == arg.value
           holds == Holds(native, t)
<1>1. arg \in Arguments
  BY DEF ArgumentsInv
<1>2. stage \in {"given", "converted", "refused"} \/ waits => gone = Counts({}, Block)
  BY DEF ArgumentsInv, HeldInv, InCallStage
<1>3. ASSUME stage \in {"returned", "dropped"}, ~waits
      PROVE  gone = Counts(blocks, Block) /\ dups = Counts({}, Places)
  <2>1. /\ native = ToNative(arg) /\ blocks = BlocksMade(arg)
        /\ gone = Counts(IF holds THEN BlocksMade(arg) ELSE {}, Block)
        /\ dups = Counts({}, Places)
    BY <1>3 DEF ArgumentsInv, HeldInv, InCallStage
  <2> QED BY <1>1, <2>1, FreedAreMade
<1>4. ASSUME stage = "dropped", waits PROVE dups = Counts(AnysIn(t, native), Places)
  <2>1. /\ native = ToNative(arg)
        /\ dups = Counts(IF holds THEN AnysFound(t, native) ELSE {}, Places)
        /\ t[Root].opt = "no" \/ AnysIn(t, native) = {}
    BY <1>4 DEF ArgumentsInv, HeldInv, InCallStage
  <2>2. AnysFound(t, native) = AnysIn(t, native)
    BY <2>1 DEF AnysFound
  <2>3. ~holds => AnysIn(t, native) = {}
    BY <1>1, <2>1, NothingHeld
  <2> QED BY <2>1, <2>2, <2>3
<1>5. ASSUME stage = "converted"
      PROVE  /\ ToTarget(t, native) = Meant(arg)
             /\ t[Root].kind = "struct" /\ v[Root] = "object" =>
                  \A q \in PartsOf(Root) :
                    CallbackOf(t, native, q) =
                      IF t[q].kind = "callback" /\ v[q] = "function"
                      THEN Slot("callback", "function", {}) ELSE Null
  <2>1. native = ToNative(arg) /\ Refusals(arg) = {}
    BY <1>5 DEF ArgumentsInv, HeldInv
  <2> QED BY <1>1, <2>1, SaysWhatIsMeant, CallbackIsFound
<1> QED BY <1>2, <1>3, <1>4, <1>5 DEF ArgumentsOwned

(* ArgumentsOwned: an argument of any type and depth, whatever is passed   *)
(* for it, says what was meant or is refused; its blocks are freed once,   *)
(* when the call and a wait for a permission let go, and not before        *)
(* (feature_convertor_templates.h, feature_exports.cpp,                    *)
(* permissions_manager.cpp).                                               *)
THEOREM ArgumentsAreOwned ==
  ASSUME ~OptionalsWait
  PROVE  ConversionsSpec => []ArgumentsOwned
<1>1. ArgumentsInv /\ [ConversionsNext]_cvVars => ArgumentsInv'
  BY ArgumentsKept
<1>2. ArgumentsInv => ArgumentsOwned
  BY ArgumentsShow
<1> QED BY <1>1, <1>2, ArgumentsStart, PTL DEF ConversionsSpec

=============================================================================
