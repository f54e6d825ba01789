--------------------------- MODULE FeatureManager ---------------------------
(***************************************************************************)
(* The task queue of a FeatureManager together with the lifetime of the    *)
(* FeatureInstances it serves.                                             *)
(*                                                                         *)
(* One thread, "main", owns the uv loop and the script engine: it creates  *)
(* instances, finalizes them, runs the posted tasks and tears the manager  *)
(* down.  Any number of native threads hold a duplicated instance handle   *)
(* and call FeaturePost.  A FeaturePost by a native thread is the five     *)
(* steps between which main can run; main's own posts are one step, since  *)
(* only the queue (taken under mutex_) is shared.                          *)
(*                                                                         *)
(* Task callbacks and native onDetached callbacks are foreign code: while  *)
(* one is on main's stack the model lets it post and, in a task, use any   *)
(* script object (create, finalize, start threads).                        *)
(***************************************************************************)
EXTENDS Integers, Sequences, FiniteSets

CONSTANTS
  Inst,      (* Feature instances the script may require.                  *)
  Thread,    (* Native threads of the features.                            *)
  None,      (* No instance.                                               *)
  MaxPosts,  (* Bound: number of tasks ever accepted.                      *)
  Quiesce    (* TRUE: the host stops the native threads' posting before    *)
             (* it starts to tear the manager down.                        *)

ASSUME NoneAssumption == None \notin Inst
ASSUME FiniteAssumption == IsFiniteSet(Inst) /\ IsFiniteSet(Thread)
ASSUME MaxPostsAssumption == MaxPosts \in Nat
ASSUME QuiesceAssumption == Quiesce \in BOOLEAN

VARIABLES
  ref,       (* FeatureObjectRef::ref_count_; 0 before new and after delete *)
  slot,      (* the pointer in FeaturePrototype::instances_                 *)
  detached,  (* FeatureInstance::detached_                                  *)
  detaching, (* the instance whose onDetached is on main's stack            *)
  held,      (* the handle each native thread has duplicated                *)
  pc,        (* where each native thread is inside FeaturePost              *)
  queue,     (* FeatureManager::task_queue_                                 *)
  batch,     (* the local queue of runAllTasks                              *)
  async,     (* async_ # nullptr                                            *)
  wakeup,    (* uv: async_ was sent and its callback has not run yet        *)
  main,      (* what main executes                                          *)
  mode,      (* FEATURE_TASK_MODE of the current runAllTasks                *)
  ctx,       (* ft_ctx_ # nullptr; the prototypes live exactly as long      *)
  accepted,  (* history: instance of every task accepted, by task id        *)
  ran        (* history: ids of the tasks whose callback was called         *)

vars == <<ref, slot, detached, detaching, held, pc, queue, batch, async,
          wakeup, main, mode, ctx, accepted, ran>>

Task == [id : Nat \ {0}, inst : Inst]

(***************************************************************************)
(* Places of a native thread inside FeaturePost.                           *)
(*   checked   FEATURE_INSTANCE_CHECK passed, prototype() not yet read     *)
(*   duplicated addTask holds its own reference                            *)
(*   pushed    the task is in the queue, mutex_ released                   *)
(*   sending   "if (async_)" was true, async_ not yet read again           *)
(***************************************************************************)
PostStep == {"idle", "checked", "duplicated", "pushed", "sending"}

(***************************************************************************)
(* Places of main: in the loop (or script), in runAllTasks between two     *)
(* callbacks, in a callback, in uninit(); "gone": ~FeatureManager is done. *)
(***************************************************************************)
MainFrame == {"loop", "tasks", "callback", "uninit", "gone"}

Init ==
  /\ ref = [i \in Inst |-> 0]
  /\ slot = [i \in Inst |-> "empty"]
  /\ detached = [i \in Inst |-> FALSE]
  /\ detaching = None
  /\ held = [t \in Thread |-> None]
  /\ pc = [t \in Thread |-> "idle"]
  /\ queue = <<>> /\ batch = <<>>
  /\ async = TRUE /\ wakeup = FALSE
  /\ main = "loop" /\ mode = "NORMAL" /\ ctx = TRUE
  /\ accepted = <<>> /\ ran = <<>>

Closing == ~async \/ ~ctx \/ main = "uninit"

(* Scripts can run: in the loop, or in a task of a NORMAL batch. *)
ScriptRuns ==
  /\ main = "loop" \/ (main = "callback" /\ mode = "NORMAL")
  /\ ctx /\ detaching = None

(* The script object still carries its instance as opaque pointer. *)
Reachable(i) == slot[i] = "held" /\ ~detached[i]

-----------------------------------------------------------------------------
(* Instances *)

(* featureRequire: new instance (count 1) owned by a slot of the prototype. *)
Require(i) ==
  /\ ScriptRuns /\ slot[i] = "empty"
  /\ ref' = [ref EXCEPT ![i] = 1]
  /\ slot' = [slot EXCEPT ![i] = "held"]
  /\ UNCHANGED <<detached, detaching, held, pc, queue, batch, async, wakeup,
                 main, mode, ctx, accepted, ran>>

(* A native method duplicates its handle and gives it to a thread. *)
StartThread(t, i) ==
  /\ ScriptRuns /\ Reachable(i) /\ held[t] = None
  /\ held' = [held EXCEPT ![t] = i]
  /\ ref' = [ref EXCEPT ![i] = @ + 1]
  /\ UNCHANGED <<slot, detached, detaching, pc, queue, batch, async, wakeup,
                 main, mode, ctx, accepted, ran>>

(* FeatureFreeInstanceHandle on the thread, possibly the last reference. *)
ReleaseHandle(t) ==
  /\ pc[t] = "idle" /\ held[t] # None
  /\ ref' = [ref EXCEPT ![held[t]] = @ - 1]
  /\ held' = [held EXCEPT ![t] = None]
  /\ UNCHANGED <<slot, detached, detaching, pc, queue, batch, async, wakeup,
                 main, mode, ctx, accepted, ran>>

(* onDetached up to and including the call of the native callback; entered *)
(* from the finalizer of the script object or from detachFeatureInstances. *)
DetachBegin(i) ==
  /\ detaching = None /\ ~detached[i]
  /\ (ScriptRuns /\ slot[i] = "held") \/ (main = "uninit" /\ ref[i] > 0)
  /\ detaching' = i
  /\ UNCHANGED <<ref, slot, detached, held, pc, queue, batch, async, wakeup,
                 main, mode, ctx, accepted, ran>>

(* The rest of onDetached sets detached_; the finalizer's removeInstance   *)
(* then empties the slot, which releases the slot's reference.             *)
DetachEnd(i) ==
  /\ detaching = i
  /\ detached' = [detached EXCEPT ![i] = TRUE]
  /\ detaching' = None
  /\ IF main = "uninit"
     THEN UNCHANGED <<slot, ref>>
     ELSE /\ slot' = [slot EXCEPT ![i] = "cleared"]
          /\ ref' = [ref EXCEPT ![i] = @ - 1]
  /\ UNCHANGED <<held, pc, queue, batch, async, wakeup, main, mode, ctx,
                 accepted, ran>>

-----------------------------------------------------------------------------
(* FeaturePost *)

(* Mutant: the task is put at the front of the queue. *)
PushFront(i) ==
  /\ queue' = <<[id |-> Len(accepted) + 1, inst |-> i]>> \o queue
  /\ accepted' = Append(accepted, i)

(* enqueueTask's push under mutex_. *)
Push(i) ==
  /\ queue' = Append(queue, [id |-> Len(accepted) + 1, inst |-> i])
  /\ accepted' = Append(accepted, i)

(* Tasks a thread has been allowed to post and has not pushed yet. *)
InFlight == Cardinality({t \in Thread : pc[t] \in {"checked", "duplicated"}})
MayPost == Len(accepted) + InFlight < MaxPosts

(* Mutant: FeaturePost without FEATURE_INSTANCE_CHECK. *)
MainPostUnchecked(i) ==
  /\ \/ ScriptRuns /\ Reachable(i)
     \/ detaching = i
     \/ main = "callback" /\ detaching = None /\ Head(batch).inst = i
  /\ MayPost
  /\ ref' = [ref EXCEPT ![i] = @ + 1]
  /\ Push(i)
  /\ wakeup' = (wakeup \/ async)
  /\ UNCHANGED <<slot, detached, detaching, held, pc, batch, async, main,
                 mode, ctx, ran>>

(* FeaturePost called on main: by a method, by a task of the instance or   *)
(* by its native onDetached callback, which runs before detached_ is set.  *)
MainPost(i) ==
  /\ \/ ScriptRuns /\ Reachable(i)
     \/ detaching = i
     \/ main = "callback" /\ detaching = None /\ Head(batch).inst = i
  /\ ~detached[i] /\ MayPost
  /\ ref' = [ref EXCEPT ![i] = @ + 1]
  /\ Push(i)
  /\ wakeup' = (wakeup \/ async)
  /\ UNCHANGED <<slot, detached, detaching, held, pc, batch, async, main,
                 mode, ctx, ran>>

(* FEATURE_INSTANCE_CHECK reads detached_. *)
PostCheck(t) ==
  /\ pc[t] = "idle" /\ held[t] # None /\ ~detached[held[t]]
  /\ MayPost /\ ~(Quiesce /\ Closing)
  /\ pc' = [pc EXCEPT ![t] = "checked"]
  /\ UNCHANGED <<ref, slot, detached, detaching, held, queue, batch, async,
                 wakeup, main, mode, ctx, accepted, ran>>

(* Mutant: addTask stores the handle without duplicating it. *)
PostDupUncounted(t) ==
  /\ pc[t] = "checked"
  /\ pc' = [pc EXCEPT ![t] = "duplicated"]
  /\ UNCHANGED <<ref, slot, detached, detaching, held, queue, batch, async,
                 wakeup, main, mode, ctx, accepted, ran>>

(* manager_from_instance, then addTask duplicates the handle. *)
PostDup(t) ==
  /\ pc[t] = "checked"
  /\ pc' = [pc EXCEPT ![t] = "duplicated"]
  /\ ref' = [ref EXCEPT ![held[t]] = @ + 1]
  /\ UNCHANGED <<slot, detached, detaching, held, queue, batch, async, wakeup,
                 main, mode, ctx, accepted, ran>>

PostPush(t) ==
  /\ pc[t] = "duplicated"
  /\ pc' = [pc EXCEPT ![t] = "pushed"]
  /\ Push(held[t])
  /\ UNCHANGED <<ref, slot, detached, detaching, held, batch, async, wakeup,
                 main, mode, ctx, ran>>

(* "if (async_)" outside the mutex. *)
PostTest(t) ==
  /\ pc[t] = "pushed"
  /\ pc' = [pc EXCEPT ![t] = IF async THEN "sending" ELSE "idle"]
  /\ UNCHANGED <<ref, slot, detached, detaching, held, queue, batch, async,
                 wakeup, main, mode, ctx, accepted, ran>>

(* uv_async_send: sends coalesce until the callback runs. *)
PostSend(t) ==
  /\ pc[t] = "sending"
  /\ pc' = [pc EXCEPT ![t] = "idle"]
  /\ wakeup' = (wakeup \/ async)
  /\ UNCHANGED <<ref, slot, detached, detaching, held, queue, batch, async,
                 main, mode, ctx, accepted, ran>>

-----------------------------------------------------------------------------
(* runAllTasks *)

(* Mutant: the queue is copied, not swapped. *)
SwapTasksCopy ==
  /\ batch' = queue
  /\ UNCHANGED queue
  /\ main' = "tasks"

(* The swap under mutex_ at its start: the whole queue becomes the batch. *)
SwapTasks ==
  /\ batch' = queue
  /\ queue' = <<>>
  /\ main' = "tasks"

(* feature_async_cb; uv clears the pending flag before it calls back. *)
AsyncCallback ==
  /\ main = "loop" /\ detaching = None /\ async /\ wakeup
  /\ wakeup' = FALSE
  /\ mode' = "NORMAL"
  /\ SwapTasks
  /\ UNCHANGED <<ref, slot, detached, detaching, held, pc, async, ctx,
                 accepted, ran>>

BeginTask ==
  /\ main = "tasks" /\ batch # <<>>
  /\ main' = "callback"
  /\ ran' = Append(ran, Head(batch).id)
  /\ UNCHANGED <<ref, slot, detached, detaching, held, pc, queue, batch,
                 async, wakeup, mode, ctx, accepted>>

(* Mutant: the callback's owner and runAllTasks both free the handle. *)
EndTaskTwice ==
  /\ main = "callback" /\ detaching = None
  /\ main' = "tasks"
  /\ ref' = [ref EXCEPT ![Head(batch).inst] = @ - 2]
  /\ batch' = Tail(batch)
  /\ UNCHANGED <<slot, detached, detaching, held, pc, queue, async, wakeup,
                 mode, ctx, accepted, ran>>

(* The callback returned: FeatureFreeInstanceHandle, then pop. *)
EndTask ==
  /\ main = "callback" /\ detaching = None
  /\ main' = "tasks"
  /\ ref' = [ref EXCEPT ![Head(batch).inst] = @ - 1]
  /\ batch' = Tail(batch)
  /\ UNCHANGED <<slot, detached, detaching, held, pc, queue, async, wakeup,
                 mode, ctx, accepted, ran>>

(* Batch done: back to the loop, or the end of ~FeatureManager. *)
EndBatch ==
  /\ main = "tasks" /\ batch = <<>>
  /\ main' = IF mode = "FREE" THEN "gone" ELSE "loop"
  /\ UNCHANGED <<ref, slot, detached, detaching, held, pc, queue, batch,
                 async, wakeup, mode, ctx, accepted, ran>>

-----------------------------------------------------------------------------
(* Teardown by the host *)

(* The host stopped the threads' posting before its first teardown call. *)
ThreadsQuiet == Quiesce => \A t \in Thread : pc[t] = "idle"

(* FeatureUnsetUVLoop: a wakeup still pending dies with the handle. *)
UnsetUVLoop ==
  /\ main = "loop" /\ detaching = None /\ async /\ ThreadsQuiet
  /\ async' = FALSE /\ wakeup' = FALSE
  /\ UNCHANGED <<ref, slot, detached, detaching, held, pc, queue, batch,
                 main, mode, ctx, accepted, ran>>

(* FeatureUninit enters detachFeatureInstances. *)
UninitBegin ==
  /\ main = "loop" /\ detaching = None /\ ctx /\ ThreadsQuiet
  /\ main' = "uninit"
  /\ UNCHANGED <<ref, slot, detached, detaching, held, pc, queue, batch,
                 async, wakeup, mode, ctx, accepted, ran>>

(* All listed instances are detached: clearAllInstances drops the slots,   *)
(* the prototypes are deleted and the context is released.                 *)
UninitEnd ==
  /\ main = "uninit" /\ detaching = None
  /\ \A i \in Inst : ref[i] > 0 => detached[i]
  /\ ref' = [i \in Inst |-> IF slot[i] = "held" THEN ref[i] - 1 ELSE ref[i]]
  /\ slot' = [i \in Inst |-> IF slot[i] = "held" THEN "cleared" ELSE slot[i]]
  /\ ctx' = FALSE
  /\ main' = "loop"
  /\ UNCHANGED <<detached, detaching, held, pc, queue, batch, async, wakeup,
                 mode, accepted, ran>>

(* Mutant: ~FeatureManager without its runAllTasks. *)
FreeManagerDropping ==
  /\ main = "loop" /\ ~ctx /\ ~async
  /\ mode' = "FREE" /\ main' = "gone"
  /\ UNCHANGED <<ref, slot, detached, detaching, held, pc, queue, batch,
                 async, wakeup, ctx, accepted, ran>>

(* FeatureFreeManager: ~FeatureManager calls runAllTasks(MODE_FREE). *)
FreeManager ==
  /\ main = "loop" /\ ~ctx /\ ~async
  /\ mode' = "FREE"
  /\ SwapTasks
  /\ UNCHANGED <<ref, slot, detached, detaching, held, pc, async, wakeup,
                 ctx, accepted, ran>>

(* Nothing is left to do; not a step of the program. *)
Finished ==
  /\ main = "gone" /\ \A t \in Thread : held[t] = None
  /\ UNCHANGED vars

-----------------------------------------------------------------------------
PostSteps(t) == PostDup(t) \/ PostPush(t) \/ PostTest(t) \/ PostSend(t)
Teardown == UnsetUVLoop \/ UninitBegin \/ UninitEnd \/ FreeManager

Next ==
  \/ \E i \in Inst : Require(i) \/ DetachBegin(i) \/ DetachEnd(i) \/ MainPost(i)
  \/ \E t \in Thread, i \in Inst : StartThread(t, i)
  \/ \E t \in Thread : ReleaseHandle(t) \/ PostCheck(t) \/ PostSteps(t)
  \/ AsyncCallback \/ BeginTask \/ EndTask \/ EndBatch
  \/ Teardown
  \/ Finished

Spec == Init /\ [][Next]_vars

(***************************************************************************)
(* The uv loop keeps calling the async callback it owes, callbacks return, *)
(* a thread inside FeaturePost gets on, and a host that has begun to tear  *)
(* down (three calls in a row) completes it.  Nobody is forced to post, to *)
(* finalize, to let a handle go or to start the teardown.                  *)
(***************************************************************************)
Fairness ==
  /\ WF_vars(AsyncCallback) /\ WF_vars(BeginTask)
  /\ WF_vars(EndTask) /\ WF_vars(EndBatch)
  /\ \A i \in Inst : WF_vars(DetachEnd(i))
  /\ WF_vars(main = "uninit" /\ \E i \in Inst : DetachBegin(i))
  /\ WF_vars(Closing /\ Teardown)
  /\ \A t \in Thread : WF_vars(PostSteps(t))

LiveSpec == Spec /\ Fairness

-----------------------------------------------------------------------------
(* Properties *)

TypeOK ==
  /\ ref \in [Inst -> Nat]
  /\ slot \in [Inst -> {"empty", "held", "cleared"}]
  /\ detached \in [Inst -> BOOLEAN]
  /\ detaching \in Inst \cup {None}
  /\ held \in [Thread -> Inst \cup {None}]
  /\ pc \in [Thread -> PostStep]
  /\ queue \in Seq(Task) /\ batch \in Seq(Task)
  /\ async \in BOOLEAN /\ wakeup \in BOOLEAN /\ ctx \in BOOLEAN
  /\ main \in MainFrame /\ mode \in {"NORMAL", "FREE"}
  /\ accepted \in Seq(Inst) /\ ran \in Seq(Nat \ {0})

(* Tasks whose reference on instance i has not been given back. *)
Unreleased == Len(accepted) - Len(batch) - Len(queue)
TaskRefs(i) == {n \in (Unreleased + 1)..Len(accepted) : accepted[n] = i}
HandleRefs(i) == {t \in Thread : held[t] = i}
PosterRefs(i) == {t \in Thread : held[t] = i /\ pc[t] = "duplicated"}
SlotRefs(i) == IF slot[i] = "held" THEN 1 ELSE 0

(* The count of an instance (addRef and release in FeatureObjectRef) is    *)
(* always the number of its owners: the prototype's slot, the handles the  *)
(* native threads duplicated, the post that has duplicated and not pushed, *)
(* and every task in task_queue_ or in the batch of runAllTasks.  Hence no *)
(* owner is left with a deleted instance and nothing is leaked.            *)
RefCountExact ==
  \A i \in Inst :
    ref[i] = SlotRefs(i) + Cardinality(TaskRefs(i))
               + Cardinality(HandleRefs(i)) + Cardinality(PosterRefs(i))

(* runAllTasks calls the accepted tasks in the order of their acceptance,  *)
(* each once, although posts interleave with the swap of the queue.        *)
InOrderOnce == \A k \in DOMAIN ran : ran[k] = k

(* A native thread inside FeaturePost finds what it is about to use: the   *)
(* prototype and the manager after the check, the manager until the push   *)
(* and the test of async_, the async handle when it sends.                 *)
PostTouchesLive ==
  \A t \in Thread :
    /\ pc[t] = "checked" => ctx /\ main # "gone"
    /\ pc[t] \in {"duplicated", "pushed"} => main # "gone"
    /\ pc[t] = "sending" => async

(* After ~FeatureManager, once the threads let go of their handles, every  *)
(* instance has been deleted: the tasks left when the loop was unset gave  *)
(* their references back in the FREE run, and none was queued behind it.   *)
NothingLeaks ==
  main = "gone" /\ (\A t \in Thread : held[t] = None) =>
    queue = <<>> /\ \A i \in Inst : ref[i] = 0

(* An accepted task is eventually called, in a NORMAL run or, when the     *)
(* host tears down first, in the FREE run of ~FeatureManager.              *)
AcceptedTasksRun ==
  \A n \in 1..MaxPosts : Len(accepted) >= n ~> Len(ran) >= n

(* The manager implements the mailbox: a task leaves the box when its      *)
(* callback is called, the mailbox closes with ~FeatureManager.            *)
Uncalled == (IF main = "callback" THEN Tail(batch) ELSE batch) \o queue

Mailbox == INSTANCE TaskMailbox WITH
  Sender <- Inst, box <- Uncalled, log <- ran,
  count <- Len(accepted), closed <- main = "gone"

ImplementsMailbox == Mailbox!Spec

=============================================================================
