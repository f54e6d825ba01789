------------------------- MODULE FeatureInstanceQjs -------------------------
(***************************************************************************)
(* What one FeatureInstanceQjs keeps for the script that called it: the    *)
(* data of its promises (PromiseManager) and the functions passed to it    *)
(* (CallbackManager), until they are settled, removed, or dropped by       *)
(* onDetached.                                                             *)
(*                                                                         *)
(* An operation is one call of a native method: it returns a promise, or   *)
(* takes success, fail and complete functions (promise type "callbacks"),  *)
(* or takes one plain callback that it invokes and removes once, the way   *)
(* PermissionsInfo::RejectPermissions does.  All of it is on main, but a   *)
(* script function runs in the middle of resolve, reject and               *)
(* invokeCallback and may call back into the same instance, to any depth.  *)
(* Settling a real promise only queues a job, so no script runs in it.     *)
(***************************************************************************)
EXTENDS Naturals, Sequences, FiniteSets

CONSTANTS
  Op,       (* Operations the script starts.                               *)
  Fn,       (* Script functions passed as plain callbacks.                 *)
  Nil,      (* Neither an operation nor a function.                        *)
  MaxDepth, (* Bound: script functions called within each other.           *)
  Liberty   (* What functions called by an operation may do: "resettle",   *)
            (* make the feature settle the same operation; "letgo", drop   *)
            (* their feature object, which finalizes it.                   *)

ASSUME NilAssumption == Nil \notin Op \cup Fn
ASSUME OpAssumption == IsFiniteSet(Op)
ASSUME BoundAssumption == MaxDepth \in Nat
ASSUME LibertyAssumption == Liberty \subseteq {"resettle", "letgo"}

Pid == 0..(Cardinality(Op) - 1)
Cid == 1..Cardinality(Op)

VARIABLES
  kind,      (* what each operation is, "none" before it starts            *)
  id,        (* its FtPromiseId or FtCallbackId                            *)
  given,     (* which of success, fail, complete were passed               *)
  fn,        (* the plain callback that was passed                         *)
  promises,  (* PromiseManager::promises_, by the operation served         *)
  curr_pid,
  callbacks, (* CallbackManager::callbacks_                                *)
  curr_cid,
  leaving,   (* "no", "running" (inside onDetached), "yes"                 *)
  stack,     (* script functions (and onDetached) now running              *)
  called,    (* history: calls of each function of each operation          *)
  settled,   (* history: operations whose resolve or reject was entered    *)
  unheard    (* history: operations whose callback was gone when invoked   *)

rsVars == <<kind, id, given, fn, promises, curr_pid, callbacks, curr_cid,
          leaving, stack, called, settled, unheard>>

Outcome == {"success", "fail"}
Function == Outcome \cup {"complete", "callback"}
Inside == [op : Op, run : Function] \cup [op : {Nil}, run : {"onDetached"}]

ResultsInit ==
  /\ kind = [o \in Op |-> "none"] /\ id = [o \in Op |-> 0]
  /\ given = [o \in Op |-> {}] /\ fn = [o \in Op |-> Nil]
  /\ promises = [p \in Pid |-> Nil] /\ curr_pid = 0
  /\ callbacks = [c \in Cid |-> Nil] /\ curr_cid = 0
  /\ leaving = "no" /\ stack = <<>>
  /\ called = [o \in Op |-> [f \in Function |-> 0]]
  /\ settled = {} /\ unheard = {}

Top == stack[Len(stack)]
Below == SubSeq(stack, 1, Len(stack) - 1)
OnStack(o) == \E k \in DOMAIN stack : stack[k].op = o

(* The script reaches the instance: its object still has the opaque.       *)
ScriptRuns == leaving = "no" /\ Len(stack) < MaxDepth

(* Native code of the feature runs and passes FEATURE_INSTANCE_CHECK.      *)
NativeRuns == leaving # "yes" /\ Len(stack) < MaxDepth

-----------------------------------------------------------------------------
(* Starting operations *)

(* Mutant: curr_pid_ is not advanced. *)
AddPromiseSameId(o) ==
  /\ promises' = [promises EXCEPT ![curr_pid] = o]
  /\ id' = [id EXCEPT ![o] = curr_pid]
  /\ UNCHANGED curr_pid

(* addPromise, addAsyncCallbacks. *)
AddPromise(o) ==
  /\ promises' = [promises EXCEPT ![curr_pid] = o]
  /\ id' = [id EXCEPT ![o] = curr_pid]
  /\ curr_pid' = curr_pid + 1

StartPromise(o) ==
  /\ ScriptRuns /\ kind[o] = "none"
  /\ kind' = [kind EXCEPT ![o] = "promise"]
  /\ AddPromise(o)
  /\ UNCHANGED <<given, fn, callbacks, curr_cid, leaving, stack, called,
                 settled, unheard>>

StartAsync(o, fs) ==
  /\ ScriptRuns /\ kind[o] = "none"
  /\ kind' = [kind EXCEPT ![o] = "async"]
  /\ given' = [given EXCEPT ![o] = fs]
  /\ AddPromise(o)
  /\ UNCHANGED <<fn, callbacks, curr_cid, leaving, stack, called, settled,
                 unheard>>

(* addCallback: a function that is still registered keeps its id. *)
AddCallback(o, f) ==
  \/ \E c \in Cid :
       /\ callbacks[c] = f
       /\ id' = [id EXCEPT ![o] = c]
       /\ UNCHANGED <<callbacks, curr_cid>>
  \/ /\ \A c \in Cid : callbacks[c] # f
     /\ id' = [id EXCEPT ![o] = curr_cid + 1]
     /\ callbacks' = [callbacks EXCEPT ![curr_cid + 1] = f]
     /\ curr_cid' = curr_cid + 1

StartCallback(o, f) ==
  /\ ScriptRuns /\ kind[o] = "none"
  /\ kind' = [kind EXCEPT ![o] = "callback"]
  /\ fn' = [fn EXCEPT ![o] = f]
  /\ AddCallback(o, f)
  /\ UNCHANGED <<given, promises, curr_pid, leaving, stack, called, settled,
                 unheard>>

-----------------------------------------------------------------------------
(* Settling.  resolve and reject find the data by id, run the functions,   *)
(* and remove the data when they return.                                   *)

Live(o) == promises[id[o]] = o
RemovePromise(o) ==
  promises' = [p \in Pid |-> IF promises[p] = o THEN Nil ELSE promises[p]]

CallOf(o, f) ==
  /\ stack' = Append(stack, [op |-> o, run |-> f])
  /\ called' = [called EXCEPT ![o][f] = @ + 1]

MaySettle(o) == NativeRuns /\ Live(o) /\ ("resettle" \in Liberty \/ ~OnStack(o))

(* A promise: its resolving function is called unless the value cannot be  *)
(* converted; it is removed in either case.                                *)
SettlePromise(o, how) ==
  /\ kind[o] = "promise" /\ MaySettle(o)
  /\ \/ called' = [called EXCEPT ![o][how] = @ + 1]
     \/ how = "success" /\ UNCHANGED called
  /\ settled' = settled \cup {o}
  /\ RemovePromise(o)
  /\ UNCHANGED <<kind, id, given, fn, curr_pid, callbacks, curr_cid, leaving,
                 stack, unheard>>

(* success, fail and complete: the first function there is to be called;   *)
(* without one, or with a value that cannot be converted for success, the  *)
(* data is removed at once.                                                *)
SettleAsync(o, how) ==
  /\ kind[o] = "async" /\ MaySettle(o)
  /\ settled' = settled \cup {o}
  /\ \/ how \in given[o] /\ CallOf(o, how) /\ UNCHANGED promises
     \/ /\ how \notin given[o] /\ "complete" \in given[o]
        /\ CallOf(o, "complete") /\ UNCHANGED promises
     \/ /\ \/ how = "success" /\ "success" \in given[o]
           \/ given[o] \cap {how, "complete"} = {}
        /\ RemovePromise(o) /\ UNCHANGED <<stack, called>>
  /\ UNCHANGED <<kind, id, given, fn, curr_pid, callbacks, curr_cid, leaving,
                 unheard>>

(* Mutant: complete is called from both branches. *)
OutcomeReturnedTwice ==
  /\ stack # <<>> /\ Top.run \in Outcome
  /\ IF Live(Top.op) /\ "complete" \in given[Top.op]
     THEN /\ stack' = Append(Below, [op |-> Top.op, run |-> "complete"])
          /\ called' = [called EXCEPT ![Top.op]["complete"] = @ + 2]
          /\ UNCHANGED promises
     ELSE stack' = Below /\ RemovePromise(Top.op) /\ UNCHANGED called
  /\ UNCHANGED <<kind, id, given, fn, curr_pid, callbacks, curr_cid, leaving,
                 settled, unheard>>

(* success or fail returned: complete is read from the data.               *)
OutcomeReturned ==
  /\ stack # <<>> /\ Top.run \in Outcome
  /\ IF Live(Top.op) /\ "complete" \in given[Top.op]
     THEN /\ stack' = Append(Below, [op |-> Top.op, run |-> "complete"])
          /\ called' = [called EXCEPT ![Top.op]["complete"] = @ + 1]
          /\ UNCHANGED promises
     ELSE stack' = Below /\ RemovePromise(Top.op) /\ UNCHANGED called
  /\ UNCHANGED <<kind, id, given, fn, curr_pid, callbacks, curr_cid, leaving,
                 settled, unheard>>

CompleteReturned ==
  /\ stack # <<>> /\ Top.run = "complete"
  /\ stack' = Below
  /\ RemovePromise(Top.op)
  /\ UNCHANGED <<kind, id, given, fn, curr_pid, callbacks, curr_cid, leaving,
                 called, settled, unheard>>

(* FeatureCheckCallbackId, then FeatureInvokeCallback. *)
Answer(o) ==
  /\ NativeRuns /\ kind[o] = "callback"
  /\ called[o]["callback"] = 0 /\ o \notin unheard
  /\ IF callbacks[id[o]] # Nil
     THEN CallOf(o, "callback") /\ UNCHANGED unheard
     ELSE unheard' = unheard \cup {o} /\ UNCHANGED <<stack, called>>
  /\ UNCHANGED <<kind, id, given, fn, promises, curr_pid, callbacks, curr_cid,
                 leaving, settled>>

(* The callback returned; FeatureRemoveCallback of its id.                 *)
FunctionReturned ==
  /\ stack # <<>> /\ Top.run = "callback"
  /\ stack' = Below
  /\ callbacks' = IF leaving = "yes" THEN callbacks
                  ELSE [callbacks EXCEPT ![id[Top.op]] = Nil]
  /\ UNCHANGED <<kind, id, given, fn, promises, curr_pid, curr_cid, leaving,
                 called, settled, unheard>>

-----------------------------------------------------------------------------
(* onDetached: the script object loses its opaque, then the native         *)
(* onDetached callback may still settle what is pending.                   *)

MayDetach == "letgo" \in Liberty \/ stack = <<>>

DetachBegin ==
  /\ leaving = "no" /\ MayDetach
  /\ leaving' = "running"
  /\ stack' = Append(stack, [op |-> Nil, run |-> "onDetached"])
  /\ UNCHANGED <<kind, id, given, fn, promises, curr_pid, callbacks, curr_cid,
                 called, settled, unheard>>

(* releasePromises, clearCallbacks, FeatureInstance::onDetached. *)
DetachEnd ==
  /\ stack # <<>> /\ Top.run = "onDetached"
  /\ leaving' = "yes" /\ stack' = Below
  /\ promises' = [p \in Pid |-> Nil]
  /\ callbacks' = [c \in Cid |-> Nil]
  /\ UNCHANGED <<kind, id, given, fn, curr_pid, curr_cid, called, settled,
                 unheard>>

(* The instance is gone; not a step of the program. *)
ResultsEnd == leaving = "yes" /\ stack = <<>> /\ UNCHANGED rsVars

-----------------------------------------------------------------------------
Settle ==
  \E o \in Op :
    \/ \E how \in Outcome : SettlePromise(o, how) \/ SettleAsync(o, how)
    \/ Answer(o)

Return == OutcomeReturned \/ CompleteReturned \/ FunctionReturned \/ DetachEnd

ResultsNext ==
  \/ \E o \in Op :
       \/ StartPromise(o)
       \/ \E fs \in SUBSET (Outcome \cup {"complete"}) : StartAsync(o, fs)
       \/ \E f \in Fn : StartCallback(o, f)
  \/ Settle \/ Return \/ DetachBegin
  \/ ResultsEnd

ResultsSpec == ResultsInit /\ [][ResultsNext]_rsVars

-----------------------------------------------------------------------------
(* Properties *)

ResultsTypeOK ==
  /\ kind \in [Op -> {"none", "promise", "async", "callback"}]
  /\ id \in [Op -> Pid \cup Cid]
  /\ given \in [Op -> SUBSET (Outcome \cup {"complete"})]
  /\ fn \in [Op -> Fn \cup {Nil}]
  /\ promises \in [Pid -> Op \cup {Nil}] /\ curr_pid \in 0..Cardinality(Op)
  /\ callbacks \in [Cid -> Fn \cup {Nil}] /\ curr_cid \in 0..Cardinality(Op)
  /\ leaving \in {"no", "running", "yes"}
  /\ stack \in Seq(Inside)
  /\ called \in [Op -> [Function -> Nat]]
  /\ settled \subseteq Op /\ unheard \subseteq Op

(* resolvePromise and rejectPromise settle an operation once: one outcome, *)
(* one complete, and complete only once the outcome's function has run,    *)
(* whatever other operations start and settle while its functions run; and *)
(* promises_ holds its data from the call that started it until its        *)
(* settlement has returned: no id is used twice, nothing pending is lost   *)
(* before onDetached, nothing settled is kept.                             *)
OutcomeOnce ==
  \A o \in Op :
    /\ LET n == called[o]
       IN  /\ n["success"] + n["fail"] <= 1 /\ n["complete"] <= 1
           /\ n["complete"] = 1 /\ Outcome \subseteq given[o] =>
                n["success"] + n["fail"] = 1
    /\ leaving # "yes" /\ kind[o] \in {"promise", "async"} =>
         (Live(o) <=> (o \notin settled \/ OnStack(o)))

(* PromiseData::resolve and reject run on data that is still alive when    *)
(* the script function they called returns.                                *)
RunningDataAlive ==
  \A k \in DOMAIN stack : stack[k].run \in Outcome => Live(stack[k].op)

(* The function passed to a plain callback operation is there when the     *)
(* feature answers, unless the script passed it to another operation too   *)
(* (then both share one callback id, and the first answer removes it).     *)
UnsharedAnswerHeard ==
  \A o \in unheard :
    \E p \in Op \ {o} : kind[p] = "callback" /\ fn[p] = fn[o]

=============================================================================
