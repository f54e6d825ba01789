------------------------------- MODULE Stores -------------------------------
(***************************************************************************)
(* The calls of system.storage and system.exchange.                        *)
(*                                                                         *)
(* A call makes a handle that holds the instance and the ids of its        *)
(* functions and hands it to uv_db or uv_property, which work in their own *)
(* time and call back on the loop; the handle ends there, or with a call   *)
(* that is refused.  storage.get_sync and storage.clear work at once.  A   *)
(* value is the call that set it.  Works of uv_ext may fail and end in any *)
(* order.  Functions of the script may drop the instance or start calls;   *)
(* an ending reads only its own handle after them, so it is one step.      *)
(***************************************************************************)
EXTENDS Naturals, Sequences

CONSTANTS
  StoreCall,  (* calls *)
  StorageKey, (* keys of system.storage *)
  SharedKey,  (* keys of system.exchange, with their scope *)
  ClearFails  (* TRUE: uv_db_close and uv_db_init may fail in clear. *)

ASSUME ClearFailsAssumption == ClearFails \in BOOLEAN
(* A value is told from none. *)
ASSUME StoreCallAssumption == "nothing" \notin StoreCall

VARIABLES
  stored,  (* the value of each key: the call that set it, or "nothing"    *)
  work,    (* each call: what it does, to which key, how far it is         *)
  results, (* history: the functions called for it, and with what          *)
  away     (* the instance is detached                                     *)

stVars == <<stored, work, results, away>>

StorageOp == {"get", "set", "set to delete", "delete", "key"}
ExchangeOp == {"exchange get", "exchange set", "exchange remove"}
Getting == {"get", "exchange get"}
Storing == {"set", "exchange set"}
Deleting == {"set to delete", "delete", "exchange remove"}

NotStarted == [op |-> "none", key |-> "none", step |-> "idle",
               found |-> "nothing", freed |-> 0]
NoAnswer == [calls |-> <<>>, value |-> "nothing", after |-> {}]

StoresInit ==
  /\ stored = [k \in StorageKey \cup SharedKey |-> "nothing"]
  /\ work = [c \in StoreCall |-> NotStarted]
  /\ results = [c \in StoreCall |-> NoAnswer]
  /\ away = FALSE

(* The calls whose success function has been called. *)
Successes == {c \in StoreCall : "success" \in {results[c].calls[i] :
                                  i \in DOMAIN results[c].calls}}
Unstarted(c) == work[c] = NotStarted /\ ~away

(* finish_callback of storage asks whether the instance is detached; the   *)
(* functions of exchange are gone then, and so is complete when the first  *)
(* one drops the instance.                                                 *)
Tells(c, outcome, value, after) ==
  \E functions \in IF away THEN {<<>>}
               ELSE {<<outcome>>, <<outcome, "complete">>} :
    /\ results' = [results EXCEPT ![c] =
                    [calls |-> functions, value |-> value, after |-> after]]
    /\ away' = (Len(functions) < 2)

(* finish_callback, storage_free, exchange_free of a handle; a second time *)
(* there are no functions left.                                            *)
Finishes(c, op, outcome, times) ==
  /\ work' = [work EXCEPT ![c].op = op, ![c].step = "ended",
                          ![c].freed = times]
  /\ Tells(c, outcome, work[c].found,
           IF work[c] = NotStarted THEN Successes ELSE results[c].after)

-----------------------------------------------------------------------------
(* The methods *)

(* An argument is refused (exchange_args_get_and_check asks for a key, a   *)
(* value that fits and a scope), or uv_ext does not take the work.         *)
NotTaken(c, op) == Finishes(c, op, "fail", 1)

StoreWork(c, op) ==
  /\ Unstarted(c)
  /\ \/ NotTaken(c, op)
     \/ \E k \in IF op \in StorageOp THEN StorageKey ELSE SharedKey :
          /\ work' = [work EXCEPT ![c] = [NotStarted EXCEPT
                        !.op = op, !.key = k, !.step = "started"]]
          /\ results' = [results EXCEPT ![c].after = Successes]
          /\ UNCHANGED away
  /\ UNCHANGED stored

StorageGet(c) == StoreWork(c, "get")
StorageDelete(c) == StoreWork(c, "delete")
StorageKeyAt(c) == StoreWork(c, "key")

(* An empty value deletes. *)
StorageSet(c) == \E op \in {"set", "set to delete"} : StoreWork(c, op)

ExchangeSet(c) == StoreWork(c, "exchange set")
ExchangeGet(c) == StoreWork(c, "exchange get")
ExchangeRemove(c) == StoreWork(c, "exchange remove")

(* storage.get_sync has no handle to free. *)
StorageGetSync(c, k) ==
  /\ Unstarted(c)
  /\ \E outcome \in {"success", "fail"} :
       /\ work' = [work EXCEPT ![c] = [NotStarted EXCEPT
                     !.op = "get", !.key = k, !.step = "ended", !.freed = 1]]
       /\ Tells(c, outcome,
                IF outcome = "success" THEN stored[k] ELSE "nothing",
                Successes)
  /\ UNCHANGED stored

(* storage.clear: close, unlink, open again; a failure of the first and of *)
(* the last finishes the call, which goes on and finishes it again.        *)
StorageClear(c) ==
  /\ Unstarted(c)
  /\ \/ Finishes(c, "clear", "fail", 1) /\ UNCHANGED stored
     \/ \E failures \in 0..(IF ClearFails THEN 2 ELSE 0) :
          /\ Finishes(c, "clear", IF failures = 0 THEN "success" ELSE "fail",
                      failures + 1)
          /\ stored' = [k \in DOMAIN stored |->
                         IF k \in StorageKey THEN "nothing" ELSE stored[k]]

(* exchange.clear checks its scope and has nothing to clear.               *)
ExchangeClear(c) ==
  /\ Unstarted(c)
  /\ \E outcome \in {"success", "fail"} :
       Finishes(c, "exchange clear", outcome, 1)
  /\ UNCHANGED stored

StoresDetached == ~away /\ away' = TRUE /\ UNCHANGED <<stored, work, results>>

-----------------------------------------------------------------------------
(* The works, and what calls back *)

(* uv_db and uv_property do what they were asked, find nothing or fail.    *)
WorkIsDone(c) ==
  LET w == work[c]
      here == IF w.key \in DOMAIN stored THEN stored[w.key] ELSE "nothing"
  IN  /\ w.step = "started"
      /\ \/ work' = [work EXCEPT ![c].step = "failed"] /\ UNCHANGED stored
         \/ /\ here = "nothing" /\ w.op \in Getting \cup Deleting
            /\ work' = [work EXCEPT ![c].step = "not found"]
            /\ UNCHANGED stored
         \/ /\ here # "nothing" \/ w.op \notin Getting \cup Deleting
            /\ work' = [work EXCEPT ![c].step = "done", ![c].found =
                          IF w.op \in Getting THEN here ELSE @]
            /\ stored' = [stored EXCEPT ![w.key] =
                            IF w.op \in Storing THEN c
                            ELSE IF w.op \in Deleting THEN "nothing" ELSE @]
      /\ UNCHANGED <<results, away>>

CallsBack(c, ops) ==
  work[c].op \in ops /\ work[c].step \in {"done", "not found", "failed"}

(* Mutant: storage_cb goes on after the default of a key not found. *)
StorageCb_FallsThrough(c) ==
  /\ CallsBack(c, StorageOp)
  /\ LET fine == \/ work[c].step = "done"
                 \/ work[c].step = "not found" /\ work[c].op = "get"
     IN  Finishes(c, work[c].op, IF fine THEN "success" ELSE "fail",
                  IF work[c].step = "not found" /\ fine THEN 2 ELSE 1)
  /\ UNCHANGED stored

(* storage_cb: a key that get does not find has the default, and one that  *)
(* is to be deleted for an empty value is deleted; delete fails for it.    *)
StorageCb(c) ==
  /\ CallsBack(c, StorageOp)
  /\ LET fine == \/ work[c].step = "done"
                 \/ work[c].step = "not found"
                    /\ work[c].op \in {"get", "set to delete"}
     IN  Finishes(c, work[c].op, IF fine THEN "success" ELSE "fail", 1)
  /\ UNCHANGED stored

(* exchange_cb: a status of 0 or more is success, with nothing found too.  *)
ExchangeCb(c) ==
  /\ CallsBack(c, ExchangeOp)
  /\ \E fine \in BOOLEAN :
       /\ work[c].step = "done" => fine
       /\ work[c].step = "failed" => ~fine
       /\ Finishes(c, work[c].op, IF fine THEN "success" ELSE "fail", 1)
  /\ UNCHANGED stored

StoreEnds(c) == WorkIsDone(c) \/ StorageCb(c) \/ ExchangeCb(c)

StoresNext ==
  \/ \E c \in StoreCall :
       \/ StorageGet(c) \/ StorageSet(c) \/ StorageDelete(c)
       \/ StorageKeyAt(c) \/ ExchangeSet(c) \/ ExchangeGet(c)
       \/ ExchangeRemove(c)
       \/ \E k \in StorageKey : StorageGetSync(c, k)
       \/ StorageClear(c) \/ ExchangeClear(c) \/ StoreEnds(c)
  \/ StoresDetached

StoresSpec == StoresInit /\ [][StoresNext]_stVars

-----------------------------------------------------------------------------
(* Properties *)

(* A handle is freed once, however its call ends.  What was set and told   *)
(* as success is what a later get finds, by the call that began after it,  *)
(* unless something may have deleted it or set it again; and a success     *)
(* that finds nothing is never told while the value is known to be there.  *)
StoresKept ==
  \A c \in StoreCall :
    /\ work[c].step = "ended" => work[c].freed = 1
    /\ work[c].step # "ended" => work[c].freed = 0 /\ results[c].calls = <<>>
    /\ work[c].op \in Getting /\ c \in Successes =>
         \A d \in results[c].after :
           work[d].op \in Storing /\ work[d].key = work[c].key =>
             \/ results[c].value = d
             \/ \E e \in StoreCall \ {c, d} :
                  work[e].op \in Storing \cup Deleting \cup {"clear"}

=============================================================================
