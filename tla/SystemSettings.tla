--------------------------- MODULE SystemSettings ---------------------------
(***************************************************************************)
(* The system.settings feature (system_settings_impl.cpp) with the mock of *)
(* the settings of the device (miwear_settings_mock.cpp): properties that  *)
(* are read, written and watched.                                          *)
(*                                                                         *)
(* A request is known to the device by its address.  What the device says  *)
(* goes through msg_queue_ to the loop; there it is for whatever request   *)
(* request_set_ or sub_set_ has at that address by then.                   *)
(***************************************************************************)
EXTENDS Naturals, FiniteSets, Sequences, SequencesExt

CONSTANTS
  Asker,     (* The instances of the feature.                             *)
  Key,       (* Names of properties.                                      *)
  Promise,   (* Promises of calls.                                        *)
  Place,     (* Addresses of requests.                                    *)
  NoRequest, (* No object at an address, no instance.                     *)
  MaxQueued, (* Bound: messages on their way.                             *)
  Reuse      (* TRUE: an address comes back while messages still name it.  *)

ASSUME SettingsAssumption ==
  /\ IsFiniteSet(Asker) /\ IsFiniteSet(Place)
  /\ NoRequest \notin Asker
  /\ MaxQueued \in Nat /\ Reuse \in BOOLEAN
  /\ NoRequest \notin [kind : {"sub"}, owner : Asker, key : Key]
  /\ NoRequest \notin [kind : {"once"}, owner : Asker, promise : Promise]

VARIABLES
  instance,     (* "live", "detached" *)
  promise,      (* "new", "waiting", "settled" *)
  owner,        (* the instance a promise was given by *)
  request,      (* the object at an address; request_set_ has the ones of  *)
                (* kind "once", sub_set_ those of kind "sub"               *)
  subscribers,  (* miwear_settings::subscribers, addresses for each key    *)
  msg_queue,    (* msg_queue_: the addresses messages are for              *)
  batch,        (* the messages ProcessMessageAsyncCallback still has      *)
  calling,      (* whose functions run: "no", "update" (a subscription's), *)
                (* "answer" (a request's)                                  *)
  settings      (* MiwearSettings: "live", "closing", "deleted"; "astray"  *)
                (* when a request was deleted twice: nothing is said then  *)

ssVars == <<instance, promise, owner, request, subscribers, msg_queue, batch,
            calling, settings>>

SettingsInit ==
  /\ instance = [i \in Asker |-> "live"]
  /\ promise = [c \in Promise |-> "new"]
  /\ owner = [c \in Promise |-> NoRequest]
  /\ request = [p \in Place |-> NoRequest]
  /\ subscribers = [k \in Key |-> <<>>]
  /\ msg_queue = <<>> /\ batch = <<>> /\ calling = "no"
  /\ settings = "live"

OnSettingsLoop ==
  (batch = <<>> \/ calling # "no") /\ settings # "astray"

Subs == {p \in Place : request[p] # NoRequest /\ request[p].kind = "sub"}
Onces == {p \in Place : request[p] # NoRequest /\ request[p].kind = "once"}

Named == Range(msg_queue) \cup Range(batch)
           \cup UNION {Range(subscribers[k]) : k \in Key}

(* new: malloc may return any address that is free. *)
Allocated(p) == request[p] = NoRequest /\ (Reuse \/ p \notin Named)

(* MiwearSettingsCallback, ProcessMessageAsync: one message for each.      *)
Queue(places) ==
  /\ Len(msg_queue) + Len(places) <= MaxQueued
  /\ msg_queue' = msg_queue \o places

-----------------------------------------------------------------------------
(* Calls of the script, on the loop or in a function that is called *)

AskOnce(i, c, p) ==
  /\ OnSettingsLoop /\ instance[i] = "live" /\ promise[c] = "new"
  /\ Allocated(p)
  /\ owner' = [owner EXCEPT ![c] = i]
  /\ promise' = [promise EXCEPT ![c] = "waiting"]
  /\ request' = [request EXCEPT ![p] =
                   [kind |-> "once", owner |-> i, promise |-> c]]
  /\ UNCHANGED <<instance, subscribers, batch, calling, settings>>

GetProp(i, c, p) == AskOnce(i, c, p) /\ Queue(<<p>>)

(* Those who watch the property are told first. *)
SetProp(i, c, k, p) ==
  AskOnce(i, c, p) /\ Queue(Append(subscribers[k], p))

(* For a key that it watches already an instance changes the function.     *)
SubscribeProp(i, k, p) ==
  /\ OnSettingsLoop /\ instance[i] = "live" /\ Allocated(p)
  /\ \A q \in Subs : request[q].key # k \/ request[q].owner # i
  /\ request' = [request EXCEPT ![p] =
                   [kind |-> "sub", owner |-> i, key |-> k]]
  /\ subscribers' = [subscribers EXCEPT ![k] = Append(@, p)]
  /\ UNCHANGED <<instance, promise, owner, msg_queue, batch, calling,
                 settings>>

(* The device ends the subscriptions of all instances, the feature those   *)
(* of one.                                                                 *)
UnsubscribeProp(i, k) ==
  /\ OnSettingsLoop /\ instance[i] = "live"
  /\ subscribers' = [subscribers EXCEPT ![k] = <<>>]
  /\ request' =
       [p \in Place |->
          IF p \in Subs /\ request[p].key = k /\ request[p].owner = i
            THEN NoRequest ELSE request[p]]
  /\ UNCHANGED <<instance, promise, owner, msg_queue, batch, calling,
                 settings>>

(* Mutant: without a look at whose request it is. *)
SettingsDetachAll(i) ==
  /\ OnSettingsLoop /\ instance[i] = "live"
  /\ instance' = [instance EXCEPT ![i] = "detached"]
  /\ request' = [p \in Place |-> NoRequest]
  /\ UNCHANGED <<promise, owner, subscribers, msg_queue, batch, calling,
                 settings>>

(* Detach: the device is not told. *)
SettingsDetach(i) ==
  /\ OnSettingsLoop /\ instance[i] = "live"
  /\ instance' = [instance EXCEPT ![i] = "detached"]
  /\ request' = [p \in Place |->
                   IF request[p] # NoRequest /\ request[p].owner = i
                     THEN NoRequest ELSE request[p]]
  /\ UNCHANGED <<promise, owner, subscribers, msg_queue, batch, calling,
                 settings>>

-----------------------------------------------------------------------------
(* ProcessMessageAsyncCallback *)

TakeMessages ==
  /\ settings = "live" /\ batch = <<>> /\ msg_queue # <<>>
  /\ batch' = msg_queue /\ msg_queue' = <<>>
  /\ UNCHANGED <<instance, promise, owner, request, subscribers, calling,
                 settings>>

(* A promise is settled and its request deleted; one with functions calls  *)
(* them first.  Or the function of a subscription is called.  A message    *)
(* for nobody, or an update that is no JSON, is dropped.                   *)
ProcessMessage ==
  /\ batch # <<>> /\ calling = "no"
  /\ LET p == Head(batch) IN
       \/ /\ p \in Onces
          /\ promise' = [promise EXCEPT ![request[p].promise] = "settled"]
          /\ \/ /\ request' = [request EXCEPT ![p] = NoRequest]
                /\ batch' = Tail(batch) /\ UNCHANGED calling
             \/ calling' = "answer" /\ UNCHANGED <<request, batch>>
       \/ /\ p \in Subs
          /\ calling' = "update" /\ UNCHANGED <<promise, request, batch>>
       \/ /\ p \notin Onces
          /\ batch' = Tail(batch) /\ UNCHANGED <<promise, request, calling>>
  /\ UNCHANGED <<instance, owner, subscribers, msg_queue, settings>>

UpdateReturns ==
  /\ calling = "update" /\ calling' = "no" /\ batch' = Tail(batch)
  /\ UNCHANGED <<instance, promise, owner, request, subscribers, msg_queue,
                 settings>>

(* The request is there still, and no other at its address. *)
StillThere(p) == p \in Onces /\ promise[request[p].promise] = "settled"

(* If the functions end their instance, Detach deletes what is deleted     *)
(* here again.                                                             *)
AnswerReturns ==
  /\ calling = "answer" /\ settings # "astray"
  /\ IF StillThere(Head(batch))
     THEN /\ request' = [request EXCEPT ![Head(batch)] = NoRequest]
          /\ calling' = "no" /\ batch' = Tail(batch) /\ UNCHANGED settings
     ELSE settings' = "astray" /\ UNCHANGED <<request, calling, batch>>
  /\ UNCHANGED <<instance, promise, owner, subscribers, msg_queue>>

(* onDestroy: Destroy closes the handle, messages are taken no more.       *)
SettingsDestroy ==
  /\ settings = "live" /\ batch = <<>>
  /\ \A i \in Asker : instance[i] = "detached"
  /\ settings' = "closing" /\ subscribers' = [k \in Key |-> <<>>]
  /\ UNCHANGED <<instance, promise, owner, request, msg_queue, batch, calling>>

(* ~MiwearSettings deletes the requests of both sets, and then those that  *)
(* messages name: they were deleted with the sets, or before by Detach.    *)
AsyncClose ==
  /\ settings = "closing"
  /\ settings' = IF msg_queue = <<>> THEN "deleted" ELSE "astray"
  /\ request' = [p \in Place |-> NoRequest]
  /\ msg_queue' = <<>>
  /\ UNCHANGED <<instance, promise, owner, subscribers, batch, calling>>

SettingsEnd == settings \in {"deleted", "astray"} /\ UNCHANGED ssVars

SettingsNext ==
  \/ \E i \in Asker, c \in Promise, p \in Place :
       GetProp(i, c, p) \/ \E k \in Key : SetProp(i, c, k, p)
  \/ \E i \in Asker, k \in Key :
       UnsubscribeProp(i, k) \/ \E p \in Place : SubscribeProp(i, k, p)
  \/ \E i \in Asker : SettingsDetach(i)
  \/ TakeMessages \/ ProcessMessage \/ UpdateReturns \/ AnswerReturns
  \/ SettingsDestroy \/ AsyncClose \/ SettingsEnd

SettingsSpec == SettingsInit /\ [][SettingsNext]_ssVars

-----------------------------------------------------------------------------
(* Properties *)

SettingsTypeOK ==
  /\ instance \in [Asker -> {"live", "detached"}]
  /\ promise \in [Promise -> {"new", "waiting", "settled"}]
  /\ owner \in [Promise -> Asker \cup {NoRequest}]
  /\ request \in
       [Place -> {NoRequest}
                   \cup [kind : {"sub"}, owner : Asker, key : Key]
                   \cup [kind : {"once"}, owner : Asker, promise : Promise]]
  /\ subscribers \in [Key -> Seq(Place)]
  /\ msg_queue \in Seq(Place) /\ batch \in Seq(Place)
  /\ calling \in {"no", "update", "answer"}
  /\ settings \in {"live", "closing", "deleted", "astray"}

(* While its instance is there, a promise that waits has one request, and  *)
(* a message for that is on its way: whatever functions of subscriptions   *)
(* and of other requests do between, instances leave, and addresses come   *)
(* back.                                                                   *)
AnswerOnItsWay ==
  \A c \in Promise : promise[c] = "waiting" /\ instance[owner[c]] = "live" =>
    /\ Cardinality({p \in Onces : request[p].promise = c}) = 1
    /\ \A p \in Onces : request[p].promise = c =>
         p \in Range(msg_queue) \cup Range(IF calling # "no" THEN Tail(batch)
                                                              ELSE batch)
=============================================================================
