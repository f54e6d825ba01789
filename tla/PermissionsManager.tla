------------------------- MODULE PermissionsManager -------------------------
(***************************************************************************)
(* Calls that wait for a permission: PermissionsManager, PermissionsInfo   *)
(* and the three tasks posted for them.                                    *)
(*                                                                         *)
(* A method that needs a permission leaves a PermissionsInfo behind and    *)
(* posts a task that shows it to the host; the host's decision posts a     *)
(* second task, which calls the native method or the script's fail and     *)
(* complete callbacks and deletes the info.  Everything happens on main,   *)
(* one task at a time, but a callback is foreign code: while it is on the  *)
(* stack scripts may request, the host may decide, and script objects may  *)
(* be finalized.                                                           *)
(*                                                                         *)
(* An info is known to the host, to the tasks and to perms_set_ by its     *)
(* address only, and the allocator may reuse the address of a deleted one. *)
(***************************************************************************)
EXTENDS Naturals, Sequences, FiniteSets

CONSTANTS
  Caller,     (* Feature instances.                                        *)
  Req,        (* Calls that need a permission.                             *)
  Addr,       (* Addresses new PermissionsInfo may return.                 *)
  None,       (* No address, no instance, no request.                      *)
  LateDecisions, (* 0: the host decides once, inside its callback          *)
              (* (feature_test_cli); n > 0: at any later time, up to n     *)
              (* times per handle it was shown.                            *)
  DetachInCallback (* TRUE: a callback may finalize its own script object. *)

ASSUME NoneAssumption == None \notin Caller \cup Req \cup Addr
ASSUME ModeAssumption == LateDecisions \in Nat /\ DetachInCallback \in BOOLEAN

VARIABLES
  cutOff,    (* FeatureInstance::detached_                                 *)
  owner,     (* PermissionsInfo::instance_ of each request                 *)
  at,        (* address of the info of each request, None when not alive   *)
  perms_set, (* PermissionsManager::perms_set_                             *)
  queue,     (* the permission tasks in the manager's queue                *)
  handles,   (* what the host was shown, with the decisions it has left    *)
  frame,     (* the callback on the stack of the task at the queue's head  *)
  calls,     (* history: calls of the native method by GrantPermissions    *)
  fails,     (* history: failures reported to the script                   *)
  released,  (* history: releases of the arguments kept for each request   *)
  freed      (* history: a deleted info was dereferenced                   *)

vars == <<cutOff, owner, at, perms_set, queue, handles, frame,
          calls, fails, released, freed>>

history == <<calls, fails, released, freed>>

Task == [kind : {"ask", "grant", "reject"}, addr : Addr, inst : Caller]
Handle == [addr : Addr, req : Req, left : 1..LateDecisions]
Frame == [kind : {"grant", "fail", "complete"}, addr : Addr, req : Req]
NoFrame == [kind |-> "none", addr |-> None, req |-> None]

Init ==
  /\ cutOff = [i \in Caller |-> FALSE]
  /\ owner = [r \in Req |-> None] /\ at = [r \in Req |-> None]
  /\ perms_set = {} /\ queue = <<>> /\ handles = {}
  /\ frame = NoFrame
  /\ calls = [r \in Req |-> 0] /\ fails = [r \in Req |-> 0]
  /\ released = [r \in Req |-> 0] /\ freed = FALSE

(* The request whose info lives at an address. *)
Occupied(a) == \E r \in Req : at[r] = a
Occupant(a) == CHOOSE r \in Req : at[r] = a

(* A callback of the instance is on the stack. *)
InCallback(i) == frame # NoFrame /\ owner[frame.req] = i

Post(kind, a) ==
  queue' = Append(queue, [kind |-> kind, addr |-> a, inst |-> owner[Occupant(a)]])

-----------------------------------------------------------------------------
(* FeatureRequestPermissions with a permission callback installed. *)
Request(i, r, a) ==
  /\ ~cutOff[i] /\ owner[r] = None /\ ~Occupied(a)
  /\ owner' = [owner EXCEPT ![r] = i]
  /\ at' = [at EXCEPT ![r] = a]
  /\ perms_set' = perms_set \cup {a}
  /\ queue' = Append(queue, [kind |-> "ask", addr |-> a, inst |-> i])
  /\ UNCHANGED <<cutOff, handles, frame, history>>

(* Mutant: the infos of a detached instance stay in perms_set_. *)
DetachKeepingInfos(i) ==
  /\ ~cutOff[i]
  /\ DetachInCallback \/ ~InCallback(i)
  /\ cutOff' = [cutOff EXCEPT ![i] = TRUE]
  /\ UNCHANGED <<owner, at, perms_set, queue, handles, frame, history>>

(* onDetached: RemoveInstancePermissions deletes the instance's infos. *)
Detach(i) ==
  /\ ~cutOff[i]
  /\ DetachInCallback \/ ~InCallback(i)
  /\ cutOff' = [cutOff EXCEPT ![i] = TRUE]
  /\ LET gone == {r \in Req : owner[r] = i /\ at[r] # None}
     IN  /\ at' = [r \in Req |-> IF r \in gone THEN None ELSE at[r]]
         /\ perms_set' = perms_set \ {at[r] : r \in gone}
         /\ released' =
              [r \in Req |-> released[r] + IF r \in gone THEN 1 ELSE 0]
  /\ UNCHANGED <<owner, queue, handles, frame, calls, fails, freed>>

-----------------------------------------------------------------------------
(* Tasks.  The task at the head stays in the queue while its callback is   *)
(* on the stack.                                                           *)

Running(kind) == queue # <<>> /\ frame = NoFrame /\ Head(queue).kind = kind

(* Mutant: the tasks do not look whether their instance is detached. *)
SkippedNever == FALSE

(* mode is NORMAL as long as instances are not detached by uninit. *)
Skipped == cutOff[Head(queue).inst]

(* permission_request_task: the host's callback gets the handle. *)
Ask ==
  /\ Running("ask")
  /\ LET a == Head(queue).addr
         shown == ~Skipped /\ a \in perms_set
     IN  IF ~shown
         THEN queue' = Tail(queue) /\ UNCHANGED handles
         ELSE IF LateDecisions = 0
         THEN \E v \in {"grant", "reject"} :
                /\ queue' = Append(Tail(queue),
                     [kind |-> v, addr |-> a, inst |-> owner[Occupant(a)]])
                /\ UNCHANGED handles
         ELSE /\ queue' = Tail(queue)
              /\ handles' = handles \cup
                   {[addr |-> a, req |-> Occupant(a), left |-> LateDecisions]}
  /\ UNCHANGED <<cutOff, owner, at, perms_set, frame, calls, fails,
                 released, freed>>

(* FeatureGrantPermissions, FeatureRejectPermissions: CheckPermissions     *)
(* compares the address only.                                              *)
Decide(h, v) ==
  /\ h \in handles
  /\ handles' = (handles \ {h}) \cup
       (IF h.left > 1 THEN {[h EXCEPT !.left = @ - 1]} ELSE {})
  /\ IF h.addr \in perms_set THEN Post(v, h.addr) ELSE UNCHANGED queue
  /\ UNCHANGED <<cutOff, owner, at, perms_set, frame, calls, fails,
                 released, freed>>

(* A decision task that does nothing: the instance is detached, or the     *)
(* info is not in perms_set_; it was dereferenced before it was looked up. *)
DropDecision ==
  /\ Running("grant") \/ Running("reject")
  /\ Skipped \/ Head(queue).addr \notin perms_set
  /\ queue' = Tail(queue)
  /\ freed' = (freed \/ (~Skipped /\ ~Occupied(Head(queue).addr)))
  /\ UNCHANGED <<cutOff, owner, at, perms_set, handles, frame,
                 calls, fails, released>>

Enter(kind, a) == frame' = [kind |-> kind, addr |-> a, req |-> Occupant(a)]

(* PermissionsInfo::GrantPermissions up to the native method. *)
BeginGrant ==
  /\ Running("grant") /\ ~Skipped /\ Head(queue).addr \in perms_set
  /\ Enter("grant", Head(queue).addr)
  /\ calls' = [calls EXCEPT ![Occupant(Head(queue).addr)] = @ + 1]
  /\ UNCHANGED <<cutOff, owner, at, perms_set, queue, handles,
                 fails, released, freed>>

(* PermissionsInfo::RejectPermissions up to the first foreign code: the    *)
(* promise is rejected, or the fail callback is called.                    *)
BeginReject ==
  /\ Running("reject") /\ ~Skipped /\ Head(queue).addr \in perms_set
  /\ \E kind \in {"fail", "complete"} : Enter(kind, Head(queue).addr)
  /\ fails' = [fails EXCEPT ![Occupant(Head(queue).addr)] = @ + 1]
  /\ UNCHANGED <<cutOff, owner, at, perms_set, queue, handles,
                 calls, released, freed>>

(* fail returned: complete is looked up in the kept arguments, and called  *)
(* if the instance is not detached by now.                                 *)
FailReturned ==
  /\ frame.kind = "fail" /\ ~cutOff[owner[frame.req]]
  /\ frame' = [frame EXCEPT !.kind = "complete"]
  /\ UNCHANGED <<cutOff, owner, at, perms_set, queue, handles, history>>

(* Mutant: a decided info is not removed. *)
CallbackReturnedKeeping ==
  /\ frame # NoFrame
  /\ frame.kind = "fail" => cutOff[owner[frame.req]]
  /\ frame' = NoFrame /\ queue' = Tail(queue)
  /\ freed' = (freed \/ at[frame.req] # frame.addr)
  /\ UNCHANGED <<cutOff, owner, at, perms_set, handles, calls,
                 fails, released>>

(* Mutant: the frame keeps naming the info. *)
CallbackReturnedStale ==
  /\ frame # NoFrame
  /\ frame.kind = "fail" => cutOff[owner[frame.req]]
  /\ frame' = [frame EXCEPT !.kind = "none"] /\ queue' = Tail(queue)
  /\ UNCHANGED <<cutOff, owner, at, perms_set, handles, history>>

(* Mutant: arguments released after the callback and in the destructor. *)
CallbackReturnedReleasing ==
  /\ frame # NoFrame
  /\ frame.kind = "fail" => cutOff[owner[frame.req]]
  /\ frame' = NoFrame /\ queue' = Tail(queue)
  /\ freed' = (freed \/ at[frame.req] # frame.addr)
  /\ IF Occupied(frame.addr)
     THEN /\ at' = [at EXCEPT ![Occupant(frame.addr)] = None]
          /\ perms_set' = perms_set \ {frame.addr}
          /\ released' = [released EXCEPT ![Occupant(frame.addr)] = @ + 2]
     ELSE UNCHANGED <<at, perms_set, released>>
  /\ UNCHANGED <<cutOff, owner, handles, calls, fails>>

(* The last callback returned: releaseArgs, RemovePermissions, end of the  *)
(* task.  A callback that detached its instance has deleted the info;      *)
(* releaseArgs then works on freed memory, or on the new info at its place *)
(* (argv_ is cleared by the first release, so arguments go only once).     *)
CallbackReturned ==
  /\ frame # NoFrame
  /\ frame.kind = "fail" => cutOff[owner[frame.req]]
  /\ frame' = NoFrame /\ queue' = Tail(queue)
  /\ freed' = (freed \/ at[frame.req] # frame.addr)
  /\ IF Occupied(frame.addr)
     THEN /\ at' = [at EXCEPT ![Occupant(frame.addr)] = None]
          /\ perms_set' = perms_set \ {frame.addr}
          /\ released' = [released EXCEPT ![Occupant(frame.addr)] = @ + 1]
     ELSE UNCHANGED <<at, perms_set, released>>
  /\ UNCHANGED <<cutOff, owner, handles, calls, fails>>

-----------------------------------------------------------------------------
Serve ==
  \/ Ask \/ DropDecision \/ BeginGrant \/ BeginReject
  \/ FailReturned \/ CallbackReturned

(* Every call is decided and nothing is queued; not a step of the program. *)
Finished == queue = <<>> /\ handles = {} /\ UNCHANGED vars

Next ==
  \/ \E i \in Caller, r \in Req, a \in Addr : Request(i, r, a)
  \/ \E i \in Caller : Detach(i)
  \/ \E h \in handles, v \in {"grant", "reject"} : Decide(h, v)
  \/ Serve
  \/ Finished

Spec == Init /\ [][Next]_vars

(* runAllTasks goes on and callbacks return; a host that decides inside    *)
(* its callback needs no fairness of its own.                              *)
LiveSpec == Spec /\ WF_vars(Serve)

-----------------------------------------------------------------------------
(* Properties *)

TypeOK ==
  /\ cutOff \in [Caller -> BOOLEAN]
  /\ owner \in [Req -> Caller \cup {None}] /\ at \in [Req -> Addr \cup {None}]
  /\ perms_set \subseteq Addr
  /\ queue \in Seq(Task) /\ handles \subseteq Handle
  /\ frame \in Frame \cup {NoFrame}
  /\ {calls[r] : r \in Req} \cup {fails[r] : r \in Req}
       \cup {released[r] : r \in Req} \subseteq Nat
  /\ freed \in BOOLEAN

(* perms_set_ holds exactly the addresses of live infos, one info each,    *)
(* and none of a detached instance: CheckPermissions and GetPermissions    *)
(* never answer for a deleted info, in whatever order deletions come.      *)
SetExact ==
  /\ perms_set = {at[r] : r \in Req} \ {None}
  /\ \A r, q \in Req : at[r] = at[q] /\ at[r] # None => r = q
  /\ \A r \in Req : at[r] # None => ~cutOff[owner[r]]

(* GrantPermissions and RejectPermissions settle a call at most once, and  *)
(* in one way only, however late or however often its handle is decided.   *)
SettledOnce == \A r \in Req : calls[r] + fails[r] <= 1

(* releaseArgs gives the arguments kept for a call back exactly once: when *)
(* it is settled, or when its instance is detached first.                  *)
ArgsReleasedOnce ==
  \A r \in Req :
    released[r] = IF owner[r] # None /\ at[r] = None THEN 1 ELSE 0

(* No task dereferences a deleted PermissionsInfo, though decision tasks   *)
(* read info->Instance() before they look the info up.                     *)
NoUseAfterDelete == ~freed

(* A call that waits does not wait for ever: its info is eventually        *)
(* settled and deleted.                                                    *)
WaitingSettled == \A r \in Req : at[r] # None ~> at[r] = None

=============================================================================
