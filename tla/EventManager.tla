---------------------------- MODULE EventManager ----------------------------
(***************************************************************************)
(* The events of one feature instance: EventManager and EventData, with    *)
(* emissions that walk a callback list while the callbacks they call       *)
(* register, remove and emit.                                              *)
(*                                                                         *)
(* callbacks_ is a std::list: an emission stands on a node of it, other    *)
(* nodes may come and go, and the node it stands on must not.  A node is   *)
(* a number here, given in the order of registration; the same function    *)
(* registered again is a new node.                                         *)
(***************************************************************************)
EXTENDS Naturals, SequencesExt

CONSTANTS
  Ev,        (* Member events of the feature.                              *)
  Cb,        (* Script functions.                                          *)
  MaxNodes,  (* Bound: registrations ever made.                            *)
  MaxDepth,  (* Bound: emissions within emissions.                         *)
  SelfRemoval (* TRUE: a callback may take itself off the list it is       *)
             (* called from, or let go of its feature object.              *)

ASSUME BoundAssumption == MaxNodes \in Nat /\ MaxDepth \in Nat
ASSUME SelfRemovalAssumption == SelfRemoval \in BOOLEAN

VARIABLES
  events_map, (* the events that have an EventData                         *)
  callbacks,  (* EventData::callbacks_ of each event                       *)
  nodes,      (* registrations so far                                      *)
  emitting,   (* the emissions on the stack of main, outermost first       *)
  listening,  (* listener_ # nullptr                                       *)
  told,       (* events the listener was told were added and not removed   *)
  detached

vars == <<events_map, callbacks, nodes, emitting, listening, told, detached>>

Entry == [cb : Cb, node : 1..MaxNodes]

(* An emission: its event, the node it stands on, the nodes it called.     *)
Emission == [ev : Ev, at : 1..MaxNodes, done : Seq(1..MaxNodes)]

Init ==
  /\ events_map = {} /\ callbacks = [e \in Ev |-> <<>>] /\ nodes = 0
  /\ emitting = <<>>
  /\ listening = TRUE /\ told = {} /\ detached = FALSE

(* The callbacks of an event that emissions stand on. *)
Current(e) ==
  {c \in Cb : \E k \in DOMAIN emitting, n \in DOMAIN callbacks[e] :
     /\ emitting[k].ev = e
     /\ callbacks[e][n] = [cb |-> c, node |-> emitting[k].at]}

-----------------------------------------------------------------------------
(* Script *)

(* findEvent compares functions. *)
Registered(list, c) == \E n \in DOMAIN list : list[n].cb = c

(* EventData::addCallback on a list. *)
Plus(list, c) ==
  IF Registered(list, c) THEN list
  ELSE Append(list, [cb |-> c, node |-> nodes + 1])

(* addEventCallback: the listener hears of the event's first EventData. *)
Add(e, list, c) ==
  /\ callbacks' = [callbacks EXCEPT ![e] = Plus(list, c)]
  /\ nodes' = nodes + 1
  /\ events_map' = events_map \cup {e}
  /\ told' = IF listening THEN told \cup ({e} \ events_map) ELSE told

(* feature.on(event, f) *)
On(e, c) ==
  /\ ~detached /\ nodes < MaxNodes
  /\ Add(e, callbacks[e], c)
  /\ UNCHANGED <<emitting, listening, detached>>

(* eraseCallback: a function is in a list once. *)
Minus(list, c) ==
  IF Registered(list, c)
    THEN RemoveAt(list, CHOOSE n \in DOMAIN list : list[n].cb = c)
    ELSE list

(* feature.off(event, f): eraseEventCallback keeps the EventData. *)
Off(e, c) ==
  /\ ~detached /\ e \in events_map
  /\ SelfRemoval \/ c \notin Current(e)
  /\ callbacks' = [callbacks EXCEPT ![e] = Minus(@, c)]
  /\ UNCHANGED <<events_map, nodes, emitting, listening, told, detached>>

(* Mutant: the EventData goes too and nobody is told. *)
ClearForgetting(e) ==
  /\ ~detached /\ e \in events_map
  /\ SelfRemoval \/ Current(e) = {}
  /\ callbacks' = [callbacks EXCEPT ![e] = <<>>]
  /\ events_map' = events_map \ {e}
  /\ UNCHANGED <<nodes, emitting, listening, told, detached>>

(* feature.off(event), feature.event = null: removeEventCallbacks. *)
Clear(e) ==
  /\ ~detached /\ e \in events_map
  /\ SelfRemoval \/ Current(e) = {}
  /\ callbacks' = [callbacks EXCEPT ![e] = <<>>]
  /\ UNCHANGED <<events_map, nodes, emitting, listening, told, detached>>

(* feature.event = f: eventSet clears, then adds. *)
Set(e, c) ==
  /\ ~detached /\ nodes < MaxNodes
  /\ SelfRemoval \/ Current(e) = {}
  /\ Add(e, <<>>, c)
  /\ UNCHANGED <<emitting, listening, detached>>

-----------------------------------------------------------------------------
(* Native code of the feature *)

(* Mutant: the emission starts one place before the list. *)
EmitBefore(e) ==
  /\ ~detached /\ e \in events_map /\ Len(emitting) < MaxDepth
  /\ callbacks[e] # <<>>
  /\ emitting' = Append(emitting,
       [ev |-> e, at |-> Head(callbacks[e]).node - 1, done |-> <<>>])
  /\ UNCHANGED <<events_map, callbacks, nodes, listening, told, detached>>

(* FeatureEmitEvent: doEmitEvent calls the first callback of the list. *)
Emit(e) ==
  /\ ~detached /\ e \in events_map /\ Len(emitting) < MaxDepth
  /\ callbacks[e] # <<>>
  /\ LET first == Head(callbacks[e]).node
     IN  emitting' = Append(emitting,
                       [ev |-> e, at |-> first, done |-> <<first>>])
  /\ UNCHANGED <<events_map, callbacks, nodes, listening, told, detached>>

(* Where the list goes on behind the node an emission stands on. *)
Followers(em) ==
  {n \in DOMAIN callbacks[em.ev] : callbacks[em.ev][n].node > em.at}

(* The callback of the innermost emission returned: ++ on the iterator. *)
CallbackReturned ==
  /\ emitting # <<>>
  /\ LET em == Last(emitting)
         next == callbacks[em.ev][Min(Followers(em))].node
     IN  emitting' =
           IF Followers(em) = {} THEN Front(emitting)
           ELSE Append(Front(emitting), [ev |-> em.ev, at |-> next,
                                         done |-> Append(em.done, next)])
  /\ UNCHANGED <<events_map, callbacks, nodes, listening, told, detached>>

(* FeatureSetEventChangeListener(handle, NULL), as features' onDetached do. *)
Unlisten ==
  /\ ~detached /\ listening
  /\ listening' = FALSE
  /\ UNCHANGED <<events_map, callbacks, nodes, emitting, told, detached>>

(* A running callback keeps its feature object unless it lets go of it. *)
MayDetach == SelfRemoval \/ emitting = <<>>

(* onDetached: clearAllEvents. *)
Detach ==
  /\ ~detached /\ MayDetach
  /\ detached' = TRUE
  /\ events_map' = {} /\ callbacks' = [e \in Ev |-> <<>>]
  /\ told' = IF listening THEN told \ events_map ELSE told
  /\ UNCHANGED <<nodes, emitting, listening>>

(* The instance is gone; not a step of the program. *)
Finished == detached /\ emitting = <<>> /\ UNCHANGED vars

Next ==
  \/ \E e \in Ev, c \in Cb : On(e, c) \/ Off(e, c) \/ Set(e, c)
  \/ \E e \in Ev : Clear(e) \/ Emit(e)
  \/ CallbackReturned \/ Unlisten \/ Detach
  \/ Finished

Spec == Init /\ [][Next]_vars

-----------------------------------------------------------------------------
(* Properties *)

TypeOK ==
  /\ events_map \subseteq Ev
  /\ callbacks \in [Ev -> Seq(Entry)] /\ nodes \in 0..MaxNodes
  /\ emitting \in Seq(Emission)
  /\ listening \in BOOLEAN /\ told \subseteq Ev /\ detached \in BOOLEAN

(* The iterator of every emission on the stack stands on a node that is    *)
(* still in the list: doEmitEvent never steps from a freed one.            *)
CursorAlive ==
  \A k \in DOMAIN emitting :
    \E n \in DOMAIN callbacks[emitting[k].ev] :
      callbacks[emitting[k].ev][n].node = emitting[k].at

(* However callbacks register, remove and emit inside each other, an       *)
(* emission calls them in the order of their registration, none twice, and *)
(* none that is still registered has been passed over.                     *)
EmittedInOrder ==
  \A k \in DOMAIN emitting :
    LET em == emitting[k]
    IN  /\ \A m, n \in DOMAIN em.done : m < n => em.done[m] < em.done[n]
        /\ \A n \in DOMAIN callbacks[em.ev] :
             callbacks[em.ev][n].node <= em.at =>
               Contains(em.done, callbacks[em.ev][n].node)

(* What the change listener was told (ADDED and REMOVED) is what           *)
(* events_map_ holds, and only held events have callbacks.                 *)
ListenerInformed ==
  /\ listening => told = events_map
  /\ \A e \in Ev : callbacks[e] # <<>> => e \in events_map

=============================================================================
