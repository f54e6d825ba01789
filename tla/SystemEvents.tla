---------------------------- MODULE SystemEvents ----------------------------
(***************************************************************************)
(* system.event: subscriptions to user events and to those of the system.  *)
(* An instance has a SubscriptionManager in the TopicListener, with an     *)
(* EventContext for each name, whose list holds its subscriptions; all of  *)
(* them are in __subs_map too, and __event_subs_info counts those of each  *)
(* name, which publish asks for.                                           *)
(*                                                                         *)
(* The topic is shared by all applications: a sample of any name may come  *)
(* at any time.  The functions it calls may use every method.              *)
(***************************************************************************)
EXTENDS Naturals, FiniteSets, Sequences, SequencesExt

CONSTANTS
  Subscriber, (* instances of the feature *)
  NoSubscriber,
  EventName,
  MaxSubs,    (* Bound: subscriptions ever made, __eventSubsId.            *)
  Careless    (* TRUE: a function may end the subscription behind its own  *)
              (* one, which the loop has saved, or detach its instance,    *)
              (* and an instance may end a subscription of another one     *)
              (* whose callback id happens to be one of its own, too.      *)

ASSUME SystemEventsAssumption ==
  /\ NoSubscriber \notin Subscriber /\ EventName # {}
  /\ MaxSubs \in Nat /\ Careless \in BOOLEAN

VARIABLES
  members, (* instances that are not detached *)
  subs,    (* __subs_map, [id, by, name]; the list of an EventContext are  *)
           (* those with its instance and name, in the order of the ids    *)
  lastId,  (* __eventSubsId *)
  counts,  (* __event_subs_info *)
  sample   (* the sample being delivered: its name, the instances that     *)
           (* were there when it came, those that had their turn, the one  *)
           (* whose turn it is, the subscription called and the one saved  *)
           (* to be next (0: none), and those called in this turn          *)

syVars == <<members, subs, lastId, counts, sample>>

Subscription == [id : 1..MaxSubs, by : Subscriber, name : EventName]
NoSample(n) == [name |-> n, there |-> {}, visited |-> {}, by |-> NoSubscriber,
                at |-> 0, next |-> 0, heard |-> <<>>]
Idle == NoSample(CHOOSE n \in EventName : TRUE)
Delivering == sample.there # {}
IsAt(c) == sample.by = c

SystemEventsInit ==
  /\ members = Subscriber /\ subs = {} /\ lastId = 0
  /\ counts = [n \in EventName |-> 0]
  /\ sample = Idle

(* The list of an EventContext, and the ids in it. *)
Listed(c, n) == {s \in subs : s.by = c /\ s.name = n}
List(c, n) == {s.id : s \in Listed(c, n)}

(* weakref_list: the entry behind k, 0 when k is the last. *)
Behind(k, ids) ==
  LET later == {j \in ids : j > k}
  IN  IF later = {} THEN 0 ELSE CHOOSE j \in later : \A i \in later : j <= i

-----------------------------------------------------------------------------
(* Methods *)

(* isEventSubscribed: what publish asks before it publishes a user event.  *)
EventSubscribed(n) == counts[n] > 0

SubscribeName(c, n) ==
  /\ c \in members /\ lastId < MaxSubs
  /\ lastId' = lastId + 1
  /\ subs' = subs \cup {[id |-> lastId + 1, by |-> c, name |-> n]}
  /\ counts' = [counts EXCEPT ![n] = @ + 1]
  /\ UNCHANGED <<members, sample>>

(* removeSubscribe leaves __event_subs_info as it is.                      *)
RemoveSubscribe(c, k) ==
  /\ c \in members
  /\ \E s \in subs :
       s.id = k /\ (s.by = c \/ Careless) /\ subs' = subs \ {s}
  /\ k = sample.next => Careless
  /\ UNCHANGED <<members, lastId, counts, sample>>

(* Mutant: with its EventContext the name is no longer counted at all.     *)
DetachUncounting(c) ==
  /\ c \in members /\ (IsAt(c) => Careless)
  /\ members' = members \ {c}
  /\ subs' = {s \in subs : s.by # c}
  /\ counts' = [n \in EventName |-> IF Listed(c, n) = {} THEN counts[n] ELSE 0]
  /\ UNCHANGED <<lastId, sample>>

(* onDetached: the EventContexts of the instance are deleted, each takes   *)
(* the subscriptions it still has off the count of its name.               *)
SystemEventsDetach(c) ==
  /\ c \in members /\ (IsAt(c) => Careless)
  /\ members' = members \ {c}
  /\ subs' = {s \in subs : s.by # c}
  /\ counts' = [n \in EventName |->
                  counts[n] - Cardinality(Listed(c, n))]
  /\ UNCHANGED <<lastId, sample>>

-----------------------------------------------------------------------------
(* handleTopicData *)

(* The listener stays when nobody is left. *)
SampleComes(n) ==
  /\ ~Delivering
  /\ sample' = IF members = {} THEN sample
                ELSE [NoSample(n) EXCEPT !.there = members]
  /\ UNCHANGED <<members, subs, lastId, counts>>

Call(c, k) ==
  sample' = [sample EXCEPT !.by = c, !.visited = @ \cup {c}, !.at = k,
               !.next = Behind(k, List(c, sample.name)),
               !.heard = IF k = 0 THEN <<>> ELSE Append(@, k)]

TurnOver ==
  [sample EXCEPT !.by = NoSubscriber, !.at = 0, !.heard = <<>>]

(* The turn of an instance: its subscriptions are called unless the sample *)
(* is not for it (deal_user_event, or the value has not changed).          *)
Turn(c) ==
  /\ Delivering /\ sample.by = NoSubscriber /\ c \in members \ sample.visited
  /\ \/ sample' = [sample EXCEPT !.visited = @ \cup {c}]
     \/ /\ List(c, sample.name) # {}
        /\ Call(c, Behind(0, List(c, sample.name)))
  /\ UNCHANGED <<members, subs, lastId, counts>>

(* Mutant: the loop begins again when the entry it stands on is gone.      *)
EventReturnsRestarting ==
  /\ sample.by # NoSubscriber
  /\ LET ids == List(sample.by, sample.name)
     IN  IF sample.at \notin ids /\ ids # {}
           THEN Call(sample.by, Behind(0, ids))
           ELSE IF sample.next # 0 THEN Call(sample.by, sample.next)
                ELSE sample' = TurnOver
  /\ UNCHANGED <<members, subs, lastId, counts>>

(* A function returns, and the loop goes on with what it saved. *)
EventReturns ==
  /\ sample.by # NoSubscriber
  /\ IF sample.next # 0 THEN Call(sample.by, sample.next)
     ELSE sample' = TurnOver
  /\ UNCHANGED <<members, subs, lastId, counts>>

(* An instance that subscribed meanwhile may have had its turn or not, as  *)
(* the map has its handle before or behind.                                *)
SampleEnds ==
  /\ Delivering /\ sample.by = NoSubscriber
  /\ sample.there \cap members \subseteq sample.visited
  /\ sample' = Idle
  /\ UNCHANGED <<members, subs, lastId, counts>>

SystemEventsNext ==
  \/ \E c \in Subscriber :
       \/ SystemEventsDetach(c) \/ Turn(c)
       \/ \E n \in EventName : SubscribeName(c, n)
       \/ \E k \in 1..MaxSubs : RemoveSubscribe(c, k)
  \/ \E n \in EventName : SampleComes(n)
  \/ EventReturns \/ SampleEnds

SystemEventsSpec == SystemEventsInit /\ [][SystemEventsNext]_syVars

-----------------------------------------------------------------------------
(* Properties *)

SystemEventsTypeOK ==
  /\ members \subseteq Subscriber /\ subs \subseteq Subscription
  /\ lastId \in 0..MaxSubs /\ counts \in [EventName -> Nat]
  /\ sample \in [name : EventName, there : SUBSET Subscriber,
                 visited : SUBSET Subscriber,
                 by : Subscriber \cup {NoSubscriber},
                 at : 0..MaxSubs, next : 0..MaxSubs, heard : Seq(1..MaxSubs)]

(* publish is not refused while an instance is subscribed: a count is      *)
(* given back when an instance goes, for what it still has, and never for  *)
(* the subscriptions of the others.                                        *)
PublishReaches ==
  \A s \in subs : EventSubscribed(s.name)

(* Whatever the functions subscribe and end meanwhile, those of an         *)
(* instance are called in the order of subscription, none twice, and none  *)
(* that still stands before the one being called was left out.             *)
CalledInTurn ==
  /\ \A m, n \in DOMAIN sample.heard :
       m < n => sample.heard[m] < sample.heard[n]
  /\ sample.by # NoSubscriber =>
       \A k \in List(sample.by, sample.name) :
         k < sample.at => Contains(sample.heard, k)
=============================================================================
