----------------------------- MODULE Locations ------------------------------
(***************************************************************************)
(* system.geolocation: the location_context of a prototype, shared by its  *)
(* instances.  getLocation and subscribe open a topic only when nothing is *)
(* active, and whatever ends the last activity closes one; a timer of one  *)
(* second rejects the calls that waited too long.  The timer and each open *)
(* topic hold a reference to the context, until their close callbacks.     *)
(*                                                                         *)
(* Callbacks of the loop do not nest.  A batch of samples calls functions  *)
(* of the script one after the other, which may call every method.  So do  *)
(* the functions of a getLocation that is settled, with the call still in  *)
(* front of getList; a promise without functions sets off a job for later. *)
(***************************************************************************)
EXTENDS Naturals, Sequences, SequencesExt, FiniteSets

CONSTANTS
  GetCall,   (* The promises getLocation may have at a time; an id is free *)
             (* again when its promise is settled.                         *)
  Client,    (* instances of the feature *)
  NoClient,
  GnssTopic, (* The topics that may be open or closing at the same time.   *)
  MaxGets,   (* 100 in the code *)
  MaxBatch,  (* Bound: the samples of a batch.                             *)
  Quit       (* TRUE: a function of the script may unsubscribe its own     *)
             (* instance, which frees the node gnss_topic_cb stands on, or *)
             (* drop the instance of a call that is settled, so that       *)
             (* pop_front takes the next one, or finds none.               *)

ASSUME LocationsAssumption ==
  /\ NoClient \notin Client /\ MaxGets \in Nat /\ MaxBatch \in Nat
  /\ Quit \in BOOLEAN

VARIABLES
  present,    (* instances that are not detached *)
  getList,    (* the waiting calls: [pid, instance, late], the oldest      *)
              (* first, late when the timeout is over                      *)
  subList,    (* instances that subscribed, the oldest first *)
  topic_list, (* open topics *)
  closing,    (* topics whose close callback is to come *)
  gnss,       (* the batch being delivered: [left, at], the samples left   *)
              (* and the instance whose function runs                      *)
  answering,  (* the instance of the call in front, while its functions    *)
              (* run                                                       *)
  ticker,     (* location_context::timer: "running", "closing", "closed" *)
  ref_count,  (* location_context::ref_count *)
  location    (* the location_context: "live", "deleted" *)

loVars == <<present, getList, subList, topic_list, closing, gnss, answering,
            ticker, ref_count, location>>

NoBatch == [left |-> 0, at |-> NoClient]
GetMeta == [pid : GetCall, instance : Client, late : BOOLEAN]

LocationsInit ==
  /\ present = Client /\ getList = <<>> /\ subList = <<>>
  /\ topic_list = <<>> /\ closing = {} /\ gnss = NoBatch
  /\ answering = NoClient
  /\ ticker = "running" /\ ref_count = 1 /\ location = "live"

(* geolocation_is_active *)
Active == getList # <<>> \/ subList # <<>>

(* No callback of the loop runs. *)
AtRest == gnss = NoBatch /\ answering = NoClient

-----------------------------------------------------------------------------
(* Topics *)

OpenTopic ==
  /\ \E t \in GnssTopic \ (ToSet(topic_list) \cup closing) :
       topic_list' = Append(topic_list, t)
  /\ ref_count' = ref_count + 1

(* With the first call or subscription a topic is opened. *)
TopicAtHand ==
  IF Active THEN UNCHANGED <<topic_list, ref_count>> ELSE OpenTopic

(* What is common to the sample, the timer and unsubscribe: with the last  *)
(* activity the oldest topic is closed.                                    *)
CloseTopic ==
  /\ topic_list' = Tail(topic_list)
  /\ closing' = closing \cup {Head(topic_list)}

(* Mutant: only the waiting calls count. *)
MustCloseForGets == getList' = <<>> /\ topic_list # <<>>

MustClose == getList' = <<>> /\ subList' = <<>> /\ topic_list # <<>>

CloseIfIdle ==
  IF MustClose THEN CloseTopic ELSE UNCHANGED <<topic_list, closing>>

Release ==
  /\ ref_count' = ref_count - 1
  /\ location' = IF ref_count = 1 THEN "deleted" ELSE location

(* geolocation_topic_close_cb *)
GnssTopicClosed(t) ==
  /\ AtRest /\ t \in closing
  /\ closing' = closing \ {t} /\ Release
  /\ UNCHANGED <<present, getList, subList, topic_list, gnss, answering,
                 ticker>>

-----------------------------------------------------------------------------
(* Methods *)

Waiting(r) == \E n \in DOMAIN getList : getList[n].pid = r

(* A call that finds too many waiting, or whose uv_topic_subscribe fails,  *)
(* is rejected at once and leaves no trace.                                *)
GetLocation(r, c) ==
  /\ c \in present /\ ~Waiting(r) /\ Len(getList) <= MaxGets
  /\ TopicAtHand
  /\ getList' = Append(getList, [pid |-> r, instance |-> c, late |-> FALSE])
  /\ UNCHANGED <<present, subList, closing, gnss, answering, ticker, location>>

(* An instance that subscribes again only replaces its functions.  A       *)
(* function that is none is reported to fail and then subscribed too.      *)
SubscribeLocation(c) ==
  /\ c \in present /\ ~Contains(subList, c)
  /\ TopicAtHand
  /\ subList' = Append(subList, c)
  /\ UNCHANGED <<present, getList, closing, gnss, answering, ticker, location>>

(* unsubscribe(feature): nothing is looked at without a subscription.      *)
EndSubscription(c) ==
  IF Contains(subList, c)
    THEN \E n \in DOMAIN subList :
           /\ subList[n] = c /\ subList' = RemoveAt(subList, n)
           /\ CloseIfIdle
    ELSE UNCHANGED <<subList, topic_list, closing>>

Calls(c) == {n \in DOMAIN getList : getList[n].instance = c}

MayQuit(c) == c \in present /\ (gnss.at = c => Quit)

UnsubscribeLocation(c) ==
  /\ MayQuit(c) /\ getList' = getList /\ EndSubscription(c)
  /\ UNCHANGED <<present, gnss, answering, ticker, ref_count, location>>

(* The calls of an instance go, the others stay in their order.            *)
DropCalls(c) ==
  IF Calls(c) = {} THEN getList' = getList
  ELSE \E kept \in [1..(Len(getList) - Cardinality(Calls(c))) ->
                     DOMAIN getList \ Calls(c)] :
         /\ \A i, j \in DOMAIN kept : i < j => kept[i] < kept[j]
         /\ getList' = [i \in DOMAIN kept |-> getList[kept[i]]]

(* onDetached.  A topic opened for the calls of this instance stays open,  *)
(* to be closed by the timer.                                              *)
LocationsDetach(c) ==
  /\ MayQuit(c) /\ (answering = c => Quit)
  /\ present' = present \ {c}
  /\ DropCalls(c)
  /\ EndSubscription(c)
  /\ UNCHANGED <<gnss, answering, ticker, ref_count, location>>

-----------------------------------------------------------------------------
(* gnss_topic_cb *)

GnssBatch(t) ==
  /\ AtRest /\ Contains(topic_list, t)
  /\ \E n \in 1..MaxBatch : gnss' = [NoBatch EXCEPT !.left = n]
  /\ UNCHANGED <<present, getList, subList, topic_list, closing, answering,
                 ticker, ref_count, location>>

(* The end of a sample; closing a topic, whichever, ends the batch.        *)
EndSample ==
  /\ CloseIfIdle
  /\ gnss' = IF MustClose \/ gnss.left = 1 THEN NoBatch
             ELSE [left |-> gnss.left - 1, at |-> NoClient]

(* A sample is at hand, and nobody has heard of it. *)
NewSample == gnss.left > 0 /\ gnss.at = NoClient /\ answering = NoClient

(* A sample without a position. *)
BadSample ==
  /\ NewSample /\ UNCHANGED <<getList, subList, answering>> /\ EndSample
  /\ UNCHANGED <<present, ticker, ref_count, location>>

(* Each sample is passed to the subscribers, beginning with the oldest. *)
CallSubscribers ==
  /\ subList' = subList
  /\ IF subList = <<>> THEN EndSample
     ELSE /\ gnss' = [gnss EXCEPT !.at = Head(subList)]
          /\ UNCHANGED <<topic_list, closing>>

(* The last sample of a batch resolves the oldest call first. *)
Sample ==
  /\ NewSample /\ getList' = getList
  /\ IF gnss.left = 1 /\ getList # <<>>
     THEN /\ answering' = Head(getList).instance
          /\ UNCHANGED <<subList, gnss, topic_list, closing>>
     ELSE answering' = NoClient /\ CallSubscribers
  /\ UNCHANGED <<present, ticker, ref_count, location>>

(* The call that is settled is taken off when its functions return. *)
FrontReturns ==
  /\ answering # NoClient /\ getList # <<>> /\ getList' = Tail(getList)

SampleAnswered ==
  /\ gnss.left > 0 /\ FrontReturns
  /\ answering' = NoClient /\ CallSubscribers
  /\ UNCHANGED <<present, ticker, ref_count, location>>

(* A function returns and the iterator steps to the next subscriber.       *)
SampleReturns ==
  /\ gnss.at # NoClient
  /\ UNCHANGED <<getList, subList>>
  /\ \E n \in DOMAIN subList :
       /\ subList[n] = gnss.at
       /\ IF n = Len(subList) THEN EndSample
          ELSE /\ gnss' = [gnss EXCEPT !.at = subList[n + 1]]
               /\ UNCHANGED <<topic_list, closing>>
  /\ UNCHANGED <<present, answering, ticker, ref_count, location>>

-----------------------------------------------------------------------------
(* The timer, and the end of the prototype *)

TimePasses(r) ==
  /\ \E n \in DOMAIN getList :
       /\ getList[n].pid = r /\ ~getList[n].late
       /\ getList' = [getList EXCEPT ![n].late = TRUE]
  /\ UNCHANGED <<present, subList, topic_list, closing, gnss, answering,
                 ticker, ref_count, location>>

FrontLate == getList' # <<>> /\ Head(getList').late

(* Mutant: closing is left to the samples and to unsubscribe. *)
RejectLate_Only ==
  /\ subList' = subList
  /\ answering' = IF FrontLate THEN Head(getList').instance ELSE NoClient
  /\ UNCHANGED <<topic_list, closing>>

(* The timer rejects the call in front when it is late, and looks no       *)
(* further than the first one that may still wait.                         *)
RejectLate ==
  /\ subList' = subList
  /\ IF FrontLate
     THEN /\ answering' = Head(getList').instance
          /\ UNCHANGED <<topic_list, closing>>
     ELSE answering' = NoClient /\ CloseIfIdle

(* geolocation_timer_handler *)
TimerHandler ==
  /\ AtRest /\ ticker = "running"
  /\ getList' = getList /\ RejectLate
  /\ UNCHANGED <<present, gnss, ticker, ref_count, location>>

TimerAnswered ==
  /\ gnss = NoBatch /\ FrontReturns /\ RejectLate
  /\ UNCHANGED <<present, gnss, ticker, ref_count, location>>

(* onDestroy, when all instances are detached.                             *)
LocationsDestroy ==
  /\ AtRest /\ present = {} /\ ticker = "running"
  /\ ticker' = "closing" /\ getList' = <<>>
  /\ topic_list' = <<>> /\ closing' = closing \cup ToSet(topic_list)
  /\ UNCHANGED <<present, subList, gnss, answering, ref_count, location>>

(* geolocation_timer_close_cb *)
TimerClosed ==
  /\ ticker = "closing" /\ ticker' = "closed" /\ Release
  /\ UNCHANGED <<present, getList, subList, topic_list, closing, gnss,
                 answering>>

LocationsNext ==
  \/ \E t \in GnssTopic : GnssTopicClosed(t) \/ GnssBatch(t)
  \/ \E r \in GetCall, c \in Client : GetLocation(r, c)
  \/ \E c \in Client :
       SubscribeLocation(c) \/ UnsubscribeLocation(c) \/ LocationsDetach(c)
  \/ BadSample \/ Sample \/ SampleAnswered \/ SampleReturns
  \/ \E r \in GetCall : TimePasses(r)
  \/ TimerHandler \/ TimerAnswered \/ LocationsDestroy \/ TimerClosed

LocationsSpec == LocationsInit /\ [][LocationsNext]_loVars

-----------------------------------------------------------------------------
(* Properties *)

LocationsTypeOK ==
  /\ present \subseteq Client
  /\ getList \in Seq(GetMeta) /\ subList \in Seq(Client)
  /\ topic_list \in Seq(GnssTopic) /\ closing \subseteq GnssTopic
  /\ gnss \in [left : 0..MaxBatch, at : Client \cup {NoClient}]
  /\ answering \in Client \cup {NoClient}
  /\ ticker \in {"running", "closing", "closed"}
  /\ ref_count \in Nat /\ location \in {"live", "deleted"}

(* While a call waits or an instance is subscribed a topic is open: of two *)
(* topics left open by a detach only one is closed at a time, by whoever   *)
(* ends the last activity, and never the one the next caller relies on.    *)
TopicForActive == Active => topic_list # <<>>

(* Every getLocation comes to an end, the position never being known: the  *)
(* timer rejects it, although only once those before it are late too.  And *)
(* a topic that nothing needs does not stay open for ever, whatever left   *)
(* it behind.                                                              *)
GetsAndTopicsEnd ==
  /\ \A r \in GetCall : Waiting(r) ~> ~Waiting(r)
  /\ ~Active /\ topic_list # <<>> ~> Active \/ topic_list = <<>>
=============================================================================
