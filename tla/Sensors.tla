------------------------------- MODULE Sensors -------------------------------
(***************************************************************************)
(* system.sensor: the SensorContext of a prototype, shared by its          *)
(* instances.  A sensor has one event for the old methods                  *)
(* (subscribeAccelerometer, ...) and any number of users for the new ones  *)
(* (subscribe, getRecentData).                                             *)
(*                                                                         *)
(* uv_topic calls back on the loop; a topic that is being closed delivers  *)
(* nothing more and ends with its close callback.  The old methods deliver *)
(* a batch of samples by calling the script once for each, which may       *)
(* unsubscribe, subscribe again or let go of the instance in between.      *)
(***************************************************************************)
EXTENDS Naturals

CONSTANTS
  Sensor,
  User,      (* sensorMulti_user_t, made by subscribe or getRecentData.    *)
  Client,    (* Instances of the feature that share the prototype.         *)
  NoClient

ASSUME SensorsAssumption == NoClient \notin Client

VARIABLES
  gone,       (* instances that are detached                               *)
  event,      (* events[]: meta.instance and meta.subscribed of each       *)
  multi,      (* users in the maps of multi_events[]                       *)
  user,       (* each user: its instance, its state, and oneshot.  "stray" *)
              (* is freed with its topic subscribed                        *)
  delivering, (* who is being called and by what, how many samples are     *)
              (* left, and the one-shot user to close after that           *)
  misled      (* history: by what an instance that is gone was called      *)

seVars == <<gone, event, multi, user, delivering, misled>>

NoEvent == [client |-> NoClient, subscribed |-> FALSE]
NoUser == [client |-> NoClient, state |-> "none", oneshot |-> FALSE]
Delivery(c, how, n, closes) ==
  [client |-> c, how |-> how, left |-> n, closes |-> closes]
Nobody == Delivery(NoClient, "nobody", 0, {})

SensorsInit ==
  /\ gone = {} /\ multi = {} /\ delivering = Nobody /\ misled = {}
  /\ event = [s \in Sensor |-> NoEvent]
  /\ user = [u \in User |-> NoUser]

(* Methods are called by the script, from the loop or from a function.     *)
Calls(c) == c \notin gone

(* An instance is used by what goes on here, there or not.                 *)
HeardAs(c, how) == misled' = IF c \in gone THEN misled \cup {how} ELSE misled

-----------------------------------------------------------------------------
(* The old methods *)

(* subscribe: an event that is subscribed gets the new functions and keeps *)
(* its instance, whoever subscribes.                                       *)
SubscribeEvent(s, c) ==
  /\ Calls(c)
  /\ event' = IF event[s].subscribed THEN event
              ELSE [event EXCEPT ![s] = [client |-> c, subscribed |-> TRUE]]
  /\ UNCHANGED <<gone, multi, user, delivering, misled>>

(* unsubscribe of any instance ends the event; the topic may refuse.       *)
UnsubscribeEvent(s, c) ==
  /\ Calls(c)
  /\ event' \in {event, [event EXCEPT ![s].subscribed = FALSE]}
  /\ UNCHANGED <<gone, multi, user, delivering, misled>>

(* sensor_accel_topic_cb and its like: the first sample of a batch.        *)
EventBatch(s) ==
  /\ delivering = Nobody /\ event[s].subscribed
  /\ \E n \in 1..2 : delivering' = Delivery(event[s].client, "event", n, {})
  /\ HeardAs(event[s].client, "event")
  /\ UNCHANGED <<gone, event, multi, user>>

(* The function has returned: the next sample of the batch goes to         *)
(* meta.instance, and after the last one the functions of a one-shot user, *)
(* or complete, are taken from it; a one-shot topic is closed.             *)
NextSample ==
  LET d == delivering
  IN  /\ d.left > 0
      /\ delivering' = IF d.left = 1 THEN Nobody
                       ELSE Delivery(d.client, "rest", d.left - 1, {})
      /\ user' = [u \in User |-> IF u \in d.closes
                     THEN [user[u] EXCEPT !.state = "closing"] ELSE user[u]]
      /\ IF d.left > 1 THEN HeardAs(d.client, "rest")
         ELSE IF d.how \in {"oneshot", "complete"}
           THEN HeardAs(d.client, d.how)
         ELSE UNCHANGED misled
      /\ UNCHANGED <<gone, event, multi>>

-----------------------------------------------------------------------------
(* The new methods *)

(* subscribe; one whose interval is refused frees its user and leaves the  *)
(* topic subscribed that is in it.                                         *)
Subscribe(u, c) ==
  /\ Calls(c) /\ user[u].state = "none"
  /\ \/ /\ user' = [user EXCEPT ![u] =
                      [client |-> c, state |-> "open", oneshot |-> FALSE]]
        /\ multi' = multi \cup {u}
     \/ /\ user' = [user EXCEPT ![u] =
                      [client |-> c, state |-> "stray", oneshot |-> FALSE]]
        /\ UNCHANGED multi
  /\ UNCHANGED <<gone, event, delivering, misled>>

(* A one-shot user is in no map. *)
GetRecentData(u, c) ==
  /\ Calls(c) /\ user[u].state = "none"
  /\ user' = [user EXCEPT ![u] =
                [client |-> c, state |-> "open", oneshot |-> TRUE]]
  /\ UNCHANGED <<gone, event, multi, delivering, misled>>

(* multi_unsubscribe, for the user whose descriptor the script gives.      *)
Unsubscribe(u, c) ==
  /\ Calls(c) /\ u \in multi
  /\ user' = [user EXCEPT ![u].state = "closing"]
  /\ multi' = multi \ {u}
  /\ UNCHANGED <<gone, event, delivering, misled>>

(* sensor_topic_cb calls the function; a one-shot topic is closed after    *)
(* that.                                                                   *)
UserSample(u) ==
  LET how == IF user[u].oneshot THEN "oneshot" ELSE "user"
  IN  /\ delivering = Nobody /\ user[u].state = "open"
      /\ delivering' = Delivery(user[u].client, how, 1,
                                IF user[u].oneshot THEN {u} ELSE {})
      /\ HeardAs(user[u].client, how)
      /\ UNCHANGED <<gone, event, multi, user>>

(* The same for a user that is freed, whose memory still names its         *)
(* instance or anything.                                                   *)
StraySample(u) ==
  /\ delivering = Nobody /\ user[u].state = "stray"
  /\ delivering' \in {Nobody, Delivery(user[u].client, "stray", 1, {})}
  /\ misled' = misled \cup {"stray"}
  /\ UNCHANGED <<gone, event, multi, user>>

(* sensor_topic_close_cb calls complete when there is one and frees the    *)
(* user; subscribe has left meta.complete as the stack had it.             *)
TopicClosed(u) ==
  LET how == IF user[u].oneshot THEN "oneshot" ELSE "complete"
  IN  /\ delivering = Nobody /\ user[u].state = "closing"
      /\ user' = [user EXCEPT ![u].state = "freed"]
      /\ \/ UNCHANGED <<delivering, misled>>
         \/ /\ delivering' = Delivery(user[u].client, how, 1, {})
            /\ HeardAs(user[u].client, how)
      /\ UNCHANGED <<gone, event, multi>>

-----------------------------------------------------------------------------
(* onDetached *)

(* Mutant: an event that is reserved stays subscribed after the page.      *)
LeaveReserved(c) ==
  /\ c \notin gone /\ gone' = gone \cup {c}
  /\ event' \in {event, [s \in Sensor |-> NoEvent]}
  /\ user' = [u \in User |-> IF u \in multi
                THEN [user[u] EXCEPT !.state = "closing"] ELSE user[u]]
  /\ multi' = {}
  /\ UNCHANGED <<delivering, misled>>

(* Everything that is subscribed in the context ends, whoever subscribed   *)
(* it; an event whose topic refuses is given up, and loses its instance.   *)
SensorsDetached(c) ==
  /\ c \notin gone /\ gone' = gone \cup {c}
  /\ event' = [s \in Sensor |-> NoEvent]
  /\ user' = [u \in User |-> IF u \in multi
                THEN [user[u] EXCEPT !.state = "closing"] ELSE user[u]]
  /\ multi' = {}
  /\ UNCHANGED <<delivering, misled>>

SensorsFinished == gone = Client /\ delivering = Nobody /\ UNCHANGED seVars

SensorsNext ==
  \/ \E c \in Client :
       \/ \E s \in Sensor : SubscribeEvent(s, c) \/ UnsubscribeEvent(s, c)
       \/ \E u \in User :
            Subscribe(u, c) \/ GetRecentData(u, c) \/ Unsubscribe(u, c)
       \/ SensorsDetached(c)
  \/ \E s \in Sensor : EventBatch(s)
  \/ \E u \in User : UserSample(u) \/ StraySample(u) \/ TopicClosed(u)
  \/ NextSample \/ SensorsFinished

SensorsSpec == SensorsInit /\ [][SensorsNext]_seVars

-----------------------------------------------------------------------------
(* Properties *)

Callers == {"event", "rest", "user", "oneshot", "stray", "complete"}

SensorsTypeOK ==
  /\ gone \subseteq Client /\ multi \subseteq User
  /\ event \in
       [Sensor -> [client : Client \cup {NoClient}, subscribed : BOOLEAN]]
  /\ user \in [User -> [client : Client \cup {NoClient}, oneshot : BOOLEAN,
                        state : {"none", "open", "closing", "freed", "stray"}]]
  /\ delivering \in [client : Client \cup {NoClient}, left : 0..2,
                     how : Callers \cup {"nobody"}, closes : SUBSET User]
  /\ misled \subseteq Callers

(* An event or a user of the maps never calls an instance that is gone:    *)
(* nothing the context knows of stays subscribed for it, not even an event *)
(* that another instance has taken over (sensor_impl.cpp:997-1015).  One   *)
(* that is gone is called by what the context does not know of, a one-shot *)
(* user or one that is freed with its topic, by the batch its own function *)
(* has left, and by the complete that subscribe leaves unset.              *)
SamplesToLive ==
  /\ misled \cap {"event", "user"} = {}
  /\ \A s \in Sensor : event[s].subscribed => event[s].client \notin gone
  /\ \A u \in multi : user[u].state = "open" /\ user[u].client \notin gone

=============================================================================
