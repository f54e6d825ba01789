------------------------ MODULE Subscriptions_proofs ------------------------
(***************************************************************************)
(* The components that keep subscribers and tell them what happens:        *)
(* Sensors, SystemEvents, SystemSettings, MessageListeners and             *)
(* EventManager, each with its inductive invariants.                       *)
(***************************************************************************)
EXTENDS Sensors, SystemEvents, SystemSettings, MessageListeners, EventManager,
        SequenceLemmas

-----------------------------------------------------------------------------
(***************************************************************************)
(* For any sensors, users and instances: the type invariant and            *)
(* SamplesToLive.  What makes the property inductive is where users can    *)
(* be: an open user is a one-shot one or in the maps that every onDetached *)
(* empties, and who is closed after its function is a one-shot one.        *)
(***************************************************************************)

OpenUsers ==
  /\ \A u \in User :
       /\ user[u].state = "open" => user[u].oneshot \/ u \in multi
       /\ u \in multi => user[u].state = "open" /\ ~user[u].oneshot
  /\ \A u \in delivering.closes : user[u].oneshot /\ user[u].state # "none"

SensorsInv == SensorsTypeOK /\ SamplesToLive /\ OpenUsers

LEMMA SensorsInvInit == SensorsInit => SensorsInv
BY SensorsAssumption
DEF SensorsInit, SensorsInv, SensorsTypeOK, SamplesToLive, OpenUsers, NoEvent,
    NoUser, Nobody, Delivery

(* The old methods, from the script: an event takes an instance that is    *)
(* there.                                                                  *)
LEMMA SensorsInvEvents ==
  ASSUME SensorsInv, NEW s \in Sensor, NEW c \in Client,
         SubscribeEvent(s, c) \/ UnsubscribeEvent(s, c)
  PROVE  SensorsInv'
<1>1. /\ UNCHANGED <<gone, multi, user, delivering, misled>>
      /\ event' \in {event, [event EXCEPT ![s].subscribed = FALSE],
                    [event EXCEPT ![s] = [client |-> c, subscribed |-> TRUE]]}
      /\ c \notin gone \/ event'[s] = event[s]
  BY DEF SubscribeEvent, UnsubscribeEvent, Calls
<1>2. event' \in [Sensor -> [client : Client \cup {NoClient}, subscribed : BOOLEAN]]
  <2>1. /\ [event EXCEPT ![s].subscribed = FALSE] =
             [event EXCEPT ![s] = [@ EXCEPT !.subscribed = FALSE]]
        /\ event \in [Sensor -> [client : Client \cup {NoClient}, subscribed : BOOLEAN]]
    BY DEF SensorsInv, SensorsTypeOK
  <2>2. CASE event' = [event EXCEPT ![s].subscribed = FALSE]
    BY <2>1, <2>2
  <2>3. CASE event' = [event EXCEPT ![s] = [client |-> c, subscribed |-> TRUE]]
    BY <2>1, <2>3
  <2> QED BY <1>1, <2>1, <2>2, <2>3
<1>3. ASSUME NEW r \in Sensor, event'[r].subscribed
      PROVE  event'[r].client \notin gone
  <2>1. event[r].subscribed => event[r].client \notin gone
    BY DEF SensorsInv, SamplesToLive
  <2>2. event'[r] \in {event[r], [event[r] EXCEPT !.subscribed = FALSE]}
        \/ (event'[r].client = c /\ c \notin gone)
    BY <1>1 DEF SensorsInv, SensorsTypeOK, SubscribeEvent, UnsubscribeEvent, Calls
  <2>3. event[r] \in [client : Client \cup {NoClient}, subscribed : BOOLEAN]
    BY DEF SensorsInv, SensorsTypeOK
  <2> QED BY <1>3, <2>1, <2>2, <2>3
<1> QED BY <1>1, <1>2, <1>3 DEF SensorsInv, SensorsTypeOK, SamplesToLive, OpenUsers

(* What a delivery may leave in the history.                               *)
LEMMA UsesMisleads ==
  ASSUME NEW c, NEW how \in Callers, misled \subseteq Callers, HeardAs(c, how)
  PROVE  /\ misled' \subseteq Callers
         /\ misled' \subseteq misled \cup {how}
         /\ c \notin gone => misled' = misled
BY DEF HeardAs

(* A batch is for the instance of a subscribed event; what follows its     *)
(* first sample may come too late.                                         *)
LEMMA SensorsInvBatch ==
  ASSUME SensorsInv, NEW s \in Sensor, EventBatch(s)
  PROVE  SensorsInv'
<1>1. PICK n \in 1..2 : delivering' = Delivery(event[s].client, "event", n, {})
  BY DEF EventBatch
<1>2. UNCHANGED <<gone, event, multi, user>> /\ event[s].client \notin gone
  BY DEF EventBatch, SensorsInv, SamplesToLive
<1>3. misled' = misled
  BY <1>2 DEF EventBatch, HeardAs
<1>4. delivering' \in [client : Client \cup {NoClient}, left : 0..2,
                      how : Callers \cup {"nobody"}, closes : SUBSET User]
      /\ delivering'.closes = {}
  <2>1. event[s].client \in Client \cup {NoClient} /\ n \in 0..2
    BY DEF SensorsInv, SensorsTypeOK
  <2> QED BY <1>1, <2>1 DEF Delivery, Callers
<1> QED BY <1>2, <1>3, <1>4 DEF SensorsInv, SensorsTypeOK, SamplesToLive, OpenUsers

LEMMA SensorsInvNext ==
  ASSUME SensorsInv, NextSample
  PROVE  SensorsInv'
<1>1. PICK d : d = delivering
  OBVIOUS
<1>2. /\ d \in [client : Client \cup {NoClient}, left : 0..2,
                how : Callers \cup {"nobody"}, closes : SUBSET User]
      /\ \A u \in d.closes : user[u].oneshot /\ user[u].state # "none"
  BY <1>1 DEF SensorsInv, SensorsTypeOK, OpenUsers
<1>3. /\ d.left > 0 /\ UNCHANGED <<gone, event, multi>>
      /\ delivering' = IF d.left = 1 THEN Nobody
                       ELSE Delivery(d.client, "rest", d.left - 1, {})
      /\ user' = [u \in User |-> IF u \in d.closes
                     THEN [user[u] EXCEPT !.state = "closing"] ELSE user[u]]
  BY <1>1 DEF NextSample
<1>4. misled' \subseteq Callers /\ misled' \cap {"event", "user"} = {}
  BY <1>1 DEF NextSample, HeardAs, SensorsInv, SensorsTypeOK, SamplesToLive, Callers
<1>5. delivering' \in [client : Client \cup {NoClient}, left : 0..2,
                      how : Callers \cup {"nobody"}, closes : SUBSET User]
      /\ delivering'.closes = {}
  <2>1. CASE d.left = 1
    BY <1>3, <2>1 DEF Nobody, Delivery
  <2>2. CASE d.left # 1
    <3>1. d.left - 1 \in 0..2
      BY <1>2, <1>3
    <3>2. PICK n \in 0..2 : n = d.left - 1
      BY <3>1
    <3>3. delivering' = Delivery(d.client, "rest", n, {})
      BY <1>3, <2>2, <3>2
    <3> QED BY <1>2, <3>3 DEF Delivery, Callers
  <2> QED BY <2>1, <2>2
<1>6. \A u \in User :
        /\ user'[u] = IF u \in d.closes
                      THEN [user[u] EXCEPT !.state = "closing"] ELSE user[u]
        /\ user[u] \in [client : Client \cup {NoClient}, oneshot : BOOLEAN,
                        state : {"none", "open", "closing", "freed", "stray"}]
        /\ u \in multi => u \notin d.closes
  BY <1>2, <1>3 DEF SensorsInv, SensorsTypeOK, OpenUsers
<1>7. user' \in [User -> [client : Client \cup {NoClient}, oneshot : BOOLEAN,
                         state : {"none", "open", "closing", "freed", "stray"}]]
  BY <1>3, <1>6
<1>8. SensorsTypeOK'
  BY <1>3, <1>4, <1>5, <1>7 DEF SensorsInv, SensorsTypeOK
<1>9. SamplesToLive'
  <2>1. \A u \in multi : u \in User /\ user'[u] = user[u]
    BY <1>6 DEF SensorsInv, SensorsTypeOK
  <2>2. \A u \in multi : user'[u].state = "open" /\ user'[u].client \notin gone
    BY <2>1 DEF SensorsInv, SamplesToLive
  <2>3. gone' = gone /\ event' = event /\ multi' = multi
    BY <1>3
  <2> QED BY <1>4, <2>2, <2>3 DEF SensorsInv, SamplesToLive
<1>10. OpenUsers'
  <2>1. \A u \in User :
          /\ user'[u].state = "open" => user'[u] = user[u]
          /\ u \in multi => user'[u] = user[u]
    BY <1>6
  <2> QED BY <1>3, <1>5, <2>1 DEF SensorsInv, OpenUsers
<1> QED BY <1>8, <1>9, <1>10 DEF SensorsInv

(* The new methods, from the script. *)
LEMMA SensorsInvUsers ==
  ASSUME SensorsInv, NEW u \in User, NEW c \in Client,
         Subscribe(u, c) \/ GetRecentData(u, c) \/ Unsubscribe(u, c)
  PROVE  SensorsInv'
<1> USE DEF SensorsInv, SensorsTypeOK
<1>1. CASE Subscribe(u, c)
  <2>1. CASE /\ user' = [user EXCEPT ![u] =
                           [client |-> c, state |-> "open", oneshot |-> FALSE]]
             /\ multi' = multi \cup {u}
    BY <1>1, <2>1 DEF Subscribe, Calls, SamplesToLive, OpenUsers
  <2>2. CASE /\ user' = [user EXCEPT ![u] =
                           [client |-> c, state |-> "stray", oneshot |-> FALSE]]
             /\ UNCHANGED multi
    BY <1>1, <2>2 DEF Subscribe, Calls, SamplesToLive, OpenUsers
  <2> QED BY <1>1, <2>1, <2>2 DEF Subscribe
<1>2. CASE GetRecentData(u, c)
  BY <1>2 DEF GetRecentData, Calls, SamplesToLive, OpenUsers
<1>3. CASE Unsubscribe(u, c)
  BY <1>3 DEF Unsubscribe, SamplesToLive, OpenUsers
<1> QED BY <1>1, <1>2, <1>3

(* What calls an instance from the topic of a user.                        *)
LEMMA DeliveryTyped ==
  ASSUME SensorsTypeOK, NEW u \in User, NEW how \in Callers, NEW k \in SUBSET User
  PROVE  Delivery(user[u].client, how, 1, k) \in
           [client : Client \cup {NoClient}, left : 0..2,
            how : Callers \cup {"nobody"}, closes : SUBSET User]
<1>1. user[u].client \in Client \cup {NoClient} /\ 1 \in 0..2
  BY DEF SensorsTypeOK
<1> QED BY <1>1 DEF Delivery

(* A sample of a user in the maps finds its instance.                      *)
LEMMA SensorsInvSample ==
  ASSUME SensorsInv, NEW u \in User, UserSample(u)
  PROVE  SensorsInv'
<1>1. PICK how \in Callers, k \in SUBSET User :
        /\ delivering' = Delivery(user[u].client, how, 1, k)
        /\ HeardAs(user[u].client, how)
        /\ how = IF user[u].oneshot THEN "oneshot" ELSE "user"
        /\ k = IF user[u].oneshot THEN {u} ELSE {}
  BY DEF UserSample, Callers
<1>2. UNCHANGED <<gone, event, multi, user>> /\ user[u].state = "open"
  BY DEF UserSample
<1>3. /\ misled' \subseteq Callers
      /\ misled' \subseteq misled \cup {how}
      /\ user[u].client \notin gone => misled' = misled
  BY <1>1, UsesMisleads DEF SensorsInv, SensorsTypeOK
<1>4. misled' \cap {"event", "user"} = {}
  <2>1. CASE user[u].oneshot
    BY <1>1, <1>3, <2>1 DEF SensorsInv, SamplesToLive
  <2>2. CASE ~user[u].oneshot
    BY <1>2, <1>3, <2>2 DEF SensorsInv, SamplesToLive, OpenUsers
  <2> QED BY <2>1, <2>2
<1>5. SensorsTypeOK'
  BY <1>1, <1>2, <1>3, DeliveryTyped DEF SensorsInv, SensorsTypeOK
<1>6. SamplesToLive'
  BY <1>2, <1>4 DEF SensorsInv, SamplesToLive
<1>7. delivering'.closes = k
  BY <1>1 DEF Delivery
<1>8. OpenUsers'
  BY <1>1, <1>2, <1>7 DEF SensorsInv, OpenUsers
<1> QED BY <1>5, <1>6, <1>8 DEF SensorsInv

(* A topic whose user is freed, and the close callback of one.             *)
LEMMA SensorsInvTopics ==
  ASSUME SensorsInv, NEW u \in User, StraySample(u) \/ TopicClosed(u)
  PROVE  SensorsInv'
<1>1. PICK how \in {"stray", "oneshot", "complete"} :
        /\ delivering' \in {delivering, Nobody, Delivery(user[u].client, how, 1, {})}
        /\ misled' \subseteq misled \cup {how}
        /\ UNCHANGED <<gone, event, multi>>
        /\ delivering = Nobody
  BY DEF StraySample, TopicClosed, HeardAs
<1>2. /\ user[u].state \in {"stray", "closing"}
      /\ user' \in {user, [user EXCEPT ![u].state = "freed"]}
  BY DEF StraySample, TopicClosed
<1>3. misled' \subseteq Callers /\ misled' \cap {"event", "user"} = {}
  BY <1>1 DEF SensorsInv, SensorsTypeOK, SamplesToLive, Callers
<1>4. delivering' \in [client : Client \cup {NoClient}, left : 0..2,
                      how : Callers \cup {"nobody"}, closes : SUBSET User]
      /\ delivering'.closes = {}
  <2>1. Delivery(user[u].client, how, 1, {}).closes = {} /\ Nobody.closes = {}
        /\ how \in Callers
    BY DEF Delivery, Nobody, Callers
  <2>2. Delivery(user[u].client, how, 1, {}) \in
          [client : Client \cup {NoClient}, left : 0..2,
           how : Callers \cup {"nobody"}, closes : SUBSET User]
    BY <2>1, DeliveryTyped DEF SensorsInv
  <2>3. delivering \in [client : Client \cup {NoClient}, left : 0..2,
                       how : Callers \cup {"nobody"}, closes : SUBSET User]
    BY DEF SensorsInv, SensorsTypeOK
  <2> QED BY <1>1, <2>1, <2>2, <2>3
<1>5. u \notin multi
  BY <1>2 DEF SensorsInv, OpenUsers
<1>6. /\ user' \in [User -> [client : Client \cup {NoClient}, oneshot : BOOLEAN,
                         state : {"none", "open", "closing", "freed", "stray"}]]
      /\ \A v \in User \ {u} : user'[v] = user[v]
      /\ user'[u].state # "open"
  BY <1>2 DEF SensorsInv, SensorsTypeOK
<1>7. SensorsTypeOK'
  BY <1>1, <1>3, <1>4, <1>6 DEF SensorsInv, SensorsTypeOK
<1>8. SamplesToLive'
  BY <1>1, <1>3, <1>5, <1>6 DEF SensorsInv, SensorsTypeOK, SamplesToLive
<1>9. OpenUsers'
  BY <1>1, <1>4, <1>5, <1>6 DEF SensorsInv, OpenUsers
<1> QED BY <1>7, <1>8, <1>9 DEF SensorsInv

(* onDetached: only users that were in the maps are still to be closed.    *)
LEMMA SensorsInvDetached ==
  ASSUME SensorsInv, NEW c \in Client, SensorsDetached(c)
  PROVE  SensorsInv'
<1> USE DEF SensorsInv, SensorsTypeOK
<1>1. /\ gone' = gone \cup {c} /\ multi' = {} /\ delivering' = delivering
      /\ misled' = misled /\ event' = [s \in Sensor |-> NoEvent]
      /\ user' = [u \in User |-> IF u \in multi
                    THEN [user[u] EXCEPT !.state = "closing"] ELSE user[u]]
  BY DEF SensorsDetached
<1>2. SensorsTypeOK'
  <2>1. gone' \subseteq Client /\ multi' \subseteq User
    BY <1>1
  <2>2. event' \in
          [Sensor -> [client : Client \cup {NoClient}, subscribed : BOOLEAN]]
    BY <1>1 DEF NoEvent
  <2>3. user' \in
          [User -> [client : Client \cup {NoClient}, oneshot : BOOLEAN,
                    state : {"none", "open", "closing", "freed", "stray"}]]
    BY <1>1
  <2>4. /\ delivering' \in
              [client : Client \cup {NoClient}, left : 0..2,
               how : Callers \cup {"nobody"}, closes : SUBSET User]
        /\ misled' \subseteq Callers
    BY <1>1
  <2> QED BY <2>1, <2>2, <2>3, <2>4
<1>3. SamplesToLive'
  BY <1>1 DEF SamplesToLive, NoEvent
<1>4. OpenUsers'
  BY <1>1 DEF OpenUsers
<1> QED BY <1>2, <1>3, <1>4

LEMMA SensorsInvStep ==
  ASSUME SensorsInv, [SensorsNext]_seVars
  PROVE  SensorsInv'
<1>1. CASE UNCHANGED seVars
  BY <1>1 DEF seVars, SensorsInv, SensorsTypeOK, SamplesToLive, OpenUsers
<1>2. ASSUME NEW c \in Client, NEW s \in Sensor,
             SubscribeEvent(s, c) \/ UnsubscribeEvent(s, c)
      PROVE  SensorsInv'
  BY <1>2, SensorsInvEvents
<1>3. ASSUME NEW c \in Client, NEW u \in User,
             Subscribe(u, c) \/ GetRecentData(u, c) \/ Unsubscribe(u, c)
      PROVE  SensorsInv'
  BY <1>3, SensorsInvUsers
<1>4. ASSUME NEW c \in Client, SensorsDetached(c) PROVE SensorsInv'
  BY <1>4, SensorsInvDetached
<1>5. ASSUME NEW s \in Sensor, EventBatch(s) PROVE SensorsInv'
  BY <1>5, SensorsInvBatch
<1>6. CASE NextSample
  BY <1>6, SensorsInvNext
<1>7. ASSUME NEW u \in User, UserSample(u) \/ StraySample(u) \/ TopicClosed(u)
      PROVE  SensorsInv'
  BY <1>7, SensorsInvSample, SensorsInvTopics
<1> QED
  BY <1>1, <1>2, <1>3, <1>4, <1>5, <1>6, <1>7 DEF SensorsNext, SensorsFinished
-----------------------------------------------------------------------------
LEMMA SensorsInvariant == SensorsSpec => []SensorsInv
<1>1. SensorsInv /\ [SensorsNext]_seVars => SensorsInv'
  BY SensorsInvStep
<1> QED BY <1>1, SensorsInvInit, PTL DEF SensorsSpec

(* The state of the SensorContext has its types (sensor_impl.cpp).         *)
THEOREM SensorsTypesHold == SensorsSpec => []SensorsTypeOK
<1>1. SensorsInv => SensorsTypeOK
  BY DEF SensorsInv
<1> QED BY <1>1, SensorsInvariant, PTL

(* What the context knows of calls no instance that is detached, however   *)
(* the script of one instance subscribes and unsubscribes what another one *)
(* has, whenever an instance leaves and whatever uv_topic refuses          *)
(* (sensor_accel_topic_cb, sensor_topic_cb and the module's onDetached).   *)
THEOREM SensorsReachLiveOnly == SensorsSpec => []SamplesToLive
<1>1. SensorsInv => SamplesToLive
  BY DEF SensorsInv
<1> QED BY <1>1, SensorsInvariant, PTL

-----------------------------------------------------------------------------
(***************************************************************************)
(* The counts publish asks for never fall below the subscriptions there    *)
(* are.                                                                    *)
(***************************************************************************)

(* The subscriptions to a name, of all instances. *)
To(n) == {s \in subs : s.name = n}

(* A count is not exact: what removeSubscribe ends stays in it.  So it     *)
(* bounds the subscriptions from above, and what a detach takes off is     *)
(* counted in it.                                                          *)
CountsInv ==
  /\ IsFiniteSet(subs) /\ \A s \in subs : s.name \in EventName
  /\ counts \in [EventName -> Int]
  /\ \A n \in EventName : Cardinality(To(n)) <= counts[n]

LEMMA ToFinite ==
  ASSUME CountsInv, NEW n \in EventName
  PROVE  IsFiniteSet(To(n)) /\ Cardinality(To(n)) \in Nat
  BY FS_Subset, FS_CardinalityType DEF CountsInv, To

(* A subscription is one more, for its name. *)
LEMMA SubscribeKeepsCounts ==
  ASSUME CountsInv, NEW c \in Subscriber, NEW n \in EventName,
         SubscribeName(c, n)
  PROVE  CountsInv'
<1> DEFINE new == [id |-> lastId + 1, by |-> c, name |-> n]
<1>1. subs' = subs \cup {new} /\ IsFiniteSet(subs')
  BY FS_AddElement DEF CountsInv, SubscribeName
<1>2. counts' \in [EventName -> Int] /\ \A s \in subs' : s.name \in EventName
  BY <1>1 DEF CountsInv, SubscribeName
<1>3. ASSUME NEW m \in EventName PROVE Cardinality(To(m)') <= counts'[m]
  <2>1. CASE m = n
    <3>1. To(m)' = To(m) \cup {new}  BY <1>1, <2>1 DEF To
    <3>2. Cardinality(To(m) \cup {new}) = Cardinality(To(m)) \/
          Cardinality(To(m) \cup {new}) = Cardinality(To(m)) + 1
      BY ToFinite, FS_AddElement
    <3>3. counts'[m] = counts[m] + 1 /\ counts[m] \in Int
      BY <2>1 DEF SubscribeName, CountsInv
    <3>4. Cardinality(To(m)) <= counts[m]  BY DEF CountsInv
    <3> QED BY <3>1, <3>2, <3>3, <3>4, ToFinite
  <2>2. CASE m # n
    <3>1. To(m)' = To(m)  BY <1>1, <2>2 DEF To
    <3>2. counts'[m] = counts[m]  BY <2>2 DEF SubscribeName, CountsInv
    <3> QED BY <3>1, <3>2 DEF CountsInv
  <2> QED BY <2>1, <2>2
<1> QED BY <1>1, <1>2, <1>3 DEF CountsInv

(* The end of one subscription leaves the counts. *)
LEMMA RemoveKeepsCounts ==
  ASSUME CountsInv, NEW c \in Subscriber, NEW k \in 1..MaxSubs,
         RemoveSubscribe(c, k)
  PROVE  CountsInv'
<1>1. subs' \subseteq subs /\ counts' = counts  BY DEF RemoveSubscribe
<1>2. IsFiniteSet(subs')  BY <1>1, FS_Subset DEF CountsInv
<1>3. ASSUME NEW n \in EventName PROVE Cardinality(To(n)') <= counts'[n]
  <2>1. To(n)' \subseteq To(n)  BY <1>1 DEF To
  <2>2. Cardinality(To(n)') \in Nat /\ Cardinality(To(n)') <= Cardinality(To(n))
    BY <2>1, ToFinite, FS_Subset, FS_CardinalityType
  <2>3. Cardinality(To(n)) <= counts[n] /\ counts[n] \in Int  BY DEF CountsInv
  <2> QED BY <1>1, <2>2, <2>3, ToFinite
<1> QED BY <1>1, <1>2, <1>3 DEF CountsInv

(* A detach takes off a count what it ends of the name. *)
LEMMA DetachKeepsCounts ==
  ASSUME CountsInv, NEW c \in Subscriber, SystemEventsDetach(c)
  PROVE  CountsInv'
<1>1. subs' = {s \in subs : s.by # c}  BY DEF SystemEventsDetach
<1>2. IsFiniteSet(subs')  BY <1>1, FS_Subset DEF CountsInv
<1>3. ASSUME NEW n \in EventName
      PROVE  /\ counts'[n] = counts[n] - Cardinality(Listed(c, n))
             /\ Listed(c, n) \subseteq To(n)
             /\ IsFiniteSet(Listed(c, n))
             /\ Cardinality(Listed(c, n)) \in Nat
  <2>1. Listed(c, n) \subseteq To(n)  BY DEF Listed, To
  <2> QED BY <2>1, ToFinite, FS_Subset, FS_CardinalityType
          DEF SystemEventsDetach
<1>4. ASSUME NEW n \in EventName PROVE Cardinality(To(n)') <= counts'[n]
  <2>1. To(n)' = To(n) \ Listed(c, n)  BY <1>1 DEF To, Listed
  <2>2. Cardinality(To(n) \ Listed(c, n))
          = Cardinality(To(n)) - Cardinality(To(n) \cap Listed(c, n))
    BY ToFinite, FS_Difference
  <2>3. To(n) \cap Listed(c, n) = Listed(c, n)  BY <1>3
  <2>4. Cardinality(To(n)) <= counts[n] /\ counts[n] \in Int  BY DEF CountsInv
  <2> QED BY <1>3, <2>1, <2>2, <2>3, <2>4, ToFinite
<1>5. counts' \in [EventName -> Int]
  <2>1. counts' = [n \in EventName |-> counts[n] - Cardinality(Listed(c, n))]
    BY DEF SystemEventsDetach
  <2>2. \A n \in EventName : counts[n] - Cardinality(Listed(c, n)) \in Int
    BY <1>3 DEF CountsInv
  <2> QED BY <2>1, <2>2
<1> QED BY <1>1, <1>2, <1>4, <1>5 DEF CountsInv

LEMMA InitCounts == SystemEventsInit => CountsInv
<1> SUFFICES ASSUME SystemEventsInit PROVE CountsInv
  OBVIOUS
<1>1. \A n \in EventName : To(n) = {}  BY DEF To, SystemEventsInit
<1> QED BY <1>1, FS_EmptySet DEF CountsInv, SystemEventsInit

LEMMA StepCounts == CountsInv /\ [SystemEventsNext]_syVars => CountsInv'
<1> SUFFICES ASSUME CountsInv, [SystemEventsNext]_syVars PROVE CountsInv'
  OBVIOUS
<1>1. ASSUME NEW c \in Subscriber, SystemEventsDetach(c) PROVE CountsInv'
  BY <1>1, DetachKeepsCounts
<1>2. ASSUME NEW c \in Subscriber, NEW n \in EventName, SubscribeName(c, n)
      PROVE  CountsInv'
  BY <1>2, SubscribeKeepsCounts
<1>3. ASSUME NEW c \in Subscriber, NEW k \in 1..MaxSubs, RemoveSubscribe(c, k)
      PROVE  CountsInv'
  BY <1>3, RemoveKeepsCounts
<1>4. ASSUME UNCHANGED <<subs, counts>> PROVE CountsInv'
  BY <1>4 DEF CountsInv, To
<1>5. ASSUME NEW c \in Subscriber, Turn(c) PROVE CountsInv'
  BY <1>4, <1>5 DEF Turn
<1>6. ASSUME NEW n \in EventName, SampleComes(n) PROVE CountsInv'
  BY <1>4, <1>6 DEF SampleComes
<1>7. CASE EventReturns \/ SampleEnds \/ UNCHANGED syVars
  BY <1>4, <1>7 DEF EventReturns, SampleEnds, syVars
<1> QED BY <1>1, <1>2, <1>3, <1>5, <1>6, <1>7 DEF SystemEventsNext

(* A name with a subscription has a count above zero. *)
LEMMA CountsReach == CountsInv => PublishReaches
<1> SUFFICES ASSUME CountsInv, NEW s \in subs PROVE counts[s.name] > 0
  BY DEF PublishReaches, EventSubscribed
<1>1. s.name \in EventName /\ s \in To(s.name)  BY DEF CountsInv, To
<1>2. Cardinality(To(s.name)) # 0
  BY <1>1, ToFinite, FS_EmptySet
<1>3. Cardinality(To(s.name)) <= counts[s.name] /\ counts[s.name] \in Int
  BY <1>1 DEF CountsInv
<1> QED BY <1>1, <1>2, <1>3, ToFinite

(* isEventSubscribed says yes for every name an instance is subscribed to: *)
(* publish is not refused while somebody listens, whoever ended or lost    *)
(* subscriptions before, for every number of instances and names.          *)
THEOREM SystemEventsReach == SystemEventsSpec => []PublishReaches
<1>1. SystemEventsInit => CountsInv  BY InitCounts
<1>2. CountsInv /\ [SystemEventsNext]_syVars => CountsInv'  BY StepCounts
<1>3. CountsInv => PublishReaches  BY CountsReach
<1> QED BY <1>1, <1>2, <1>3, PTL DEF SystemEventsSpec

LEMMA BehindFirst ==
  ASSUME NEW ids \in SUBSET Nat, NEW k \in Nat
  PROVE  /\ Behind(k, ids) = 0 =>
              \A i \in ids : i > k => i = 0
         /\ Behind(k, ids) # 0 => /\ Behind(k, ids) \in ids
                                  /\ Behind(k, ids) > k
                                  /\ \A i \in ids : i > k => Behind(k, ids) <= i
<1> DEFINE later == {j \in ids : j > k}
<1>1. CASE later = {}
  BY <1>1 DEF Behind
<1>2. CASE later # {}
  <2>1. \E m \in later : \A i \in later : m <= i
    BY <1>2, LeastExists
  <2>2. Behind(k, ids) = CHOOSE m \in later : \A i \in later : m <= i
    BY <1>2 DEF Behind
  <2>3. Behind(k, ids) \in later /\ \A i \in later : Behind(k, ids) <= i
    BY <2>1, <2>2
  <2> QED BY <2>3
<1> QED BY <1>1, <1>2

(* The subscription that is called is the last one called in this turn,    *)
(* all that stand up to it were called, and what was saved as the next is  *)
(* the first of those that stand behind it.  When nothing was saved the    *)
(* turn ends with this function, whoever has subscribed since.             *)
TurnInv ==
  /\ sample.by = NoSubscriber => sample.heard = <<>>
  /\ sample.by # NoSubscriber =>
       /\ sample.heard # <<>>
       /\ sample.at = sample.heard[Len(sample.heard)]
       /\ sample.next # 0 => sample.next > sample.at
       /\ \A k \in List(sample.by, sample.name) :
            /\ k <= sample.at => \E m \in 1..Len(sample.heard) : sample.heard[m] = k
            /\ k > sample.at /\ sample.next # 0 => sample.next <= k

Increasing(s) == \A m, n \in 1..Len(s) : m < n => s[m] < s[n]

HeardInv ==
  /\ SystemEventsTypeOK /\ \A s \in subs : s.id <= lastId
  /\ sample.at <= lastId /\ sample.next <= lastId
  /\ TurnInv /\ Increasing(sample.heard)

LEMMA HeardInvInit == SystemEventsInit => HeardInv
<1> SUFFICES ASSUME SystemEventsInit PROVE HeardInv
  OBVIOUS
<1>1. (CHOOSE n \in EventName : TRUE) \in EventName
  BY SystemEventsAssumption
<1>2. sample = NoSample(CHOOSE n \in EventName : TRUE)
  BY DEF SystemEventsInit, Idle
<1>3. SystemEventsTypeOK
  BY <1>1, <1>2, SystemEventsAssumption
  DEF SystemEventsInit, SystemEventsTypeOK, NoSample
<1>4. sample.by = NoSubscriber /\ sample.heard = <<>>
  BY <1>2 DEF NoSample
<1> QED
  BY <1>2, <1>3, <1>4
  DEF SystemEventsInit, HeardInv, TurnInv, Increasing, NoSample

(* Appending the call of k, the first behind those called.                 *)
LEMMA CallKeepsOrder ==
  ASSUME HeardInv, NEW c \in Subscriber, NEW k \in 1..MaxSubs, k <= lastId,
         UNCHANGED <<members, subs, lastId, counts>>,
         Call(c, k),
         \A m \in 1..Len(sample.heard) : sample.heard[m] < k,
         \A j \in List(c, sample.name) :
           j < k => \E m \in 1..Len(sample.heard) : sample.heard[m] = j
  PROVE  HeardInv'
<1> DEFINE next == Behind(k, List(c, sample.name))
           heard == Append(sample.heard, k)
<1>1. sample' = [sample EXCEPT !.by = c, !.visited = @ \cup {c}, !.at = k,
                   !.next = next, !.heard = heard]
  <2>1. k # 0
    BY SystemEventsAssumption
  <2> QED BY <2>1 DEF Call
<1>2. /\ sample.heard \in Seq(1..MaxSubs) /\ heard \in Seq(1..MaxSubs)
      /\ Len(heard) = Len(sample.heard) + 1 /\ heard[Len(heard)] = k
      /\ \A m \in 1..Len(sample.heard) : heard[m] = sample.heard[m]
      /\ Len(sample.heard) \in Nat
  <2>1. sample.heard \in Seq(1..MaxSubs)
    BY DEF HeardInv, SystemEventsTypeOK
  <2> QED BY <2>1, AppendProperties, LenProperties
<1>3. List(c, sample.name) \subseteq 1..lastId
  BY DEF HeardInv, SystemEventsTypeOK, Subscription, List, Listed
<1>4. lastId \in Nat /\ lastId <= MaxSubs /\ MaxSubs \in Nat
  BY SystemEventsAssumption DEF HeardInv, SystemEventsTypeOK
<1>5. /\ next \in 0..lastId
      /\ next # 0 => next > k
      /\ \A j \in List(c, sample.name) : j > k /\ next # 0 => next <= j
  <2>1. List(c, sample.name) \in SUBSET Nat
    BY <1>3
  <2> DEFINE ids == List(c, sample.name)
  <2> HIDE DEF ids
  <2>4. k \in Nat /\ ids \in SUBSET Nat /\ next = Behind(k, ids)
    BY <2>1 DEF ids
  <2>2. next # 0 => next \in List(c, sample.name)
    BY <2>4, BehindFirst DEF ids
  <2>3. next # 0 => next > k /\ \A j \in List(c, sample.name) : j > k => next <= j
    BY <2>4, BehindFirst DEF ids
  <2> QED BY <1>3, <1>4, <2>2, <2>3
<1> HIDE DEF next, heard
<1>6. sample \in [name : EventName, there : SUBSET Subscriber,
                  visited : SUBSET Subscriber,
                  by : Subscriber \cup {NoSubscriber},
                  at : 0..MaxSubs, next : 0..MaxSubs, heard : Seq(1..MaxSubs)]
  BY DEF HeardInv, SystemEventsTypeOK
<1>7. /\ sample'.name = sample.name /\ sample'.by = c /\ sample'.at = k
      /\ sample'.next = next /\ sample'.heard = heard
  BY <1>1, <1>6
<1>8. SystemEventsTypeOK'
  <2>1. next \in 0..MaxSubs /\ k \in 0..MaxSubs
    BY <1>4, <1>5
  <2>2. sample' \in [name : EventName, there : SUBSET Subscriber,
                  visited : SUBSET Subscriber,
                  by : Subscriber \cup {NoSubscriber},
                  at : 0..MaxSubs, next : 0..MaxSubs, heard : Seq(1..MaxSubs)]
    BY <1>1, <1>2, <1>6, <2>1
  <2> QED BY <2>2 DEF HeardInv, SystemEventsTypeOK
<1>9. Increasing(heard)
  BY <1>2, SMTT(20) DEF Increasing, HeardInv
<1>10. TurnInv'
  <2>1. c # NoSubscriber
    BY SystemEventsAssumption
  <2>2. heard # <<>>
    BY <1>2
  <2>3. ASSUME NEW j \in List(c, sample.name)
        PROVE  j <= k => \E m \in 1..Len(heard) : heard[m] = j
    <3>1. CASE j = k
      <4>1. Len(heard) \in 1..Len(heard)
        BY <1>2
      <4> QED BY <1>2, <3>1, <4>1
    <3>2. CASE j < k
      <4>1. PICK m \in 1..Len(sample.heard) : sample.heard[m] = j
        BY <3>2
      <4>2. m \in 1..Len(heard) /\ heard[m] = j
        BY <1>2, <4>1
      <4> QED BY <4>2
    <3>3. j \in Nat
      BY <1>3
    <3> QED BY <3>1, <3>2, <3>3
  <2>4. subs' = subs
    OBVIOUS
  <2>5. List(sample.by, sample.name)' = List(c, sample.name)
    BY <1>7, <2>4 DEF List, Listed
  <2> QED BY <2>5, <1>2, <1>5, <1>7, <2>1, <2>2, <2>3, <2>4 DEF TurnInv
<1> QED
  BY <1>4, <1>5, <1>7, <1>8, <1>9, <1>10 DEF HeardInv

(* A turn begins with the first subscription of its instance, or its       *)
(* function returns.                                                       *)
LEMMA TurnKeepsOrder ==
  ASSUME HeardInv, NEW c \in Subscriber, Turn(c) PROVE HeardInv'
<1> DEFINE ids == List(c, sample.name)
           k == Behind(0, ids)
<1>1. CASE sample' = [sample EXCEPT !.visited = @ \cup {c}]
  <2>1. UNCHANGED <<members, subs, lastId, counts>> /\ sample.by = NoSubscriber
    BY DEF Turn
  <2>2. /\ sample'.name = sample.name /\ sample'.by = sample.by
        /\ sample'.heard = sample.heard /\ sample'.at = sample.at
        /\ sample'.next = sample.next
        /\ SystemEventsTypeOK'
    BY <1>1, <2>1 DEF HeardInv, SystemEventsTypeOK
  <2> QED BY <2>1, <2>2 DEF HeardInv, TurnInv
<1>2. CASE ids # {} /\ Call(c, k)
  <2>1. ids \subseteq 1..lastId /\ lastId \in Nat /\ lastId <= MaxSubs
        /\ MaxSubs \in Nat
    BY SystemEventsAssumption
    DEF HeardInv, SystemEventsTypeOK, Subscription, List, Listed
  <2>2. UNCHANGED <<members, subs, lastId, counts>> /\ sample.heard = <<>>
    BY DEF Turn, HeardInv, TurnInv
  <2> HIDE DEF ids
  <2>3. ids \in SUBSET Nat /\ \A i \in ids : i > 0
    BY <2>1
  <2>4. /\ k = 0 => \A i \in ids : i > 0 => i = 0
        /\ k # 0 => k \in ids /\ \A i \in ids : i > 0 => k <= i
    BY <2>3, BehindFirst
  <2>5. k # 0 /\ k \in ids /\ \A i \in ids : k <= i
    <3> HIDE DEF k
    <3>1. PICK i \in ids : i \in Nat /\ i > 0
      BY <1>2, <2>3
    <3>2. k # 0
      BY <2>4, <3>1
    <3> QED BY <2>3, <2>4, <3>2
  <2> HIDE DEF k
  <2>6. k \in 1..MaxSubs /\ k <= lastId
    BY <2>1, <2>5
  <2>7. \A j \in List(c, sample.name) :
           j < k => \E m \in 1..Len(sample.heard) : sample.heard[m] = j
    BY <2>1, <2>5, <2>6 DEF ids
  <2>8. \A m \in 1..Len(sample.heard) : sample.heard[m] < k
    BY <2>2
  <2> QED BY <1>2, <2>2, <2>6, <2>7, <2>8, CallKeepsOrder
<1> QED BY <1>1, <1>2 DEF Turn

LEMMA ReturnKeepsOrder ==
  ASSUME HeardInv, EventReturns PROVE HeardInv'
<1>1. UNCHANGED <<members, subs, lastId, counts>> /\ sample.by # NoSubscriber
  BY DEF EventReturns
<1>2. CASE sample.next # 0
  <2> DEFINE k == sample.next
             c == sample.by
  <2>1. c \in Subscriber /\ k \in 1..MaxSubs /\ k <= lastId /\ k > sample.at
        /\ sample.at \in Nat
    BY <1>1, <1>2, SystemEventsAssumption
    DEF HeardInv, SystemEventsTypeOK, TurnInv
  <2>2. /\ sample.heard \in Seq(1..MaxSubs) /\ sample.heard # <<>>
        /\ sample.at = sample.heard[Len(sample.heard)]
    BY <1>1 DEF HeardInv, SystemEventsTypeOK, TurnInv
  <2>3. Len(sample.heard) \in 1..Len(sample.heard)
        /\ \A m \in 1..Len(sample.heard) : sample.heard[m] \in 1..MaxSubs
    <3> DEFINE heard == sample.heard
    <3> HIDE DEF heard
    <3>1. heard \in Seq(1..MaxSubs) /\ heard # <<>>
      BY <2>2 DEF heard
    <3>2. Len(heard) \in Nat \ {0}
      BY <3>1, EmptySeq
    <3>3. \A m \in 1..Len(heard) : heard[m] \in 1..MaxSubs
      BY <3>1, ElementOfSeq
    <3> QED BY <3>2, <3>3 DEF heard
  <2>4. \A m \in 1..Len(sample.heard) : sample.heard[m] < k
    <3>1. ASSUME NEW m \in 1..Len(sample.heard), m # Len(sample.heard)
          PROVE  sample.heard[m] < sample.heard[Len(sample.heard)]
      BY <2>3, <3>1 DEF HeardInv, Increasing
    <3> QED BY <2>1, <2>2, <2>3, <3>1, SystemEventsAssumption
  <2>5. List(c, sample.name) \subseteq Nat
    BY DEF HeardInv, SystemEventsTypeOK, Subscription, List, Listed
  <2>6. \A j \in List(c, sample.name) :
           j < k => \E m \in 1..Len(sample.heard) : sample.heard[m] = j
    BY <1>1, <1>2, <2>1, <2>5, SystemEventsAssumption DEF HeardInv, TurnInv
  <2>7. Call(c, k)
    BY <1>2 DEF EventReturns
  <2> HIDE DEF k, c
  <2> QED BY <1>1, <2>1, <2>4, <2>6, <2>7, CallKeepsOrder
<1>3. CASE sample.next = 0
  <2>1. sample' = TurnOver
    BY <1>3 DEF EventReturns
  <2>2. <<>> \in Seq(1..MaxSubs) /\ 0 \in 0..MaxSubs
    BY SystemEventsAssumption
  <2>3. sample'.by = NoSubscriber /\ sample'.heard = <<>>
        /\ sample'.at = 0 /\ sample'.next = 0
    BY <1>3, <2>1 DEF TurnOver, HeardInv, SystemEventsTypeOK
  <2>4. SystemEventsTypeOK'
    BY <1>1, <2>1, <2>2 DEF TurnOver, HeardInv, SystemEventsTypeOK
  <2>5. TurnInv'
    BY <2>3 DEF TurnInv
  <2>6. Increasing(sample.heard)'
    BY <2>3 DEF Increasing
  <2>7. lastId \in Nat /\ \A s \in subs : s.id <= lastId
    BY SystemEventsAssumption DEF HeardInv, SystemEventsTypeOK
  <2> QED BY <1>1, <2>3, <2>4, <2>5, <2>6, <2>7 DEF HeardInv
<1> QED BY <1>2, <1>3

(* The methods, which functions may call: who subscribes comes last.       *)
LEMMA MethodsKeepOrder ==
  ASSUME HeardInv, (counts \in [EventName -> Nat])', NEW c \in Subscriber,
         \/ \E n \in EventName : SubscribeName(c, n)
         \/ \E k \in 1..MaxSubs : RemoveSubscribe(c, k)
         \/ SystemEventsDetach(c)
  PROVE  HeardInv'
<1>1. ASSUME NEW n \in EventName, SubscribeName(c, n) PROVE HeardInv'
  <2>1. /\ lastId' = lastId + 1 /\ lastId < MaxSubs /\ sample' = sample
        /\ subs' = subs \cup {[id |-> lastId + 1, by |-> c, name |-> n]}
        /\ lastId \in Nat /\ MaxSubs \in Nat
        /\ sample.at \in Nat /\ sample.next \in Nat
    BY <1>1, SystemEventsAssumption
    DEF SubscribeName, HeardInv, SystemEventsTypeOK
  <2>2. SystemEventsTypeOK'
    BY <1>1, <2>1
    DEF HeardInv, SystemEventsTypeOK, SubscribeName, Subscription
  <2>3. List(sample.by, sample.name)'
          \subseteq List(sample.by, sample.name) \cup {lastId + 1}
    BY <2>1 DEF List, Listed
  <2>4. (\A s \in subs : s.id <= lastId)' /\ (\A s \in subs : s.id \in Nat)
    <3>1. \A s \in subs : s.id \in Nat /\ s.id <= lastId
      BY DEF HeardInv, SystemEventsTypeOK, Subscription
    <3> QED BY <2>1, <3>1
  <2>5. TurnInv'
    BY <2>1, <2>3 DEF HeardInv, TurnInv
  <2> QED BY <2>1, <2>2, <2>4, <2>5 DEF HeardInv
<1>2. ASSUME subs' \subseteq subs, members' \subseteq members,
             UNCHANGED <<sample, lastId>>
      PROVE  HeardInv'
  <2>1. List(sample.by, sample.name)' \subseteq List(sample.by, sample.name)
    BY <1>2 DEF List, Listed
  <2>2. SystemEventsTypeOK'
    BY <1>2 DEF HeardInv, SystemEventsTypeOK
  <2>3. TurnInv'
    BY <1>2, <2>1 DEF HeardInv, TurnInv
  <2> QED BY <1>2, <2>2, <2>3 DEF HeardInv
<1> QED BY <1>1, <1>2 DEF RemoveSubscribe, SystemEventsDetach

LEMMA CountsNatural == CountsInv => counts \in [EventName -> Nat]
<1> SUFFICES ASSUME CountsInv, NEW n \in EventName PROVE counts[n] \in Nat
  BY DEF CountsInv
<1>1. Cardinality(To(n)) \in Nat /\ Cardinality(To(n)) <= counts[n]
      /\ counts[n] \in Int
  BY ToFinite DEF CountsInv
<1> QED BY <1>1

LEMMA HeardInvStep ==
  ASSUME HeardInv, CountsInv', [SystemEventsNext]_syVars PROVE HeardInv'
<1>1. CASE UNCHANGED syVars
  BY <1>1
  DEF syVars, HeardInv, SystemEventsTypeOK, TurnInv, Increasing, List, Listed
<1>2. ASSUME sample'.by = NoSubscriber, sample'.heard = <<>>,
             sample'.at = 0, sample'.next = 0, SystemEventsTypeOK',
             UNCHANGED <<subs, lastId>>
      PROVE  HeardInv'
  BY <1>2, SystemEventsAssumption
  DEF HeardInv, TurnInv, Increasing, SystemEventsTypeOK
<1>3. ASSUME NEW n \in EventName, SampleComes(n) PROVE HeardInv'
  <2>1. CASE members = {}
    BY <1>3, <2>1
    DEF SampleComes, HeardInv, SystemEventsTypeOK, TurnInv, List, Listed
  <2>2. CASE members # {}
    <3>1. sample' = [NoSample(n) EXCEPT !.there = members]
      BY <1>3, <2>2 DEF SampleComes
    <3>3. <<>> \in Seq(1..MaxSubs) /\ 0 \in 0..MaxSubs
      BY SystemEventsAssumption
    <3>2. SystemEventsTypeOK'
      BY <1>3, <3>1, <3>3
      DEF SampleComes, NoSample, HeardInv, SystemEventsTypeOK
    <3> QED BY <1>2, <1>3, <3>1, <3>2 DEF SampleComes, NoSample
  <2> QED BY <2>1, <2>2
<1>4. CASE SampleEnds
  <2>1. PICK n \in EventName : sample' = NoSample(n)
    BY <1>4, SystemEventsAssumption DEF SampleEnds, Idle
  <2>2. SystemEventsTypeOK'
    BY <1>4, <2>1, SystemEventsAssumption
    DEF SampleEnds, NoSample, HeardInv, SystemEventsTypeOK
  <2> QED BY <1>2, <1>4, <2>1, <2>2 DEF SampleEnds, NoSample
<1>5. (counts \in [EventName -> Nat])'
  BY CountsNatural, PTL
<1> QED
  BY <1>1, <1>3, <1>4, <1>5, TurnKeepsOrder, ReturnKeepsOrder, MethodsKeepOrder
  DEF SystemEventsNext

LEMMA HeardInTurn == HeardInv => CalledInTurn
<1> SUFFICES ASSUME HeardInv PROVE CalledInTurn
  OBVIOUS
<1>1. sample.heard \in Seq(1..MaxSubs)
  BY DEF HeardInv, SystemEventsTypeOK
<1>2. DOMAIN sample.heard = 1..Len(sample.heard)
  BY <1>1, LenProperties
<1>3. \A k \in List(sample.by, sample.name) : k \in Nat
  BY DEF HeardInv, SystemEventsTypeOK, Subscription, List, Listed
<1>4. \A m, n \in DOMAIN sample.heard :
        m < n => sample.heard[m] < sample.heard[n]
  BY <1>2 DEF HeardInv, Increasing
<1>5. ASSUME sample.by # NoSubscriber,
             NEW k \in List(sample.by, sample.name), k < sample.at
      PROVE  Contains(sample.heard, k)
  <2>1. k <= sample.at
    BY <1>3, <1>5, SystemEventsAssumption DEF HeardInv, SystemEventsTypeOK
  <2> QED BY <1>5, <2>1 DEF HeardInv, TurnInv, Contains
<1> QED BY <1>4, <1>5 DEF CalledInTurn

LEMMA SystemEventsInvariant == SystemEventsSpec => [](CountsInv /\ HeardInv)
<1>1. SystemEventsInit => CountsInv /\ HeardInv
  BY InitCounts, HeardInvInit
<1>2. CountsInv /\ HeardInv /\ [SystemEventsNext]_syVars
        => (CountsInv /\ HeardInv)'
  BY StepCounts, HeardInvStep
<1> QED BY <1>1, <1>2, PTL DEF SystemEventsSpec

(* The state of system.event has its types: no count falls below zero.     *)
THEOREM SystemEventsTypesHold == SystemEventsSpec => []SystemEventsTypeOK
<1>1. CountsInv /\ HeardInv => SystemEventsTypeOK
  BY DEF HeardInv
<1> QED BY <1>1, SystemEventsInvariant, PTL

(* handleTopicData calls the functions of an instance in the order they    *)
(* were subscribed in, none twice and none left out, whatever they         *)
(* subscribe and end meanwhile; even when they end what the loop has saved *)
(* or detach their instance (Careless is free).                            *)
THEOREM SystemEventsCalledInTurn == SystemEventsSpec => []CalledInTurn
<1>1. CountsInv /\ HeardInv => CalledInTurn
  BY HeardInTurn
<1> QED BY <1>1, SystemEventsInvariant, PTL

-----------------------------------------------------------------------------
(***************************************************************************)
(* Settings.  A request that was stored has a message on its way, though a *)
(* message only names the address the request had.                         *)
(***************************************************************************)

(* The messages that are still to be looked at. *)
OnTheWay ==
  Range(msg_queue) \cup Range(IF calling # "no" THEN Tail(batch) ELSE batch)

(* Requests are of instances that are there. *)
RequestsOfLive ==
  \A p \in Place : request[p] # NoRequest => instance[request[p].owner] = "live"

(* A request for an answer is the only one of its promise, which waits,    *)
(* and a message is on its way to it; or its functions run.                *)
OneRequestEach ==
  /\ \A p \in Onces :
       /\ owner[request[p].promise] = request[p].owner
       /\ \/ promise[request[p].promise] = "waiting" /\ p \in OnTheWay
          \/ /\ promise[request[p].promise] = "settled"
             /\ calling = "answer" /\ p = Head(batch)
  /\ \A p, q \in Onces : request[p].promise = request[q].promise => p = q

(* What waits for an instance that is there has a request. *)
WaitingHaveOne ==
  \A c \in Promise : promise[c] = "waiting" /\ instance[owner[c]] = "live" =>
    \E p \in Onces : request[p].promise = c

AnswersInv ==
  /\ SettingsTypeOK
  /\ calling # "no" => batch # <<>>
  /\ settings \in {"closing", "deleted"} => \A i \in Asker : instance[i] = "detached"
  /\ RequestsOfLive /\ OneRequestEach /\ WaitingHaveOne

LEMMA AnswersInvInit == SettingsInit => AnswersInv
<1> SUFFICES ASSUME SettingsInit PROVE AnswersInv
  OBVIOUS
<1>1. <<>> \in Seq(Place)
  OBVIOUS
<1>2. SettingsTypeOK
  BY <1>1 DEF SettingsInit, SettingsTypeOK
<1>3. RequestsOfLive /\ Onces = {}
  BY DEF SettingsInit, RequestsOfLive, Onces
<1>4. OneRequestEach /\ WaitingHaveOne
  BY <1>3 DEF SettingsInit, OneRequestEach, WaitingHaveOne
<1> QED BY <1>2, <1>3, <1>4 DEF SettingsInit, AnswersInv

(* What an address holds. *)
LEMMA RequestKinds ==
  ASSUME SettingsTypeOK, NEW p \in Place
  PROVE  /\ p \in Subs => /\ request[p].kind = "sub" /\ request[p].owner \in Asker
                          /\ request[p].key \in Key /\ p \notin Onces
         /\ p \in Onces => /\ request[p].kind = "once"
                           /\ request[p].owner \in Asker
                           /\ request[p].promise \in Promise
         /\ request[p] # NoRequest => p \in Subs \cup Onces
BY SettingsAssumption DEF SettingsTypeOK, Subs, Onces

LEMMA AskKeepsAnswers ==
  ASSUME AnswersInv, NEW i \in Asker, NEW c \in Promise, NEW p \in Place,
         AskOnce(i, c, p), msg_queue' \in Seq(Place),
         Range(msg_queue) \subseteq Range(msg_queue'), p \in Range(msg_queue')
  PROVE  AnswersInv'
<1> DEFINE new == [kind |-> "once", owner |-> i, promise |-> c]
<1>1. /\ instance[i] = "live" /\ promise[c] = "new" /\ request[p] = NoRequest
      /\ owner' = [owner EXCEPT ![c] = i]
      /\ promise' = [promise EXCEPT ![c] = "waiting"]
      /\ request' = [request EXCEPT ![p] = new]
      /\ UNCHANGED <<instance, subscribers, batch, calling, settings>>
  BY DEF AskOnce, Allocated
<1>2. new # NoRequest /\ new \in [kind : {"once"}, owner : Asker, promise : Promise]
      /\ new.kind = "once" /\ new.owner = i /\ new.promise = c
  BY SettingsAssumption
<1> HIDE DEF new
<1>3. SettingsTypeOK'
  BY <1>1, <1>2 DEF AnswersInv, SettingsTypeOK
<1>4. Onces' = Onces \cup {p} /\ p \notin Onces
  BY <1>1, <1>2 DEF Onces, AnswersInv, SettingsTypeOK
<1>5. /\ \A q \in Place : q # p => request'[q] = request[q]
      /\ request'[p] = new
      /\ \A d \in Promise : d # c => promise'[d] = promise[d] /\ owner'[d] = owner[d]
      /\ promise'[c] = "waiting" /\ owner'[c] = i
  BY <1>1 DEF AnswersInv, SettingsTypeOK
<1>6. OnTheWay \cup {p} \subseteq OnTheWay'
  BY <1>1 DEF OnTheWay
<1>7. ASSUME NEW q \in Onces
      PROVE  request[q].promise \in Promise /\ request[q].promise # c /\ q # p
             /\ q \in Place
  BY <1>1, <1>4, <1>7, RequestKinds DEF AnswersInv, OneRequestEach, Onces
<1>8. RequestsOfLive'
  BY <1>1, <1>2, <1>5 DEF AnswersInv, RequestsOfLive
<1>9. OneRequestEach'
  BY <1>1, <1>2, <1>4, <1>5, <1>6, <1>7 DEF AnswersInv, OneRequestEach
<1>10. WaitingHaveOne'
  BY <1>1, <1>2, <1>4, <1>5, <1>7 DEF AnswersInv, WaitingHaveOne
<1> QED BY <1>1, <1>3, <1>8, <1>9, <1>10 DEF AnswersInv

(* Steps that only take requests away from instances or change the         *)
(* subscriptions.                                                          *)
LEMMA SubscribeKeepsAnswers ==
  ASSUME AnswersInv, NEW i \in Asker, NEW k \in Key, NEW p \in Place,
         SubscribeProp(i, k, p)
  PROVE  AnswersInv'
<1> DEFINE new == [kind |-> "sub", owner |-> i, key |-> k]
<1>1. /\ instance[i] = "live" /\ request[p] = NoRequest
      /\ request' = [request EXCEPT ![p] = new]
      /\ subscribers' = [subscribers EXCEPT ![k] = Append(@, p)]
      /\ UNCHANGED <<instance, promise, owner, msg_queue, batch, calling,
                     settings>>
  BY DEF SubscribeProp, Allocated
<1>2. new # NoRequest /\ new \in [kind : {"sub"}, owner : Asker, key : Key]
      /\ new.kind = "sub" /\ new.owner = i
  BY SettingsAssumption
<1> HIDE DEF new
<1>3. SettingsTypeOK'
  <2>1. Append(subscribers[k], p) \in Seq(Place)
    BY AppendProperties DEF AnswersInv, SettingsTypeOK
  <2> QED BY <1>1, <1>2, <2>1 DEF AnswersInv, SettingsTypeOK
<1>4. Onces' = Onces /\ p \notin Onces
  BY <1>1, <1>2 DEF Onces, AnswersInv, SettingsTypeOK
<1>5. /\ \A q \in Place : q # p => request'[q] = request[q]
      /\ request'[p] = new
  BY <1>1 DEF AnswersInv, SettingsTypeOK
<1>6. OnTheWay' = OnTheWay
  BY <1>1 DEF OnTheWay
<1>7. RequestsOfLive'
  BY <1>1, <1>2, <1>5 DEF AnswersInv, RequestsOfLive
<1>8. Onces \subseteq Place
  BY DEF Onces
<1>9. OneRequestEach'
  BY <1>1, <1>4, <1>5, <1>6, <1>8 DEF AnswersInv, OneRequestEach
<1>10. WaitingHaveOne'
  BY <1>1, <1>4, <1>5, <1>8 DEF AnswersInv, WaitingHaveOne
<1> QED BY <1>1, <1>3, <1>7, <1>9, <1>10 DEF AnswersInv

LEMMA UnsubscribeKeepsAnswers ==
  ASSUME AnswersInv, NEW i \in Asker, NEW k \in Key, UnsubscribeProp(i, k)
  PROVE  AnswersInv'
<1>1. /\ subscribers' = [subscribers EXCEPT ![k] = <<>>]
      /\ request' =
           [p \in Place |->
              IF p \in Subs /\ request[p].key = k /\ request[p].owner = i
                THEN NoRequest ELSE request[p]]
      /\ UNCHANGED <<instance, promise, owner, msg_queue, batch, calling,
                     settings>>
  BY DEF UnsubscribeProp
<1>2. SettingsTypeOK'
  BY <1>1 DEF AnswersInv, SettingsTypeOK
<1>3. ASSUME NEW p \in Place PROVE request'[p] \in {request[p], NoRequest}
                                   /\ (p \in Onces => request'[p] = request[p])
  BY <1>1, RequestKinds DEF AnswersInv
<1>4. Onces' = Onces /\ Onces \subseteq Place
  BY <1>1, <1>3, RequestKinds DEF Onces, AnswersInv
<1>5. OnTheWay' = OnTheWay
  BY <1>1 DEF OnTheWay
<1>6. RequestsOfLive'
  BY <1>1, <1>3 DEF AnswersInv, RequestsOfLive
<1>7. OneRequestEach'
  BY <1>1, <1>3, <1>4, <1>5 DEF AnswersInv, OneRequestEach
<1>8. WaitingHaveOne'
  <2>1. promise' = promise /\ instance' = instance /\ owner' = owner
    BY <1>1
  <2>2. Onces' = Onces /\ \A p \in Onces : request'[p] = request[p]
    BY <1>3, <1>4
  <2>3. WaitingHaveOne
    BY DEF AnswersInv
  <2> QED BY <2>1, <2>2, <2>3 DEF WaitingHaveOne
<1> QED BY <1>1, <1>2, <1>6, <1>7, <1>8 DEF AnswersInv

LEMMA DetachKeepsAnswers ==
  ASSUME AnswersInv, NEW i \in Asker, SettingsDetach(i)
  PROVE  AnswersInv'
<1>1. /\ instance' = [instance EXCEPT ![i] = "detached"]
      /\ request' = [p \in Place |->
                       IF request[p] # NoRequest /\ request[p].owner = i
                         THEN NoRequest ELSE request[p]]
      /\ UNCHANGED <<promise, owner, subscribers, msg_queue, batch, calling,
                     settings>>
  BY DEF SettingsDetach
<1>2. SettingsTypeOK'
  BY <1>1 DEF AnswersInv, SettingsTypeOK
<1>3. ASSUME NEW p \in Place
      PROVE  /\ request'[p] # NoRequest =>
                  request'[p] = request[p] /\ request[p].owner # i
             /\ request[p] # NoRequest /\ request[p].owner # i =>
                  request'[p] = request[p]
  BY <1>1
<1>4. /\ Onces' = {p \in Onces : request[p].owner # i}
      /\ Onces \subseteq Place
      /\ \A p \in Onces : request[p] # NoRequest
  BY <1>3 DEF Onces
<1>5. OnTheWay' = OnTheWay
  BY <1>1 DEF OnTheWay
<1>6. RequestsOfLive'
  BY <1>1, <1>3, RequestKinds DEF AnswersInv, RequestsOfLive, SettingsTypeOK
<1>7. OneRequestEach'
  BY <1>1, <1>3, <1>4, <1>5 DEF AnswersInv, OneRequestEach
<1>8. WaitingHaveOne'
  <2> SUFFICES ASSUME NEW c \in Promise, promise[c] = "waiting",
                      instance'[owner[c]] = "live"
               PROVE  \E p \in Onces' : request'[p].promise = c
    BY <1>1 DEF WaitingHaveOne
  <2>1. owner[c] # i /\ instance[owner[c]] = "live"
    BY <1>1 DEF AnswersInv, SettingsTypeOK
  <2>2. PICK p \in Onces : request[p].promise = c
    BY <2>1 DEF AnswersInv, WaitingHaveOne
  <2>3. request[p].owner = owner[c]
    BY <2>2 DEF AnswersInv, OneRequestEach
  <2> QED BY <1>3, <1>4, <2>1, <2>2, <2>3
<1>9. settings' \in {"closing", "deleted"} => \A j \in Asker : instance'[j] = "detached"
  BY <1>1 DEF AnswersInv, SettingsTypeOK
<1> QED BY <1>1, <1>2, <1>6, <1>7, <1>8, <1>9 DEF AnswersInv

LEMMA CallsKeepAnswers ==
  ASSUME AnswersInv, NEW i \in Asker, NEW c \in Promise, NEW p \in Place,
         GetProp(i, c, p) \/ \E k \in Key : SetProp(i, c, k, p)
  PROVE  AnswersInv'
<1>1. ASSUME NEW places \in Seq(Place), p \in Range(places), AskOnce(i, c, p),
             Queue(places)
      PROVE  AnswersInv'
  <2>1. msg_queue \in Seq(Place) /\ msg_queue' = msg_queue \o places
    BY <1>1 DEF Queue, AnswersInv, SettingsTypeOK
  <2>2. msg_queue' \in Seq(Place)
        /\ Range(msg_queue') = Range(msg_queue) \cup Range(places)
    BY <2>1, RangeConcatenation, ConcatProperties
  <2> QED BY <1>1, <2>2, AskKeepsAnswers
<1>2. CASE GetProp(i, c, p)
  <2>1. <<p>> \in Seq(Place) /\ p \in Range(<<p>>)
    <3>1. <<>> \in Seq(Place) /\ <<p>> = Append(<<>>, p)
      OBVIOUS
    <3> QED BY <3>1, RangeAppend, AppendProperties
  <2> QED BY <1>1, <1>2, <2>1 DEF GetProp
<1>3. ASSUME NEW k \in Key, SetProp(i, c, k, p) PROVE AnswersInv'
  <2>1. subscribers[k] \in Seq(Place)
    BY DEF AnswersInv, SettingsTypeOK
  <2>2. Append(subscribers[k], p) \in Seq(Place)
        /\ p \in Range(Append(subscribers[k], p))
    BY <2>1, RangeAppend, AppendProperties
  <2> QED BY <1>1, <1>3, <2>2 DEF SetProp
<1> QED BY <1>2, <1>3

(* The messages change hands, or one of them is dropped whose request is   *)
(* no promise's.                                                           *)
LEMMA LoopKeepsAnswers ==
  ASSUME AnswersInv,
         TakeMessages \/ ProcessMessage \/ UpdateReturns \/ AnswerReturns
  PROVE  AnswersInv'
<1> DEFINE p == Head(batch)
<1>1. ASSUME batch # <<>>
      PROVE  /\ Tail(batch) \in Seq(Place) /\ p \in Place
             /\ Range(batch) = Range(Tail(batch)) \cup {p}
  BY <1>1, RangeTail DEF AnswersInv, SettingsTypeOK
<1>2. ASSUME UNCHANGED <<instance, promise, owner, request, settings>>,
             SettingsTypeOK', (calling # "no" => batch # <<>>)',
             \A q \in Onces : q \in OnTheWay => q \in OnTheWay',
             calling # "answer" \/ UNCHANGED <<calling, batch>>
      PROVE  AnswersInv'
  <2>1. Onces' = Onces
    BY <1>2 DEF Onces
  <2>2. RequestsOfLive'
    BY <1>2 DEF AnswersInv, RequestsOfLive
  <2>3. OneRequestEach'
    BY <1>2, <2>1 DEF AnswersInv, OneRequestEach
  <2>4. WaitingHaveOne'
    BY <1>2, <2>1 DEF AnswersInv, WaitingHaveOne
  <2> QED BY <1>2, <2>2, <2>3, <2>4 DEF AnswersInv
<1>3. CASE TakeMessages
  <2>1. /\ batch = <<>> /\ calling = "no" /\ batch' = msg_queue /\ msg_queue' = <<>>
        /\ UNCHANGED <<instance, promise, owner, request, subscribers, calling,
                       settings>>
    BY <1>3 DEF TakeMessages, AnswersInv
  <2>2. Range(<<>>) = {}
    BY DEF Range
  <2>3. OnTheWay = Range(msg_queue) /\ OnTheWay' = Range(msg_queue)
    BY <2>1, <2>2 DEF OnTheWay
  <2>4. SettingsTypeOK'
    <3>1. <<>> \in Seq(Place)
      OBVIOUS
    <3> QED BY <2>1, <3>1 DEF AnswersInv, SettingsTypeOK
  <2> QED BY <1>2, <2>1, <2>3, <2>4
<1>4. CASE UpdateReturns
  <2>1. /\ calling = "update" /\ batch # <<>> /\ batch' = Tail(batch)
        /\ calling' = "no"
        /\ UNCHANGED <<instance, promise, owner, request, subscribers,
                       msg_queue, settings>>
    BY <1>4 DEF UpdateReturns, AnswersInv
  <2>2. OnTheWay' = OnTheWay
    BY <2>1 DEF OnTheWay
  <2>3. SettingsTypeOK'
    BY <1>1, <2>1 DEF AnswersInv, SettingsTypeOK
  <2> QED BY <1>2, <2>1, <2>2, <2>3
<1>5. ASSUME ProcessMessage, p \notin Onces PROVE AnswersInv'
  <2>1. /\ batch # <<>> /\ calling = "no"
        /\ UNCHANGED <<instance, promise, owner, request, subscribers,
                       msg_queue, settings>>
        /\ \/ calling' = "update" /\ batch' = batch
           \/ calling' = calling /\ batch' = Tail(batch)
    BY <1>5 DEF ProcessMessage
  <2>2. OnTheWay' = Range(msg_queue) \cup Range(Tail(batch))
    <3>1. CASE calling' = "update" /\ batch' = batch
      BY <2>1, <3>1 DEF OnTheWay
    <3>2. CASE calling' = calling /\ batch' = Tail(batch)
      BY <2>1, <3>2 DEF OnTheWay
    <3> QED BY <2>1, <3>1, <3>2
  <2>3. OnTheWay = Range(msg_queue) \cup Range(Tail(batch)) \cup {p}
    BY <1>1, <2>1 DEF OnTheWay
  <2>4. SettingsTypeOK'
    BY <1>1, <2>1 DEF AnswersInv, SettingsTypeOK
  <2>5. (calling # "no" => batch # <<>>)'
    BY <2>1 DEF AnswersInv
  <2> HIDE DEF p
  <2> QED BY <1>2, <1>5, <2>1, <2>2, <2>3, <2>4, <2>5
(* A request goes whose promise is settled; or it stays while its          *)
(* functions run.                                                          *)
<1>6. ASSUME batch # <<>>, p \in Onces, NEW freed \in BOOLEAN,
             promise' = [promise EXCEPT ![request[p].promise] = "settled"],
             request' = IF freed THEN [request EXCEPT ![p] = NoRequest]
                                ELSE request,
             freed => batch' = Tail(batch) /\ calling' = "no",
             ~freed => batch' = batch /\ calling' = "answer",
             calling = "answer" => freed /\ StillThere(p),
             calling \in {"no", "answer"},
             UNCHANGED <<instance, owner, subscribers, msg_queue, settings>>
      PROVE  AnswersInv'
  <2> DEFINE c == request[p].promise
  <2>1. /\ p \in Place /\ c \in Promise /\ p \notin Subs
    BY <1>1, <1>6, RequestKinds DEF AnswersInv
  <2>2. OnTheWay' = Range(msg_queue) \cup Range(Tail(batch))
        /\ OnTheWay \subseteq OnTheWay' \cup {p}
    <3>1. CASE freed
      BY <1>1, <1>6, <3>1 DEF OnTheWay
    <3>2. CASE ~freed
      BY <1>1, <1>6, <3>2 DEF OnTheWay
    <3> QED BY <3>1, <3>2
  <2>3. SettingsTypeOK'
    <3>1. CASE freed
      BY <1>1, <1>6, <2>1, <3>1 DEF AnswersInv, SettingsTypeOK
    <3>2. CASE ~freed
      BY <1>1, <1>6, <2>1, <3>2 DEF AnswersInv, SettingsTypeOK
    <3> QED BY <3>1, <3>2
  <2>4. ~freed => p = Head(batch') /\ batch' # <<>>
    BY <1>6
  <2> HIDE DEF p
  <2>5. /\ \A q \in Place : q # p => request'[q] = request[q]
        /\ request'[p] = IF freed THEN NoRequest ELSE request[p]
        /\ \A d \in Promise : d # c => promise'[d] = promise[d]
        /\ promise'[c] = "settled"
    BY <1>6, <2>1 DEF AnswersInv, SettingsTypeOK
  <2>6. /\ Onces' = IF freed THEN Onces \ {p} ELSE Onces
        /\ Onces \subseteq Place
    <3>1. Onces \subseteq Place
      BY DEF Onces
    <3>2. CASE freed
      BY <2>5, <3>1, <3>2 DEF Onces
    <3>3. CASE ~freed
      BY <1>6, <3>1, <3>3 DEF Onces
    <3> QED BY <3>1, <3>2, <3>3
  <2>7. ASSUME NEW q \in Onces, q # p
        PROVE  /\ request[q].promise \in Promise /\ request[q].promise # c
               /\ promise[request[q].promise] = "waiting" /\ q \in OnTheWay'
    <3>1. request[q].promise \in Promise /\ request[q].promise # c
      BY <1>6, <2>6, <2>7, RequestKinds DEF AnswersInv, OneRequestEach
    <3>2. promise[request[q].promise] = "waiting" /\ q \in OnTheWay
      BY <1>6, <2>7 DEF AnswersInv, OneRequestEach, p
    <3> QED BY <2>2, <2>7, <3>1, <3>2
  <2>8. owner[c] = request[p].owner
    BY <1>6 DEF AnswersInv, OneRequestEach
  <2> HIDE DEF c
  <2>9. RequestsOfLive'
    BY <1>6, <2>5 DEF AnswersInv, RequestsOfLive
  <2>10. OneRequestEach'
    <3>1. ASSUME NEW q \in Onces', q # p
          PROVE  /\ q \in Onces /\ request'[q] = request[q]
                 /\ promise'[request[q].promise] = "waiting"
                 /\ q \in OnTheWay'
                 /\ owner[request[q].promise] = request[q].owner
                 /\ request[q].promise # c
      <4>1. q \in Onces /\ request'[q] = request[q]
        BY <2>5, <2>6, <3>1
      <4>2. owner[request[q].promise] = request[q].owner
        BY <4>1 DEF AnswersInv, OneRequestEach
      <4> QED BY <2>5, <2>7, <3>1, <4>1, <4>2
    <3>2. p \in Onces' => ~freed /\ request'[p] = request[p]
                          /\ request[p].promise = c
      BY <2>5, <2>6 DEF c
    <3>3. ASSUME NEW q \in Onces'
          PROVE  /\ owner'[request'[q].promise] = request'[q].owner
                 /\ \/ /\ promise'[request'[q].promise] = "waiting"
                       /\ q \in OnTheWay'
                    \/ /\ promise'[request'[q].promise] = "settled"
                       /\ calling' = "answer" /\ q = Head(batch')
      <4>1. CASE q = p
        BY <1>6, <2>4, <2>5, <2>8, <3>2, <3>3, <4>1
      <4>2. CASE q # p
        BY <1>6, <3>1, <3>3, <4>2
      <4> QED BY <4>1, <4>2
    <3>4. ASSUME NEW q \in Onces', NEW r \in Onces',
                 request'[q].promise = request'[r].promise
          PROVE  q = r
      <4>1. CASE q # p /\ r # p
        BY <3>1, <3>4, <4>1 DEF AnswersInv, OneRequestEach
      <4>2. CASE q = p \/ r = p
        BY <3>1, <3>2, <3>4, <4>2
      <4> QED BY <4>1, <4>2
    <3> QED BY <3>3, <3>4 DEF OneRequestEach
  <2>11. WaitingHaveOne'
    <3> SUFFICES ASSUME NEW d \in Promise, promise'[d] = "waiting",
                        instance[owner[d]] = "live"
                 PROVE  \E q \in Onces' : request'[q].promise = d
      BY <1>6 DEF WaitingHaveOne
    <3>1. d # c /\ promise[d] = "waiting"
      BY <2>5
    <3>2. PICK q \in Onces : request[q].promise = d
      BY <3>1 DEF AnswersInv, WaitingHaveOne
    <3> QED BY <2>5, <2>6, <3>1, <3>2 DEF c
  <2>12. (calling # "no" => batch # <<>>)'
    BY <1>6, <2>4
  <2> QED BY <1>6, <2>3, <2>9, <2>10, <2>11, <2>12 DEF AnswersInv
<1>7. ASSUME ProcessMessage, p \in Onces PROVE AnswersInv'
  <2>1. p \notin Subs /\ batch # <<>> /\ calling = "no"
    BY <1>1, <1>7, RequestKinds DEF ProcessMessage, AnswersInv
  <2>2. /\ promise' = [promise EXCEPT ![request[p].promise] = "settled"]
        /\ \/ /\ request' = [request EXCEPT ![p] = NoRequest]
              /\ batch' = Tail(batch) /\ UNCHANGED calling
           \/ calling' = "answer" /\ UNCHANGED <<request, batch>>
        /\ UNCHANGED <<instance, owner, subscribers, msg_queue, settings>>
    BY <1>7, <2>1 DEF ProcessMessage
  <2> HIDE DEF p
  <2>3. CASE /\ request' = [request EXCEPT ![p] = NoRequest]
             /\ batch' = Tail(batch) /\ UNCHANGED calling
    <3> DEFINE freed == TRUE
    <3>1. freed \in BOOLEAN
      OBVIOUS
    <3> QED BY <1>6, <1>7, <2>1, <2>2, <2>3, <3>1
  <2>4. CASE calling' = "answer" /\ UNCHANGED <<request, batch>>
    BY <1>6, <1>7, <2>1, <2>2, <2>4
  <2> QED BY <2>2, <2>3, <2>4
<1>8. CASE AnswerReturns
  <2>1. calling = "answer" /\ batch # <<>>
    BY <1>8 DEF AnswerReturns, AnswersInv
  <2>2. CASE StillThere(p)
    <3>1. /\ request' = [request EXCEPT ![p] = NoRequest]
          /\ calling' = "no" /\ batch' = Tail(batch)
          /\ UNCHANGED <<instance, promise, owner, subscribers, msg_queue,
                         settings>>
      BY <1>8, <2>2 DEF AnswerReturns
    <3>2. p \in Onces /\ promise[request[p].promise] = "settled"
      BY <2>2 DEF StillThere
    <3>3. promise' = [promise EXCEPT ![request[p].promise] = "settled"]
      BY <3>1, <3>2 DEF AnswersInv, SettingsTypeOK
    <3> HIDE DEF p
    <3> QED BY <1>6, <2>1, <2>2, <3>1, <3>2, <3>3
  <2>3. CASE ~StillThere(p)
    <3>1. /\ settings' = "astray"
          /\ UNCHANGED <<instance, promise, owner, request, subscribers,
                         msg_queue, calling, batch>>
      BY <1>8, <2>3 DEF AnswerReturns
    <3>2. OnTheWay' = OnTheWay
      BY <3>1 DEF OnTheWay
    <3>3. SettingsTypeOK'
      BY <3>1 DEF AnswersInv, SettingsTypeOK
    <3>4. Onces' = Onces
      BY <3>1 DEF Onces
    <3>5. RequestsOfLive' /\ WaitingHaveOne'
      BY <3>1, <3>4 DEF AnswersInv, RequestsOfLive, WaitingHaveOne
    <3>6. OneRequestEach'
      BY <3>1, <3>2, <3>4 DEF AnswersInv, OneRequestEach
    <3> QED BY <2>1, <3>1, <3>3, <3>5, <3>6 DEF AnswersInv
  <2> QED BY <2>2, <2>3
<1> QED BY <1>3, <1>4, <1>5, <1>7, <1>8

(* When the settings go no instance is left.                               *)
LEMMA EndKeepsAnswers ==
  ASSUME AnswersInv, SettingsDestroy \/ AsyncClose
  PROVE  AnswersInv'
<1>1. CASE SettingsDestroy
  <2>1. /\ UNCHANGED <<instance, promise, owner, request, msg_queue, batch,
                       calling>>
        /\ \A i \in Asker : instance[i] = "detached"
        /\ settings' = "closing" /\ subscribers' = [k \in Key |-> <<>>]
    BY <1>1 DEF SettingsDestroy
  <2>2. SettingsTypeOK'
    <3>1. <<>> \in Seq(Place)
      OBVIOUS
    <3> QED BY <2>1, <3>1 DEF AnswersInv, SettingsTypeOK
  <2>3. RequestsOfLive' /\ Onces' = Onces /\ OnTheWay' = OnTheWay
    BY <2>1 DEF AnswersInv, RequestsOfLive, Onces, OnTheWay
  <2>4. OneRequestEach' /\ WaitingHaveOne'
    BY <2>1, <2>3 DEF AnswersInv, OneRequestEach, WaitingHaveOne
  <2> QED BY <2>1, <2>2, <2>3, <2>4 DEF AnswersInv
<1>2. CASE AsyncClose
  <2>1. /\ settings = "closing" /\ settings' \in {"deleted", "astray"}
        /\ request' = [p \in Place |-> NoRequest] /\ msg_queue' = <<>>
        /\ UNCHANGED <<instance, promise, owner, subscribers, batch, calling>>
    BY <1>2 DEF AsyncClose
  <2>2. <<>> \in Seq(Place)
    OBVIOUS
  <2>3. SettingsTypeOK'
    BY <2>1, <2>2 DEF AnswersInv, SettingsTypeOK
  <2>4. RequestsOfLive' /\ Onces' = {}
    BY <2>1 DEF RequestsOfLive, Onces
  <2>5. WaitingHaveOne'
    <3> SUFFICES ASSUME NEW c \in Promise, promise[c] = "waiting",
                        instance[owner[c]] = "live"
                 PROVE  FALSE
      BY <2>1 DEF WaitingHaveOne
    <3>1. PICK p \in Onces : request[p].promise = c
      BY DEF AnswersInv, WaitingHaveOne
    <3>2. p \in Place /\ request[p] # NoRequest /\ request[p].owner \in Asker
      BY RequestKinds DEF AnswersInv, Onces
    <3> QED BY <2>1, <3>2 DEF AnswersInv, RequestsOfLive
  <2>6. OneRequestEach'
    BY <2>4 DEF OneRequestEach
  <2> QED BY <2>1, <2>3, <2>4, <2>5, <2>6 DEF AnswersInv
<1> QED BY <1>1, <1>2

LEMMA AnswersInvStep ==
  ASSUME AnswersInv, [SettingsNext]_ssVars PROVE AnswersInv'
<1>1. CASE UNCHANGED ssVars
  <2>1. Onces' = Onces /\ OnTheWay' = OnTheWay
    BY <1>1 DEF ssVars, Onces, OnTheWay
  <2>2. SettingsTypeOK' /\ (calling # "no" => batch # <<>>)' /\ RequestsOfLive'
        /\ (settings \in {"closing", "deleted"} =>
           \A i \in Asker : instance[i] = "detached")'
    BY <1>1 DEF ssVars, AnswersInv, SettingsTypeOK, RequestsOfLive
  <2>3. OneRequestEach' /\ WaitingHaveOne'
    BY <1>1, <2>1 DEF ssVars, AnswersInv, OneRequestEach, WaitingHaveOne
  <2> QED BY <2>2, <2>3 DEF AnswersInv
<1> QED
  BY <1>1, CallsKeepAnswers, SubscribeKeepsAnswers, UnsubscribeKeepsAnswers,
     DetachKeepsAnswers, LoopKeepsAnswers, EndKeepsAnswers
  DEF SettingsNext, SettingsEnd

LEMMA AnswersInvEnough == AnswersInv => AnswerOnItsWay
<1> SUFFICES ASSUME AnswersInv, NEW c \in Promise, promise[c] = "waiting",
                    instance[owner[c]] = "live"
             PROVE  /\ Cardinality({p \in Onces : request[p].promise = c}) = 1
                    /\ \A p \in Onces : request[p].promise = c => p \in OnTheWay
  BY DEF AnswerOnItsWay, OnTheWay
<1>1. PICK p \in Onces : request[p].promise = c
  BY DEF AnswersInv, WaitingHaveOne
<1>2. {q \in Onces : request[q].promise = c} = {p}
  BY <1>1 DEF AnswersInv, OneRequestEach
<1>3. Cardinality({q \in Onces : request[q].promise = c}) = 1
  BY <1>2, FS_Singleton
<1> QED BY <1>3 DEF AnswersInv, OneRequestEach

LEMMA SettingsInvariant == SettingsSpec => []AnswersInv
<1>1. AnswersInv /\ [SettingsNext]_ssVars => AnswersInv'
  BY AnswersInvStep
<1> QED BY <1>1, AnswersInvInit, PTL DEF SettingsSpec

(* The state of system.settings has its types.                             *)
THEOREM SettingsTypesHold == SettingsSpec => []SettingsTypeOK
<1>1. AnswersInv => SettingsTypeOK
  BY DEF AnswersInv
<1> QED BY <1>1, SettingsInvariant, PTL

(* While its instance is there, a promise that waits has exactly one       *)
(* request and a message for it is on its way, for any number of           *)
(* instances, properties and addresses, though a message only names an     *)
(* address that another request may have by then (ProcessMessageAsync-     *)
(* Callback).                                                              *)
THEOREM SettingsAnswerOnItsWay == SettingsSpec => []AnswerOnItsWay
<1>1. AnswersInv => AnswerOnItsWay
  BY AnswersInvEnough
<1> QED BY <1>1, SettingsInvariant, PTL

-----------------------------------------------------------------------------
(***************************************************************************)
(* Sessions and topics.  For any services, topics, functions and bounds,   *)
(* SnapshotCurrent: ids grow, so that a copied id that has died is never   *)
(* given to another function; KnownIds says it of every id that is kept.   *)
(***************************************************************************)
CidList == Seq(1..MaxCid)

ListenersShape ==
  /\ posted \in Seq([topic : Topic, cids : CidList])
  /\ running \in {Quiet} \cup [kind : {"selfclose"}, reply : Service \X {0}]
                   \cup [kind : {"peerclose"}, reply : Reply]
                   \cup [kind : {"deliver"}, topic : Topic, cids : CidList]

(* The ids in copies of listeners: a broadcast's, and what is left of it.  *)
Copied(t, c) ==
  \/ \E k \in DOMAIN posted : posted[k].topic = t /\ c \in Cids(posted[k].cids)
  \/ running.kind = "deliver" /\ running.topic = t /\ c \in Cids(running.cids)

KnownIds ==
  /\ \A f \in Fn : cidOf[f] <= lastCid
  /\ \A t \in Topic : \A c \in Heard(t) : c <= lastCid
  /\ \A t \in Topic : \A c \in 1..MaxCid : Copied(t, c) => c <= lastCid

CopiesHeard ==
  \A t \in Topic : \A c \in 1..MaxCid :
    Copied(t, c) /\ SomeLive(c) => c \in Heard(t)

ListenersInv == ListenersTypeOK /\ ListenersShape /\ KnownIds /\ CopiesHeard

-----------------------------------------------------------------------------
LEMMA WithoutOne ==
  ASSUME NEW T, NEW s \in Seq(T), NEW c \in Cids(s)
  PROVE  /\ Without(s, c) \in Seq(T) /\ Len(Without(s, c)) = Len(s) - 1
         /\ Cids(Without(s, c)) \subseteq Cids(s)
         /\ Cids(s) \ {c} \subseteq Cids(Without(s, c))
<1> DEFINE K == {n \in DOMAIN s : s[n] = c}
           First(n) == s[n] = c /\ \A m \in 1..(n - 1) : s[m] # c
           k == CHOOSE n \in DOMAIN s : First(n)
           w == RemoveAt(s, k)
<1>1. Len(s) \in Nat /\ DOMAIN s = 1..Len(s)
  BY LenProperties
<1>2. K \in SUBSET Nat /\ K # {}
  BY <1>1 DEF Cids
<1>3. PICK n \in K : \A i \in K : n <= i
  BY <1>2, LeastExists
<1>4. n \in DOMAIN s /\ First(n)
  BY <1>1, <1>3
<1>5. k \in DOMAIN s /\ First(k)
  BY <1>4
<1>6. Without(s, c) = w
  BY DEF Without, RemoveAt
<1> HIDE DEF k
<1>7. /\ w \in Seq(T) /\ Len(w) = Len(s) - 1
      /\ \A i \in 1..Len(s) - 1 : w[i] = IF i < k THEN s[i] ELSE s[i + 1]
  BY <1>5, ErasedAt
<1> HIDE DEF w
<1>8. DOMAIN w = 1..Len(s) - 1
  BY <1>7, LenProperties
<1>9. Cids(w) \subseteq Cids(s)
  <2>1. \A i \in 1..Len(s) - 1 : i \in DOMAIN s /\ i + 1 \in DOMAIN s
    BY <1>1
  <2> QED BY <1>7, <1>8, <2>1 DEF Cids
<1>10. ASSUME NEW i \in DOMAIN s, s[i] # c PROVE s[i] \in Cids(w)
  <2>1. i # k
    BY <1>5, <1>10
  <2>2. CASE i < k
    <3>1. i \in 1..Len(s) - 1
      BY <1>1, <1>5, <2>2
    <3> QED BY <1>7, <1>8, <2>2, <3>1 DEF Cids
  <2>3. CASE i > k
    <3>1. i - 1 \in 1..Len(s) - 1 /\ ~(i - 1 < k) /\ (i - 1) + 1 = i
      BY <1>1, <1>5, <2>3
    <3>2. w[i - 1] = s[i]
      BY <1>7, <3>1
    <3> QED BY <1>8, <3>1, <3>2 DEF Cids
  <2> QED BY <1>1, <1>5, <2>1, <2>2, <2>3
<1>11. Cids(s) \ {c} \subseteq Cids(w)
  BY <1>10 DEF Cids
<1> QED BY <1>6, <1>7, <1>9, <1>11

(* What a listener added to a topic, and one taken off the front, change.  *)
LEMMA CidsOf ==
  ASSUME NEW T, NEW s \in Seq(T)
  PROVE  /\ Cids(s) \subseteq T
         /\ \A e \in T : Append(s, e) \in Seq(T)
                         /\ Cids(Append(s, e)) = Cids(s) \cup {e}
         /\ s # <<>> => /\ Tail(s) \in Seq(T) /\ Head(s) \in Cids(s)
                        /\ Cids(Tail(s)) \subseteq Cids(s)
<1>1. Range(s) \subseteq T
  BY RangeOf, LenProperties
<1>2. \A e \in T : Append(s, e) \in Seq(T) /\ Range(Append(s, e)) = Range(s) \cup {e}
  BY RangeOfAppend, AppendProperties
<1>3. s # <<>> => /\ Tail(s) \in Seq(T) /\ Head(s) \in Range(s)
                  /\ Range(Tail(s)) \subseteq Range(s)
  BY RangeTail
<1> QED BY <1>1, <1>2, <1>3 DEF Cids, Range

-----------------------------------------------------------------------------
(* Nothing is copied, and of the ids so far those alive were alive before  *)
(* and are heard where they were.                                          *)
LEMMA CopiesStay ==
  ASSUME ListenersInv, ListenersTypeOK', ListenersShape',
         posted' = posted,
         running' = running \/ running'.kind # "deliver",
         lastCid' >= lastCid,
         \A f \in Fn : cidOf'[f] <= lastCid',
         \A t \in Topic : \A c \in Heard(t)' : c \in Heard(t) \/ c <= lastCid',
         \A c \in 1..lastCid : SomeLive(c)' =>
           /\ SomeLive(c)
           /\ \A t \in Topic : c \in Heard(t) => c \in Heard(t)'
  PROVE  KnownIds' /\ CopiesHeard'
<1>1. lastCid \in Nat /\ lastCid' \in Nat /\ MaxCid \in Nat
      /\ \A t \in Topic : Heard(t) \subseteq 1..MaxCid
  <2>1. \A t \in Topic : listeners[t] \in CidList
    BY DEF ListenersInv, ListenersTypeOK, CidList
  <2>2. \A t \in Topic : Cids(listeners[t]) \subseteq 1..MaxCid
    BY <2>1, CidsOf DEF CidList
  <2> QED BY <2>2, ListenersAssumption DEF ListenersInv, ListenersTypeOK, Heard, Cids
<1>2. \A t, c : Copied(t, c)' => Copied(t, c)
  BY DEF Copied
<1>3. ASSUME NEW t \in Topic, NEW c \in 1..MaxCid, Copied(t, c)'
      PROVE  c <= lastCid' /\ (SomeLive(c)' => c \in Heard(t)')
  <2>1. Copied(t, c) /\ c <= lastCid /\ c \in 1..lastCid
    BY <1>1, <1>2, <1>3 DEF ListenersInv, KnownIds
  <2>2. SomeLive(c)' => SomeLive(c) /\ (c \in Heard(t) => c \in Heard(t)')
    BY <2>1
  <2>3. SomeLive(c)' => c \in Heard(t)'
    BY <2>1, <2>2 DEF ListenersInv, CopiesHeard
  <2> QED BY <1>1, <2>1, <2>3
<1>4. KnownIds'
  <2>1. ASSUME NEW t \in Topic, NEW c \in Heard(t)' PROVE c <= lastCid'
    <3>1. CASE c \in Heard(t)
      <4>1. c <= lastCid /\ c \in 1..MaxCid
        BY <1>1, <3>1 DEF ListenersInv, KnownIds
      <4> QED BY <1>1, <4>1
    <3> QED BY <2>1, <3>1
  <2> QED BY <1>3, <2>1 DEF KnownIds
<1> QED BY <1>3, <1>4 DEF CopiesHeard
LEMMA IdsPassed ==
  ASSUME ListenersInv, NEW f \in Fn, Pass(f)
  PROVE  /\ cidOf' \in [Fn -> 0..MaxCid] /\ lastCid' \in 0..MaxCid
         /\ IdOf(f) \in 1..MaxCid /\ IdOf(f) <= lastCid'
         /\ lastCid' >= lastCid
         /\ \A g \in Fn : cidOf'[g] <= lastCid'
         /\ \A c \in 1..lastCid : SomeLive(c)' => SomeLive(c)
<1>1. /\ cidOf \in [Fn -> 0..MaxCid] /\ lastCid \in 0..MaxCid
      /\ MaxCid \in Nat /\ \A g \in Fn : cidOf[g] <= lastCid
  BY ListenersAssumption DEF ListenersInv, ListenersTypeOK, KnownIds
<1>2. CASE cidOf[f] # 0
  <2>1. cidOf' = cidOf /\ lastCid' = lastCid /\ IdOf(f) = cidOf[f]
    BY <1>1, <1>2 DEF Pass, IdOf
  <2> QED BY <1>1, <1>2, <2>1 DEF SomeLive
<1>3. CASE cidOf[f] = 0
  <2>1. /\ cidOf' = [cidOf EXCEPT ![f] = lastCid + 1]
        /\ lastCid' = lastCid + 1 /\ IdOf(f) = lastCid + 1
        /\ lastCid + 1 <= MaxCid
    BY <1>3 DEF Pass, IdOf
  <2>2. \A g \in Fn : cidOf'[g] = IF g = f THEN lastCid + 1 ELSE cidOf[g]
    BY <1>1, <2>1
  <2>3. \A c \in 1..lastCid : SomeLive(c)' => SomeLive(c)
    BY <1>1, <2>2 DEF SomeLive
  <2> QED BY <1>1, <2>1, <2>2, <2>3
<1> QED BY <1>2, <1>3

LEMMA IdsForgotten ==
  ASSUME ListenersInv, NEW cids, Forget(cids)
  PROVE  /\ cidOf' \in [Fn -> 0..MaxCid] /\ lastCid' \in 0..MaxCid
         /\ lastCid' = lastCid
         /\ \A g \in Fn : cidOf'[g] <= lastCid'
         /\ \A c \in 1..lastCid : SomeLive(c)' => SomeLive(c) /\ c \notin cids
<1>1. /\ cidOf \in [Fn -> 0..MaxCid] /\ lastCid \in 0..MaxCid
      /\ MaxCid \in Nat /\ \A g \in Fn : cidOf[g] <= lastCid
  BY ListenersAssumption DEF ListenersInv, ListenersTypeOK, KnownIds
<1>2. /\ cidOf' = [g \in Fn |-> IF cidOf[g] \in cids THEN 0 ELSE cidOf[g]]
      /\ lastCid' = lastCid
  BY DEF Forget
<1>3. \A g \in Fn : cidOf'[g] = IF cidOf[g] \in cids THEN 0 ELSE cidOf[g]
  BY <1>2
<1>4. \A c \in 1..lastCid : SomeLive(c)' => SomeLive(c) /\ c \notin cids
  BY <1>3 DEF SomeLive
<1> QED BY <1>1, <1>2, <1>3, <1>4

(* What changes no list of listeners and copies none. *)
LEMMA ListsStay ==
  ASSUME ListenersInv, ListenersTypeOK', ListenersShape',
         listeners' = listeners, posted' = posted,
         running' = running \/ running'.kind # "deliver",
         \/ \E f \in Fn : Pass(f)
         \/ \E cids : Forget(cids)
         \/ UNCHANGED <<cidOf, lastCid>>
  PROVE  ListenersInv'
<1>1. lastCid \in Nat /\ \A f \in Fn : cidOf[f] <= lastCid
  BY ListenersAssumption DEF ListenersInv, ListenersTypeOK, KnownIds
<1>2. /\ lastCid' >= lastCid
      /\ \A g \in Fn : cidOf'[g] <= lastCid'
      /\ \A c \in 1..lastCid : SomeLive(c)' => SomeLive(c)
  <2>1. CASE \E f \in Fn : Pass(f)  BY <2>1, IdsPassed
  <2>2. CASE \E cids : Forget(cids)
    <3>1. PICK cids : Forget(cids)
      BY <2>2
    <3> QED BY <1>1, <3>1, IdsForgotten
  <2>3. CASE UNCHANGED <<cidOf, lastCid>>
    BY <1>1, <2>3 DEF SomeLive
  <2> QED BY <2>1, <2>2, <2>3
<1>3. \A t : Heard(t)' = Heard(t)
  BY DEF Heard
<1> QED BY <1>2, <1>3, CopiesStay DEF ListenersInv

LEMMA ListenersInvInit == ListenersInit => ListenersInv
<1> SUFFICES ASSUME ListenersInit PROVE ListenersInv
  OBVIOUS
<1>1. <<>> \in CidList
  BY DEF CidList
<1>2. \A t \in Topic : Heard(t) = {}
  BY DEF Heard, ListenersInit
<1>3. \A t, c : ~Copied(t, c)
  BY DEF Copied, ListenersInit, Quiet
<1>4. ListenersTypeOK
  BY <1>1, ListenersAssumption
  DEF ListenersInit, ListenersTypeOK, Quiet, CidList
<1>5. ListenersShape
  BY DEF ListenersInit, ListenersShape
<1>6. \A f \in Fn : cidOf[f] <= lastCid
  BY DEF ListenersInit
<1> QED BY <1>2, <1>3, <1>4, <1>5, <1>6
  DEF ListenersInv, KnownIds, CopiesHeard

LEMMA ListenersInvSessions ==
  ASSUME ListenersInv, NEW s \in Service,
         \/ CreateSession(s) \/ SessionSend(s) \/ SessionClose(s)
         \/ \E f \in Fn : SessionOnData(s, f) \/ SessionOnClose(s, f)
  PROVE  ListenersInv'
<1>1. ListenersTypeOK /\ ListenersShape
  BY DEF ListenersInv
<1>2. CASE CreateSession(s)
  <2>1. ListenersTypeOK'  BY <1>1, <1>2 DEF CreateSession, ListenersTypeOK
  <2>2. ListenersShape'  BY <1>1, <1>2 DEF CreateSession, ListenersShape
  <2> QED BY <1>2, <2>1, <2>2, ListsStay DEF CreateSession
<1>3. CASE SessionSend(s)
  <2>1. ListenersTypeOK'  BY <1>1, <1>3 DEF SessionSend, ListenersTypeOK
  <2>2. ListenersShape'  BY <1>1, <1>3 DEF SessionSend, ListenersShape
  <2> QED BY <1>3, <2>1, <2>2, ListsStay DEF SessionSend
<1>4. CASE SessionClose(s)
  <2>1. running' = running \/ running' = [kind |-> "selfclose", reply |-> <<s, 0>>]
    BY <1>4 DEF SessionClose
  <2>2. ListenersTypeOK'
    BY <1>1, <1>4, <2>1 DEF SessionClose, ListenersTypeOK
  <2>3. ListenersShape'
    BY <1>1, <1>4, <2>1 DEF SessionClose, ListenersShape
  <2> QED BY <1>4, <2>1, <2>2, <2>3, ListsStay DEF SessionClose
<1>5. ASSUME NEW f \in Fn, SessionOnData(s, f) PROVE ListenersInv'
  <2>1. /\ cidOf' \in [Fn -> 0..MaxCid] /\ lastCid' \in 0..MaxCid
        /\ IdOf(f) \in 0..MaxCid
    BY <1>5, IdsPassed, ListenersAssumption DEF SessionOnData
  <2>2. ListenersTypeOK'
    BY <1>1, <1>5, <2>1 DEF SessionOnData, ListenersTypeOK
  <2>3. ListenersShape'  BY <1>1, <1>5 DEF SessionOnData, ListenersShape
  <2> QED BY <1>5, <2>2, <2>3, ListsStay DEF SessionOnData
<1>6. ASSUME NEW f \in Fn, SessionOnClose(s, f) PROVE ListenersInv'
  <2>1. /\ cidOf' \in [Fn -> 0..MaxCid] /\ lastCid' \in 0..MaxCid
        /\ IdOf(f) \in 0..MaxCid
    BY <1>6, IdsPassed, ListenersAssumption DEF SessionOnClose
  <2>2. ListenersTypeOK'
    BY <1>1, <1>6, <2>1 DEF SessionOnClose, ListenersTypeOK
  <2>3. ListenersShape'  BY <1>1, <1>6 DEF SessionOnClose, ListenersShape
  <2> QED BY <1>6, <2>2, <2>3, ListsStay DEF SessionOnClose
<1> QED BY <1>2, <1>3, <1>4, <1>5, <1>6

LEMMA ListenersInvServer ==
  ASSUME ListenersInv, NEW x \in Reply,
         ServerAccepts(x) \/ PeerCloses(x) \/ PeerClosesOther(x)
  PROVE  ListenersInv'
<1>1. ListenersTypeOK /\ ListenersShape
  BY DEF ListenersInv
<1>2. CASE ServerAccepts(x)
  <2>1. ListenersTypeOK'  BY <1>1, <1>2 DEF ServerAccepts, ListenersTypeOK
  <2>2. ListenersShape'  BY <1>1, <1>2 DEF ServerAccepts, ListenersShape
  <2> QED BY <1>2, <2>1, <2>2, ListsStay DEF ServerAccepts
<1>3. CASE PeerClosesOther(x)
  <2>1. ListenersTypeOK'  BY <1>1, <1>3 DEF PeerClosesOther, ListenersTypeOK
  <2>2. ListenersShape'  BY <1>1, <1>3 DEF PeerClosesOther, ListenersShape
  <2> QED BY <1>3, <2>1, <2>2, ListsStay DEF PeerClosesOther
<1>4. CASE PeerCloses(x)
  <2>1. running' = running \/ running' = [kind |-> "peerclose", reply |-> x]
    BY <1>4 DEF PeerCloses
  <2>2. Forget({ondata[x[1]]}) \/ UNCHANGED <<cidOf, lastCid>>
    BY <1>4 DEF PeerCloses
  <2>3. cidOf' \in [Fn -> 0..MaxCid] /\ lastCid' \in 0..MaxCid
    BY <1>1, <2>2, IdsForgotten DEF ListenersTypeOK
  <2>4. ondata' = ondata \/ ondata' = [ondata EXCEPT ![x[1]] = 0]
    BY <1>4 DEF PeerCloses
  <2>5. /\ replies' \subseteq replies /\ session' \subseteq session
        /\ serving' \subseteq serving
    BY <1>4 DEF PeerCloses, EraseSession
  <2>6. /\ UNCHANGED <<hasChannel, wire, onclose, listeners, pointing, posted>>
        /\ MaxCid \in Nat
    BY <1>4, ListenersAssumption DEF PeerCloses
  <2>7. ListenersTypeOK'
    BY <1>1, <2>1, <2>3, <2>4, <2>5, <2>6 DEF ListenersTypeOK
  <2>8. ListenersShape'
    BY <1>1, <2>1, <2>6 DEF ListenersShape
  <2> QED BY <2>1, <2>2, <2>6, <2>7, <2>8, ListsStay
<1> QED BY <1>2, <1>3, <1>4

LEMMA ListenersInvCloseReturns ==
  ASSUME ListenersInv, SelfCloseReturns \/ PeerCloseReturns
  PROVE  ListenersInv'
<1>1. ListenersTypeOK /\ ListenersShape
  BY DEF ListenersInv
<1>2. CASE SelfCloseReturns
  <2>1. cidOf' \in [Fn -> 0..MaxCid] /\ lastCid' \in 0..MaxCid /\ MaxCid \in Nat
    BY <1>2, IdsForgotten, ListenersAssumption DEF SelfCloseReturns
  <2>4. onclose' \in [Service -> 0..MaxCid] /\ running'.kind = "idle"
    <3>1. \E s : onclose' = [onclose EXCEPT ![s] = 0]
      BY <1>2 DEF SelfCloseReturns
    <3>2. running' = Quiet
      BY <1>2 DEF SelfCloseReturns
    <3>3. onclose \in [Service -> 0..MaxCid] /\ 0 \in 0..MaxCid
      BY <1>1, <2>1 DEF ListenersTypeOK
    <3>4. onclose' \in [Service -> 0..MaxCid]
      BY <3>1, <3>3
    <3> QED BY <3>2, <3>4 DEF Quiet
  <2>2. ListenersTypeOK'
    BY <1>1, <1>2, <2>1, <2>4 DEF SelfCloseReturns, ListenersTypeOK
  <2>3. ListenersShape'
    BY <1>1, <1>2 DEF SelfCloseReturns, ListenersShape
  <2> QED BY <1>2, <2>2, <2>3, ListsStay DEF SelfCloseReturns, Quiet
<1>3. CASE PeerCloseReturns
  <2>1. cidOf' \in [Fn -> 0..MaxCid] /\ lastCid' \in 0..MaxCid /\ MaxCid \in Nat
    BY <1>3, IdsForgotten, ListenersAssumption DEF PeerCloseReturns
  <2>4. /\ onclose' \in [Service -> 0..MaxCid] /\ running'.kind = "idle"
        /\ ondata' \in [Service -> 0..MaxCid]
    <3>1. \E s : /\ onclose' = [onclose EXCEPT ![s] = 0]
                 /\ ondata' = [ondata EXCEPT ![s] = 0]
      BY <1>3 DEF PeerCloseReturns
    <3>2. running' = Quiet
      BY <1>3 DEF PeerCloseReturns
    <3>3. /\ onclose \in [Service -> 0..MaxCid] /\ 0 \in 0..MaxCid
          /\ ondata \in [Service -> 0..MaxCid]
      BY <1>1, <2>1 DEF ListenersTypeOK
    <3>4. /\ onclose' \in [Service -> 0..MaxCid]
          /\ ondata' \in [Service -> 0..MaxCid]
      BY <3>1, <3>3
    <3> QED BY <3>2, <3>4 DEF Quiet
  <2>2. ListenersTypeOK'
    BY <1>1, <1>3, <2>1, <2>4
    DEF PeerCloseReturns, EraseSession, ListenersTypeOK
  <2>3. ListenersShape'
    BY <1>1, <1>3 DEF PeerCloseReturns, ListenersShape
  <2> QED BY <1>3, <2>2, <2>3, ListsStay DEF PeerCloseReturns, Quiet
<1> QED BY <1>2, <1>3

(* A topic whose list changes: the ids it loses are dead.                  *)
LEMMA ListChanges ==
  ASSUME ListenersInv, NEW t \in Topic, NEW l \in CidList,
         listeners' = [listeners EXCEPT ![t] = l],
         posted' = posted, running' = running,
         UNCHANGED <<hasChannel, session, replies, wire, serving, ondata, onclose>>,
         pointing' \subseteq pointing \cup {t},
         cidOf' \in [Fn -> 0..MaxCid], lastCid' \in 0..MaxCid,
         lastCid' >= lastCid, \A g \in Fn : cidOf'[g] <= lastCid',
         \A c \in Cids(l) : c \in Heard(t) \/ c <= lastCid',
         \A c \in 1..lastCid : SomeLive(c)' =>
           SomeLive(c) /\ (c \in Heard(t) => c \in Cids(l))
  PROVE  ListenersInv'
<1>1. ListenersTypeOK /\ ListenersShape
  BY DEF ListenersInv
<1>2. listeners \in [Topic -> CidList] /\ listeners' \in [Topic -> CidList]
  BY <1>1 DEF ListenersTypeOK, CidList
<1>3. ListenersTypeOK'
  BY <1>1, <1>2 DEF ListenersTypeOK, CidList
<1>4. ListenersShape'
  BY <1>1 DEF ListenersShape
<1>5. /\ Heard(t)' = Cids(l)
      /\ \A u \in Topic : u # t => Heard(u)' = Heard(u)
  BY <1>2 DEF Heard, Cids
<1>6. \A u \in Topic : \A c \in Heard(u)' : c \in Heard(u) \/ c <= lastCid'
  BY <1>5
<1>7. \A c \in 1..lastCid : SomeLive(c)' =>
        SomeLive(c) /\ \A u \in Topic : c \in Heard(u) => c \in Heard(u)'
  BY <1>5
<1> QED BY <1>3, <1>4, <1>6, <1>7, CopiesStay DEF ListenersInv

LEMMA ListenersInvSet ==
  ASSUME ListenersInv, NEW t \in Topic, NEW f \in Fn, SetTopicListener(t, f)
  PROVE  ListenersInv'
<1> DEFINE l == Append(listeners[t], IdOf(f))
<1>1. listeners[t] \in CidList /\ IdOf(f) \in 1..MaxCid
  BY IdsPassed DEF ListenersInv, ListenersTypeOK, SetTopicListener, CidList
<1>2. l \in CidList /\ Cids(l) = Heard(t) \cup {IdOf(f)}
  <2>1. \A e \in 1..MaxCid :
          /\ Append(listeners[t], e) \in Seq(1..MaxCid)
          /\ Cids(Append(listeners[t], e)) = Cids(listeners[t]) \cup {e}
    BY <1>1, CidsOf DEF CidList
  <2>2. Heard(t) = Cids(listeners[t])
    BY DEF Heard, Cids
  <2> QED BY <1>1, <2>1, <2>2 DEF CidList
<1>3. listeners' = [listeners EXCEPT ![t] = l] /\ Pass(f)
  BY DEF SetTopicListener
<1>4. /\ UNCHANGED <<hasChannel, session, replies, wire, serving, ondata, onclose>>
      /\ pointing' \subseteq pointing \cup {t}
      /\ posted' = posted /\ running' = running
  BY DEF SetTopicListener
<1> HIDE DEF l
<1> QED BY <1>2, <1>3, <1>4, IdsPassed, ListChanges

LEMMA ListenersInvUnset ==
  ASSUME ListenersInv, NEW t \in Topic, UnsetTopicListener(t)
  PROVE  ListenersInv'
<1>1. <<>> \in CidList /\ Cids(<<>>) = {}
  BY DEF CidList, Cids
<1>2. listeners' = [listeners EXCEPT ![t] = <<>>] /\ Forget(Heard(t))
  BY DEF UnsetTopicListener
<1>3. /\ UNCHANGED <<hasChannel, session, replies, wire, serving, ondata, onclose>>
      /\ pointing' \subseteq pointing \cup {t}
      /\ posted' = posted /\ running' = running
  BY DEF UnsetTopicListener
<1>4. lastCid \in 0..MaxCid /\ MaxCid \in Nat
  BY ListenersAssumption DEF ListenersInv, ListenersTypeOK
<1>5. /\ cidOf' \in [Fn -> 0..MaxCid] /\ lastCid' \in 0..MaxCid
      /\ lastCid' >= lastCid /\ \A g \in Fn : cidOf'[g] <= lastCid'
      /\ \A c \in 1..lastCid : SomeLive(c)' => SomeLive(c) /\ c \notin Heard(t)
  BY <1>2, <1>4, IdsForgotten
<1> QED BY <1>1, <1>2, <1>3, <1>5, ListChanges

LEMMA ListenersInvUnsetCb ==
  ASSUME ListenersInv, NEW t \in Topic, NEW f \in Fn, UnsetTopicListenerCb(t, f)
  PROVE  ListenersInv'
<1>1. /\ ListenersTypeOK /\ ListenersShape
      /\ UNCHANGED <<hasChannel, session, replies, wire, serving, ondata, onclose>>
      /\ posted' = posted /\ running' = running
  BY DEF ListenersInv, UnsetTopicListenerCb
<1>2. CASE cidOf[f] \notin Heard(t)
  <2>1. Pass(f) /\ UNCHANGED <<listeners, pointing>>
    BY <1>2 DEF UnsetTopicListenerCb
  <2>2. cidOf' \in [Fn -> 0..MaxCid] /\ lastCid' \in 0..MaxCid
    BY <2>1, IdsPassed
  <2>3. ListenersTypeOK'
    BY <1>1, <2>1, <2>2 DEF ListenersTypeOK
  <2>4. ListenersShape'
    BY <1>1 DEF ListenersShape
  <2> QED BY <1>1, <2>1, <2>3, <2>4, ListsStay
<1>3. CASE cidOf[f] \in Heard(t)
  <2> DEFINE c == cidOf[f]
             l == Without(listeners[t], c)
  <2>1. Forget({c}) /\ listeners' = [listeners EXCEPT ![t] = l]
        /\ pointing' \subseteq pointing \cup {t}
    BY <1>3 DEF UnsetTopicListenerCb
  <2>2. listeners[t] \in CidList
    BY <1>1 DEF ListenersTypeOK, CidList
  <2>3. Heard(t) = Cids(listeners[t])
    BY DEF Heard, Cids
  <2>4. /\ l \in CidList /\ Cids(l) \subseteq Heard(t)
        /\ Heard(t) \ {c} \subseteq Cids(l)
    BY <1>3, <2>2, <2>3, WithoutOne DEF CidList
  <2>5. lastCid \in 0..MaxCid /\ MaxCid \in Nat
    BY <1>1, ListenersAssumption DEF ListenersTypeOK
  <2>6. /\ cidOf' \in [Fn -> 0..MaxCid] /\ lastCid' \in 0..MaxCid
        /\ lastCid' >= lastCid /\ \A g \in Fn : cidOf'[g] <= lastCid'
        /\ \A d \in 1..lastCid : SomeLive(d)' => SomeLive(d) /\ d \notin {c}
    BY <2>1, <2>5, IdsForgotten
  <2> HIDE DEF c, l
  <2> QED BY <1>1, <2>1, <2>4, <2>6, ListChanges
<1> QED BY <1>2, <1>3

LEMMA ListenersInvBroadcast ==
  ASSUME ListenersInv, NEW t \in Topic, Broadcast(t)
  PROVE  ListenersInv'
<1> DEFINE b == [topic |-> t, cids |-> listeners[t]]
           B == [topic : Topic, cids : CidList]
<1>1. /\ ListenersTypeOK /\ ListenersShape
      /\ UNCHANGED <<hasChannel, cidOf, lastCid, session, replies, wire, serving,
                     ondata, onclose, listeners, pointing, running>>
      /\ posted' = Append(posted, b)
  BY DEF ListenersInv, Broadcast
<1>2. b \in B /\ posted \in Seq(B)
  BY <1>1 DEF ListenersTypeOK, ListenersShape, CidList
<1>3. b.topic = t /\ Cids(b.cids) = Heard(t)
  BY DEF Heard, Cids
<1> HIDE DEF b, B
<1>4. /\ posted' \in Seq(B) /\ DOMAIN posted' = 1..Len(posted) + 1
      /\ DOMAIN posted = 1..Len(posted) /\ Len(posted) \in Nat
      /\ posted'[Len(posted) + 1] = b
      /\ \A k \in 1..Len(posted) : posted'[k] = posted[k]
  BY <1>1, <1>2, AppendProperties, LenProperties
<1>5. \A k \in DOMAIN posted' : \/ k \in DOMAIN posted /\ posted'[k] = posted[k]
                                \/ posted'[k] = b
  BY <1>4
<1>6. ListenersTypeOK'
  <2>1. \A k \in DOMAIN posted' : posted'[k].topic \in Topic
    BY <1>1, <1>3, <1>5 DEF ListenersTypeOK
  <2> QED BY <1>1, <2>1 DEF ListenersTypeOK
<1>7. ListenersShape'
  BY <1>1, <1>4 DEF ListenersShape, B
<1>8. \A u, c : Copied(u, c)' => Copied(u, c) \/ (u = t /\ c \in Heard(t))
  BY <1>1, <1>3, <1>5 DEF Copied
<1>9. /\ \A u \in Topic : Heard(u)' = Heard(u)
      /\ \A c : SomeLive(c)' <=> SomeLive(c)
  BY <1>1 DEF Heard, SomeLive
<1>10. KnownIds'
  BY <1>1, <1>8, <1>9 DEF KnownIds, ListenersInv
<1>11. CopiesHeard'
  BY <1>8, <1>9 DEF CopiesHeard, ListenersInv
<1> QED BY <1>6, <1>7, <1>10, <1>11 DEF ListenersInv

(* What leaves the lists and only calls, or gives up, what was copied.     *)
LEMMA CopiesShrink ==
  ASSUME ListenersInv, ListenersTypeOK', ListenersShape',
         UNCHANGED <<cidOf, lastCid, listeners>>,
         \A t, c : Copied(t, c)' => Copied(t, c)
  PROVE  ListenersInv'
<1>1. /\ \A u \in Topic : Heard(u)' = Heard(u)
      /\ \A c : SomeLive(c)' <=> SomeLive(c)
  BY DEF Heard, SomeLive
<1>2. KnownIds'
  BY <1>1 DEF KnownIds, ListenersInv
<1>3. CopiesHeard'
  BY <1>1 DEF CopiesHeard, ListenersInv
<1> QED BY <1>2, <1>3 DEF ListenersInv

LEMMA ListenersInvDelivery ==
  ASSUME ListenersInv, StartDelivery \/ Deliver
  PROVE  ListenersInv'
<1> DEFINE B == [topic : Topic, cids : CidList]
<1>1. /\ ListenersTypeOK /\ ListenersShape /\ posted \in Seq(B)
      /\ UNCHANGED <<hasChannel, cidOf, lastCid, session, replies, wire, serving,
                     ondata, onclose, listeners, pointing>>
  BY DEF ListenersInv, ListenersShape, StartDelivery, Deliver
<1>2. CASE StartDelivery
  <2> DEFINE b == Head(posted)
             n == [kind |-> "deliver", topic |-> b.topic, cids |-> b.cids]
  <2>1. posted # <<>> /\ posted' = Tail(posted) /\ running' = n
    BY <1>2 DEF StartDelivery
  <2>2. /\ b \in B /\ posted' \in Seq(B) /\ b = posted[1] /\ 1 \in DOMAIN posted
        /\ \A k \in DOMAIN posted' :
             k + 1 \in DOMAIN posted /\ posted'[k] = posted[k + 1]
    <3>1. /\ b \in B /\ posted' \in Seq(B) /\ b = posted[1]
          /\ Len(posted') = Len(posted) - 1
          /\ \A k \in 1..Len(posted') : posted'[k] = posted[k + 1]
      <4> HIDE DEF B
      <4> QED BY <1>1, <2>1, HeadTailProperties
    <3>2. Len(posted) \in Nat \ {0} /\ DOMAIN posted = 1..Len(posted)
          /\ DOMAIN posted' = 1..Len(posted')
      BY <1>1, <2>1, <3>1, EmptySeq, LenProperties
    <3> QED BY <3>1, <3>2
  <2> HIDE DEF b
  <2>3. b.topic \in Topic /\ b.cids \in CidList
    BY <2>2
  <2>4. ListenersTypeOK'
    <3>1. \A k \in DOMAIN posted' : posted'[k].topic \in Topic
      BY <1>1, <2>2 DEF ListenersTypeOK
    <3> QED BY <1>1, <2>1, <3>1 DEF ListenersTypeOK
  <2>5. ListenersShape'
    BY <2>1, <2>2, <2>3 DEF ListenersShape
  <2>6. \A t, c : Copied(t, c)' => Copied(t, c)
    BY <2>1, <2>2 DEF Copied
  <2> QED BY <1>1, <2>4, <2>5, <2>6, CopiesShrink
<1>3. CASE Deliver
  <2>1. posted' = posted
    BY <1>3 DEF Deliver
  <2>2. CASE running' = Quiet
    <3>1. ListenersTypeOK'
      BY <1>1, <2>1, <2>2 DEF ListenersTypeOK, Quiet
    <3>2. ListenersShape'
      BY <1>1, <2>1, <2>2 DEF ListenersShape
    <3>3. \A t, c : Copied(t, c)' => Copied(t, c)
      BY <2>1, <2>2 DEF Copied, Quiet
    <3> QED BY <1>1, <3>1, <3>2, <3>3, CopiesShrink
  <2>3. CASE running' # Quiet
    <3>1. /\ running.kind = "deliver" /\ running.cids # <<>>
          /\ running' = [running EXCEPT !.cids = Tail(@)]
      BY <1>3, <2>3 DEF Deliver
    <3>2. running \in [kind : {"deliver"}, topic : Topic, cids : CidList]
      BY <1>1, <3>1 DEF ListenersShape, Quiet
    <3>3. running.cids \in CidList
      BY <3>2
    <3>4. /\ Tail(running.cids) \in CidList
          /\ Cids(Tail(running.cids)) \subseteq Cids(running.cids)
      BY <3>1, <3>3, CidsOf DEF CidList
    <3>5. running' = [kind |-> "deliver", topic |-> running.topic,
                      cids |-> Tail(running.cids)]
      BY <3>1, <3>2
    <3>6. ListenersTypeOK'
      BY <1>1, <2>1, <3>5 DEF ListenersTypeOK
    <3>7. ListenersShape'
      BY <1>1, <2>1, <3>2, <3>4, <3>5 DEF ListenersShape
    <3>8. \A t, c : Copied(t, c)' => Copied(t, c)
      BY <2>1, <3>1, <3>4, <3>5 DEF Copied
    <3> QED BY <1>1, <3>6, <3>7, <3>8, CopiesShrink
  <2> QED BY <2>2, <2>3
<1> QED BY <1>2, <1>3

LEMMA ListenersInvDetach ==
  ASSUME ListenersInv, ListenersDetach
  PROVE  ListenersInv'
<1>1. /\ ListenersTypeOK /\ ListenersShape /\ KnownIds
      /\ UNCHANGED <<lastCid, wire, serving, posted, running>>
      /\ MaxCid \in Nat
  BY ListenersAssumption DEF ListenersInv, ListenersDetach
<1>2. <<>> \in CidList
  BY DEF CidList
<1>3. ListenersTypeOK'
  <2>1. /\ listeners' \in [Topic -> Seq(1..MaxCid)]
        /\ cidOf' \in [Fn -> 0..MaxCid] /\ hasChannel' \in BOOLEAN
        /\ ondata' \in [Service -> 0..MaxCid] /\ onclose' \in [Service -> 0..MaxCid]
        /\ session' = {} /\ replies' = {} /\ pointing' \subseteq pointing
    <3>1. 0 \in 0..MaxCid
      BY <1>1
    <3>2. /\ hasChannel' = FALSE /\ session' = {} /\ replies' = {}
          /\ pointing' \subseteq pointing
          /\ cidOf' = [f \in Fn |-> 0]
          /\ ondata' = [s \in Service |-> 0] /\ onclose' = [s \in Service |-> 0]
          /\ listeners' = [t \in Topic |-> <<>>]
      BY DEF ListenersDetach
    <3>3. listeners' \in [Topic -> Seq(1..MaxCid)]
      BY <1>2, <3>2 DEF CidList
    <3> QED BY <3>1, <3>2, <3>3
  <2> QED BY <1>1, <2>1 DEF ListenersTypeOK
<1>4. ListenersShape'
  BY <1>1 DEF ListenersShape
<1>5. \A c : ~SomeLive(c)'
  BY DEF SomeLive, ListenersDetach
<1>6. \A t \in Topic : Heard(t)' = {}
  BY DEF Heard, ListenersDetach
<1>7. \A t, c : Copied(t, c)' <=> Copied(t, c)
  BY <1>1 DEF Copied
<1>8. KnownIds'
  <2>1. lastCid \in Nat /\ \A f \in Fn : cidOf'[f] = 0
    BY <1>1 DEF ListenersDetach, ListenersTypeOK
  <2> QED BY <1>1, <1>6, <1>7, <2>1 DEF KnownIds
<1> QED BY <1>3, <1>4, <1>5, <1>8 DEF ListenersInv, CopiesHeard

LEMMA ListenersInvStep ==
  ASSUME ListenersInv, [ListenersNext]_mlVars
  PROVE  ListenersInv'
<1>1. CASE UNCHANGED mlVars
  <2>1. ListenersTypeOK' /\ ListenersShape'
    BY <1>1 DEF mlVars, ListenersInv, ListenersTypeOK, ListenersShape
  <2> QED BY <1>1, <2>1, ListsStay DEF mlVars
<1>2. CASE ListenersNext
  BY <1>1, <1>2, ListenersInvSessions, ListenersInvServer,
     ListenersInvCloseReturns, ListenersInvSet, ListenersInvUnset,
     ListenersInvUnsetCb, ListenersInvBroadcast, ListenersInvDelivery,
     ListenersInvDetach
  DEF ListenersNext, ListenersFinished
<1> QED BY <1>1, <1>2

LEMMA ListenersInvariant == ListenersSpec => []ListenersInv
BY ListenersInvInit, ListenersInvStep, PTL DEF ListenersSpec

(* The listeners copied for a broadcast are called later, when any of them *)
(* may have been unset and its function passed again: no function is       *)
(* called for a topic it is not set on.                                    *)
THEOREM ListenersSnapshotCurrent == ListenersSpec => []SnapshotCurrent
<1>1. ListenersInv => SnapshotCurrent
  <2> SUFFICES ASSUME ListenersInv PROVE SnapshotCurrent
    OBVIOUS
  <2>1. ASSUME NEW k \in DOMAIN posted, NEW c \in Cids(posted[k].cids)
        PROVE  posted[k].topic \in Topic /\ c \in 1..MaxCid
               /\ Copied(posted[k].topic, c)
    <3>1. posted[k].topic \in Topic /\ posted[k].cids \in CidList
      <4>1. posted[k] \in [topic : Topic, cids : CidList]
        <5> DEFINE B == [topic : Topic, cids : CidList]
        <5>1. posted \in Seq(B)
          BY DEF ListenersInv, ListenersShape
        <5> HIDE DEF B
        <5>2. posted[k] \in B
          BY <5>1
        <5> QED BY <5>2 DEF B
      <4> QED BY <4>1
    <3> QED BY <3>1, CidsOf DEF CidList, Copied
  <2>2. ASSUME running.kind = "deliver", NEW c \in Cids(running.cids)
        PROVE  running.topic \in Topic /\ c \in 1..MaxCid
               /\ Copied(running.topic, c)
    <3>1. running.topic \in Topic /\ running.cids \in CidList
      BY <2>2 DEF ListenersInv, ListenersShape, Quiet
    <3> QED BY <2>2, <3>1, CidsOf DEF CidList, Copied
  <2> QED BY <2>1, <2>2 DEF SnapshotCurrent, ListenersInv, CopiesHeard
<1> QED BY <1>1, ListenersInvariant, PTL

(* Ids, sessions, lists and copies of them have their types.               *)
THEOREM ListenersTypesHold == ListenersSpec => []ListenersTypeOK
<1>1. ListenersInv => ListenersTypeOK
  BY DEF ListenersInv
<1> QED BY <1>1, ListenersInvariant, PTL

-----------------------------------------------------------------------------
(***************************************************************************)
(* ListenersCutOff, as long as no message of a session is sent or on its   *)
(* way while the server closes that session.  ~ClientConnection clears     *)
(* what it finds in its maps, so that the invariant has to say that the    *)
(* maps lead to everything that points back: PointersKnown.  A session     *)
(* has one reply object (OneReply), the one erased by the id is therefore  *)
(* the one that the server drops; OneClosed is that object while the       *)
(* script's onclose runs.                                                  *)
(***************************************************************************)
PointersKnown ==
  hasChannel => /\ \A t \in Topic : t \in pointing => listeners[t] # <<>>
                /\ pointing \cap (wire \cup serving) \subseteq replies

OneReply == \A x, y \in replies : x[1] = y[1] => x = y

OneClosed ==
  running.kind = "peerclose" =>
    hasChannel /\ running.reply \in (serving \cap pointing) \ wire

CutInv == PointersKnown /\ OneReply /\ OneClosed /\ ListenersCutOff

LEMMA CutInvInit == ListenersInit => CutInv
BY DEF ListenersInit, CutInv, PointersKnown, OneReply, OneClosed,
   ListenersCutOff, Quiet

(* Steps that have nothing to do with reply objects or pointers.           *)
LEMMA CutStays ==
  ASSUME CutInv, ListenersInv,
         UNCHANGED <<hasChannel, replies, wire, serving, pointing, listeners>>,
         running' = running \/ running'.kind # "peerclose"
  PROVE  CutInv'
BY DEF CutInv, PointersKnown, OneReply, OneClosed, ListenersCutOff

LEMMA CutInvSend ==
  ASSUME CutInv, ListenersInv, ~Crossing, NEW s \in Service, SessionSend(s)
  PROVE  CutInv'
<1>1. PICK x \in Reply :
        /\ x[1] = s
        /\ IF \E y \in replies : y[1] = s THEN x \in replies
           ELSE x \notin wire \cup serving
        /\ replies' = replies \cup {x}
        /\ pointing' = pointing \cup {x}
        /\ wire' \in {wire, wire \cup {x}}
  BY DEF SessionSend
<1>2. /\ hasChannel /\ hasChannel' /\ ~Closing(s)
      /\ serving' = serving /\ listeners' = listeners /\ running' = running
  BY DEF SessionSend
<1>3. wire' \subseteq wire \cup {x}
  BY <1>1
<1>4. x \notin Topic /\ wire \subseteq Reply /\ serving \subseteq Reply
      /\ replies \subseteq Reply
  BY ListenersAssumption DEF ListenersInv, ListenersTypeOK
<1>5. PointersKnown'
  BY <1>1, <1>2, <1>3, <1>4 DEF PointersKnown, CutInv
<1>6. OneReply'
  <2>1. \A y \in replies : y[1] = s => x = y
    BY <1>1 DEF OneReply, CutInv
  <2> QED BY <1>1, <2>1 DEF OneReply, CutInv
<1>7. OneClosed'
  BY <1>1, <1>2, <1>3 DEF OneClosed, CutInv, Closing
<1>8. ListenersCutOff'
  BY <1>2 DEF ListenersCutOff
<1> QED BY <1>5, <1>6, <1>7, <1>8 DEF CutInv

LEMMA CutInvServer ==
  ASSUME CutInv, ListenersInv, ~Crossing, NEW x \in Reply,
         ServerAccepts(x) \/ PeerClosesOther(x)
  PROVE  CutInv'
<1>1. /\ UNCHANGED <<hasChannel, replies, pointing, listeners, running>>
      /\ wire' \cup serving' \subseteq wire \cup serving
      /\ running.kind # "peerclose"
  BY DEF ServerAccepts, PeerClosesOther
<1>2. PointersKnown'
  BY <1>1 DEF PointersKnown, CutInv
<1>3. OneReply'
  BY <1>1 DEF OneReply, CutInv
<1>4. OneClosed'
  BY <1>1 DEF OneClosed
<1>5. ListenersCutOff'
  BY <1>1 DEF ListenersCutOff, CutInv
<1> QED BY <1>2, <1>3, <1>4, <1>5 DEF CutInv

(* The object that is closed is the one reply of its session.              *)
LEMMA CutErased ==
  ASSUME CutInv, ListenersInv, NEW x \in Reply, EraseSession(x),
         hasChannel, x \in serving \cap pointing, x \notin wire,
         UNCHANGED <<hasChannel, wire, listeners, pointing>>,
         running'.kind # "peerclose"
  PROVE  CutInv'
<1>1. x \in replies
  BY DEF CutInv, PointersKnown
<1>2. \A y \in replies : y # x => y \in replies'
  BY <1>1 DEF EraseSession, CutInv, OneReply
<1>3. serving' = serving \ {x} /\ replies' \subseteq replies
  BY DEF EraseSession
<1>4. PointersKnown'
  BY <1>2, <1>3 DEF PointersKnown, CutInv
<1>5. OneReply'
  BY <1>3 DEF OneReply, CutInv
<1>6. OneClosed' /\ ListenersCutOff'
  BY DEF OneClosed, ListenersCutOff
<1> QED BY <1>4, <1>5, <1>6 DEF CutInv

LEMMA CutInvCloses ==
  ASSUME CutInv, ListenersInv, ~Crossing, NEW x \in Reply, PeerCloses(x)
  PROVE  CutInv'
<1>1. /\ hasChannel /\ x \in serving \cap pointing /\ x \notin wire
      /\ running = Quiet
      /\ UNCHANGED <<hasChannel, wire, listeners, pointing>>
  BY DEF PeerCloses
<1>2. CASE EraseSession(x) /\ UNCHANGED running
  BY <1>1, <1>2, CutErased DEF Quiet
<1>3. CASE /\ running' = [kind |-> "peerclose", reply |-> x]
           /\ UNCHANGED <<replies, serving>>
  <2>1. PointersKnown' /\ OneReply' /\ ListenersCutOff'
    BY <1>1, <1>3 DEF CutInv, PointersKnown, OneReply, ListenersCutOff
  <2>2. OneClosed'
    BY <1>1, <1>3 DEF OneClosed
  <2> QED BY <2>1, <2>2 DEF CutInv
<1> QED BY <1>2, <1>3 DEF PeerCloses

LEMMA CutInvCloseReturns ==
  ASSUME CutInv, ListenersInv, SelfCloseReturns \/ PeerCloseReturns
  PROVE  CutInv'
<1>1. CASE SelfCloseReturns
  BY <1>1, CutStays DEF SelfCloseReturns, Quiet
<1>2. CASE PeerCloseReturns
  <2> DEFINE x == running.reply
  <2>1. /\ running.kind = "peerclose" /\ EraseSession(x)
        /\ UNCHANGED <<hasChannel, wire, listeners, pointing>>
        /\ running'.kind # "peerclose"
    BY <1>2 DEF PeerCloseReturns, Quiet
  <2>2. /\ hasChannel /\ x \in serving \cap pointing /\ x \notin wire
        /\ x \in Reply
    BY <2>1 DEF CutInv, OneClosed, ListenersInv, ListenersTypeOK
  <2> HIDE DEF x
  <2> QED BY <2>1, <2>2, CutErased
<1> QED BY <1>1, <1>2

(* A receiver points at the channel as long as its topic has listeners.    *)
LEMMA CutInvTopics ==
  ASSUME CutInv, ListenersInv, NEW t \in Topic,
         \/ UnsetTopicListener(t) \/ Broadcast(t)
         \/ \E f \in Fn : SetTopicListener(t, f) \/ UnsetTopicListenerCb(t, f)
  PROVE  CutInv'
<1>1. listeners \in [Topic -> CidList] /\ wire \subseteq Reply
      /\ serving \subseteq Reply /\ Topic \cap Reply = {}
  BY ListenersAssumption DEF ListenersInv, ListenersTypeOK, CidList
<1>2. ASSUME hasChannel, NEW l, listeners' = [listeners EXCEPT ![t] = l],
             \/ l # <<>> /\ pointing' \in {pointing, pointing \cup {t}}
             \/ pointing' = pointing \ {t},
             UNCHANGED <<hasChannel, replies, wire, serving, running>>
      PROVE  CutInv'
  <2>1. \A u \in Topic : listeners'[u] = IF u = t THEN l ELSE listeners[u]
    BY <1>1, <1>2
  <2>2. PointersKnown'
    BY <1>1, <1>2, <2>1 DEF CutInv, PointersKnown
  <2>3. OneReply'
    BY <1>2 DEF CutInv, OneReply
  <2>4. OneClosed'
    BY <1>1, <1>2 DEF CutInv, OneClosed
  <2>5. ListenersCutOff'
    BY <1>2 DEF ListenersCutOff
  <2> QED BY <2>2, <2>3, <2>4, <2>5 DEF CutInv
<1>3. CASE UnsetTopicListener(t)
  BY <1>2, <1>3 DEF UnsetTopicListener
<1>4. CASE Broadcast(t)
  BY <1>4, CutStays DEF Broadcast
<1>5. ASSUME NEW f \in Fn, SetTopicListener(t, f) PROVE CutInv'
  <2> DEFINE l == Append(listeners[t], IdOf(f))
  <2>1. listeners[t] \in Seq(1..MaxCid) /\ IdOf(f) \in 1..MaxCid
    BY <1>1, <1>5, IdsPassed DEF SetTopicListener, CidList
  <2>2. l \in Seq(1..MaxCid) /\ Len(l) = Len(listeners[t]) + 1
        /\ Len(listeners[t]) \in Nat
    BY <2>1
  <2>3. l # <<>>
    BY <2>2
  <2> HIDE DEF l
  <2>4. /\ hasChannel /\ listeners' = [listeners EXCEPT ![t] = l]
        /\ pointing' = pointing \cup {t}
        /\ UNCHANGED <<hasChannel, replies, wire, serving, running>>
    BY <1>5 DEF SetTopicListener, l
  <2> QED BY <1>2, <2>3, <2>4
<1>6. ASSUME NEW f \in Fn, UnsetTopicListenerCb(t, f) PROVE CutInv'
  <2>1. CASE cidOf[f] \notin Heard(t)
    BY <1>6, <2>1, CutStays DEF UnsetTopicListenerCb
  <2>2. CASE cidOf[f] \in Heard(t)
    <3> DEFINE l == Without(listeners[t], cidOf[f])
    <3>1. listeners[t] \in Seq(1..MaxCid) /\ cidOf[f] \in Cids(listeners[t])
      BY <1>1, <2>2 DEF Heard, Cids, CidList
    <3>2. l \in Seq(1..MaxCid) /\ Len(l) = Len(listeners[t]) - 1
      BY <3>1, WithoutOne
    <3> HIDE DEF l
    <3>3. Len(listeners[t]) # 1 => l # <<>>
      <4>1. Len(l) = 0 <=> l = <<>>
        BY <3>2, EmptySeq
      <4>2. Len(listeners[t]) \in Nat
        BY <3>1, LenProperties
      <4> QED BY <3>2, <4>1, <4>2
    <3>4. /\ hasChannel /\ listeners' = [listeners EXCEPT ![t] = l]
          /\ pointing' = IF Len(listeners[t]) = 1 THEN pointing \ {t} ELSE pointing
          /\ UNCHANGED <<hasChannel, replies, wire, serving, running>>
      BY <1>6, <2>2 DEF UnsetTopicListenerCb, l
    <3>5. \/ l # <<>> /\ pointing' = pointing
          \/ pointing' = pointing \ {t}
      BY <3>3, <3>4
    <3> QED BY <1>2, <3>4, <3>5
  <2> QED BY <2>1, <2>2
<1> QED BY <1>3, <1>4, <1>5, <1>6

LEMMA CutInvDetach ==
  ASSUME CutInv, ListenersInv, ListenersDetach
  PROVE  CutInv'
<1>1. /\ hasChannel /\ ~hasChannel' /\ replies' = {}
      /\ pointing' = pointing \ (replies \cup {t \in Topic : listeners[t] # <<>>})
      /\ UNCHANGED <<wire, serving, running>>
      /\ running.kind # "peerclose"
  BY DEF ListenersDetach
<1>2. ListenersCutOff'
  BY <1>1 DEF CutInv, PointersKnown, ListenersCutOff
<1>3. PointersKnown' /\ OneReply' /\ OneClosed'
  BY <1>1 DEF PointersKnown, OneReply, OneClosed
<1> QED BY <1>2, <1>3 DEF CutInv

LEMMA CutInvStep ==
  ASSUME CutInv, ListenersInv, ~Crossing, [ListenersNext]_mlVars
  PROVE  CutInv'
<1>1. CASE UNCHANGED mlVars
  BY <1>1, CutStays DEF mlVars
<1>2. ASSUME NEW s \in Service,
             \/ CreateSession(s) \/ SessionClose(s)
             \/ \E f \in Fn : SessionOnData(s, f) \/ SessionOnClose(s, f)
      PROVE  CutInv'
  <2>1. /\ UNCHANGED <<hasChannel, replies, wire, serving, pointing, listeners>>
        /\ running' = running \/ running'.kind # "peerclose"
    BY <1>2
    DEF CreateSession, SessionClose, SessionOnData, SessionOnClose
  <2> QED BY <2>1, CutStays
<1>3. CASE StartDelivery \/ Deliver
  <2>1. /\ UNCHANGED <<hasChannel, replies, wire, serving, pointing, listeners>>
        /\ running' = running \/ running'.kind # "peerclose"
    <3>1. CASE StartDelivery
      BY <3>1 DEF StartDelivery
    <3>2. CASE Deliver
      <4>1. /\ running.kind = "deliver"
            /\ running \in [kind : {"deliver"}, topic : Topic, cids : CidList]
        BY <3>2 DEF Deliver, ListenersInv, ListenersShape, Quiet
      <4>2. running'.kind # "peerclose"
        BY <3>2, <4>1 DEF Deliver, Quiet
      <4> QED BY <3>2, <4>2 DEF Deliver
    <3> QED BY <1>3, <3>1, <3>2
  <2> QED BY <2>1, CutStays
<1>4. CASE ListenersNext
  BY <1>1, <1>2, <1>3, <1>4, CutInvSend, CutInvServer, CutInvCloses,
     CutInvCloseReturns, CutInvTopics, CutInvDetach
  DEF ListenersNext, ListenersFinished
<1> QED BY <1>1, <1>4

(* "clear pointer reference when messageChannel detached": no reply object *)
(* that the serving process holds or is about to receive, and no receiver, *)
(* points at a channel that is gone, as long as messages and closes of a   *)
(* session do not cross.                                                   *)
THEOREM ListenersAreCutOff ==
  ASSUME ~Crossing PROVE ListenersSpec => []ListenersCutOff
<1>1. CutInv /\ ListenersInv /\ [ListenersNext]_mlVars => CutInv'
  BY CutInvStep
<1>2. CutInv => ListenersCutOff
  BY DEF CutInv
<1> QED BY <1>1, <1>2, CutInvInit, ListenersInvariant, PTL DEF ListenersSpec

-----------------------------------------------------------------------------
(***************************************************************************)
(* The events of an instance.  For any events, functions and bounds:       *)
(* emissions within emissions call in order, the change listener is        *)
(* informed, and, if no callback takes itself off its list or drops its    *)
(* feature object, no emission stands on a freed node.                     *)
(*                                                                         *)
(* What an emission will call is decided by the list at every return, so   *)
(* the invariant is about lists (ListInOrder: nodes ascend, a function is  *)
(* in a list once), about what is still to come (KnownNodes: a node that   *)
(* is made later lies behind everything an emission has passed), and about *)
(* the history of an emission (EndsWhereItStands).                         *)
(***************************************************************************)
ListInOrder(list) ==
  \A m, n \in DOMAIN list :
    /\ m < n => list[m].node < list[n].node
    /\ list[m].cb = list[n].cb => m = n

KnownNodes ==
  /\ \A e \in Ev : \A n \in DOMAIN callbacks[e] : callbacks[e][n].node <= nodes
  /\ \A k \in DOMAIN emitting : emitting[k].at <= nodes

EndsWhereItStands(em) ==
  /\ \A m, n \in DOMAIN em.done : m < n => em.done[m] < em.done[n]
  /\ \A n \in DOMAIN em.done : em.done[n] <= em.at
  /\ Contains(em.done, em.at)

(* None that is still registered has been passed over.                     *)
PassedOverNone(em) ==
  \A n \in DOMAIN callbacks[em.ev] :
    callbacks[em.ev][n].node <= em.at =>
      Contains(em.done, callbacks[em.ev][n].node)

EventsInv ==
  /\ TypeOK /\ KnownNodes
  /\ \A e \in Ev : ListInOrder(callbacks[e])
  /\ \A k \in DOMAIN emitting :
       EndsWhereItStands(emitting[k]) /\ PassedOverNone(emitting[k])
  /\ ListenerInformed

(* Each entry of one list is an entry of the other.                        *)
EntriesIn(list, other) ==
  \A m \in DOMAIN list : \E n \in DOMAIN other : other[n] = list[m]

-----------------------------------------------------------------------------
LEMMA MinusOne ==
  ASSUME NEW list \in Seq(Entry), NEW c, ListInOrder(list)
  PROVE  LET l == Minus(list, c)
         IN  /\ l \in Seq(Entry) /\ ListInOrder(l) /\ EntriesIn(l, list)
             /\ \A n \in DOMAIN list : list[n].cb # c =>
                  \E m \in DOMAIN l : l[m] = list[n]
             /\ l # <<>> => list # <<>>
<1>1. CASE ~Registered(list, c)
  BY <1>1 DEF Minus, EntriesIn
<1>2. CASE Registered(list, c)
  <2> DEFINE k == CHOOSE n \in DOMAIN list : list[n].cb = c
             l == RemoveAt(list, k)
             Back(m) == IF m < k THEN m ELSE m + 1
  <2>1. k \in DOMAIN list /\ list[k].cb = c
    BY <1>2 DEF Registered
  <2> HIDE DEF k
  <2>2. /\ l \in Seq(Entry) /\ Len(l) = Len(list) - 1
        /\ \A m \in 1..Len(list) - 1 :
             l[m] = IF m < k THEN list[m] ELSE list[m + 1]
    BY <2>1, ErasedAt
  <2> HIDE DEF l
  <2>3. /\ DOMAIN list = 1..Len(list) /\ Len(list) \in Nat
        /\ DOMAIN l = 1..Len(list) - 1
    BY <2>2, LenProperties
  <2>4. \A m \in DOMAIN l : Back(m) \in DOMAIN list /\ l[m] = list[Back(m)]
    BY <2>1, <2>2, <2>3
  <2>5. \A m, n \in DOMAIN l : /\ m < n => Back(m) < Back(n)
                               /\ Back(m) = Back(n) => m = n
    BY <2>1, <2>3
  <2>6. ASSUME NEW n \in DOMAIN list, list[n].cb # c
        PROVE  \E m \in DOMAIN l : l[m] = list[n]
    <3>1. n # k
      BY <2>1, <2>6
    <3>2. CASE n < k
      <4>1. n \in DOMAIN l /\ Back(n) = n
        BY <2>1, <2>3, <3>2
      <4> QED BY <2>4, <4>1
    <3>3. CASE n > k
      <4>1. n - 1 \in DOMAIN l /\ Back(n - 1) = n
        BY <2>1, <2>3, <3>3
      <4> QED BY <2>4, <4>1
    <3> QED BY <2>1, <2>3, <3>1, <3>2, <3>3
  <2> HIDE DEF Back
  <2>7. ListInOrder(l)
    BY <2>4, <2>5 DEF ListInOrder
  <2>8. EntriesIn(l, list)
    BY <2>4 DEF EntriesIn
  <2>9. list # <<>>
    BY <2>1
  <2>10. Minus(list, c) = l
    BY <1>2 DEF Minus, k, l
  <2> QED BY <2>2, <2>6, <2>7, <2>8, <2>9, <2>10
<1> QED BY <1>1, <1>2

LEMMA PlusOne ==
  ASSUME NEW list \in Seq(Entry), NEW c \in Cb, ListInOrder(list),
         nodes \in Nat, nodes < MaxNodes, MaxNodes \in Nat,
         \A n \in DOMAIN list : list[n].node <= nodes
  PROVE  LET l == Plus(list, c)
         IN  /\ l \in Seq(Entry) /\ ListInOrder(l) /\ EntriesIn(list, l)
             /\ \A m \in DOMAIN l : \/ \E n \in DOMAIN list : l[m] = list[n]
                                    \/ l[m].node = nodes + 1
<1>1. CASE Registered(list, c)
  BY <1>1 DEF Plus, EntriesIn
<1>2. CASE ~Registered(list, c)
  <2> DEFINE new == [cb |-> c, node |-> nodes + 1]
             l == Append(list, new)
  <2>1. new \in Entry /\ new.cb = c /\ new.node = nodes + 1
    BY DEF Entry
  <2> HIDE DEF new
  <2>2. /\ l \in Seq(Entry) /\ Len(l) = Len(list) + 1 /\ l[Len(list) + 1] = new
        /\ \A n \in 1..Len(list) : l[n] = list[n]
    BY <2>1, AppendProperties
  <2>3. /\ DOMAIN list = 1..Len(list) /\ Len(list) \in Nat
        /\ DOMAIN l = 1..Len(list) + 1
    BY <2>2, LenProperties
  <2> HIDE DEF l
  <2>4. \A m \in DOMAIN l : \/ m \in DOMAIN list /\ l[m] = list[m]
                            \/ m = Len(list) + 1 /\ l[m] = new
    BY <2>2, <2>3
  <2>5. \A n \in DOMAIN list : /\ list[n].cb # c /\ list[n].node < nodes + 1
                               /\ list[n].node \in Nat /\ n < Len(list) + 1
    <3>1. \A n \in DOMAIN list : list[n] \in Entry
      OBVIOUS
    <3> QED BY <1>2, <2>3, <3>1 DEF Registered, Entry
  <2>6. ListInOrder(l)
    <3> SUFFICES ASSUME NEW m \in DOMAIN l, NEW n \in DOMAIN l
                 PROVE  /\ m < n => l[m].node < l[n].node
                        /\ l[m].cb = l[n].cb => m = n
      BY DEF ListInOrder
    <3>1. CASE m \in DOMAIN list /\ n \in DOMAIN list
      BY <2>2, <2>3, <3>1 DEF ListInOrder
    <3>2. CASE m \in DOMAIN list /\ n = Len(list) + 1
      BY <2>1, <2>2, <2>3, <2>5, <3>2
    <3>3. CASE m = Len(list) + 1 /\ n \in DOMAIN list
      BY <2>1, <2>2, <2>3, <2>5, <3>3
    <3>4. CASE m = Len(list) + 1 /\ n = Len(list) + 1
      BY <2>3, <3>4
    <3> QED BY <2>4, <3>1, <3>2, <3>3, <3>4
  <2>7. EntriesIn(list, l)
    BY <2>2, <2>3 DEF EntriesIn
  <2>8. Plus(list, c) = l
    BY <1>2 DEF Plus, l, new
  <2>9. \A m \in DOMAIN l : \/ \E n \in DOMAIN list : l[m] = list[n]
                            \/ l[m].node = nodes + 1
    BY <2>1, <2>4
  <2> QED BY <2>2, <2>6, <2>7, <2>8, <2>9
<1> QED BY <1>1, <1>2

(* A list changes under the emissions: what is new lies behind them.       *)
LEMMA ListsChange ==
  ASSUME EventsInv, emitting' = emitting, TypeOK',
         nodes' \in {nodes, nodes + 1},
         \A e \in Ev : ListInOrder(callbacks'[e]),
         \A e \in Ev : \A m \in DOMAIN callbacks'[e] :
           \/ \E n \in DOMAIN callbacks[e] : callbacks[e][n] = callbacks'[e][m]
           \/ callbacks'[e][m].node = nodes + 1 /\ nodes' = nodes + 1,
         ListenerInformed'
  PROVE  EventsInv'
<1>1. nodes \in Nat /\ MaxNodes \in Nat
  BY BoundAssumption DEF EventsInv, TypeOK
<1>2. ASSUME NEW e \in Ev, NEW n \in DOMAIN callbacks[e]
      PROVE  callbacks[e][n].node \in Nat
  <2>1. callbacks[e] \in Seq(Entry)
    BY DEF EventsInv, TypeOK
  <2>2. callbacks[e][n] \in Entry
    BY <2>1
  <2> QED BY <1>1, <2>2 DEF Entry
<1>3. ASSUME NEW k \in DOMAIN emitting
      PROVE  emitting[k].ev \in Ev /\ emitting[k].at \in Nat
             /\ emitting[k].at <= nodes
  <2>1. emitting[k] \in Emission
    BY DEF EventsInv, TypeOK
  <2> QED BY <1>1, <2>1 DEF Emission, EventsInv, KnownNodes
<1>4. KnownNodes'
  <2>1. \A e \in Ev : \A m \in DOMAIN callbacks'[e] :
          callbacks'[e][m].node <= nodes'
    BY <1>1, <1>2 DEF EventsInv, KnownNodes
  <2>2. \A k \in DOMAIN emitting : emitting[k].at <= nodes'
    BY <1>1, <1>3
  <2> QED BY <2>1, <2>2 DEF KnownNodes
<1>5. ASSUME NEW k \in DOMAIN emitting
      PROVE  EndsWhereItStands(emitting[k]) /\ PassedOverNone(emitting[k])'
  <2> DEFINE em == emitting[k]
  <2>1. em.ev \in Ev /\ em.at \in Nat /\ em.at <= nodes
    BY <1>3
  <2>2. EndsWhereItStands(em) /\ PassedOverNone(em)
    BY DEF EventsInv
  <2>3. emitting'[k] = em
    OBVIOUS
  <2> HIDE DEF em
  <2>4. ASSUME NEW m \in DOMAIN callbacks'[em.ev],
               callbacks'[em.ev][m].node <= em.at
        PROVE  Contains(em.done, callbacks'[em.ev][m].node)
    <3>1. \E n \in DOMAIN callbacks[em.ev] :
            callbacks[em.ev][n] = callbacks'[em.ev][m]
      BY <1>1, <2>1, <2>4
    <3> QED BY <2>2, <2>4, <3>1 DEF PassedOverNone
  <2> QED BY <2>2, <2>3, <2>4 DEF PassedOverNone, em
<1>6. \A k \in DOMAIN emitting' :
        EndsWhereItStands(emitting'[k]) /\ PassedOverNone(emitting[k])'
  BY <1>5
<1> QED BY <1>4, <1>6 DEF EventsInv, EndsWhereItStands

LEMMA EventsInvInit == Init => EventsInv
<1> SUFFICES ASSUME Init PROVE EventsInv
  OBVIOUS
<1>1. TypeOK
  <2>1. <<>> \in Seq(Entry) /\ <<>> \in Seq(Emission) /\ 0 \in 0..MaxNodes
    BY BoundAssumption
  <2>2. callbacks \in [Ev -> Seq(Entry)]
    BY <2>1 DEF Init
  <2> QED BY <2>1, <2>2 DEF Init, TypeOK
<1>2. KnownNodes /\ ListenerInformed
  BY DEF Init, KnownNodes, ListenerInformed
<1> QED BY <1>1, <1>2 DEF Init, EventsInv, ListInOrder

LEMMA EventsInvAdd ==
  ASSUME EventsInv, NEW e \in Ev, NEW c \in Cb, On(e, c) \/ Set(e, c)
  PROVE  EventsInv'
<1>1. /\ TypeOK /\ KnownNodes /\ ListenerInformed
      /\ callbacks[e] \in Seq(Entry) /\ ListInOrder(callbacks[e])
  BY DEF EventsInv, TypeOK
<1>2. PICK list \in {callbacks[e], <<>>} : Add(e, list, c)
  BY DEF On, Set
<1>3. /\ nodes \in Nat /\ nodes < MaxNodes /\ MaxNodes \in Nat
      /\ UNCHANGED <<emitting, listening, detached>>
  BY <1>1, BoundAssumption DEF On, Set, TypeOK
<1> DEFINE l == Plus(list, c)
<1>4. /\ list \in Seq(Entry) /\ ListInOrder(list)
      /\ \A n \in DOMAIN list : list[n].node <= nodes
      /\ \A n \in DOMAIN list : n \in DOMAIN callbacks[e] /\ list[n] = callbacks[e][n]
  <2>1. CASE list = callbacks[e]
    BY <1>1, <2>1 DEF KnownNodes
  <2>2. CASE list = <<>>
    BY <2>2 DEF ListInOrder
  <2> QED BY <1>2, <2>1, <2>2
<1>5. /\ l \in Seq(Entry) /\ ListInOrder(l)
      /\ \A m \in DOMAIN l : \/ \E n \in DOMAIN list : l[m] = list[n]
                             \/ l[m].node = nodes + 1
  BY <1>3, <1>4, PlusOne
<1>6. /\ callbacks' = [callbacks EXCEPT ![e] = l] /\ nodes' = nodes + 1
      /\ events_map' = events_map \cup {e}
      /\ told' = IF listening THEN told \cup ({e} \ events_map) ELSE told
  BY <1>2 DEF Add
<1> HIDE DEF l
<1>7. callbacks \in [Ev -> Seq(Entry)]
  BY <1>1 DEF TypeOK
<1>8. callbacks' \in [Ev -> Seq(Entry)]
  BY <1>5, <1>6, <1>7
<1>9. TypeOK'
  BY <1>1, <1>3, <1>6, <1>8 DEF TypeOK
<1>10. \A f \in Ev : callbacks'[f] = IF f = e THEN l ELSE callbacks[f]
  BY <1>6, <1>7
<1>11. ListenerInformed'
  BY <1>1, <1>3, <1>6, <1>10 DEF ListenerInformed
<1>12. \A f \in Ev : ListInOrder(callbacks'[f])
  BY <1>5, <1>10 DEF EventsInv
<1>13. \A f \in Ev : \A m \in DOMAIN callbacks'[f] :
         \/ \E n \in DOMAIN callbacks[f] : callbacks[f][n] = callbacks'[f][m]
         \/ callbacks'[f][m].node = nodes + 1
  BY <1>4, <1>5, <1>10
<1> QED BY <1>3, <1>6, <1>9, <1>11, <1>12, <1>13, ListsChange

LEMMA EventsInvRemove ==
  ASSUME EventsInv, NEW e \in Ev, Clear(e) \/ \E c \in Cb : Off(e, c)
  PROVE  EventsInv'
<1>1. /\ TypeOK /\ ListenerInformed /\ e \in events_map
      /\ callbacks[e] \in Seq(Entry) /\ ListInOrder(callbacks[e])
      /\ UNCHANGED <<events_map, nodes, emitting, listening, told, detached>>
  BY DEF EventsInv, TypeOK, Clear, Off
<1>2. PICK l \in Seq(Entry) : /\ callbacks' = [callbacks EXCEPT ![e] = l]
                              /\ ListInOrder(l) /\ EntriesIn(l, callbacks[e])
  <2>1. CASE Clear(e)
    <3>1. <<>> \in Seq(Entry) /\ ListInOrder(<<>>) /\ EntriesIn(<<>>, callbacks[e])
      BY DEF ListInOrder, EntriesIn
    <3> QED BY <2>1, <3>1 DEF Clear
  <2>2. ASSUME NEW c \in Cb, Off(e, c)
        PROVE  \E l \in Seq(Entry) : /\ callbacks' = [callbacks EXCEPT ![e] = l]
                                     /\ ListInOrder(l) /\ EntriesIn(l, callbacks[e])
    BY <1>1, <2>2, MinusOne DEF Off
  <2> QED BY <2>1, <2>2
<1>3. callbacks \in [Ev -> Seq(Entry)]
  BY <1>1 DEF TypeOK
<1>4. TypeOK'
  BY <1>1, <1>2, <1>3 DEF TypeOK
<1>5. \A f \in Ev : callbacks'[f] = IF f = e THEN l ELSE callbacks[f]
  BY <1>2, <1>3
<1>6. ListenerInformed'
  BY <1>1, <1>5 DEF ListenerInformed
<1>7. \A f \in Ev : ListInOrder(callbacks'[f])
  BY <1>2, <1>5 DEF EventsInv
<1>8. \A f \in Ev : \A m \in DOMAIN callbacks'[f] :
         \E n \in DOMAIN callbacks[f] : callbacks[f][n] = callbacks'[f][m]
  BY <1>2, <1>5 DEF EntriesIn
<1> QED BY <1>1, <1>4, <1>6, <1>7, <1>8, ListsChange

LEMMA EventsInvDetach ==
  ASSUME EventsInv, Unlisten \/ Detach
  PROVE  EventsInv'
<1>1. /\ TypeOK /\ ListenerInformed
      /\ UNCHANGED <<nodes, emitting>>
  BY DEF EventsInv, Unlisten, Detach
<1>2. callbacks \in [Ev -> Seq(Entry)]
  BY <1>1 DEF TypeOK
<1>3. CASE Unlisten
  <2>1. UNCHANGED <<events_map, callbacks, told, detached>> /\ listening' = FALSE
    BY <1>3 DEF Unlisten
  <2>2. TypeOK' /\ ListenerInformed'
    BY <1>1, <2>1 DEF TypeOK, ListenerInformed
  <2>3. \A f \in Ev : ListInOrder(callbacks'[f])
    BY <2>1 DEF EventsInv
  <2> QED BY <1>1, <2>1, <2>2, <2>3, ListsChange
<1>4. CASE Detach
  <2>1. /\ events_map' = {} /\ callbacks' = [e \in Ev |-> <<>>]
        /\ told' = IF listening THEN told \ events_map ELSE told
        /\ listening' = listening /\ detached' = TRUE
    BY <1>4 DEF Detach
  <2>2. callbacks' \in [Ev -> Seq(Entry)]
    <3>1. <<>> \in Seq(Entry)
      OBVIOUS
    <3> QED BY <2>1, <3>1
  <2>3. TypeOK' /\ ListenerInformed'
    BY <1>1, <2>1, <2>2 DEF TypeOK, ListenerInformed
  <2>4. \A f \in Ev : callbacks'[f] = <<>>
    BY <2>1
  <2>5. \A f \in Ev : ListInOrder(callbacks'[f])
    BY <2>4 DEF ListInOrder
  <2>6. \A f \in Ev : DOMAIN callbacks'[f] = {}
    BY <2>4
  <2> QED BY <1>1, <2>3, <2>5, <2>6, ListsChange
<1> QED BY <1>3, <1>4

(* The stack of emissions changes over lists that stay.                    *)
LEMMA EmissionsChange ==
  ASSUME EventsInv,
         UNCHANGED <<events_map, callbacks, nodes, listening, told, detached>>,
         emitting' \in Seq(Emission),
         \A k \in DOMAIN emitting' :
           \/ \E j \in DOMAIN emitting : emitting[j] = emitting'[k]
           \/ /\ EndsWhereItStands(emitting'[k]) /\ PassedOverNone(emitting'[k])
              /\ emitting'[k].at <= nodes
  PROVE  EventsInv'
<1>1. TypeOK'
  BY DEF EventsInv, TypeOK
<1>2. ListenerInformed' /\ \A e \in Ev : ListInOrder(callbacks'[e])
  BY DEF EventsInv, ListenerInformed
<1>3. KnownNodes'
  BY DEF EventsInv, KnownNodes
<1>4. \A k \in DOMAIN emitting' :
        EndsWhereItStands(emitting'[k]) /\ PassedOverNone(emitting'[k])
  BY DEF EventsInv
<1>5. \A em : PassedOverNone(em)' <=> PassedOverNone(em)
  BY DEF PassedOverNone
<1>6. \A k \in DOMAIN emitting' :
        EndsWhereItStands(emitting[k])' /\ PassedOverNone(emitting[k])'
  BY <1>4, <1>5 DEF EndsWhereItStands, PassedOverNone
<1> QED BY <1>1, <1>2, <1>3, <1>6 DEF EventsInv, ListInOrder

LEMMA EventsInvEmit ==
  ASSUME EventsInv, NEW e \in Ev, Emit(e)
  PROVE  EventsInv'
<1> DEFINE first == Head(callbacks[e]).node
           em == [ev |-> e, at |-> first, done |-> <<first>>]
<1>1. /\ callbacks[e] \in Seq(Entry) /\ callbacks[e] # <<>>
      /\ ListInOrder(callbacks[e]) /\ emitting \in Seq(Emission)
      /\ \A n \in DOMAIN callbacks[e] : callbacks[e][n].node <= nodes
      /\ MaxNodes \in Nat /\ nodes \in Nat
  BY BoundAssumption DEF EventsInv, TypeOK, Emit, KnownNodes
<1>2. /\ Len(callbacks[e]) \in Nat \ {0} /\ 1 \in DOMAIN callbacks[e]
      /\ DOMAIN callbacks[e] = 1..Len(callbacks[e])
      /\ Head(callbacks[e]) = callbacks[e][1] /\ callbacks[e][1] \in Entry
      /\ \A n \in DOMAIN callbacks[e] : callbacks[e][n] \in Entry
  BY <1>1, EmptySeq, LenProperties
<1>3. /\ first \in 1..MaxNodes /\ first <= nodes
      /\ \A n \in DOMAIN callbacks[e] :
           callbacks[e][n].node <= first => callbacks[e][n].node = first
  <2>1. callbacks[e][1].node \in 1..MaxNodes /\ first = callbacks[e][1].node
    BY <1>2 DEF Entry
  <2>2. \A n \in DOMAIN callbacks[e] :
          n # 1 => callbacks[e][1].node < callbacks[e][n].node
    BY <1>1, <1>2 DEF ListInOrder
  <2>3. \A n \in DOMAIN callbacks[e] : callbacks[e][n].node \in 1..MaxNodes
    BY <1>2 DEF Entry
  <2> QED BY <1>1, <1>2, <2>1, <2>2, <2>3
<1> HIDE DEF first
<1>4. /\ <<first>> \in Seq(1..MaxNodes) /\ Len(<<first>>) = 1
      /\ <<first>>[1] = first /\ DOMAIN <<first>> = {1}
  BY <1>3
<1>5. em \in Emission
  BY <1>3, <1>4 DEF Emission
<1>6. em.ev = e /\ em.at = first /\ em.done = <<first>>
  OBVIOUS
<1> HIDE DEF em
<1>7. Contains(em.done, first)
  BY <1>4, <1>6 DEF Contains
<1>8. EndsWhereItStands(em)
  BY <1>3, <1>4, <1>6, <1>7 DEF EndsWhereItStands
<1>9. PassedOverNone(em)
  BY <1>3, <1>6, <1>7 DEF PassedOverNone
<1>10. emitting' = Append(emitting, em)
  BY DEF Emit, em, first
<1>11. /\ emitting' \in Seq(Emission)
       /\ \A k \in DOMAIN emitting' : \/ k \in DOMAIN emitting /\ emitting'[k] = emitting[k]
                                      \/ emitting'[k] = em
  <2>1. /\ emitting' \in Seq(Emission) /\ Len(emitting') = Len(emitting) + 1
        /\ emitting'[Len(emitting) + 1] = em
        /\ \A k \in 1..Len(emitting) : emitting'[k] = emitting[k]
    BY <1>1, <1>5, <1>10, AppendProperties
  <2>2. /\ DOMAIN emitting = 1..Len(emitting) /\ Len(emitting) \in Nat
        /\ DOMAIN emitting' = 1..Len(emitting')
    BY <1>1, <2>1, LenProperties
  <2> QED BY <2>1, <2>2
<1> QED BY <1>3, <1>6, <1>8, <1>9, <1>11, EmissionsChange DEF Emit

LEMMA EventsInvReturned ==
  ASSUME EventsInv, CallbackReturned
  PROVE  EventsInv'
<1> DEFINE em == Last(emitting)
           rest == SubSeq(emitting, 1, Len(emitting) - 1)
           list == callbacks[em.ev]
           next == list[Min(Followers(em))].node
           new == [ev |-> em.ev, at |-> next, done |-> Append(em.done, next)]
<1>1. /\ emitting \in Seq(Emission) /\ emitting # <<>>
      /\ MaxNodes \in Nat /\ nodes \in Nat
      /\ UNCHANGED <<events_map, callbacks, nodes, listening, told, detached>>
  BY BoundAssumption DEF EventsInv, TypeOK, CallbackReturned
<1>2. em = emitting[Len(emitting)] /\ Front(emitting) = rest
  BY DEF Last, Front
<1>3. /\ rest \in Seq(Emission) /\ em \in Emission
      /\ Len(emitting) \in DOMAIN emitting
      /\ \A k \in DOMAIN rest : k \in DOMAIN emitting /\ rest[k] = emitting[k]
  <2>1. /\ rest \in Seq(Emission) /\ Len(rest) = Len(emitting) - 1
        /\ \A k \in 1..Len(emitting) - 1 : rest[k] = emitting[k]
        /\ emitting[Len(emitting)] \in Emission
    BY <1>1, RangeOfFront
  <2>2. /\ Len(emitting) \in Nat \ {0} /\ DOMAIN emitting = 1..Len(emitting)
        /\ DOMAIN rest = 1..Len(rest)
    BY <1>1, <2>1, EmptySeq, LenProperties
  <2> HIDE DEF rest
  <2>3. \A k \in DOMAIN rest : k \in 1..Len(emitting) - 1 /\ k \in DOMAIN emitting
    BY <2>1, <2>2
  <2>4. Len(emitting) \in DOMAIN emitting
    BY <2>2
  <2> QED BY <1>2, <2>1, <2>3, <2>4
<1>4. EndsWhereItStands(em) /\ PassedOverNone(em)
  BY <1>2, <1>3 DEF EventsInv
<1>5. \/ Followers(em) = {} /\ emitting' = rest
      \/ Followers(em) # {} /\ emitting' = Append(rest, new)
  BY <1>2 DEF CallbackReturned
<1> HIDE DEF em, rest
<1>6. CASE Followers(em) = {} /\ emitting' = rest
  BY <1>1, <1>3, <1>6, EmissionsChange
<1>7. CASE Followers(em) # {} /\ emitting' = Append(rest, new)
  <2>1. /\ em.ev \in Ev /\ em.at \in 1..MaxNodes /\ em.done \in Seq(1..MaxNodes)
    BY <1>3 DEF Emission
  <2>2. /\ list \in Seq(Entry) /\ ListInOrder(list)
        /\ \A n \in DOMAIN list : list[n].node <= nodes
    BY <2>1 DEF EventsInv, TypeOK, KnownNodes
  <2>3. /\ DOMAIN list = 1..Len(list) /\ Len(list) \in Nat
        /\ \A n \in DOMAIN list : list[n].node \in 1..MaxNodes
    <3>1. \A n \in DOMAIN list : list[n] \in Entry
      BY <2>2
    <3> QED BY <2>2, <3>1, LenProperties DEF Entry
  <2>4. Followers(em) = {n \in DOMAIN list : list[n].node > em.at}
    BY DEF Followers
  <2>5. /\ Min(Followers(em)) \in Followers(em)
        /\ \A n \in Followers(em) : Min(Followers(em)) <= n
    <3>1. Followers(em) \in SUBSET Nat
      BY <2>3, <2>4
    <3>2. \E m \in Followers(em) : \A n \in Followers(em) : m <= n
      BY <1>7, <3>1, LeastExists
    <3> QED BY <3>2 DEF Min
  <2> HIDE DEF list
  <2>6. /\ next \in 1..MaxNodes /\ next > em.at /\ next <= nodes
        /\ \A n \in DOMAIN list : list[n].node <= next =>
             list[n].node <= em.at \/ list[n].node = next
    <3> DEFINE k == Min(Followers(em))
    <3>1. /\ k \in DOMAIN list /\ list[k].node > em.at
          /\ \A n \in DOMAIN list : list[n].node > em.at => k <= n
      BY <2>4, <2>5
    <3> HIDE DEF k
    <3>2. ASSUME NEW n \in DOMAIN list, list[n].node <= list[k].node,
                 list[n].node > em.at
          PROVE  list[n].node = list[k].node
      <4>1. k <= n
        BY <3>1, <3>2
      <4>2. k < n => list[k].node < list[n].node
        BY <2>2, <3>1 DEF ListInOrder
      <4>3. list[k].node \in Nat /\ list[n].node \in Nat /\ k \in Nat /\ n \in Nat
        BY <2>3, <3>1
      <4>4. k = n
        BY <3>2, <4>1, <4>2, <4>3
      <4> QED BY <4>4
    <3>3. /\ list[k].node \in 1..MaxNodes /\ list[k].node <= nodes
      BY <2>2, <2>3, <3>1
    <3>4. \A n \in DOMAIN list : list[n].node \in Nat
      BY <2>3
    <3>5. next = list[k].node
      BY DEF k
    <3> HIDE DEF next
    <3> QED BY <2>1, <3>1, <3>2, <3>3, <3>4, <3>5
  <2>7. /\ new.ev = em.ev /\ new.at = next /\ new.done = Append(em.done, next)
        /\ new = [ev |-> em.ev, at |-> next, done |-> Append(em.done, next)]
    OBVIOUS
  <2> HIDE DEF next
  <2>8. /\ Append(em.done, next) \in Seq(1..MaxNodes)
        /\ Len(Append(em.done, next)) = Len(em.done) + 1
        /\ Append(em.done, next)[Len(em.done) + 1] = next
        /\ \A m \in 1..Len(em.done) : Append(em.done, next)[m] = em.done[m]
        /\ Len(em.done) \in Nat /\ DOMAIN em.done = 1..Len(em.done)
        /\ DOMAIN Append(em.done, next) = 1..Len(em.done) + 1
    BY <2>1, <2>6, AppendProperties, LenProperties
  <2>9. new \in Emission
    BY <2>1, <2>6, <2>7, <2>8 DEF Emission
  <2> DEFINE d == Append(em.done, next)
  <2> HIDE DEF new, d
  <2>10. \A x : Contains(d, x) <=> Contains(em.done, x) \/ x = next
    <3>1. \A m \in 1..Len(em.done) + 1 : m \in 1..Len(em.done) \/ m = Len(em.done) + 1
      BY <2>8
    <3>2. \A m \in 1..Len(em.done) : m \in 1..Len(em.done) + 1
      BY <2>8
    <3>3. Len(em.done) + 1 \in 1..Len(em.done) + 1
      BY <2>8
    <3> QED BY <2>8, <3>1, <3>2, <3>3 DEF Contains, d
  <2>11. \A m \in DOMAIN em.done : em.done[m] \in Nat /\ em.done[m] < next
    <3>1. \A m \in DOMAIN em.done : em.done[m] \in 1..MaxNodes
      BY <2>1, <2>8, ElementOfSeq
    <3>2. \A m \in DOMAIN em.done : em.done[m] <= em.at
      BY <1>4 DEF EndsWhereItStands
    <3> QED BY <1>1, <2>1, <2>6, <3>1, <3>2
  <2>12. \A m \in DOMAIN d : \/ m \in DOMAIN em.done /\ d[m] = em.done[m]
                             \/ m = Len(em.done) + 1 /\ d[m] = next
    BY <2>8 DEF d
  <2>13. EndsWhereItStands(new)
    <3>1. ASSUME NEW m \in DOMAIN d, NEW n \in DOMAIN d, m < n
          PROVE  d[m] < d[n]
      <4>1. CASE n \in DOMAIN em.done
        <5>1. m \in DOMAIN em.done
          BY <2>8, <3>1, <4>1 DEF d
        <5> QED BY <1>4, <2>8, <2>12, <3>1, <4>1, <5>1 DEF EndsWhereItStands, d
      <4>2. CASE n = Len(em.done) + 1
        <5>1. m \in DOMAIN em.done /\ d[n] = next
          BY <2>8, <3>1, <4>2 DEF d
        <5> QED BY <2>8, <2>11, <5>1 DEF d
      <4> QED BY <2>12, <4>1, <4>2
    <3>2. \A m \in DOMAIN d : d[m] <= next
      BY <2>6, <2>11, <2>12
    <3>3. new.done = d /\ new.at = next
      BY <2>7 DEF d
    <3> QED BY <2>10, <3>1, <3>2, <3>3 DEF EndsWhereItStands
  <2>14. PassedOverNone(new)
    <3>1. \A n \in DOMAIN list : list[n].node <= next => Contains(d, list[n].node)
      BY <1>4, <2>6, <2>10 DEF PassedOverNone, list
    <3> QED BY <2>7, <3>1 DEF PassedOverNone, d, list
  <2>15. new.at <= nodes
    BY <2>6, <2>7
  <2>16. /\ emitting' \in Seq(Emission)
         /\ \A k \in DOMAIN emitting' : \/ k \in DOMAIN rest /\ emitting'[k] = rest[k]
                                        \/ emitting'[k] = new
    <3>1. /\ emitting' \in Seq(Emission) /\ Len(emitting') = Len(rest) + 1
          /\ emitting'[Len(rest) + 1] = new
          /\ \A k \in 1..Len(rest) : emitting'[k] = rest[k]
      BY <1>3, <1>7, <2>9, AppendProperties DEF new
    <3>2. /\ DOMAIN rest = 1..Len(rest) /\ Len(rest) \in Nat
          /\ DOMAIN emitting' = 1..Len(emitting')
      BY <1>3, <3>1, LenProperties
    <3> QED BY <3>1, <3>2
  <2> QED BY <1>1, <1>3, <2>13, <2>14, <2>15, <2>16, EmissionsChange
<1> QED BY <1>5, <1>6, <1>7

LEMMA EventsInvStep == EventsInv /\ [Next]_vars => EventsInv'
<1> SUFFICES ASSUME EventsInv, [Next]_vars PROVE EventsInv'
  OBVIOUS
<1>1. CASE UNCHANGED vars
  <2>1. /\ UNCHANGED <<events_map, callbacks, nodes, listening, told, detached>>
        /\ emitting' = emitting
    BY <1>1 DEF vars
  <2>2. emitting' \in Seq(Emission)
    BY <2>1 DEF EventsInv, TypeOK
  <2> QED BY <2>1, <2>2, EmissionsChange
<1>2. CASE Next
  BY <1>1, <1>2, EventsInvAdd, EventsInvRemove, EventsInvDetach, EventsInvEmit,
     EventsInvReturned
  DEF Next, Finished
<1> QED BY <1>1, <1>2

LEMMA EventsInvariant == Spec => []EventsInv
BY EventsInvInit, EventsInvStep, PTL DEF Spec

(* However callbacks register, remove and emit inside each other, an       *)
(* emission calls them in the order of their registration, none twice, and *)
(* none that is still registered has been passed over.                     *)
THEOREM EventsEmittedInOrder == Spec => []EmittedInOrder
<1>1. EventsInv => EmittedInOrder
  BY DEF EventsInv, EmittedInOrder, EndsWhereItStands, PassedOverNone
<1> QED BY <1>1, EventsInvariant, PTL

(* What the change listener was told is what events_map_ holds, and only   *)
(* held events have callbacks.                                             *)
THEOREM EventsListenerInformed == Spec => []ListenerInformed
<1>1. EventsInv => ListenerInformed
  BY DEF EventsInv
<1> QED BY <1>1, EventsInvariant, PTL

(* Lists, emissions and what the listener was told have their types.       *)
THEOREM EventsTypesHold == Spec => []TypeOK
<1>1. EventsInv => TypeOK
  BY DEF EventsInv
<1> QED BY <1>1, EventsInvariant, PTL

=============================================================================
