--------------------------- MODULE HealthSamples ----------------------------
(***************************************************************************)
(* service.health: samples of the heart rate, the one type there is.       *)
(*                                                                         *)
(* The instances share the context of the prototype.  A HealthTopic has    *)
(* open topics of the loop, the calls of getRecentSamples that wait for a  *)
(* sample each (getList) and the instances that are subscribed (subList).  *)
(* The first subscription puts its HealthTopic into the context; a call    *)
(* of getRecentSamples before makes one for each of its types, which the   *)
(* context never learns of.  Topics close in their own time.               *)
(*                                                                         *)
(* Functions of the script run in the middle of health_topic_cb: those of  *)
(* subscribeSample while it walks over subList, those of a call that it    *)
(* settles before it takes the call off getList.  They may call the        *)
(* service, and an instance may be dropped in them: walk is where the      *)
(* callback stands.  A walk that goes on from a node that is freed, and a  *)
(* pop_front of an empty list, are undefined: the component ends there.    *)
(***************************************************************************)
EXTENDS Naturals, Sequences, FiniteSets, SequencesExt

CONSTANTS
  HealthCall,    (* calls of getRecentSamples *)
  HealthPage,    (* instances *)
  MaxTypes,      (* entries of dataTypes that are valid *)
  MaxTopics      (* topics that are not closed, to bound the search *)

ASSUME HealthAssumption == MaxTypes \in Nat

VARIABLES
  hevents,   (* the HealthTopics: open topics, getList, subList            *)
  known,     (* context->event holds the shared one                        *)
  getMeta,   (* each call: its instance, samples to come and taken, answer *)
  topicRefs, (* topics that are not closed                                 *)
  pending,   (* topics whose close has not called back                     *)
  healthCtx, (* "live", "isdestory" or "deleted"                           *)
  quit,      (* the instances that are detached                            *)
  walk,      (* health_topic_cb: its step, its HealthTopic, the page whose *)
             (* function runs and the call whose promise it has resolved   *)
  toDead     (* history: an instance that had left was told something as a *)
             (* "subscriber" or for a call at the "known" HealthTopic or   *)
             (* its "own", or the "context" was used after its deletion    *)

hsVars ==
  <<hevents, known, getMeta, topicRefs, pending, healthCtx, quit, walk,
    toDead>>

Shared == <<"shared", 0>>
Own(c) == {<<c, i>> : i \in 1..MaxTypes}
Event == {Shared} \cup UNION {Own(c) : c \in HealthCall}
Asked(p, n, answer) == [page |-> p, num |-> n, array |-> 0, size |-> n,
                        answer |-> answer]
SomePage == CHOOSE p \in HealthPage : TRUE
NoMeta == Asked(SomePage, 0, <<>>)
NoAnswered == CHOOSE c \in HealthCall : TRUE
Walk(step, e, p, c) == [step |-> step, e |-> e, page |-> p, call |-> c]
WalkAt(step, e) == Walk(step, e, SomePage, NoAnswered)

HealthInit ==
  /\ hevents = [e \in Event |-> [open |-> 0, getList |-> <<>>,
                                subList |-> <<>>]]
  /\ known = FALSE
  /\ getMeta = [c \in HealthCall |-> NoMeta]
  /\ topicRefs = 0 /\ pending = 0
  /\ healthCtx = "live" /\ quit = {}
  /\ walk = WalkAt("none", Shared) /\ toDead = {}

(* health_sensor_is_active *)
IsActive(e) == e.getList # <<>> \/ e.subList # <<>>

(* A list without what is gone: the others keep their order.               *)
Remaining(list, gone) ==
  LET stay == {i \in DOMAIN list : list[i] \notin gone}
      Place(i) == Cardinality({j \in stay : j <= i})
  IN  [n \in 1..Cardinality(stay) |-> list[CHOOSE i \in stay : Place(i) = n]]

NotAsked(c) == getMeta[c] = NoMeta
Here(p) == p \notin quit

(* Script runs: between the callbacks of the loop, and in its functions.   *)
ScriptMayCall == walk.step \in {"none", "calls", "erased", "answered"}

-----------------------------------------------------------------------------
(* Calls of the script *)

(* A call with n valid types goes to the shared HealthTopic, n times, or    *)
(* to n of its own; it opens topics unless the HealthTopic is active.      *)
TargetsOf(c, n) == IF known THEN {Shared} ELSE {<<c, i>> : i \in 1..n}
IdleFor(n) == n > 0 /\ ~(known /\ IsActive(hevents[Shared]))

(* What k topics that were opened are to a HealthTopic, and who waits there. *)
OpenedAt(c, n, k, e) ==
  IF e \notin TargetsOf(c, n) \/ ~IdleFor(n) THEN 0
  ELSE IF known THEN k ELSE IF e[2] <= k THEN 1 ELSE 0
WaitAt(c, n, e) ==
  IF e \notin TargetsOf(c, n) THEN <<>>
  ELSE [i \in 1..(IF known THEN n ELSE 1) |-> c]

(* getRecentSamples with n valid types: a topic is opened for each unless  *)
(* its HealthTopic is active, which the call itself makes none.  When the  *)
(* k-th cannot be opened the ones before stay open and nothing waits.      *)
GetRecentSamples(c, p) ==
  \E n \in 0..MaxTypes :
    LET Opens(k) == topicRefs' = topicRefs + (IF IdleFor(n) THEN k ELSE 0)
    IN  /\ ScriptMayCall /\ NotAsked(c) /\ Here(p)
        /\ topicRefs + n <= MaxTopics
        /\ \/ \E k \in 0..(IF IdleFor(n) THEN n - 1 ELSE 0) :
                /\ n = 0 \/ IdleFor(n)
                /\ hevents' = [e \in Event |-> [hevents[e] EXCEPT
                                !.open = @ + OpenedAt(c, n, k, e)]]
                /\ Opens(k)
                /\ getMeta' = [getMeta EXCEPT ![c] = Asked(p, 0, <<"reject">>)]
           \/ /\ n > 0
              /\ hevents' = [e \in Event |-> [hevents[e] EXCEPT
                              !.open = @ + OpenedAt(c, n, n, e),
                              !.getList = @ \o WaitAt(c, n, e)]]
              /\ Opens(n)
              /\ getMeta' = [getMeta EXCEPT ![c] = Asked(p, n, <<>>)]
        /\ UNCHANGED <<known, pending, healthCtx, quit, walk, toDead>>

(* subscribeSample: refused before or after the HealthTopic is made; a     *)
(* second subscription of an instance replaces the functions of the first. *)
SubscribeSample(p) ==
  LET e == hevents[Shared]
      opens == p \notin ToSet(e.subList) /\ ~IsActive(e)
  IN  /\ ScriptMayCall /\ Here(p)
      /\ known' = TRUE
      /\ \/ opens /\ ~known /\ UNCHANGED <<hevents, topicRefs>>
         \/ /\ topicRefs < MaxTopics \/ ~opens
            /\ hevents' = [hevents EXCEPT
                 ![Shared].open = @ + (IF opens THEN 1 ELSE 0),
                 ![Shared].subList = IF p \in ToSet(@) THEN @
                                     ELSE Append(@, p)]
            /\ topicRefs' = topicRefs + (IF opens THEN 1 ELSE 0)
      /\ UNCHANGED <<getMeta, pending, healthCtx, quit, walk, toDead>>

(* unsubscribe of an instance from the shared HealthTopic with these calls *)
(* left: one topic is closed when it gets inactive.  In its own function   *)
(* the node that the walk stands on is freed.                              *)
Unsubscribed(p, waiting) ==
  LET e == [hevents[Shared] EXCEPT !.getList = waiting,
                                  !.subList = Remaining(@, {p})]
      closes == /\ p \in ToSet(hevents[Shared].subList)
                /\ ~IsActive(e) /\ e.open > 0
  IN  /\ hevents' = [hevents EXCEPT ![Shared] =
                      [e EXCEPT !.open = @ - (IF closes THEN 1 ELSE 0)]]
      /\ pending' = pending + (IF closes THEN 1 ELSE 0)
      /\ walk' = IF walk.step = "calls" /\ walk.page = p
                 THEN WalkAt("erased", walk.e) ELSE walk

UnsubscribeSample(p) ==
  /\ ScriptMayCall /\ Here(p) /\ known
  /\ Unsubscribed(p, hevents[Shared].getList)
  /\ UNCHANGED <<known, getMeta, topicRefs, healthCtx, quit, toDead>>

-----------------------------------------------------------------------------
(* The loop, and the ends of instances and prototype *)

(* A call that got a sample: its last one settles the promise.             *)
Sampled(meta) ==
  LET m == [meta EXCEPT !.num = @ - 1, !.array = @ + 1]
  IN  IF m.num > 0 THEN m ELSE [m EXCEPT !.answer = Append(@, "resolve")]

(* The walk over subList comes to the n-th, or to its end. *)
WalkTo(e, n) ==
  LET list == hevents[e].subList
      ends == n > Len(list)
  IN  /\ walk' = IF ends THEN WalkAt("called", e)
                 ELSE Walk("calls", e, list[n], NoAnswered)
      /\ toDead' = IF ends \/ list[n] \notin quit THEN toDead
                   ELSE toDead \cup {"subscriber"}

(* health_topic_cb of a topic that is open, with one sample or more. *)
HealthTopicCb(e) ==
  /\ walk.step = "none" /\ hevents[e].open > 0
  /\ WalkTo(e, 1)
  /\ UNCHANGED <<hevents, known, getMeta, topicRefs, pending, healthCtx, quit>>

(* A function of subscribeSample returns: the walk goes on to the next     *)
(* node, which a node that was erased does not have.                       *)
FunctionReturns ==
  /\ \/ /\ walk.step = "calls"
        /\ \E n \in DOMAIN hevents[walk.e].subList :
             /\ hevents[walk.e].subList[n] = walk.page
             /\ WalkTo(walk.e, n + 1)
     \/ /\ walk.step = "erased"
        /\ walk' = WalkAt("astray", walk.e) /\ UNCHANGED toDead
  /\ UNCHANGED <<hevents, known, getMeta, topicRefs, pending, healthCtx, quit>>

(* All are told of a sample, and the data has another one. *)
NextSample ==
  /\ walk.step = "called" /\ WalkTo(walk.e, 1)
  /\ UNCHANGED <<hevents, known, getMeta, topicRefs, pending, healthCtx, quit>>

(* The end of health_topic_cb, with these calls left: a HealthTopic that   *)
(* is inactive closes one topic, if it has one still.                      *)
CallbackEnds(waiting) ==
  LET after == [hevents[walk.e] EXCEPT !.getList = waiting]
      closes == ~IsActive(after) /\ after.open > 0
  IN  /\ hevents' = [hevents EXCEPT ![walk.e] =
                      [after EXCEPT !.open = @ - (IF closes THEN 1 ELSE 0)]]
      /\ pending' = pending + (IF closes THEN 1 ELSE 0)
      /\ walk' = WalkAt("none", Shared)

(* The last sample of the data goes to the call that waits longest. *)
SampleTaken ==
  LET waiting == hevents[walk.e].getList
      c == Head(waiting)
      meta == Sampled(getMeta[c])
  IN  /\ walk.step = "called"
      /\ \/ /\ waiting = <<>> /\ CallbackEnds(<<>>)
            /\ UNCHANGED <<getMeta, toDead>>
         \/ /\ waiting # <<>> /\ getMeta' = [getMeta EXCEPT ![c] = meta]
            /\ meta.num > 0 /\ CallbackEnds(Tail(waiting)) /\ UNCHANGED toDead
         \/ /\ waiting # <<>> /\ getMeta' = [getMeta EXCEPT ![c] = meta]
            /\ meta.num = 0
            /\ walk' = Walk("answered", walk.e, SomePage, c)
            /\ toDead' = IF meta.page \notin quit THEN toDead
                         ELSE toDead \cup {IF walk.e = Shared THEN "known"
                                           ELSE "own"}
            /\ UNCHANGED <<hevents, pending>>
      /\ UNCHANGED <<known, topicRefs, healthCtx, quit>>

(* The functions of the call return, and whoever is first in getList by    *)
(* now is taken off.                                                       *)
FrontPopped ==
  LET waiting == hevents[walk.e].getList
  IN  /\ walk.step = "answered"
      /\ \/ waiting # <<>> /\ CallbackEnds(Tail(waiting))
         \/ /\ waiting = <<>> /\ walk' = WalkAt("astray", walk.e)
            /\ UNCHANGED <<hevents, pending>>
      /\ UNCHANGED <<known, getMeta, topicRefs, healthCtx, quit, toDead>>

(* health_topic_close_cb: the last one deletes a context that is done with. *)
HealthTopicCloseCb ==
  /\ walk.step = "none"
  /\ pending > 0 /\ pending' = pending - 1
  /\ topicRefs' = topicRefs - 1
  /\ toDead' = IF healthCtx = "deleted" THEN toDead \cup {"context"}
               ELSE toDead
  /\ healthCtx' = IF topicRefs' = 0 /\ healthCtx = "isdestory" THEN "deleted"
                  ELSE healthCtx
  /\ UNCHANGED <<hevents, known, getMeta, quit, walk>>

(* Mutant: onDetached ends the subscription and leaves the calls. *)
HealthDetached_CallsStay(p) ==
  /\ ScriptMayCall /\ Here(p) /\ quit' = quit \cup {p}
  /\ Unsubscribed(p, hevents[Shared].getList)
  /\ UNCHANGED <<known, getMeta, topicRefs, healthCtx, toDead>>

(* onDetached: what the context knows of.  A call at a HealthTopic of its   *)
(* own goes on waiting.                                                    *)
HealthDetached(p) ==
  LET own == {c \in HealthCall : getMeta[c].page = p}
  IN  /\ ScriptMayCall /\ Here(p) /\ quit' = quit \cup {p}
      /\ IF known
         THEN Unsubscribed(p, Remaining(hevents[Shared].getList, own))
         ELSE UNCHANGED <<hevents, pending, walk>>
      /\ UNCHANGED <<known, getMeta, topicRefs, healthCtx, toDead>>

(* onDestroy, after the last instance: closes the topics it knows of. *)
HealthDestroyed ==
  /\ walk.step = "none"
  /\ quit = HealthPage /\ healthCtx = "live" /\ healthCtx' = "isdestory"
  /\ hevents' = [hevents EXCEPT ![Shared].open = 0, ![Shared].getList = <<>>]
  /\ pending' = pending + hevents[Shared].open
  /\ UNCHANGED <<known, getMeta, topicRefs, quit, walk, toDead>>

HealthNext ==
  \/ \E p \in HealthPage :
       \/ \E c \in HealthCall : GetRecentSamples(c, p)
       \/ SubscribeSample(p) \/ UnsubscribeSample(p) \/ HealthDetached(p)
  \/ \E e \in Event : HealthTopicCb(e)
  \/ FunctionReturns \/ NextSample \/ SampleTaken \/ FrontPopped
  \/ HealthTopicCloseCb \/ HealthDestroyed

HealthSpec == HealthInit /\ [][HealthNext]_hsVars

-----------------------------------------------------------------------------
(* Properties *)

(* The topics that are open, counted within their HealthTopic.             *)
OpenTopics == UNION {{e} \X (1..hevents[e].open) : e \in Event}

(* Samples go to instances that are there, and so do answers, but for the  *)
(* HealthTopics that the context does not know of.  The walk stands on a   *)
(* node of the list as long as its instance stays in its own function, and *)
(* takes off the call that it has settled as long as the instance of the   *)
(* call stays in its functions.  A call is answered once and with as many  *)
(* samples as it has types, whoever waits has a topic that is open, and    *)
(* the context lives until the last topic is closed: it counts them.       *)
HealthInStep ==
  /\ toDead \subseteq {"own"}
  /\ walk.step = "calls" => walk.page \in ToSet(hevents[walk.e].subList)
  /\ walk.step = "answered" /\ getMeta[walk.call].page \notin quit =>
       LET waiting == hevents[walk.e].getList
       IN  waiting # <<>> /\ Head(waiting) = walk.call
  /\ \A c \in HealthCall :
       /\ Len(getMeta[c].answer) <= 1
       /\ getMeta[c].answer = <<"resolve">> =>
            getMeta[c].array = getMeta[c].size
       /\ getMeta[c].array + getMeta[c].num = getMeta[c].size
  /\ \A e \in Event :
       /\ IsActive(hevents[e]) => hevents[e].open > 0
       /\ ToSet(hevents[e].subList) \cap quit = {}
       /\ IsInjective(hevents[e].subList)
  /\ topicRefs = pending + Cardinality(OpenTopics)
  /\ healthCtx = "deleted" => topicRefs = 0

=============================================================================
