-------------------------- MODULE MessageListeners --------------------------
(***************************************************************************)
(* Sessions and topics of system.messageChannel: what a MessageChannel     *)
(* keeps of the script's functions, and the objects through which the      *)
(* serving process and the activity manager reach it.                      *)
(*                                                                         *)
(* All of it is on the loop of the instance.  Three things cross it:       *)
(* session messages are oneway, so the server may close a session while    *)
(* one is on its way; onSessionClose is synchronous, so the server does    *)
(* nothing else while the script's onclose runs; a broadcast is posted to  *)
(* the loop with a copy of the listeners it found.                         *)
(*                                                                         *)
(* A callback id stands for one function as long as that is registered     *)
(* with the instance; FeatureRemoveCallback ends it for every map that     *)
(* holds it, and a function passed again gets a new id.                    *)
(***************************************************************************)
EXTENDS Naturals, Sequences, FiniteSets

CONSTANTS
  Service,  (* Services; the id of a session is that of its service.       *)
  Topic, Fn,
  MaxReplies,   (* Bound: reply objects of a session that exist at a time. *)
  MaxCid,       (* Bound: callback ids.                                    *)
  MaxListeners, (* Bound: listeners of a topic.                            *)
  MaxPosted,    (* Bound: broadcasts posted and not yet run.               *)
  Crossing      (* TRUE: a session's messages may be sent or be on their   *)
                (* way while the server closes it.                         *)

(* SessionMessageReply objects: the session they were made for, a number.  *)
Reply == Service \X (1..MaxReplies)

ASSUME ListenersAssumption ==
  /\ MaxReplies \in Nat /\ MaxCid \in Nat /\ MaxListeners \in Nat
  /\ MaxPosted \in Nat /\ Crossing \in BOOLEAN
  /\ Topic \cap Reply = {}

VARIABLES
  hasChannel, (* the MessageChannel of the instance exists                 *)
  cidOf,      (* CallbackManager: the id of each function, 0 for none      *)
  lastCid,
  session,    (* session_client_map_                                       *)
  replies,    (* session_reply_map_                                        *)
  wire,       (* replies in session messages on their way to the server    *)
  serving,    (* reply_map_ of the serving process                         *)
  ondata, onclose, (* session_ondata_cb_map_, session_onclose_cb_map_      *)
  listeners,  (* action_cb_map_                                            *)
  pointing,   (* replies and receivers with their pointer to the channel   *)
  posted,     (* broadcasts posted to the loop                             *)
  running     (* the script function on the stack, and who called it       *)

mlVars == <<hasChannel, cidOf, lastCid, session, replies, wire, serving,
            ondata, onclose, listeners, pointing, posted, running>>

Quiet == [kind |-> "idle"]

ListenersInit ==
  /\ hasChannel = TRUE
  /\ cidOf = [f \in Fn |-> 0] /\ lastCid = 0
  /\ session = {} /\ replies = {}
  /\ wire = {} /\ serving = {}
  /\ ondata = [s \in Service |-> 0] /\ onclose = [s \in Service |-> 0]
  /\ listeners = [t \in Topic |-> <<>>]
  /\ pointing = {} /\ posted = <<>> /\ running = Quiet

SomeLive(c) == \E f \in Fn : c # 0 /\ cidOf[f] = c

(* Passing a function to the feature registers it. *)
IdOf(f) == IF cidOf[f] # 0 THEN cidOf[f] ELSE lastCid + 1
Pass(f) ==
  /\ IdOf(f) <= MaxCid
  /\ cidOf' = [cidOf EXCEPT ![f] = IdOf(f)]
  /\ lastCid' = IF cidOf[f] # 0 THEN lastCid ELSE lastCid + 1

(* FeatureRemoveCallback, of several ids and after passing nothing. *)
Forget(cids) ==
  /\ cidOf' = [f \in Fn |-> IF cidOf[f] \in cids THEN 0 ELSE cidOf[f]]
  /\ UNCHANGED lastCid

-----------------------------------------------------------------------------
(* Sessions *)

CreateSession(s) ==
  /\ hasChannel
  /\ session' = session \cup {s}
  /\ UNCHANGED <<hasChannel, cidOf, lastCid, replies, wire, serving, ondata,
                 onclose, listeners, pointing, posted, running>>

Closing(s) == running.kind = "peerclose" /\ running.reply[1] = s

(* The first message of a session makes its reply object; a transaction    *)
(* may fail.                                                               *)
SessionSend(s) ==
  /\ hasChannel /\ s \in session
  /\ Crossing \/ ~Closing(s)
  /\ \E x \in Reply :
       /\ x[1] = s
       /\ IF \E y \in replies : y[1] = s THEN x \in replies
          ELSE x \notin wire \cup serving
       /\ replies' = replies \cup {x}
       /\ pointing' = pointing \cup {x}
       /\ wire' \in {wire, wire \cup {x}}
  /\ UNCHANGED <<hasChannel, cidOf, lastCid, session, serving, ondata,
                 onclose, listeners, posted, running>>

(* MessageTransportServer::sendSessionMessage, unless it waits for the     *)
(* answer to onSessionClose.                                               *)
ServerAccepts(x) ==
  /\ x \in wire /\ running.kind # "peerclose"
  /\ wire' = wire \ {x} /\ serving' = serving \cup {x}
  /\ UNCHANGED <<hasChannel, cidOf, lastCid, session, replies, ondata,
                 onclose, listeners, pointing, posted, running>>

SessionOnData(s, f) ==
  /\ hasChannel /\ Pass(f)
  /\ ondata' = [ondata EXCEPT ![s] = IdOf(f)]
  /\ UNCHANGED <<hasChannel, session, replies, wire, serving, onclose,
                 listeners, pointing, posted, running>>

SessionOnClose(s, f) ==
  /\ hasChannel /\ Pass(f)
  /\ onclose' = [onclose EXCEPT ![s] = IdOf(f)]
  /\ UNCHANGED <<hasChannel, session, replies, wire, serving, ondata,
                 listeners, pointing, posted, running>>

(* sessionClose of the script: the function is called, the server is not   *)
(* told, and the reply object stays.                                       *)
SessionClose(s) ==
  /\ hasChannel /\ s \in session /\ running = Quiet
  /\ session' = session \ {s}
  /\ running' = IF SomeLive(onclose[s]) THEN [kind |-> "selfclose", reply |-> <<s, 0>>]
                ELSE running
  /\ UNCHANGED <<hasChannel, cidOf, lastCid, replies, wire, serving, ondata,
                 onclose, listeners, pointing, posted>>

(* clientOnSessionCloseByself goes on: it removes whatever function is     *)
(* registered for the id by now.                                           *)
SelfCloseReturns ==
  LET s == running.reply[1] IN
  /\ running.kind = "selfclose"
  /\ Forget({onclose[s]})
  /\ onclose' = [onclose EXCEPT ![s] = 0]
  /\ running' = Quiet
  /\ UNCHANGED <<hasChannel, session, replies, wire, serving, ondata,
                 listeners, pointing, posted>>

(* eraseSessionReply and eraseSessionClient go by the id; then the server  *)
(* erases the object that it closed.                                       *)
EraseSession(x) ==
  /\ replies' = {y \in replies : y[1] # x[1]}
  /\ session' = session \ {x[1]}
  /\ serving' = serving \ {x}

(* The server closes a session: it has no onclose function, or one that    *)
(* cannot be called any more (then ondata is kept), or one that runs.      *)
PeerCloses(x) ==
  /\ x \in serving \cap pointing /\ hasChannel /\ running = Quiet
  /\ Crossing \/ x \notin wire
  /\ \/ /\ onclose[x[1]] = 0
        /\ Forget({ondata[x[1]]})
        /\ ondata' = [ondata EXCEPT ![x[1]] = 0]
        /\ EraseSession(x)
        /\ UNCHANGED running
     \/ /\ onclose[x[1]] # 0 /\ ~SomeLive(onclose[x[1]])
        /\ EraseSession(x)
        /\ UNCHANGED <<cidOf, lastCid, ondata, running>>
     \/ /\ SomeLive(onclose[x[1]])
        /\ running' = [kind |-> "peerclose", reply |-> x]
        /\ UNCHANGED <<cidOf, lastCid, ondata, replies, session, serving>>
  /\ UNCHANGED <<hasChannel, wire, onclose, listeners, pointing, posted>>

PeerCloseReturns ==
  LET s == running.reply[1] IN
  /\ running.kind = "peerclose"
  /\ Forget({onclose[s], ondata[s]})
  /\ onclose' = [onclose EXCEPT ![s] = 0]
  /\ ondata' = [ondata EXCEPT ![s] = 0]
  /\ EraseSession(running.reply)
  /\ running' = Quiet
  /\ UNCHANGED <<hasChannel, wire, listeners, pointing, posted>>

(* It closes one whose object no longer points at the channel. *)
PeerClosesOther(x) ==
  /\ x \in serving \ pointing
  /\ running.kind # "peerclose"
  /\ serving' = serving \ {x}
  /\ UNCHANGED <<hasChannel, cidOf, lastCid, session, replies, wire, ondata,
                 onclose, listeners, pointing, posted, running>>

-----------------------------------------------------------------------------
(* Topics *)

Heard(t) == {listeners[t][k] : k \in DOMAIN listeners[t]}

(* setTopicListener: the first listener registers a receiver. *)
SetTopicListener(t, f) ==
  /\ hasChannel /\ Len(listeners[t]) < MaxListeners /\ Pass(f)
  /\ listeners' = [listeners EXCEPT ![t] = Append(@, IdOf(f))]
  /\ pointing' = pointing \cup {t}
  /\ UNCHANGED <<hasChannel, session, replies, wire, serving, ondata,
                 onclose, posted, running>>

(* Mutant: the functions stay registered. *)
UnsetKeepingCallbacks(t) ==
  /\ hasChannel /\ listeners[t] # <<>>
  /\ listeners' = [listeners EXCEPT ![t] = <<>>]
  /\ pointing' = pointing \ {t}
  /\ UNCHANGED <<hasChannel, cidOf, lastCid, session, replies, wire, serving,
                 ondata, onclose, posted, running>>

UnsetTopicListener(t) ==
  /\ hasChannel /\ listeners[t] # <<>>
  /\ Forget(Heard(t))
  /\ listeners' = [listeners EXCEPT ![t] = <<>>]
  /\ pointing' = pointing \ {t}
  /\ UNCHANGED <<hasChannel, session, replies, wire, serving, ondata,
                 onclose, posted, running>>

Without(seq, c) ==
  LET k == CHOOSE n \in DOMAIN seq : seq[n] = c /\ \A m \in 1..(n-1) : seq[m] # c
  IN  SubSeq(seq, 1, k - 1) \o SubSeq(seq, k + 1, Len(seq))

(* unsetTopicListenerCb removes the callback itself and one entry of it.   *)
(* A function that is not registered is registered, and not found.         *)
UnsetTopicListenerCb(t, f) ==
  /\ hasChannel
  /\ IF cidOf[f] \notin Heard(t)
       THEN Pass(f) /\ UNCHANGED <<listeners, pointing>>
       ELSE /\ Forget({cidOf[f]})
            /\ listeners' = [listeners EXCEPT ![t] = Without(@, cidOf[f])]
            /\ pointing' = IF Len(listeners[t]) = 1 THEN pointing \ {t} ELSE pointing
  /\ UNCHANGED <<hasChannel, session, replies, wire, serving, ondata,
                 onclose, posted, running>>

(* onReceive posts a copy of the listeners. *)
Broadcast(t) ==
  /\ t \in pointing /\ hasChannel /\ Len(posted) < MaxPosted
  /\ posted' = Append(posted, [topic |-> t, cids |-> listeners[t]])
  /\ UNCHANGED <<hasChannel, cidOf, lastCid, session, replies, wire, serving,
                 ondata, onclose, listeners, pointing, running>>

(* The posted task calls the listeners one after the other, until one is   *)
(* not registered any more.                                                *)
StartDelivery ==
  /\ posted # <<>> /\ running = Quiet
  /\ running' = [kind |-> "deliver", topic |-> Head(posted).topic,
                 cids |-> Head(posted).cids]
  /\ posted' = Tail(posted)
  /\ UNCHANGED <<hasChannel, cidOf, lastCid, session, replies, wire, serving,
                 ondata, onclose, listeners, pointing>>

Deliver ==
  /\ running.kind = "deliver"
  /\ running' = IF running.cids # <<>> /\ SomeLive(Head(running.cids))
                  THEN [running EXCEPT !.cids = Tail(@)] ELSE Quiet
  /\ UNCHANGED <<hasChannel, cidOf, lastCid, session, replies, wire, serving,
                 ondata, onclose, listeners, pointing, posted>>

-----------------------------------------------------------------------------

(* Mutant: ~ClientConnection forgets the replies of closed sessions. *)
DetachOpenOnly ==
  /\ hasChannel /\ running.kind \notin {"selfclose", "peerclose"}
  /\ hasChannel' = FALSE
  /\ pointing' = pointing \ ({x \in replies : x[1] \in session} \cup
                             {t \in Topic : listeners[t] # <<>>})
  /\ cidOf' = [f \in Fn |-> 0]
  /\ session' = {} /\ replies' = {}
  /\ ondata' = [s \in Service |-> 0] /\ onclose' = [s \in Service |-> 0]
  /\ listeners' = [t \in Topic |-> <<>>]
  /\ UNCHANGED <<lastCid, wire, serving, posted, running>>

(* onDetached deletes the channel: ~MessageChannel and ~ClientConnection   *)
(* clear the pointers they know of; the instance releases all functions.   *)
(* A function that runs for a closed session does not drop the feature.    *)
ListenersDetach ==
  /\ hasChannel /\ running.kind \notin {"selfclose", "peerclose"}
  /\ hasChannel' = FALSE
  /\ pointing' = pointing \ (replies \cup {t \in Topic : listeners[t] # <<>>})
  /\ cidOf' = [f \in Fn |-> 0]
  /\ session' = {} /\ replies' = {}
  /\ ondata' = [s \in Service |-> 0] /\ onclose' = [s \in Service |-> 0]
  /\ listeners' = [t \in Topic |-> <<>>]
  /\ UNCHANGED <<lastCid, wire, serving, posted, running>>

ListenersFinished ==
  /\ ~hasChannel /\ posted = <<>> /\ running = Quiet
  /\ UNCHANGED mlVars

ListenersNext ==
  \/ \E s \in Service :
       \/ CreateSession(s) \/ SessionSend(s) \/ SessionClose(s)
       \/ \E f \in Fn : SessionOnData(s, f) \/ SessionOnClose(s, f)
  \/ \E x \in Reply : ServerAccepts(x) \/ PeerCloses(x) \/ PeerClosesOther(x)
  \/ SelfCloseReturns \/ PeerCloseReturns
  \/ \E t \in Topic :
       \/ UnsetTopicListener(t) \/ Broadcast(t)
       \/ \E f \in Fn : SetTopicListener(t, f) \/ UnsetTopicListenerCb(t, f)
  \/ StartDelivery \/ Deliver
  \/ ListenersDetach \/ ListenersFinished

ListenersSpec == ListenersInit /\ [][ListenersNext]_mlVars

-----------------------------------------------------------------------------
(* Properties *)

Cids(seq) == {seq[k] : k \in DOMAIN seq}

ListenersTypeOK ==
  /\ hasChannel \in BOOLEAN
  /\ cidOf \in [Fn -> 0..MaxCid] /\ lastCid \in 0..MaxCid
  /\ session \subseteq Service /\ replies \subseteq Reply
  /\ wire \subseteq Reply /\ serving \subseteq Reply
  /\ ondata \in [Service -> 0..MaxCid] /\ onclose \in [Service -> 0..MaxCid]
  /\ listeners \in [Topic -> Seq(1..MaxCid)]
  /\ pointing \subseteq Reply \cup Topic
  /\ \A k \in DOMAIN posted : posted[k].topic \in Topic
  /\ running.kind \in {"idle", "selfclose", "peerclose", "deliver"}

(* The listeners copied for a broadcast are called later, when any of them *)
(* may have been unset and its function passed again, for this topic or    *)
(* another: no function is called for a topic it is not set on.            *)
SnapshotCurrent ==
  /\ \A k \in DOMAIN posted : \A c \in Cids(posted[k].cids) :
       SomeLive(c) => c \in Heard(posted[k].topic)
  /\ running.kind = "deliver" => \A c \in Cids(running.cids) :
       SomeLive(c) => c \in Heard(running.topic)

(* "clear pointer reference when messageChannel detached": no reply object *)
(* that the serving process holds or is about to receive, and no receiver, *)
(* points at a channel that is gone.                                       *)
ListenersCutOff == ~hasChannel => pointing \cap (wire \cup serving \cup Topic) = {}

=============================================================================
