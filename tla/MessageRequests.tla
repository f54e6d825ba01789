--------------------------- MODULE MessageRequests ---------------------------
(***************************************************************************)
(* Requests of system.messageChannel: sendMessage returns a promise, the   *)
(* serving process holds a binder reply object for it, and a 10 s timer of *)
(* the TaskBoard rejects it if no reply comes.                             *)
(*                                                                         *)
(* Replies, timers and the script all run on the loop of the instance, one *)
(* at a time; settling a promise runs no script.  The serving process is   *)
(* its MessageTransportServer: it replies once to a request it holds, at   *)
(* any time (before or after the timeout, or after the channel is gone),   *)
(* or never.                                                               *)
(*                                                                         *)
(* MessageReply::onReply works on a copy of the board, whose tasks are     *)
(* shared: the timers it deletes are gone, the tasks it erases stay.       *)
(***************************************************************************)
EXTENDS Naturals, Sequences, FiniteSets

CONSTANT Msg (* Calls of sendMessage. *)

VARIABLES
  attached, (* the MessageChannel of the instance exists                   *)
  board,    (* ClientConnection::task_board_                               *)
  done,     (* tasks with is_done_                                         *)
  timer,    (* the UvTimer of each task: it outlives its own expiry        *)
  linked,   (* reply objects that point at the channel and its connection  *)
  held,     (* reply_map_ of the serving process                           *)
  answers   (* history: the settling calls made for each promise           *)

mrVars == <<attached, board, done, timer, linked, held, answers>>

RequestsInit ==
  /\ attached = TRUE /\ board = {} /\ done = {} /\ linked = {} /\ held = {}
  /\ timer = [r \in Msg |-> "none"]
  /\ answers = [r \in Msg |-> <<>>]

Answer(r, outcome) == answers' = [answers EXCEPT ![r] = Append(@, outcome)]

(* Mutant: the task goes on the board without its timer. *)
CommitUntimed(r) ==
  /\ board' = board \cup {r} /\ linked' = linked \cup {r}
  /\ UNCHANGED timer

(* commitTask, with the reply object made for it. *)
CommitTask(r) ==
  /\ board' = board \cup {r} /\ linked' = linked \cup {r}
  /\ timer' = [timer EXCEPT ![r] = "armed"]

New(r) == r \notin board /\ answers[r] = <<>>

(* sendMessage to a service that is not there. *)
SendNowhere(r) ==
  /\ attached /\ New(r)
  /\ Answer(r, "failed")
  /\ UNCHANGED <<attached, board, done, timer, linked, held>>

Send(r) ==
  /\ attached /\ New(r)
  /\ CommitTask(r)
  /\ held' = held \cup {r}
  /\ UNCHANGED <<attached, done, answers>>

(* The transaction fails: the promise is rejected, the task stays. *)
SendRefused(r) ==
  /\ attached /\ New(r)
  /\ CommitTask(r)
  /\ Answer(r, "failed")
  /\ UNCHANGED <<attached, done, held>>

(* Mutant: a task that is done answers again. *)
ExecuteDoneToo(r) ==
  LET stopped == board \cap (done \cup {r})
  IN  /\ timer' = [t \in Msg |-> IF t \in stopped THEN "none" ELSE timer[t]]
      /\ done' = done \cup (board \cap {r})
      /\ IF r \in board THEN Answer(r, "reply") ELSE UNCHANGED answers

(* executeTask on the copy: tasks that are done lose their timer, the task *)
(* of this reply answers unless it is one of them.                         *)
ExecuteTask(r) ==
  LET stopped == board \cap (done \cup {r})
  IN  /\ timer' = [t \in Msg |-> IF t \in stopped THEN "none" ELSE timer[t]]
      /\ done' = done \cup (board \cap {r})
      /\ IF r \in board \ done THEN Answer(r, "reply") ELSE UNCHANGED answers

(* serverReply in the serving process, onReply here. *)
OnReply(r) ==
  /\ r \in held
  /\ held' = held \ {r}
  /\ IF r \in linked THEN ExecuteTask(r) ELSE UNCHANGED <<done, timer, answers>>
  /\ UNCHANGED <<attached, board, linked>>

OnTimeout(r) ==
  /\ timer[r] = "armed"
  /\ timer' = [timer EXCEPT ![r] = "expired"]
  /\ done' = done \cup {r}
  /\ IF r \in done THEN UNCHANGED answers ELSE Answer(r, "timeout")
  /\ UNCHANGED <<attached, board, linked, held>>

(* Mutant: only tasks that wait for an answer are cleared. *)
ClearWaitingOnly ==
  /\ board' = board \cap done
  /\ linked' = linked \ (board \ done)
  /\ timer' = [t \in Msg |-> IF t \in board \ done THEN "none" ELSE timer[t]]

(* TaskBoard::clearTimer. *)
ClearTimer ==
  /\ board' = {}
  /\ linked' = linked \ board
  /\ timer' = [t \in Msg |-> IF t \in board THEN "none" ELSE timer[t]]

(* onDetached deletes the channel; the instance drops its promises.        *)
RequestsDetach ==
  /\ attached
  /\ attached' = FALSE
  /\ ClearTimer
  /\ UNCHANGED <<done, held, answers>>

RequestsFinished ==
  /\ \A r \in Msg : timer[r] # "armed"
  /\ UNCHANGED mrVars

RequestsNext ==
  \/ \E r \in Msg :
       \/ SendNowhere(r) \/ Send(r) \/ SendRefused(r)
       \/ OnReply(r) \/ OnTimeout(r)
  \/ RequestsDetach
  \/ RequestsFinished

RequestsSpec == RequestsInit /\ [][RequestsNext]_mrVars

(* A running loop serves its timers. *)
RequestsLiveSpec ==
  RequestsSpec /\ \A r \in Msg : WF_mrVars(OnTimeout(r))

-----------------------------------------------------------------------------
(* Properties *)

RequestsTypeOK ==
  /\ attached \in BOOLEAN
  /\ board \subseteq Msg /\ done \subseteq Msg
  /\ linked \subseteq Msg /\ held \subseteq Msg
  /\ timer \in [Msg -> {"none", "armed", "expired"}]
  /\ answers \in [Msg -> Seq({"reply", "timeout", "failed"})]

(* One request, one answer: a reply that comes after the timeout, a timer  *)
(* that expires after the reply, and a second reply settle nothing.  Only  *)
(* a request whose transaction failed is rejected twice, by sendMessage    *)
(* and later by the timer of the task that stayed on the board.            *)
AnsweredOnce ==
  \A r \in Msg : Len(answers[r]) > 1 => answers[r] = <<"failed", "timeout">>

(* After onDetached deleted the channel nothing that other processes or    *)
(* the loop still hold leads to it: no armed or expired timer, no reply    *)
(* object with its pointers, although the board only ever grows before.    *)
RequestsCutOff ==
  ~attached => linked = {} /\ \A r \in Msg : timer[r] = "none"

(* A request that was sent is answered, whatever the serving process does, *)
(* unless the instance is detached first.                                  *)
RequestsSettled == \A r \in Msg : r \in board ~> answers[r] # <<>> \/ ~attached

=============================================================================
