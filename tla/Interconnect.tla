---------------------------- MODULE Interconnect ----------------------------
(***************************************************************************)
(* system.interconnect: the one InterconnectContext of a prototype, its    *)
(* connection to the phone, and the promises that wait for it: those of    *)
(* send and, one at a time, of diagnosis.                                  *)
(*                                                                         *)
(* miwear reports the state of the phone and the fate of each message; its *)
(* callbacks, the timers and the script share one loop.  The script's      *)
(* functions (onopen, onclose, onerror, onmessage) are called when each    *)
(* handler has changed all it changes here, or where that makes no         *)
(* difference, so what they do is another step; who hears what is left out.*)
(***************************************************************************)
EXTENDS Naturals, Sequences, FiniteSets

CONSTANTS
  Message,   (* Calls of send.                                             *)
  Diagnosis, (* Calls of diagnosis.                                        *)
  NoCall,    (* No diagnosis waits: kInvalidPromiseId.                     *)
  MaxReports (* Bound: states reported by miwear.                          *)

ASSUME InterconnectAssumption ==
  /\ NoCall \notin Diagnosis /\ Message \cap Diagnosis = {}
  /\ MaxReports \in Nat

VARIABLES
  context,     (* the InterconnectContext: "live", "destroyed"             *)
  opening,     (* connect_send_                                            *)
  status,      (* status_                                                  *)
  sends,       (* send_tasks_                                              *)
  sendTimer,   (* the timer of each task: "none", "armed", and "endless"   *)
               (* for a negative timeout                                   *)
  sending,     (* messages given to miwear that it has not answered        *)
  diagnosing,  (* diagnosis_promise_id_                                    *)
  diagTimer,   (* whether diagnosis_timer_ runs                            *)
  settled,     (* history: what each promise was settled with              *)
  reports      (* history: states reported                                 *)

icVars == <<context, opening, status, sends, sendTimer, sending, diagnosing,
            diagTimer, settled, reports>>

Call == Message \cup Diagnosis
Status == {"init", "id_sent", "connected", "disconnected", "failed", "closed",
           "uninstalled"}
Connecting(st) == st \in {"init", "id_sent"}

InterconnectInit ==
  /\ context = "live" /\ opening = FALSE /\ status = "init"
  /\ sends = {} /\ sendTimer = [m \in Message |-> "none"] /\ sending = {}
  /\ diagnosing = NoCall /\ diagTimer = FALSE
  /\ settled = [c \in Call |-> <<>>] /\ reports = 0

Settle(c, outcome) == settled' = [settled EXCEPT ![c] = Append(@, outcome)]
Unused(c) == settled[c] = <<>> /\ c # diagnosing /\ c \notin sends \cup sending

(* connect, called by onRequired and by instance(): once it succeeds it is *)
(* not done again.                                                         *)
Connect ==
  /\ context = "live" /\ ~opening
  /\ opening' = TRUE
  /\ UNCHANGED <<context, status, sends, sendTimer, sending, diagnosing,
                 diagTimer, settled, reports>>

-----------------------------------------------------------------------------
(* Calls of the script *)

(* Connected: SendMsg. *)
SendNow(m) ==
  /\ status = "connected"
  /\ sends' = sends \cup {m} /\ sending' = sending \cup {m}
  /\ UNCHANGED <<sendTimer, settled>>

(* Connecting: PendingSendTask; uv_timer_start takes an unsigned timeout.  *)
PendingSendTask(m) ==
  /\ Connecting(status)
  /\ sends' = sends \cup {m}
  /\ \E t \in {"armed", "endless"} : sendTimer' = [sendTimer EXCEPT ![m] = t]
  /\ UNCHANGED <<sending, settled>>

(* Otherwise, or for data that is not an object, the promise is rejected.  *)
SendRejected(m) ==
  /\ Settle(m, "rejected")
  /\ UNCHANGED <<sends, sendTimer, sending>>

InterconnectSend(m) ==
  /\ context = "live" /\ Unused(m)
  /\ SendNow(m) \/ PendingSendTask(m) \/ SendRejected(m)
  /\ UNCHANGED <<context, opening, status, diagnosing, diagTimer, reports>>

(* PendingDiagnosis; a second one, or a timeout of 0, is rejected.         *)
Diagnose(d) ==
  /\ context = "live" /\ Unused(d)
  /\ \/ /\ Connecting(status) /\ diagnosing = NoCall
        /\ diagnosing' = d /\ diagTimer' = TRUE
        /\ UNCHANGED settled
     \/ /\ Connecting(status)
        /\ Settle(d, "rejected")
        /\ UNCHANGED <<diagnosing, diagTimer>>
     \/ /\ ~Connecting(status)
        /\ Settle(d, status)
        /\ UNCHANGED <<diagnosing, diagTimer>>
  /\ UNCHANGED <<context, opening, status, sends, sendTimer, sending, reports>>

-----------------------------------------------------------------------------
(* Callbacks of miwear *)

ProcessPendingDiagnosis(st) ==
  /\ diagnosing' = NoCall /\ diagTimer' = FALSE
  /\ IF diagnosing = NoCall THEN UNCHANGED settled ELSE Settle(diagnosing, st)

(* Mutant: the messages are sent and their timers run on. *)
SendPendingKeepingTimers ==
  /\ sending' = sending \cup {m \in sends : sendTimer[m] # "none"}
  /\ UNCHANGED sendTimer

(* Those that have a timer have not been sent. *)
ProcessPendingSendTasks ==
  /\ sending' = sending \cup {m \in sends : sendTimer[m] # "none"}
  /\ sendTimer' = [m \in Message |-> IF m \in sends THEN "none" ELSE sendTimer[m]]

(* Mutant: messages that wait are dropped when the phone is lost. *)
ConnectCallbackDropping(st) ==
  /\ context = "live" /\ opening /\ reports < MaxReports
  /\ status' = st /\ reports' = reports + 1
  /\ ProcessPendingDiagnosis(st)
  /\ IF st = "connected" THEN ProcessPendingSendTasks
     ELSE /\ sendTimer' = [m \in Message |-> "none"]
          /\ UNCHANGED sending
  /\ UNCHANGED <<context, opening, sends>>

(* __miwear_connect_cb of a context, with a status: messages that wait are *)
(* neither sent nor failed by a status that says that the phone is lost.   *)
MiwearConnectCallback(st) ==
  /\ context = "live" /\ opening /\ reports < MaxReports
  /\ status' = st /\ reports' = reports + 1
  /\ IF st \in {"id_sent", "closed"}
       THEN UNCHANGED <<diagnosing, diagTimer, settled>>
       ELSE ProcessPendingDiagnosis(st)
  /\ IF st = "connected" THEN ProcessPendingSendTasks
                         ELSE UNCHANGED <<sendTimer, sending>>
  /\ UNCHANGED <<context, opening, sends>>

(* The same, when the pipe fails: the status is what it was.               *)
MiwearPipeFails ==
  /\ context = "live" /\ opening /\ diagnosing # NoCall
  /\ ProcessPendingDiagnosis(status)
  /\ UNCHANGED <<context, opening, status, sends, sendTimer, sending, reports>>

(* A task that is not in send_tasks_ any more is ignored.                  *)
ProcessSendResult(m, outcome) ==
  /\ sends' = sends \ {m}
  /\ IF m \in sends THEN Settle(m, outcome) ELSE UNCHANGED settled

(* __miwear_send_cb, for a context that may be gone.                       *)
MiwearSendCallback(m) ==
  /\ m \in sending
  /\ sending' = sending \ {m}
  /\ IF context = "live"
       THEN \E outcome \in {"sent", "failed"} : ProcessSendResult(m, outcome)
       ELSE UNCHANGED <<sends, settled>>
  /\ UNCHANGED <<context, opening, status, sendTimer, diagnosing, diagTimer, reports>>

-----------------------------------------------------------------------------
(* Timers *)

TimerSendCallback(m) ==
  /\ sendTimer[m] = "armed"
  /\ sendTimer' = [sendTimer EXCEPT ![m] = "none"]
  /\ ProcessSendResult(m, "timeout")
  /\ UNCHANGED <<context, opening, status, sending, diagnosing, diagTimer, reports>>

TimerDiagnosisCallback ==
  /\ diagTimer
  /\ ProcessPendingDiagnosis("timeout")
  /\ UNCHANGED <<context, opening, status, sends, sendTimer, sending, reports>>

(* onDestroy: shutdown and destroy; nothing that waits is settled.         *)
Shutdown ==
  /\ context = "live"
  /\ context' = "destroyed"
  /\ diagTimer' = FALSE /\ diagnosing' = NoCall
  /\ sendTimer' = [m \in Message |-> IF m \in sends THEN "none" ELSE sendTimer[m]]
  /\ sends' = {}
  /\ UNCHANGED <<opening, status, sending, settled, reports>>

InterconnectFinished == context = "destroyed" /\ UNCHANGED icVars

InterconnectNext ==
  \/ Connect
  \/ \E m \in Message :
       InterconnectSend(m) \/ MiwearSendCallback(m) \/ TimerSendCallback(m)
  \/ \E d \in Diagnosis : Diagnose(d)
  \/ \E st \in Status \ {"init"} : MiwearConnectCallback(st)
  \/ MiwearPipeFails \/ TimerDiagnosisCallback
  \/ Shutdown \/ InterconnectFinished

InterconnectSpec == InterconnectInit /\ [][InterconnectNext]_icVars

(* A running loop serves its timers; nothing is assumed of miwear.         *)
InterconnectFairness ==
  /\ \A m \in Message : WF_icVars(TimerSendCallback(m))
  /\ WF_icVars(TimerDiagnosisCallback)

-----------------------------------------------------------------------------
(* Properties *)

InterconnectTypeOK ==
  /\ context \in {"live", "destroyed"} /\ opening \in BOOLEAN
  /\ status \in Status
  /\ sends \subseteq Message /\ sending \subseteq Message
  /\ sendTimer \in [Message -> {"none", "armed", "endless"}]
  /\ diagnosing \in Diagnosis \cup {NoCall} /\ diagTimer \in BOOLEAN
  /\ settled \in [Call -> Seq(Status \cup {"rejected", "sent", "timeout"})]

(* A message that waits has one way to be settled: its timer, or once it   *)
(* was given to miwear (at the connection, when the timer must end) the    *)
(* answer of miwear.  So each promise is settled once, and nothing leads   *)
(* to a task that was freed, in particular no timer after shutdown.        *)
OneWayToSettle ==
  /\ \A m \in sends :
       /\ settled[m] = <<>>
       /\ m \in sending <=> sendTimer[m] = "none"
  /\ \A m \in Message \ sends : sendTimer[m] = "none"
  /\ diagTimer <=> diagnosing # NoCall
  /\ \A c \in Call : Len(settled[c]) <= 1

(* What waits for the connection does not wait for ever, whatever miwear   *)
(* reports or does not: the message is given to miwear or fails, and the   *)
(* diagnosis is answered, unless the context is shut down.                 *)
ConnectingWaitEnds ==
  /\ \A m \in Message :
       (m \in sends /\ sendTimer[m] = "armed") ~>
         (m \in sending \/ settled[m] # <<>> \/ context = "destroyed")
  /\ \A d \in Diagnosis :
       diagnosing = d ~> (settled[d] # <<>> \/ context = "destroyed")

=============================================================================
