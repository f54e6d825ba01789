------------------------------ MODULE Prompts -------------------------------
(***************************************************************************)
(* system.prompt: the dialogs of one instance.  The PromptManager of the   *)
(* instance and its dialog_callbacks_ belong to the application's thread,  *)
(* the PromptServer and its dialogs to the thread of the user interface.   *)
(* The first posts tasks to the second, which run in their order; the      *)
(* second posts the events of a dialog back with FeaturePost.              *)
(*                                                                         *)
(* Toasts have no callbacks and are left out.                              *)
(***************************************************************************)
EXTENDS Naturals, Sequences, SequencesExt

CONSTANTS
  Dialog,     (* dialog ids: next_dialog_id_ uses each once *)
  NoDialog,
  QueueLimit, (* TOAST_QUEUE_LIMIT, 10 in the code *)
  LeaveEarly  (* TRUE: onDetached may come between the check of the weak   *)
              (* pointer and FeaturePost, and from a complete function.    *)

ASSUME PromptsAssumption ==
  NoDialog \notin Dialog /\ QueueLimit \in Nat \ {0} /\ LeaveEarly \in BOOLEAN

VARIABLES
  manager,   (* what the weak pointers lead to: "live", "gone" *)
  shown,     (* dialogs the script asked for *)
  infos,     (* dialog_callbacks_ *)
  tasks,     (* what was posted to the user interface *)
  server,    (* "created", "running", "destroyed" *)
  dialogs,   (* dialog_.queue_ *)
  drawn,     (* dialogs on the screen *)
  answered,  (* the button pressed on each dialog: "success", "cancel" *)
  outgoing,  (* events the user interface has still to send, and whether   *)
             (* it found the manager alive for the first: [events, found]  *)
  posted,    (* events in the queue of the feature manager *)
  running,   (* the dialog whose complete function runs *)
  called     (* the functions called for each dialog, in their order *)

appVars == <<manager, shown, infos, running, called>>
uiVars == <<server, dialogs, drawn, answered, outgoing>>
prVars == <<appVars, uiVars, tasks, posted>>

Choice == {"success", "cancel"}
DialogEvent == [dialog : Dialog, id : Choice \cup {"complete"}]
UITask == [do : {"init", "show", "destroy"}, dialog : Dialog \cup {NoDialog}]
Quiet == [events |-> <<>>, found |-> FALSE]

(* onRequired *)
PromptsInit ==
  /\ manager = "live" /\ shown = {} /\ infos = {} /\ running = NoDialog
  /\ called = [d \in Dialog |-> <<>>]
  /\ server = "created" /\ dialogs = <<>> /\ drawn = {}
  /\ answered = [d \in Dialog |-> "none"] /\ outgoing = Quiet
  /\ tasks = <<[do |-> "init", dialog |-> NoDialog]>> /\ posted = <<>>

-----------------------------------------------------------------------------
(* The application's thread *)

ShowDialog(d) ==
  /\ manager = "live" /\ d \notin shown
  /\ shown' = shown \cup {d} /\ infos' = infos \cup {d}
  /\ tasks' = Append(tasks, [do |-> "show", dialog |-> d])
  /\ UNCHANGED <<manager, running, called, uiVars, posted>>

(* HandleDialogEventOnAppThread drops an event without manager or info.    *)
DropDialogEvent ==
  /\ running = NoDialog /\ posted # <<>>
  /\ manager = "gone" \/ Head(posted).dialog \notin infos
  /\ posted' = Tail(posted)
  /\ UNCHANGED <<appVars, uiVars, tasks>>

(* Mutant: the info goes with the first function that is called.           *)
HandleDialogEventForgetting ==
  /\ running = NoDialog /\ posted # <<>> /\ manager = "live"
  /\ LET event == Head(posted)
     IN  /\ event.dialog \in infos
         /\ called' = [called EXCEPT ![event.dialog] = Append(@, event.id)]
         /\ infos' = infos \ {event.dialog}
  /\ posted' = Tail(posted)
  /\ UNCHANGED <<manager, shown, running, uiVars, tasks>>

HandleDialogEvent ==
  /\ running = NoDialog /\ posted # <<>> /\ manager = "live"
  /\ LET event == Head(posted)
     IN  /\ event.dialog \in infos
         /\ called' = [called EXCEPT ![event.dialog] = Append(@, event.id)]
         /\ running' = IF event.id = "complete" THEN event.dialog ELSE NoDialog
  /\ posted' = Tail(posted)
  /\ UNCHANGED <<manager, shown, infos, uiVars, tasks>>

(* The info goes when the complete function has returned. *)
CompleteReturns ==
  /\ running # NoDialog
  /\ running' = NoDialog /\ infos' = infos \ {running}
  /\ UNCHANGED <<manager, shown, called, uiVars, tasks, posted>>

(* onDetached deletes the manager, and with it the reference to the        *)
(* instance; the server is left to the user interface.                     *)
PromptsDetach ==
  /\ manager = "live"
  /\ LeaveEarly \/ (~outgoing.found /\ running = NoDialog)
  /\ manager' = "gone" /\ infos' = {}
  /\ tasks' = Append(tasks, [do |-> "destroy", dialog |-> NoDialog])
  /\ UNCHANGED <<shown, running, called, uiVars, posted>>

-----------------------------------------------------------------------------
(* The thread of the user interface: tasks and the timer of the server *)

NextTask(do) ==
  /\ outgoing = Quiet /\ tasks # <<>> /\ Head(tasks).do = do
  /\ tasks' = Tail(tasks)

InitServerTask ==
  /\ NextTask("init")
  /\ server' = "running"
  /\ UNCHANGED <<appVars, dialogs, drawn, answered, outgoing, posted>>

(* push deletes the oldest of a full queue, dialogs as well as toasts.  A  *)
(* dialog that was not drawn ends without an event.                        *)
Pushed(d) ==
  LET longer == Append(dialogs, d)
  IN  IF Len(longer) >= QueueLimit THEN Tail(longer) ELSE longer

ShowDialogTask ==
  /\ NextTask("show")
  /\ dialogs' = Pushed(Head(tasks).dialog)
  /\ UNCHANGED <<appVars, server, drawn, answered, outgoing, posted>>

(* ~PromptServer leaves the dialogs that are drawn. *)
DestroyServerTask ==
  /\ NextTask("destroy")
  /\ server' = "destroyed" /\ dialogs' = <<>>
  /\ UNCHANGED <<appVars, drawn, answered, outgoing, posted>>

(* Dialogs::run, one dialog for each period of the timer. *)
DrawDialog ==
  /\ outgoing = Quiet /\ server = "running" /\ dialogs # <<>>
  /\ dialogs' = Tail(dialogs) /\ drawn' = drawn \cup {Head(dialogs)}
  /\ UNCHANGED <<appVars, server, answered, outgoing, tasks, posted>>

-----------------------------------------------------------------------------
(* The thread of the user interface: the events of a dialog *)

Sends(d, ids) ==
  outgoing' = [Quiet EXCEPT !.events =
                [n \in DOMAIN ids |-> [dialog |-> d, id |-> ids[n]]]]

(* Mutant: the dialog is closed before its answer is sent.                 *)
PressClosingFirst(d, answer) ==
  /\ outgoing = Quiet /\ d \in drawn
  /\ drawn' = drawn \ {d} /\ answered' = [answered EXCEPT ![d] = answer]
  /\ Sends(d, <<"complete", answer>>)
  /\ UNCHANGED <<appVars, server, dialogs, tasks, posted>>

(* handleLvglEvent: the answer, and then close() deletes the object, which *)
(* sends EVENT_ID_COMPLETE.                                                *)
Press(d, answer) ==
  /\ outgoing = Quiet /\ d \in drawn
  /\ drawn' = drawn \ {d} /\ answered' = [answered EXCEPT ![d] = answer]
  /\ Sends(d, <<answer, "complete">>)
  /\ UNCHANGED <<appVars, server, dialogs, tasks, posted>>

(* The host deletes the view the dialog is in. *)
ViewDeleted(d) ==
  /\ outgoing = Quiet /\ d \in drawn
  /\ drawn' = drawn \ {d}
  /\ Sends(d, <<"complete">>)
  /\ UNCHANGED <<appVars, server, dialogs, answered, tasks, posted>>

(* DialogEventCallback asks for the manager ...                            *)
FindManager ==
  /\ outgoing.events # <<>> /\ ~outgoing.found
  /\ outgoing' = IF manager = "live" THEN [outgoing EXCEPT !.found = TRUE]
                ELSE [outgoing EXCEPT !.events = Tail(@)]
  /\ UNCHANGED <<appVars, server, dialogs, drawn, answered, tasks, posted>>

(* ... and then posts with the handle the manager owned.                   *)
PostDialogEvent ==
  /\ outgoing.found
  /\ posted' = Append(posted, Head(outgoing.events))
  /\ outgoing' = [events |-> Tail(outgoing.events), found |-> FALSE]
  /\ UNCHANGED <<appVars, server, dialogs, drawn, answered, tasks>>

AppSteps == DropDialogEvent \/ HandleDialogEvent \/ CompleteReturns
UISteps ==
  \/ InitServerTask \/ ShowDialogTask \/ DestroyServerTask
  \/ FindManager \/ PostDialogEvent

PromptsNext ==
  \/ AppSteps \/ UISteps \/ DrawDialog \/ PromptsDetach
  \/ \E d \in Dialog :
       \/ ShowDialog(d) \/ ViewDeleted(d)
       \/ \E answer \in Choice : Press(d, answer)

PromptsSpec == PromptsInit /\ [][PromptsNext]_prVars

-----------------------------------------------------------------------------
(* Properties *)

PromptsTypeOK ==
  /\ manager \in {"live", "gone"}
  /\ shown \subseteq Dialog /\ infos \subseteq Dialog
  /\ tasks \in Seq(UITask) /\ server \in {"created", "running", "destroyed"}
  /\ dialogs \in Seq(Dialog) /\ drawn \subseteq Dialog
  /\ answered \in [Dialog -> Choice \cup {"none"}]
  /\ outgoing \in [events : Seq(DialogEvent), found : BOOLEAN]
  /\ posted \in Seq(DialogEvent) /\ running \in Dialog \cup {NoDialog}
  /\ called \in [Dialog -> Seq(Choice \cup {"complete"})]

(* The functions of a dialog are called in order and once: the one of the  *)
(* button that was pressed, if one was, and then complete.                 *)
OutcomeThenComplete ==
  \A d \in Dialog :
    IsPrefix(called[d], IF answered[d] = "none" THEN <<"complete">>
                        ELSE <<answered[d], "complete">>)

(* An answer of the user reaches the script: both functions are called,    *)
(* unless the instance is detached, whatever else is shown meanwhile.      *)
AnswersHeard ==
  \A d \in Dialog :
    answered[d] # "none" ~> manager = "gone" \/ Len(called[d]) = 2
=============================================================================
