------------------------------ MODULE Previews ------------------------------
(***************************************************************************)
(* system.media: pictures that an instance previews on the UI thread.      *)
(*                                                                         *)
(* A MediaManager on the loop of the application keeps the functions of    *)
(* each call under an id; a MediaManagerOnUI keeps the widgets under the   *)
(* same ids.  They post tasks to each other: the one to the UI holds a     *)
(* plain pointer, the ones back a weak pointer.  Ids are 32 bits wide and  *)
(* used again when they wrap.  Each thread runs its tasks in order.        *)
(***************************************************************************)
EXTENDS Integers, Sequences, FiniteSets

CONSTANTS
  Preview,    (* calls of previewImage *)
  Ids,        (* how many ids there are: 2^32 in the code *)
  LeaveWithin (* TRUE: a function may drop the instance it is called for. *)

ASSUME PreviewAssumption ==
  Ids \in Nat \ {0} /\ LeaveWithin \in BOOLEAN

VARIABLES
  pictures, (* MediaManager::pending_preview_images_: ids, their calls     *)
  nextId,   (* next_preview_image_id_                                      *)
  widgets,  (* MediaManagerOnUI::pending_preview_images_: ids, widgets     *)
  toUI,     (* tasks of the UI thread                                      *)
  toApp,    (* tasks of the loop of the application                        *)
  heeds,    (* history: what each call was told                            *)
  managing, (* "yes", "detached", then "no": the UI's part is deleted too  *)
  misled    (* history: something used what was deleted or is not there    *)

pvVars == <<pictures, nextId, widgets, toUI, toApp, heeds, managing, misled>>

NoPictures == [i \in {} |-> {}]
Erased(f, i) == [j \in DOMAIN f \ {i} |-> f[j]]
With(f, i, v) == [j \in DOMAIN f \cup {i} |-> IF j = i THEN v ELSE f[j]]

PreviewsInit ==
  /\ pictures = NoPictures /\ nextId = 0 /\ widgets = NoPictures
  /\ toUI = <<>> /\ toApp = <<>>
  /\ heeds = [c \in Preview |-> <<"idle">>]
  /\ managing = "yes" /\ misled = FALSE

Tell(c, what) == heeds' = [heeds EXCEPT ![c] = Append(@, what)]

-----------------------------------------------------------------------------
(* The loop of the application *)

(* Mutant: an id is not asked whether it is in use. *)
AllocPreviewImageId_Blind == nextId

(* AllocPreviewImageId: the next id that is free; the counter goes on by   *)
(* one, whatever was skipped.                                              *)
AllocPreviewImageId ==
  LET free == {s \in 0..(Ids - 1) : (nextId + s) % Ids \notin DOMAIN pictures}
  IN  (nextId + CHOOSE s \in free : \A t \in free : s <= t) % Ids

(* PreviewImage of MediaManager.  With all ids in use the search for one   *)
(* would not end.                                                          *)
PreviewImage(c) ==
  /\ Cardinality(DOMAIN pictures) < Ids
  /\ LET pid == AllocPreviewImageId
     IN  /\ Tell(c, "shown")
         /\ misled' = (misled \/ pid \in DOMAIN pictures)
         /\ pictures' = With(pictures, pid, c)
         /\ nextId' = (nextId + 1) % Ids
         /\ toUI' = Append(toUI, [task |-> "preview", pid |-> pid])

(* Which of so many uris is the current one, counted from 1: the first if  *)
(* it is missing or empty, the one with this index or, if it is a string,  *)
(* the same uri; 0 if it is none of them, or of another type.              *)
CurrentOf(uris, current) ==
  CASE uris = 0 -> 0
    [] current.is \in {"missing", "empty"} -> 1
    [] current.is = "number" /\ current.at + 1 \in 1..uris -> current.at + 1
    [] current.is = "string" /\ current.at \in 1..uris -> current.at
    [] OTHER -> 0

(* media_fail_callback: fail, and the functions are removed. *)
MediaFailCallback(c) ==
  Tell(c, "fail") /\ UNCHANGED <<pictures, nextId, toUI, misled>>

(* previewImage *)
WrapPreviewImage(c) ==
  /\ heeds[c] = <<"idle">> /\ managing = "yes"
  /\ \E uris \in 0..2, at \in -1..2,
        is \in {"missing", "empty", "number", "string", "other"} :
       IF CurrentOf(uris, [is |-> is, at |-> at]) = 0 THEN MediaFailCallback(c)
       ELSE PreviewImage(c)
  /\ UNCHANGED <<widgets, toApp, managing>>

(* ~MediaManager: the functions go, the part on the UI goes there.         *)
ManagerGone ==
  /\ managing' = "detached" /\ pictures' = NoPictures
  /\ toUI' = Append(toUI, [task |-> "delete", pid |-> 0])

(* onDetached *)
PreviewsDetached ==
  /\ managing = "yes" /\ ManagerGone
  /\ UNCHANGED <<nextId, widgets, toApp, heeds, misled>>

(* PreviewImageSuccess, PreviewImageFail and PreviewImageComplete of       *)
(* MediaManager, if the weak pointer still leads to one.  When a function  *)
(* drops the instance, what is erased or returned to after it is deleted.  *)
AppPosted ==
  /\ toApp # <<>> /\ toApp' = Tail(toApp)
  /\ LET pid == Head(toApp).pid
         what == Head(toApp).task
     IN  IF managing # "yes"
         THEN UNCHANGED <<pictures, toUI, heeds, managing, misled>>
         ELSE IF pid \notin DOMAIN pictures
         THEN misled' = TRUE /\ UNCHANGED <<pictures, toUI, heeds, managing>>
         ELSE /\ Tell(pictures[pid], what)
              /\ \/ /\ pictures' = IF what = "complete"
                                   THEN Erased(pictures, pid) ELSE pictures
                    /\ UNCHANGED <<toUI, managing, misled>>
                 \/ LeaveWithin /\ ManagerGone /\ misled' = TRUE
  /\ UNCHANGED <<nextId, widgets>>

-----------------------------------------------------------------------------
(* The UI thread *)

Report(pid, what) == toApp' = Append(toApp, [task |-> what, pid |-> pid])

(* PreviewImage of MediaManagerOnUI shows a widget: emplace keeps the one  *)
(* that has the id already.  An erasure finds the manager by a weak        *)
(* pointer; the deletion of the manager destroys its widgets.              *)
UIPosted ==
  /\ toUI # <<>> /\ toUI' = Tail(toUI)
  /\ LET pid == Head(toUI).pid
     IN  CASE Head(toUI).task = "preview" ->
                /\ misled' = (misled \/ managing = "no"
                                     \/ pid \in DOMAIN widgets)
                /\ widgets' = With(widgets, pid, "shown")
                /\ UNCHANGED managing
           [] Head(toUI).task = "erase" ->
                /\ widgets' = Erased(widgets, pid)
                /\ UNCHANGED <<managing, misled>>
           [] OTHER ->
                /\ managing' = "no" /\ widgets' = NoPictures
                /\ UNCHANGED misled
  /\ UNCHANGED <<pictures, nextId, toApp, heeds>>

(* The widget says how it went, and then, when the user leaves it, that it *)
(* is complete; it is erased by a task, as it is still running.            *)
WidgetShows(pid) ==
  /\ pid \in DOMAIN widgets /\ widgets[pid] = "shown"
  /\ \E what \in {"success", "fail"} : Report(pid, what)
  /\ widgets' = With(widgets, pid, "told")
  /\ UNCHANGED <<pictures, nextId, toUI, heeds, managing, misled>>

PreviewImageCompleteCB(pid) ==
  /\ pid \in DOMAIN widgets /\ widgets[pid] = "told"
  /\ Report(pid, "complete")
  /\ widgets' = With(widgets, pid, "complete")
  /\ toUI' = Append(toUI, [task |-> "erase", pid |-> pid])
  /\ UNCHANGED <<pictures, nextId, heeds, managing, misled>>

PreviewsNext ==
  \/ \E c \in Preview : WrapPreviewImage(c)
  \/ PreviewsDetached \/ AppPosted \/ UIPosted
  \/ \E pid \in 0..(Ids - 1) : WidgetShows(pid) \/ PreviewImageCompleteCB(pid)

PreviewsSpec == PreviewsInit /\ [][PreviewsNext]_pvVars

-----------------------------------------------------------------------------
(* Properties *)

(* Whatever order the two threads take, and though ids are used again: no  *)
(* task finds another picture under its id or none, no task runs after     *)
(* what it points to is deleted, and each call is told how it went, then   *)
(* that it is complete, in this order and once.                            *)
PreviewsInStep ==
  /\ ~misled
  /\ \A c \in Preview :
       heeds[c] \in {<<"idle">>, <<"idle", "fail">>, <<"idle", "shown">>}
                    \cup {<<"idle", "shown", o>> : o \in {"success", "fail"}}
                    \cup {<<"idle", "shown", o, "complete">> :
                            o \in {"success", "fail"}}
  /\ \A i, j \in DOMAIN pictures : pictures[i] = pictures[j] => i = j
  /\ managing = "yes" => DOMAIN widgets \subseteq
       DOMAIN pictures \cup {toUI[k].pid : k \in DOMAIN toUI}

=============================================================================
