------------------------- MODULE BrightnessRequests -------------------------
(***************************************************************************)
(* system.brightness: requests to uv_brightness, in the build without a    *)
(* brightness service.                                                     *)
(*                                                                         *)
(* Each request is a node in the list of its instance, with a copy of the  *)
(* arguments.  brightness_cb frees both; onDetached frees those that are   *)
(* listed and closes the handle of uv_brightness, which relies on none of  *)
(* them calling back after that.                                           *)
(***************************************************************************)
EXTENDS Naturals, Sequences

CONSTANT Setting  (* calls *)

VARIABLES
  asked,  (* each call: how far it is, and how often its node and its      *)
          (* arguments were freed.  "listed": refused, with its node left  *)
          (* in the list; "left": its function has dropped the instance;   *)
          (* "late": answered after a recovery that failed                 *)
  inList, (* the nodes in the list of the instance                         *)
  said,   (* history: the functions called for each                        *)
  uv      (* uv_brightness: "open", "closed", or "kept" by a recovery that *)
          (* failed                                                        *)

brVars == <<asked, inList, said, uv>>

BrightnessInit ==
  /\ asked = [c \in Setting |-> [step |-> "idle", node |-> 0, param |-> 0]]
  /\ inList = {}
  /\ said = [c \in Setting |-> <<>>]
  /\ uv = "open"

(* do_callback: the code it is given, status == 0 or a positive error, is  *)
(* never below 0, so it calls success for what failed as well.             *)
BothCalled == <<"success", "complete">>
DoCallback(c) == said' = [said EXCEPT ![c] = BothCalled]

FreedOnceMore(n) == [n EXCEPT !.node = @ + 1, !.param = @ + 1]
Ended(n) == [n EXCEPT !.step = "ended"]

(* getValue, setValue, getMode, setMode and setKeepScreenOn: taken by      *)
(* uv_brightness, or refused; a setKeepScreenOn that is refused, for the   *)
(* screen or for itself, frees its arguments and stays in the list.        *)
Setup(c) ==
  /\ asked[c].step = "idle" /\ uv = "open"
  /\ \/ /\ asked' = [asked EXCEPT ![c].step = "running"]
        /\ inList' = inList \cup {c} /\ UNCHANGED said
     \/ /\ asked' = [asked EXCEPT ![c] = Ended(FreedOnceMore(@))]
        /\ DoCallback(c) /\ UNCHANGED inList
     \/ /\ asked' = [asked EXCEPT ![c].step = "listed", ![c].param = 1]
        /\ inList' = inList \cup {c}
        /\ DoCallback(c) \/ UNCHANGED said
  /\ UNCHANGED uv

(* detach: the nodes that are listed, then recovery, then the handle.      *)
Detached ==
  [c \in Setting |->
     IF c \in inList THEN FreedOnceMore(asked[c]) ELSE asked[c]]

BrightnessDetached ==
  /\ uv = "open" /\ uv' \in {"closed", "kept"}
  /\ asked' = Detached
  /\ UNCHANGED <<inList, said>>

(* Mutant: brightness_cb frees its node and leaves it in the list. *)
BrightnessCb_StaysListed(c) ==
  /\ asked[c].step = "running" /\ uv = "open"
  /\ DoCallback(c)
  /\ asked' = [asked EXCEPT ![c] = Ended(FreedOnceMore(@))]
  /\ UNCHANGED <<inList, uv>>

(* brightness_cb; is_close is copied into a node when it is made and never *)
(* set, so the callback goes on.  The node is taken off and freed after    *)
(* the functions.                                                          *)
BrightnessCb(c) ==
  /\ asked[c].step = "running" /\ uv = "open"
  /\ DoCallback(c)
  /\ asked' = [asked EXCEPT ![c] = Ended(FreedOnceMore(@))]
  /\ inList' = inList \ {c} /\ UNCHANGED uv

(* brightness_cb with a function that drops the instance: onDetached frees *)
(* the node, and brightness_cb frees it when the function is back.         *)
CbThatLeaves(c) ==
  /\ asked[c].step = "running" /\ uv = "open" /\ uv' \in {"closed", "kept"}
  /\ \E told \in {<<"success">>, BothCalled} :
       said' = [said EXCEPT ![c] = told]
  /\ asked' = [Detached EXCEPT
                 ![c] = [FreedOnceMore(@) EXCEPT !.step = "left"]]
  /\ UNCHANGED inList

(* brightness_cb of a node that onDetached has freed, where a recovery     *)
(* that failed let uv_brightness live: what it reads there is anything.    *)
LateCb(c) ==
  /\ asked[c].step = "running" /\ uv = "kept"
  /\ DoCallback(c) \/ UNCHANGED said
  /\ asked' = [asked EXCEPT ![c] = [FreedOnceMore(@) EXCEPT !.step = "late"]]
  /\ UNCHANGED <<inList, uv>>

BrightnessNext ==
  \/ \E c \in Setting :
       Setup(c) \/ BrightnessCb(c) \/ CbThatLeaves(c) \/ LateCb(c)
  \/ BrightnessDetached

BrightnessSpec == BrightnessInit /\ [][BrightnessNext]_brVars

-----------------------------------------------------------------------------
(* Properties *)

(* How often the node and the arguments of a call have been freed, by how  *)
(* far it is and whether its instance has ended.                           *)
Frees(step, ends) ==
  CASE step = "idle"    -> [node |-> 0, param |-> 0]
    [] step = "running" -> [node |-> ends, param |-> ends]
    [] step = "ended"   -> [node |-> 1, param |-> 1]
    [] step = "listed"  -> [node |-> ends, param |-> 1 + ends]
    [] OTHER            -> [node |-> 2, param |-> 2]

(* Whichever comes first, the answers of uv_brightness in any order or the *)
(* end of the instance, the node of a call and its arguments are freed     *)
(* once and nothing is left, and whoever was answered has heard of it.     *)
(* They are freed twice in three cases and no other: a setKeepScreenOn     *)
(* that was refused has its arguments freed by the end of its instance     *)
(* too; a function that drops its instance; and an answer after a recovery *)
(* that failed (brightness_impl.cpp:176-182, :258-288, :449-462).          *)
BrightnessFrees ==
  \A c \in Setting :
    LET ends == IF uv = "open" THEN 0 ELSE 1
    IN  /\ [node |-> asked[c].node, param |-> asked[c].param] =
             Frees(asked[c].step, ends)
        /\ asked[c].step = "ended" => said[c] = BothCalled
        /\ asked[c].step = "left" => uv # "open"
        /\ asked[c].step = "late" => uv = "kept"

=============================================================================
