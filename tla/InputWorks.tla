----------------------------- MODULE InputWorks -----------------------------
(***************************************************************************)
(* system.test.input: gestures that the thread pool performs.              *)
(*                                                                         *)
(* A call copies its arguments into a request with a duplicate of the      *)
(* handle, so that the instance lives as long.  All requests use the one   *)
(* input generator of the prototype, which onDestroy destroys without      *)
(* asking for requests that are under way.                                 *)
(***************************************************************************)
EXTENDS Integers, FiniteSets

CONSTANTS
  Gesture,       (* calls *)
  InputWorkers   (* the size of the thread pool *)

ASSUME InputAssumption == InputWorkers \in Nat \ {0}

VARIABLES
  ir,        (* each call: "idle", "queued", "performing", "performed"     *)
             (* or "freed"                                                 *)
  irResult,  (* InputReq::result; malloc'ed, its initializer never runs    *)
  irParams,  (* how often params were freed                                *)
  irHandles, (* handles that requests hold                                 *)
  gestured,  (* history: what the promise was told                         *)
  strayed,   (* history: performed with a generator that was destroyed     *)
  inputCtx,  (* "none", "made", "destroyed"                                *)
  inputPage  (* "live", "detached"                                         *)

iwVars == <<ir, irResult, irParams, irHandles, gestured, strayed, inputCtx,
            inputPage>>

(* onCreate: no generator, no context. *)
InputInit ==
  /\ ir = [c \in Gesture |-> "idle"]
  /\ irResult = [c \in Gesture |-> "unset"]
  /\ irParams = [c \in Gesture |-> 0]
  /\ irHandles = 0
  /\ gestured = [c \in Gesture |-> "nothing"]
  /\ strayed = {}
  /\ inputCtx \in {"none", "made"}
  /\ inputPage = "live"

Goes(c, to) == ir' = [ir EXCEPT ![c] = to]
TellsOnce(c, what) ==
  gestured' = [gestured EXCEPT ![c] = IF @ = "nothing" THEN what ELSE "twice"]
FreeInputReq(c) ==
  /\ Goes(c, "freed")
  /\ irParams' = [irParams EXCEPT ![c] = @ + 1]
  /\ irHandles' = irHandles - 1

(* What is passed: the least of its coordinates, a duration, a button.     *)
GestureArgs == [given : BOOLEAN, least : -1..1, duration : -1..1,
                button : BOOLEAN]
Wraps == {"tap", "drag", "swipe", "pressSystemButton",
          "longPressSystemButton", "wheel"}

(* The arguments that each call takes; a wheel is not asked for its value. *)
TakesArgs(wrap, data) ==
  /\ data.given
  /\ wrap \in {"tap", "drag", "swipe"} => data.least >= 0
  /\ wrap \in {"drag", "swipe", "longPressSystemButton"} =>
       data.duration > 0
  /\ wrap \in {"pressSystemButton", "longPressSystemButton"} => data.button

(* A call refuses its arguments, queue_async_work a feature without        *)
(* context; what uv_queue_work refuses is freed.                           *)
InputRefused(c) ==
  /\ ir[c] = "idle" /\ inputPage = "live"
  /\ \/ /\ \/ inputCtx = "none"
           \/ \E wrap \in Wraps, data \in GestureArgs : ~TakesArgs(wrap, data)
        /\ Goes(c, "freed") /\ UNCHANGED irParams
     \/ /\ inputCtx = "made" /\ Goes(c, "freed")
        /\ irParams' = [irParams EXCEPT ![c] = @ + 1]
  /\ TellsOnce(c, "reject")
  /\ UNCHANGED <<irResult, irHandles, strayed, inputCtx, inputPage>>

QueueAsyncWork(c) ==
  /\ ir[c] = "idle" /\ inputPage = "live" /\ inputCtx = "made"
  /\ \E wrap \in Wraps, data \in GestureArgs : TakesArgs(wrap, data)
  /\ Goes(c, "queued") /\ irHandles' = irHandles + 1
  /\ UNCHANGED <<irResult, irParams, gestured, strayed, inputCtx, inputPage>>

(* A thread of the pool takes a request. *)
WorkBegins(c) ==
  /\ ir[c] = "queued" /\ Goes(c, "performing")
  /\ Cardinality({d \in Gesture : ir[d] = "performing"}) < InputWorkers
  /\ UNCHANGED <<irResult, irParams, irHandles, gestured, strayed, inputCtx,
                 inputPage>>

(* input_gen_tap and the others; a button whose name is none of three is   *)
(* performed as 0.  With the context freed it reads a generator that is    *)
(* gone, or none and the result stays as malloc left it.                   *)
WorkPerforms(c) ==
  /\ ir[c] = "performing" /\ Goes(c, "performed")
  /\ \E r \in {"ok", "failed"} : irResult' = [irResult EXCEPT ![c] = r]
  /\ strayed' = IF inputCtx = "made" THEN strayed ELSE strayed \cup {c}
  /\ UNCHANGED <<irParams, irHandles, gestured, inputCtx, inputPage>>

(* The callback after the work, on the loop. *)
AfterInput(c) ==
  /\ ir[c] = "performed"
  /\ IF inputPage = "detached" THEN UNCHANGED gestured
     ELSE TellsOnce(c, IF irResult[c] = "ok" THEN "resolve" ELSE "reject")
  /\ FreeInputReq(c)
  /\ UNCHANGED <<irResult, strayed, inputCtx, inputPage>>

InputDetached ==
  /\ inputPage = "live" /\ inputPage' = "detached"
  /\ UNCHANGED <<ir, irResult, irParams, irHandles, gestured, strayed,
                 inputCtx>>

(* onDestroy: the generator, whoever performs on it. *)
InputDestroyed ==
  /\ inputPage = "detached" /\ inputCtx = "made"
  /\ inputCtx' = "destroyed"
  /\ UNCHANGED <<ir, irResult, irParams, irHandles, gestured, strayed,
                 inputPage>>

InputNext ==
  \/ \E c \in Gesture :
       \/ InputRefused(c) \/ QueueAsyncWork(c)
       \/ WorkBegins(c) \/ WorkPerforms(c) \/ AfterInput(c)
  \/ InputDetached \/ InputDestroyed

InputSpec == InputInit /\ [][InputNext]_iwVars

-----------------------------------------------------------------------------
(* Properties *)

(* Requests are performed by several threads while their instance and the  *)
(* feature end: one that is under way holds one handle and its arguments,  *)
(* and one that is not holds none; its arguments are freed once; the       *)
(* promise is settled once and as the gesture went, unless the instance    *)
(* ends first; and a gesture that strays, since onDestroy does not wait    *)
(* for it, is one nobody is told of (input_impl.cpp:104-113, :165-176).    *)
InputsPerformed ==
  /\ irHandles =
       Cardinality({c \in Gesture :
                      ir[c] \in {"queued", "performing", "performed"}})
  /\ \A c \in Gesture :
       /\ irParams[c] <= IF ir[c] = "freed" THEN 1 ELSE 0
       /\ gestured[c] # "twice"
       /\ c \in strayed => gestured[c] = "nothing"
       /\ ir[c] = "freed" /\ gestured[c] = "nothing" =>
            inputPage = "detached"
       /\ gestured[c] = "resolve" => irResult[c] = "ok"

=============================================================================
