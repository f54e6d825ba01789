------------------------------- MODULE FfiCalls ------------------------------
(***************************************************************************)
(* Calls of a script on one feature object under the script engine:        *)
(* methodCall, accessorGet and accessorSet, with method_call, accessor_get *)
(* and accessor_set around them.                                           *)
(*                                                                         *)
(* A call makes its promise, counts the arguments, converts them one by    *)
(* one into slots, calls the feature's stub, converts what that returned   *)
(* and frees what was converted.  Getters of an argument, the stub and the *)
(* fail function of a refused call may run script, which may call the same *)
(* object again: error_msg_ of the instance is shared by all calls.  What  *)
(* a slot holds is nothing, a plain value (or a callback id, or NULL) or a *)
(* block of memory; types are drawn while they are converted.              *)
(***************************************************************************)
EXTENDS Naturals, Sequences

CONSTANTS
  MaxParams, (* Bound: parameters of a method, one less in each call that  *)
             (* runs in another.                                           *)
  MaxNested, (* Bound: calls within each other.                            *)
  Latitude   (* What else scripts and features may do: "short", pass       *)
             (* functions and too few arguments; "complete only", pass     *)
             (* neither success nor fail; "call on", run script after      *)
             (* FeatureThrowError; "throw anywhere", throw in accessors.   *)

ASSUME BoundsAssumption == MaxParams \in Nat /\ MaxNested \in Nat
ASSUME LatitudeAssumption ==
  Latitude \subseteq {"short", "complete only", "call on", "throw anywhere"}

VARIABLES
  frames,    (* the calls on the stack, the running one last               *)
  error_msg, (* whether error_msg_ is not empty                            *)
  ended      (* history: the call that the last step ended, or NoneEnded   *)

fiVars == <<frames, error_msg, ended>>

NoneEnded == [what |-> "none"]

FfiInit == frames = <<>> /\ error_msg = FALSE /\ ended = NoneEnded

Current == frames[Len(frames)]
Silent == UNCHANGED error_msg /\ ended' = NoneEnded
Doing(step) == frames # <<>> /\ Current.step = step
Becomes(c) == frames' = [frames EXCEPT ![Len(frames)] = c]
Ends(c, heard) ==
  /\ frames' = SubSeq(frames, 1, Len(frames) - 1)
  /\ ended' = [what |-> c.what, heard |-> heard, slots |-> c.slots,
               pid |-> c.pid, ret |-> c.ret, odd |-> c.odd,
               ran |-> c.ran, threw |-> c.threw, promise |-> c.promise]

Free(s) == CASE s = "block" -> "freed" [] s = "freed" -> "twice"
             [] OTHER -> s

(* free_method_args *)
FreeArgs(c) == [c EXCEPT !.slots = [i \in DOMAIN @ |-> Free(@[i])]]

-----------------------------------------------------------------------------
(* A call begins: from the script's own code, or from what runs in another *)
(* call.                                                                   *)

MayCall ==
  /\ Len(frames) < MaxNested
  /\ frames # <<>> =>
       /\ Current.step \in {"convert", "stub", "refused"}
       /\ Current.threw => "call on" \in Latitude

NewCall(what, fixed, argc) ==
  [what |-> what, step |-> "convert", fixed |-> fixed, opt |-> 0,
   rest |-> FALSE, argc |-> argc, promise |-> "no", pid |-> "none",
   slots |-> [i \in 1..fixed |-> "empty"], next |-> 1, ret |-> "none",
   odd |-> FALSE, ran |-> FALSE, threw |-> FALSE]

PushedFrame(c) ==
  frames' = Append(frames, c) /\ Silent

(* Whether the script got a promise, or passed functions with its last     *)
(* argument; "complete" is one that has only complete, for which           *)
(* addAsyncCallbacks returns -1.                                           *)
PromiseKinds(argc) ==
  {"no", "promise"} \cup
  (IF argc = 0 THEN {} ELSE {"functions"}) \cup
  (IF argc = 0 \/ "complete only" \notin Latitude THEN {} ELSE {"complete"})

(* The beginning of methodCall.  The promise is there before arguments are *)
(* counted.                                                                *)
MethodCall(fixed, opt, rest, argc, promise) ==
  /\ MayCall /\ fixed + Len(frames) <= MaxParams
  /\ rest => opt = 0
  /\ promise \in {"functions", "complete"} /\ "short" \notin Latitude
       => argc > fixed
  /\ PushedFrame([NewCall("method", fixed, argc) EXCEPT
       !.step = "count", !.opt = opt, !.rest = rest, !.promise = promise,
       !.pid = IF promise \in {"promise", "functions"} THEN "live" ELSE @])

(* checkAsyncCallbacks refuses before anything is made; method_call takes  *)
(* an old message with it.                                                 *)
MethodCallBadFunctions ==
  /\ MayCall
  /\ error_msg' = FALSE
  /\ ended' = [what |-> "method", heard |-> "error", slots |-> <<>>,
               pid |-> "none", ret |-> "none", odd |-> FALSE,
               ran |-> FALSE, threw |-> FALSE, promise |-> "no"]
  /\ UNCHANGED frames

AccessorGet ==
  MayCall /\ PushedFrame([NewCall("get", 0, 0) EXCEPT !.step = "invoke"])

AccessorSet == MayCall /\ PushedFrame(NewCall("set", 1, 1))

-----------------------------------------------------------------------------
(* Refusing: HANDLE_ERROR_AND_RETURN rejects a promise, with functions by  *)
(* calling fail, and returns RET_OK; another call returns an error, which  *)
(* method_call tells with what error_msg_ says.  An error of a call that   *)
(* is told goes to the handler of the host, if it has one, or is thrown.   *)

Told(c) ==
  /\ Ends(c, "error")
  /\ error_msg' = IF c.what = "method" THEN FALSE ELSE error_msg

Refuse(c) ==
  IF c.promise # "no"
  THEN Becomes([c EXCEPT !.step = "refused", !.pid =
                  IF @ = "live" THEN "rejected" ELSE @])
       /\ Silent
  ELSE Told(c)

RefusedReturns ==
  Doing("refused") /\ Ends(Current, "nothing") /\ UNCHANGED error_msg

(* With functions the last argument is one more, and no count is compared. *)
CountFits(c) ==
  CASE c.rest    -> c.argc >= c.fixed
    [] c.opt > 0 -> c.argc + c.opt >= c.fixed
    [] OTHER     -> \/ c.argc = c.fixed
                    \/ c.promise \in {"functions", "complete"}

(* From here on argc is how many are converted, and opt whether the rest   *)
(* has defaults.                                                           *)
Counted(c) ==
  [c EXCEPT !.step = "convert", !.rest = FALSE,
            !.argc = IF @ < c.fixed THEN @ ELSE c.fixed,
            !.opt = IF @ = 0 \/ c.argc >= c.fixed THEN 0 ELSE 1]

CountArguments ==
  /\ Doing("count")
  /\ IF CountFits(Current)
     THEN Becomes(Counted(Current)) /\ Silent ELSE Refuse(Current)

-----------------------------------------------------------------------------
(* convertValueToNative and convertOptional, one argument at a time; one   *)
(* that fails may have made its block already.                             *)

Holding(c, s) == [c EXCEPT !.slots[c.next] = s, !.next = @ + 1]

(* accessorSet returns without freeing. *)
ConvertArgument ==
  /\ Doing("convert") /\ Current.next <= Current.argc
  /\ \E s \in {"plain", "block"}, good \in BOOLEAN :
       IF good THEN Becomes(Holding(Current, s)) /\ Silent
       ELSE Refuse(IF Current.what = "set" THEN Holding(Current, s)
                   ELSE FreeArgs(Holding(Current, s)))

(* What was not passed has its default, if it is optional. *)
FillOptional ==
  /\ Doing("convert") /\ Current.argc < Current.next
  /\ Current.opt > 0 /\ Current.next <= Current.fixed
  /\ \E s \in {"plain", "block"} : Becomes(Holding(Current, s))
  /\ Silent

ArgumentsDone ==
  /\ Doing("convert")
  /\ Current.next > IF Current.opt > 0 THEN Current.fixed ELSE Current.argc
  /\ Becomes([Current EXCEPT !.step = "invoke", !.next = 0, !.argc = 0,
                              !.opt = 0])
  /\ Silent

-----------------------------------------------------------------------------
(* The stub *)

(* Mutant: the message of whoever threw before stays. *)
InvokeStubKeeping ==
  /\ Doing("invoke")
  /\ Becomes([Current EXCEPT !.step = "stub", !.ran = TRUE])
  /\ Silent

(* methodCall clears error_msg_ before the stub, accessors do not. *)
InvokeStub ==
  /\ Doing("invoke")
  /\ Becomes([Current EXCEPT !.step = "stub", !.ran = TRUE])
  /\ error_msg' = (error_msg /\ Current.what # "method")
  /\ ended' = NoneEnded

(* FeatureThrowError, in the stub. *)
StubThrows ==
  /\ Doing("stub")
  /\ Current.what # "method" => "throw anywhere" \in Latitude
  /\ Becomes([Current EXCEPT !.threw = TRUE])
  /\ error_msg' = TRUE
  /\ ended' = NoneEnded

(* FeatureThrowError from a task: no call is there that it would end.  The *)
(* message stays for the next method call: its stub finds none, but if it  *)
(* fails before, method_call tells this one with its error.                *)
TaskThrows ==
  /\ frames = <<>>
  /\ error_msg' = TRUE
  /\ UNCHANGED frames /\ ended' = NoneEnded

StubReturns ==
  /\ Doing("stub")
  /\ \E ret \in {"none", "block"}, odd \in BOOLEAN :
       /\ Current.promise # "no" \/ Current.what = "set" => ret = "none"
       /\ odd => ret = "block"
       /\ Becomes([Current EXCEPT !.step = "return", !.ret = ret, !.odd = odd])
  /\ Silent

-----------------------------------------------------------------------------
(* What was returned is converted, unless a promise is the answer; what    *)
(* was passed and returned is freed.  An odd value, one with a handle in   *)
(* it that is no interface, cannot be converted: methodCall frees both     *)
(* then, accessorGet frees nothing.                                        *)

Freed(c) == [FreeArgs(c) EXCEPT !.ret = Free(@)]

ReturnMethod ==
  /\ Doing("return") /\ Current.what = "method"
  /\ IF Current.odd \/ error_msg THEN Told(Freed(Current))
     ELSE Ends(Freed(Current), "value") /\ UNCHANGED error_msg

ReturnAccessor ==
  /\ Doing("return") /\ Current.what # "method"
  /\ IF Current.odd THEN Ends(Current, "error")
     ELSE Ends(Freed(Current), "value")
  /\ UNCHANGED error_msg

FfiNext ==
  \/ \E fixed \in 0..MaxParams, argc \in 0..MaxParams + 1 :
       \E opt \in 0..fixed, rest \in BOOLEAN, promise \in PromiseKinds(argc) :
         MethodCall(fixed, opt, rest, argc, promise)
  \/ MethodCallBadFunctions \/ AccessorGet \/ AccessorSet
  \/ CountArguments \/ ConvertArgument \/ FillOptional \/ ArgumentsDone
  \/ InvokeStub \/ StubThrows \/ TaskThrows \/ StubReturns
  \/ ReturnMethod \/ ReturnAccessor \/ RefusedReturns

FfiSpec == FfiInit /\ [][FfiNext]_fiVars

-----------------------------------------------------------------------------
(* Properties *)

(* A method call never ends in silence and never tells of another call: a  *)
(* call whose stub threw ends in an error; an error is told only by a call *)
(* that was refused, threw or returned what cannot be converted; a call    *)
(* with a promise or functions has either its stub run and the promise     *)
(* still to be settled, or was rejected, never both; and no stub runs with *)
(* a parameter it reads left empty.                                        *)
CallHeard ==
  /\ ended.what = "method" =>
       /\ ended.threw => ended.heard # "value"
       /\ ended.heard = "error" /\ ended.ran =>
            ended.threw \/ ended.odd
       /\ ended.heard = "value" => ended.ran
       /\ ended.promise # "no" =>
            ended.pid = IF ended.ran THEN "live" ELSE "rejected"
  /\ \A k \in DOMAIN frames : frames[k].ran =>
       \A i \in DOMAIN frames[k].slots : frames[k].slots[i] # "empty"

(* Every block made for an argument or returned is freed exactly once,     *)
(* wherever a call fails and whatever was called within it, but for the    *)
(* two accessors leave when they fail.                                     *)
CallMemoryFreed ==
  ended # NoneEnded =>
    /\ \A i \in DOMAIN ended.slots :
         /\ ended.slots[i] # "twice"
         /\ ended.slots[i] = "block" =>
              ended.what = "set" /\ ended.heard # "value"
    /\ ended.ret # "twice"
    /\ ended.ret = "block" => ended.what = "get" /\ ended.odd

=============================================================================
