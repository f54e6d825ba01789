-------------------------- MODULE ServiceCalls_proofs -----------------------
(***************************************************************************)
(* Calls into a feature (FfiCalls), the stores, the package service, the   *)
(* brightness, the gestures, the pictures of system.media and the samples  *)
(* of service.health, each with its inductive invariant; and what follows  *)
(* for ServiceCalls, whose steps are steps of one of them.                 *)
(***************************************************************************)
EXTENDS ServiceCalls, FiniteSetTheorems, SequenceLemmas

-----------------------------------------------------------------------------
(***************************************************************************)
(* Calls of members, at any depth, with any number of parameters.          *)
(*                                                                         *)
(* FrameInv says what each call on the stack looks like by its step: which *)
(* slots are filled, whose promise is open.  ThrewInv says whose message   *)
(* error_msg_ is: that of the call on top, if a method whose stub runs is  *)
(* on the stack at all.                                                    *)
(***************************************************************************)
SlotState == {"empty", "plain", "block", "freed", "twice"}
SlotArrays == UNION {[1..n -> SlotState] : n \in Nat}
Frame ==
  [what : {"method", "get", "set"},
   step : {"count", "convert", "invoke", "stub", "return", "refused"},
   fixed : Nat, opt : Nat, rest : BOOLEAN, argc : Nat,
   promise : {"no", "promise", "functions"}, pid : {"none", "live", "rejected"},
   slots : SlotArrays, next : Nat, ret : {"none", "block", "freed", "twice"},
   odd : BOOLEAN, ran : BOOLEAN, threw : BOOLEAN]

Kept(s) == s \in {"plain", "block"}
InCall(c) == c.step \in {"stub", "return"}

SlotsInv(c) ==
  /\ c.slots \in [1..c.fixed -> SlotState]
  /\ c.what = "get" => c.fixed = 0
  /\ c.step = "count" =>
       /\ c.next = 1 /\ \A i \in 1..c.fixed : c.slots[i] = "empty"
       /\ c.what = "method" /\ (c.rest => c.opt = 0)
       /\ (c.promise = "functions" => c.argc > c.fixed)
  /\ c.step = "convert" =>
       /\ c.argc <= c.fixed /\ (c.opt = 0 => c.argc = c.fixed)
       /\ c.next \in 1..(c.fixed + 1)
       /\ \A i \in 1..c.fixed : IF i < c.next THEN Kept(c.slots[i])
                                ELSE c.slots[i] = "empty"
  /\ c.step \in {"invoke", "stub", "return"} => \A i \in 1..c.fixed : Kept(c.slots[i])
  /\ c.step = "refused" =>
       /\ \A i \in 1..c.fixed : c.slots[i] \notin {"block", "twice"}
       /\ c.promise # "no" /\ c.what = "method"

OutcomeInv(c) ==
  /\ c.pid = IF c.promise = "no" THEN "none"
             ELSE IF c.step = "refused" THEN "rejected" ELSE "live"
  /\ c.what # "method" => c.promise = "no"
  /\ c.ran <=> InCall(c)
  /\ c.threw => c.what = "method" /\ c.ran
  /\ c.step # "return" => c.ret = "none" /\ ~c.odd
  /\ c.step = "return" =>
       /\ c.ret \in {"none", "block"} /\ (c.odd => c.ret = "block")
       /\ c.promise # "no" \/ c.what = "set" => c.ret = "none"

FrameInv(c) == c \in Frame /\ SlotsInv(c) /\ OutcomeInv(c)

ThrewInv ==
  \A k \in 1..Len(frames) :
    /\ frames[k].threw => k = Len(frames) /\ error_msg
    /\ error_msg /\ frames[k].what = "method" /\ frames[k].ran => frames[Len(frames)].threw

HeardInv == ended.what = "method" =>
  /\ ended.threw => ended.heard # "value"
  /\ ended.heard = "error" /\ ended.ran => ended.threw \/ ended.odd
  /\ ended.heard = "value" => ended.ran
  /\ ended.promise # "no" => ended.pid = IF ended.ran THEN "live" ELSE "rejected"

FfiInv ==
  /\ frames \in Seq(Frame) /\ error_msg \in BOOLEAN
  /\ \A k \in 1..Len(frames) : FrameInv(frames[k])
  /\ ThrewInv /\ HeardInv /\ CallMemoryFreed

(* What Free makes of each state of a slot.                                *)
LEMMA FreeOf ==
  /\ Free("plain") = "plain" /\ Free("empty") = "empty" /\ Free("none") = "none"
  /\ Free("block") = "freed" /\ Free("freed") = "twice" /\ Free("twice") = "twice"
BY SMT DEF Free

(* Slots of one length are slots.                                          *)
LEMMA OneArray ==
  ASSUME NEW n \in Nat, NEW s \in [1..n -> SlotState]
  PROVE  s \in SlotArrays
BY DEF SlotArrays

(* A call is put on the stack.                                             *)
LEMMA FramePushed ==
  ASSUME FfiInv, MayCall, Latitude = {}, NEW c, FrameInv(c), ~c.threw, ~c.ran,
         frames' = Append(frames, c), Silent
  PROVE  FfiInv'
<1>1. frames \in Seq(Frame) /\ c \in Frame /\ error_msg' = error_msg /\ error_msg \in BOOLEAN
      /\ ended' = NoneEnded
  BY DEF FfiInv, FrameInv, Silent
<1>2. PICK n \in Nat : n = Len(frames)
  BY <1>1, LenProperties
<1>3. /\ frames' \in Seq(Frame) /\ Len(frames') = n + 1 /\ frames'[n + 1] = c
      /\ \A k \in 1..n : frames'[k] = frames[k]
  BY <1>1, <1>2, AppendProperties
<1>4. \A k \in 1..n : /\ FrameInv(frames[k])
                      /\ frames[k].threw => k = n /\ error_msg
                      /\ error_msg /\ frames[k].what = "method" /\ frames[k].ran =>
                           frames[n].threw
  BY <1>2 DEF FfiInv, ThrewInv
<1>5. n > 0 => ~frames[n].threw
  <2>1. ASSUME n > 0 PROVE frames # <<>> /\ Current = frames[n]
    BY <1>2, <2>1, EmptySeq DEF Current
  <2> QED BY <2>1 DEF MayCall
<1>6. ThrewInv'
  <2>1. ASSUME NEW k \in 1..(n + 1)
        PROVE  /\ frames'[k].threw => k = n + 1 /\ error_msg
               /\ error_msg /\ frames'[k].what = "method" /\ frames'[k].ran =>
                    frames'[n + 1].threw
    <3>1. CASE k = n + 1
      BY <1>3, <3>1
    <3>2. CASE k \in 1..n
      BY <1>3, <1>4, <1>5, <3>2
    <3>3. k = n + 1 \/ k \in 1..n
      OBVIOUS
    <3> QED BY <3>1, <3>2, <3>3
  <2> QED BY <1>1, <1>3, <2>1 DEF ThrewInv
<1>7. \A k \in 1..(n + 1) : FrameInv(frames'[k])
  <2>1. ASSUME NEW k \in 1..(n + 1) PROVE FrameInv(frames'[k])
    <3>1. k = n + 1 \/ k \in 1..n
      OBVIOUS
    <3> QED BY <1>3, <1>4, <3>1
  <2> QED BY <2>1
<1>8. HeardInv' /\ CallMemoryFreed'
  BY <1>1 DEF HeardInv, CallMemoryFreed, NoneEnded
<1>9. \A k \in 1..Len(frames') : FrameInv(frames'[k])
  BY <1>3, <1>7
<1> QED BY <1>1, <1>3, <1>6, <1>8, <1>9 DEF FfiInv

(* The call on top gets on.                                                *)
LEMMA FrameChanged ==
  ASSUME FfiInv, frames # <<>>, NEW c, FrameInv(c), Becomes(c), ended' = NoneEnded,
         error_msg' \in BOOLEAN, Current.threw => c.threw, c.threw => error_msg',
         error_msg' => error_msg \/ c.threw,
         error_msg' /\ c.what = "method" /\ c.ran => c.threw
  PROVE  FfiInv'
<1>1. frames \in Seq(Frame) /\ c \in Frame /\ error_msg \in BOOLEAN
  BY DEF FfiInv, FrameInv
<1>2. PICK n \in Nat : n = Len(frames) /\ n > 0 /\ Current = frames[n]
  BY <1>1, LenProperties, EmptySeq DEF Current
<1>3. frames' = [frames EXCEPT ![n] = c]
  BY <1>2 DEF Becomes
<1>4. /\ frames' \in Seq(Frame) /\ Len(frames') = n /\ frames'[n] = c
      /\ \A k \in 1..(n - 1) : frames'[k] = frames[k]
  BY <1>1, <1>2, <1>3, ExceptSeq
<1>5. \A k \in 1..n : /\ FrameInv(frames[k])
                      /\ frames[k].threw => k = n /\ error_msg
                      /\ error_msg /\ frames[k].what = "method" /\ frames[k].ran =>
                           frames[n].threw
  BY <1>2 DEF FfiInv, ThrewInv
<1>6. ThrewInv'
  <2>1. ASSUME NEW k \in 1..n
        PROVE  /\ frames'[k].threw => k = n /\ error_msg'
               /\ error_msg' /\ frames'[k].what = "method" /\ frames'[k].ran =>
                    frames'[n].threw
    <3>1. CASE k = n
      BY <1>4, <3>1
    <3>2. CASE k \in 1..(n - 1)
      BY <1>2, <1>4, <1>5, <3>2
    <3> QED BY <1>2, <2>1, <3>1, <3>2
  <2> QED BY <1>4, <2>1 DEF ThrewInv
<1>7. \A k \in 1..Len(frames') : FrameInv(frames'[k])
  <2>1. ASSUME NEW k \in 1..n PROVE FrameInv(frames'[k])
    <3>1. k = n \/ k \in 1..(n - 1)
      OBVIOUS
    <3> QED BY <1>4, <1>5, <3>1
  <2> QED BY <1>4, <2>1
<1>8. HeardInv' /\ CallMemoryFreed'
  BY DEF HeardInv, CallMemoryFreed, NoneEnded
<1> QED BY <1>4, <1>6, <1>7, <1>8 DEF FfiInv

(* The call on top ends.                                                   *)
LEMMA FrameEnded ==
  ASSUME FfiInv, frames # <<>>, frames' = SubSeq(frames, 1, Len(frames) - 1),
         error_msg' \in BOOLEAN, error_msg' => error_msg /\ ~Current.threw,
         HeardInv', CallMemoryFreed'
  PROVE  FfiInv'
<1>1. frames \in Seq(Frame) /\ error_msg \in BOOLEAN
  BY DEF FfiInv
<1>2. PICK n \in Nat : n = Len(frames) /\ n > 0 /\ Current = frames[n]
  BY <1>1, LenProperties, EmptySeq DEF Current
<1>3. /\ frames' \in Seq(Frame) /\ Len(frames') = n - 1
      /\ \A k \in 1..(n - 1) : frames'[k] = frames[k]
  BY <1>1, <1>2, RangeOfFront
<1>4. \A k \in 1..n : /\ FrameInv(frames[k])
                      /\ frames[k].threw => k = n /\ error_msg
                      /\ error_msg /\ frames[k].what = "method" /\ frames[k].ran =>
                           frames[n].threw
  BY <1>2 DEF FfiInv, ThrewInv
<1>5. ThrewInv'
  BY <1>2, <1>3, <1>4 DEF ThrewInv
<1>6. \A k \in 1..Len(frames') : FrameInv(frames'[k])
  BY <1>3, <1>4
<1> QED BY <1>3, <1>5, <1>6 DEF FfiInv

(* The running call.                                                       *)
LEMMA CurrentIs ==
  ASSUME FfiInv, NEW step, Doing(step)
  PROVE  /\ frames # <<>> /\ FrameInv(Current) /\ Current.step = step
         /\ Current.threw => error_msg
         /\ error_msg /\ Current.what = "method" /\ Current.ran => Current.threw
         /\ error_msg \in BOOLEAN
<1>1. frames \in Seq(Frame) /\ frames # <<>> /\ error_msg \in BOOLEAN /\ Current.step = step
  BY DEF FfiInv, Doing
<1>2. PICK n \in Nat : n = Len(frames) /\ n > 0 /\ Current = frames[n] /\ n \in 1..n
  BY <1>1, LenProperties, EmptySeq DEF Current
<1> QED BY <1>1, <1>2 DEF FfiInv, ThrewInv

(* A call that begins.                                                     *)
BeginsAs(c, what, fixed, argc) ==
  /\ c \in Frame /\ c.what = what /\ c.step = "convert" /\ c.fixed = fixed
  /\ c.opt = 0 /\ c.rest = FALSE /\ c.argc = argc /\ c.promise = "no"
  /\ c.pid = "none" /\ c.next = 1 /\ c.ret = "none" /\ ~c.odd /\ ~c.ran
  /\ ~c.threw /\ c.slots \in [1..fixed -> SlotState]
  /\ \A i \in 1..fixed : c.slots[i] = "empty"
(* A call that begins has empty slots and nothing to free.                 *)
LEMMA NewFrame ==
  ASSUME NEW what \in {"method", "get", "set"}, NEW fixed \in Nat, NEW argc \in Nat
  PROVE  BeginsAs(NewCall(what, fixed, argc), what, fixed, argc)
<1>1. PICK z : z = [i \in 1..fixed |-> "empty"]
  OBVIOUS
<1>2. /\ z \in [1..fixed -> SlotState] /\ z \in SlotArrays
      /\ \A i \in 1..fixed : z[i] = "empty"
  <2>1. z \in [1..fixed -> SlotState] /\ \A i \in 1..fixed : z[i] = "empty"
    BY <1>1 DEF SlotState
  <2> QED BY <2>1, OneArray
<1>3. NewCall(what, fixed, argc) =
       [what |-> what, step |-> "convert", fixed |-> fixed, opt |-> 0,
        rest |-> FALSE, argc |-> argc, promise |-> "no", pid |-> "none",
        slots |-> z, next |-> 1, ret |-> "none", odd |-> FALSE, ran |-> FALSE,
        threw |-> FALSE]
  BY <1>1 DEF NewCall
<1>4. PICK c : c = NewCall(what, fixed, argc)
  OBVIOUS
<1>5. BeginsAs(c, what, fixed, argc)
  BY <1>2, <1>3, <1>4 DEF Frame, BeginsAs
<1> QED BY <1>4, <1>5

(* A method is called.                                                     *)
LEMMA MethodCallKeeps ==
  ASSUME FfiInv, Latitude = {}, NEW fixed \in Nat, NEW argc \in Nat, NEW opt \in Nat,
         NEW rest \in BOOLEAN, NEW promise \in PromiseKinds(argc),
         MethodCall(fixed, opt, rest, argc, promise)
  PROVE  FfiInv'
<1>1. PICK b : b = NewCall("method", fixed, argc)
  OBVIOUS
<1>2. /\ b \in Frame /\ b.what = "method" /\ b.fixed = fixed /\ b.argc = argc
      /\ b.pid = "none" /\ b.next = 1 /\ b.ret = "none" /\ ~b.odd /\ ~b.ran /\ ~b.threw
      /\ b.slots \in [1..fixed -> SlotState]
      /\ \A i \in 1..fixed : b.slots[i] = "empty"
  <2>1. BeginsAs(b, "method", fixed, argc)
    BY <1>1, NewFrame
  <2> QED BY <2>1 DEF BeginsAs
<1>3. promise \in {"no", "promise", "functions"} /\ (promise = "functions" => argc > fixed)
      /\ (rest => opt = 0)
  BY DEF PromiseKinds, MethodCall
<1>4. PICK c : c = [b EXCEPT !.step = "count", !.opt = opt, !.rest = rest,
                             !.promise = promise,
                             !.pid = IF promise \in {"promise", "functions"} THEN "live"
                                     ELSE b.pid]
  OBVIOUS
<1>5. /\ c \in Frame /\ c.what = "method" /\ c.step = "count" /\ c.fixed = fixed
      /\ c.opt = opt /\ c.rest = rest /\ c.argc = argc /\ c.promise = promise
      /\ c.pid = IF promise = "no" THEN "none" ELSE "live"
      /\ c.next = 1 /\ c.ret = "none" /\ ~c.odd /\ ~c.ran /\ ~c.threw /\ c.slots = b.slots
  BY <1>2, <1>3, <1>4 DEF Frame
<1>6. FrameInv(c)
  BY <1>2, <1>3, <1>5 DEF FrameInv, SlotsInv, OutcomeInv, InCall
<1>7. MayCall /\ frames' = Append(frames, c) /\ Silent
  BY <1>1, <1>2, <1>4 DEF MethodCall, PushedFrame, Frame
<1> QED BY <1>5, <1>6, <1>7, FramePushed

(* A callback that is no function: the call ends before it begins.         *)
LEMMA BadFunctionsKeeps ==
  ASSUME FfiInv, Latitude = {}, MethodCallBadFunctions
  PROVE  FfiInv'
<1>1. PICK e : /\ ended' = e /\ e.slots = <<>> /\ e.ret = "none" /\ ~e.threw /\ ~e.ran
               /\ e.heard = "error" /\ e.promise = "no"
  BY DEF MethodCallBadFunctions
<1>2. HeardInv' /\ CallMemoryFreed'
  BY <1>1 DEF HeardInv, CallMemoryFreed
<1>3. ThrewInv'
  <2>1. frames' = frames /\ error_msg' = FALSE /\ (frames # <<>> => ~Current.threw)
    BY DEF MethodCallBadFunctions, MayCall
  <2>2. ASSUME NEW k \in 1..Len(frames) PROVE ~frames[k].threw
    <3>1. frames # <<>>
      BY <2>2, EmptySeq
    <3> QED BY <2>1, <3>1 DEF FfiInv, ThrewInv, Current
  <2> QED BY <2>1, <2>2 DEF ThrewInv
<1> QED BY <1>2, <1>3 DEF FfiInv, MethodCallBadFunctions

(* A property is read or written.                                          *)
LEMMA AccessorsKeep ==
  ASSUME FfiInv, Latitude = {}, AccessorGet \/ AccessorSet
  PROVE  FfiInv'
<1>1. CASE AccessorSet
  <2>1. PICK c : c = NewCall("set", 1, 1)
    OBVIOUS
  <2>2. /\ c \in Frame /\ c.what = "set" /\ c.step = "convert" /\ c.fixed = 1
        /\ c.opt = 0 /\ c.argc = 1 /\ c.promise = "no"
        /\ c.pid = "none" /\ c.next = 1 /\ c.ret = "none" /\ ~c.odd /\ ~c.ran
        /\ ~c.threw /\ c.slots \in [1..1 -> SlotState]
        /\ \A i \in 1..1 : c.slots[i] = "empty"
    <3>1. BeginsAs(c, "set", 1, 1)
      BY <2>1, NewFrame
    <3> QED BY <3>1 DEF BeginsAs
  <2>3. FrameInv(c)
    BY <2>2 DEF FrameInv, SlotsInv, OutcomeInv, InCall
  <2> QED BY <1>1, <2>1, <2>2, <2>3, FramePushed DEF AccessorSet, PushedFrame
<1>2. CASE AccessorGet
  <2>1. PICK b : b = NewCall("get", 0, 0)
    OBVIOUS
  <2>2. PICK c : c = [b EXCEPT !.step = "invoke"]
    OBVIOUS
  <2>3. /\ b \in Frame /\ b.what = "get" /\ b.step = "convert" /\ b.fixed = 0
        /\ b.opt = 0 /\ b.argc = 0 /\ b.promise = "no"
        /\ b.pid = "none" /\ b.next = 1 /\ b.ret = "none" /\ ~b.odd /\ ~b.ran
        /\ ~b.threw /\ b.slots \in [1..0 -> SlotState]
    <3>1. BeginsAs(b, "get", 0, 0)
      BY <2>1, NewFrame
    <3> QED BY <3>1 DEF BeginsAs
  <2>4. /\ c \in Frame /\ c.what = "get" /\ c.step = "invoke" /\ c.fixed = 0
        /\ c.promise = "no" /\ c.pid = "none" /\ c.ret = "none" /\ ~c.odd /\ ~c.ran
        /\ ~c.threw /\ c.slots \in [1..0 -> SlotState]
    BY <2>2, <2>3 DEF Frame
  <2>5. FrameInv(c)
    BY <2>4 DEF FrameInv, SlotsInv, OutcomeInv, InCall
  <2> QED BY <1>2, <2>1, <2>2, <2>4, <2>5, FramePushed DEF AccessorGet, PushedFrame
<1> QED BY <1>1, <1>2

(* A call that ends in a way that may be told.                             *)
LEMMA EndsKeeps ==
  ASSUME FfiInv, frames # <<>>, NEW c \in Frame, NEW heard, Ends(c, heard),
         error_msg' \in BOOLEAN, error_msg' => error_msg /\ ~Current.threw,
         c.what = "method" =>
           /\ c.threw => heard # "value"
           /\ heard = "error" /\ c.ran => c.threw \/ c.odd
           /\ heard = "value" => c.ran
           /\ c.promise # "no" => c.pid = IF c.ran THEN "live" ELSE "rejected",
         \A i \in DOMAIN c.slots :
           /\ c.slots[i] # "twice"
           /\ c.slots[i] = "block" => c.what = "set" /\ heard # "value",
         c.ret # "twice", c.ret = "block" => c.what = "get" /\ c.odd
  PROVE  FfiInv'
<1>1. PICK e : /\ ended' = e /\ e.what = c.what /\ e.heard = heard /\ e.slots = c.slots
               /\ e.pid = c.pid /\ e.ret = c.ret /\ e.odd = c.odd /\ e.ran = c.ran
               /\ e.threw = c.threw /\ e.promise = c.promise
  BY DEF Ends
<1>2. HeardInv'
  BY <1>1 DEF HeardInv
<1>3. CallMemoryFreed'
  BY <1>1 DEF CallMemoryFreed
<1>4. frames' = SubSeq(frames, 1, Len(frames) - 1)
  BY DEF Ends
<1> QED BY <1>2, <1>3, <1>4, FrameEnded

(* What the changes of an argument's slot leave as it was.                 *)
SameCall(h, c) ==
  /\ h.what = c.what /\ h.step = c.step /\ h.fixed = c.fixed /\ h.opt = c.opt
  /\ h.rest = c.rest /\ h.argc = c.argc /\ h.promise = c.promise /\ h.pid = c.pid
  /\ h.ret = c.ret /\ h.odd = c.odd /\ h.ran = c.ran /\ h.threw = c.threw

HeldAs(h, c, s) ==
  /\ h \in Frame /\ SameCall(h, c) /\ h.next = c.next + 1
  /\ h.slots \in [1..c.fixed -> SlotState] /\ h.slots[c.next] = s
  /\ \A i \in 1..c.fixed : i # c.next => h.slots[i] = c.slots[i]

FreedAs(f, c) ==
  /\ f \in Frame /\ SameCall(f, c) /\ f.next = c.next
  /\ f.slots \in [1..c.fixed -> SlotState]
  /\ \A i \in 1..c.fixed : f.slots[i] = Free(c.slots[i])

(* What a converted argument changes: its slot.                            *)
LEMMA HoldingIs ==
  ASSUME NEW c \in Frame, c.slots \in [1..c.fixed -> SlotState],
         c.next \in 1..c.fixed, NEW s \in {"plain", "block"}
  PROVE  HeldAs(Holding(c, s), c, s)
<1>1. PICK z : z = [c.slots EXCEPT ![c.next] = s]
  OBVIOUS
<1>2. /\ z \in [1..c.fixed -> SlotState] /\ z[c.next] = s
      /\ \A i \in 1..c.fixed : i # c.next => z[i] = c.slots[i]
  BY <1>1 DEF SlotState
<1>3. z \in SlotArrays
  BY <1>2, OneArray DEF Frame
<1>4. PICK h : h = [c EXCEPT !.slots = z, !.next = c.next + 1]
  OBVIOUS
<1>5. Holding(c, s) = h
  BY <1>1, <1>4 DEF Holding, Frame
<1>6. HeldAs(h, c, s)
  <2>1. h \in Frame /\ h.slots = z /\ h.next = c.next + 1
    <3>1. PICK n \in Nat : n = c.next + 1
      BY DEF Frame
    <3>2. h = [c EXCEPT !.slots = z, !.next = n]
      BY <1>4, <3>1
    <3>3. h \in Frame /\ h.slots = z /\ h.next = n
      BY <1>3, <3>2 DEF Frame
    <3> QED BY <3>1, <3>3
  <2>2. SameCall(h, c)
    BY <1>4 DEF SameCall, Frame
  <2> QED BY <1>2, <2>1, <2>2 DEF HeldAs
<1> QED BY <1>5, <1>6

(* What the freeing of the arguments changes: every slot, once.            *)
LEMMA FreeArgsIs ==
  ASSUME NEW c \in Frame, c.slots \in [1..c.fixed -> SlotState]
  PROVE  FreedAs(FreeArgs(c), c)
<1>1. PICK z : z = [i \in 1..c.fixed |-> Free(c.slots[i])]
  OBVIOUS
<1>2. /\ z \in [1..c.fixed -> SlotState]
      /\ \A i \in 1..c.fixed : z[i] = Free(c.slots[i])
  BY <1>1, FreeOf DEF SlotState
<1>3. z \in SlotArrays
  BY <1>2, OneArray DEF Frame
<1>4. PICK f : f = [c EXCEPT !.slots = z]
  OBVIOUS
<1>5. FreeArgs(c) = f
  BY <1>1, <1>4 DEF FreeArgs, Frame
<1>6. FreedAs(f, c)
  BY <1>2, <1>3, <1>4 DEF FreedAs, SameCall, Frame
<1> QED BY <1>5, <1>6

(* A call is refused before its stub.                                      *)
LEMMA RefuseKeeps ==
  ASSUME FfiInv, Latitude = {}, frames # <<>>, ~Current.threw, NEW c \in Frame,
         c.slots \in [1..c.fixed -> SlotState], ~c.ran, ~c.threw, c.ret = "none", ~c.odd,
         c.pid = IF c.promise = "no" THEN "none" ELSE "live",
         c.what # "method" => c.promise = "no",
         \A i \in 1..c.fixed : /\ c.slots[i] # "twice"
                               /\ c.slots[i] = "block" => c.what = "set",
         Refuse(c)
  PROVE  FfiInv'
<1>1. error_msg \in BOOLEAN
  BY DEF FfiInv
<1>2. CASE c.promise = "no"
  <2>1. Ends(c, "error") /\ error_msg' = IF c.what = "method" THEN FALSE ELSE error_msg
    BY <1>2 DEF Refuse, Told
  <2>2. DOMAIN c.slots = 1..c.fixed
    OBVIOUS
  <2> QED BY <1>1, <1>2, <2>1, <2>2, EndsKeeps
<1>3. CASE c.promise # "no"
  <2>1. PICK d : d = [c EXCEPT !.step = "refused",
                               !.pid = IF c.pid = "live" THEN "rejected" ELSE c.pid]
    OBVIOUS
  <2>2. Becomes(d) /\ error_msg' = error_msg /\ ended' = NoneEnded
    BY <1>3, <2>1 DEF Refuse, Silent, Frame
  <2>3. /\ d \in Frame /\ d.step = "refused" /\ d.pid = "rejected" /\ d.what = "method"
        /\ d.fixed = c.fixed /\ d.slots = c.slots /\ d.promise = c.promise
        /\ ~d.ran /\ ~d.threw /\ d.ret = "none" /\ ~d.odd
    BY <1>3, <2>1 DEF Frame
  <2>4. FrameInv(d)
    BY <1>3, <2>3 DEF FrameInv, SlotsInv, OutcomeInv, InCall
  <2> QED BY <1>1, <2>2, <2>3, <2>4, FrameChanged
<1> QED BY <1>2, <1>3

(* The count of arguments fits, or the call is refused.                    *)
LEMMA CountKeeps ==
  ASSUME FfiInv, Latitude = {}, CountArguments
  PROVE  FfiInv'
<1>1. PICK c : c = Current
  OBVIOUS
<1>2. /\ frames # <<>> /\ FrameInv(c) /\ c.step = "count" /\ error_msg \in BOOLEAN
      /\ IF CountFits(c) THEN Becomes(Counted(c)) /\ Silent ELSE Refuse(c)
  BY <1>1, CurrentIs DEF CountArguments, Doing
<1>3. /\ c \in Frame /\ c.slots \in [1..c.fixed -> SlotState] /\ ~c.ran /\ ~c.threw
      /\ c.ret = "none" /\ ~c.odd /\ c.next = 1 /\ c.what = "method"
      /\ c.pid = IF c.promise = "no" THEN "none" ELSE "live"
      /\ \A i \in 1..c.fixed : c.slots[i] = "empty"
      /\ c.rest => c.opt = 0
      /\ c.promise = "functions" => c.argc > c.fixed
      /\ c.promise \in {"no", "promise", "functions"}
  BY <1>2 DEF FrameInv, SlotsInv, OutcomeInv, InCall, Frame
<1>4. CASE ~CountFits(c)
  BY <1>1, <1>2, <1>3, <1>4, RefuseKeeps
<1>5. CASE CountFits(c)
  <2>1. PICK d : d = [c EXCEPT !.step = "convert", !.rest = FALSE,
                        !.argc = IF c.argc < c.fixed THEN c.argc ELSE c.fixed,
                        !.opt = IF c.opt = 0 \/ c.argc >= c.fixed THEN 0 ELSE 1]
    OBVIOUS
  <2>2. Becomes(d) /\ error_msg' = error_msg /\ ended' = NoneEnded
    BY <1>2, <1>3, <1>5, <2>1 DEF Silent, Counted, Frame
  <2>3. /\ d \in Frame /\ d.step = "convert" /\ d.what = "method" /\ d.fixed = c.fixed
        /\ d.argc = IF c.argc < c.fixed THEN c.argc ELSE c.fixed
        /\ d.opt = IF c.opt = 0 \/ c.argc >= c.fixed THEN 0 ELSE 1
        /\ d.slots = c.slots /\ d.promise = c.promise /\ d.pid = c.pid /\ d.next = 1
        /\ ~d.ran /\ ~d.threw /\ d.ret = "none" /\ ~d.odd
    BY <1>3, <2>1 DEF Frame
  <2>4. c.opt = 0 => c.argc >= c.fixed
    <3>1. c.argc \in Nat /\ c.fixed \in Nat /\ c.opt \in Nat
      BY <1>3 DEF Frame
    <3>2. CASE c.rest
      BY <1>5, <3>1, <3>2 DEF CountFits
    <3>3. CASE ~c.rest /\ c.opt = 0
      <4>1. ~(c.opt > 0)
        BY <3>1, <3>3
      <4>2. c.argc = c.fixed \/ c.promise \in {"functions", "complete"}
        BY <1>5, <3>3, <4>1, Zenon DEF CountFits
      <4> QED BY <1>3, <3>1, <4>2
    <3> QED BY <3>2, <3>3
  <2>5. d.argc <= d.fixed /\ (d.opt = 0 => d.argc = d.fixed) /\ d.next \in 1..(d.fixed + 1)
    BY <1>3, <2>3, <2>4 DEF Frame
  <2>6. FrameInv(d)
    BY <1>3, <2>3, <2>5 DEF FrameInv, SlotsInv, OutcomeInv, InCall
  <2> QED BY <1>1, <1>2, <1>3, <2>2, <2>3, <2>6, FrameChanged
<1> QED BY <1>4, <1>5

(* An argument is converted, or the call refused.                          *)
LEMMA ConvertKeeps ==
  ASSUME FfiInv, Latitude = {}, ConvertArgument
  PROVE  FfiInv'
<1>1. PICK c : c = Current
  OBVIOUS
<1>2. /\ frames # <<>> /\ FrameInv(c) /\ c.step = "convert" /\ error_msg \in BOOLEAN
      /\ c.next <= c.argc
  BY <1>1, CurrentIs DEF ConvertArgument, Doing
<1>3. PICK s \in {"plain", "block"}, good \in BOOLEAN :
        IF good THEN Becomes(Holding(c, s)) /\ Silent
        ELSE Refuse(IF c.what = "set" THEN Holding(c, s) ELSE FreeArgs(Holding(c, s)))
  BY <1>1 DEF ConvertArgument
<1>4. /\ c \in Frame /\ c.slots \in [1..c.fixed -> SlotState] /\ ~c.ran /\ ~c.threw
      /\ c.ret = "none" /\ ~c.odd /\ c.next \in 1..c.fixed
      /\ c.pid = IF c.promise = "no" THEN "none" ELSE "live"
      /\ c.what # "method" => c.promise = "no"
      /\ \A i \in 1..c.fixed : IF i < c.next THEN Kept(c.slots[i])
                                ELSE c.slots[i] = "empty"
      /\ c.argc <= c.fixed /\ (c.opt = 0 => c.argc = c.fixed)
      /\ c.what = "get" => c.fixed = 0
  BY <1>2 DEF FrameInv, SlotsInv, OutcomeInv, InCall, Frame
<1>5. PICK h : h = Holding(c, s)
  OBVIOUS
<1>6. HeldAs(h, c, s)
  BY <1>4, <1>5, HoldingIs
<1>7. /\ h \in Frame /\ h.slots \in [1..h.fixed -> SlotState] /\ ~h.ran /\ ~h.threw
      /\ h.ret = "none" /\ ~h.odd /\ h.next \in 1..(h.fixed + 1) /\ h.step = "convert"
      /\ h.pid = IF h.promise = "no" THEN "none" ELSE "live"
      /\ h.what # "method" => h.promise = "no"
      /\ h.argc <= h.fixed /\ (h.opt = 0 => h.argc = h.fixed)
      /\ h.what = c.what
      /\ h.what = "get" => h.fixed = 0
  BY <1>2, <1>4, <1>6 DEF HeldAs, SameCall, Frame
<1>8. \A i \in 1..h.fixed : IF i < h.next THEN Kept(h.slots[i]) ELSE h.slots[i] = "empty"
  BY <1>4, <1>6 DEF HeldAs, SameCall, Kept, Frame
<1>9. CASE good
  <2>1. FrameInv(h)
    BY <1>7, <1>8 DEF FrameInv, SlotsInv, OutcomeInv, InCall
  <2> QED BY <1>1, <1>2, <1>3, <1>4, <1>5, <1>7, <1>9, <2>1, FrameChanged DEF Silent
<1>10. CASE ~good /\ c.what = "set"
  <2>1. \A i \in 1..h.fixed : h.slots[i] # "twice"
    BY <1>8 DEF Kept
  <2> QED BY <1>1, <1>2, <1>3, <1>4, <1>5, <1>7, <1>10, <2>1, RefuseKeeps
<1>11. CASE ~good /\ c.what # "set"
  <2>1. PICK f : f = FreeArgs(h)
    OBVIOUS
  <2>2. FreedAs(f, h)
    BY <1>7, <2>1, FreeArgsIs
  <2>3. /\ f \in Frame /\ f.slots \in [1..f.fixed -> SlotState] /\ ~f.ran /\ ~f.threw
        /\ f.ret = "none" /\ ~f.odd /\ f.pid = IF f.promise = "no" THEN "none" ELSE "live"
        /\ f.what # "method" => f.promise = "no"
    BY <1>7, <2>2 DEF FreedAs, SameCall
  <2>4. \A i \in 1..f.fixed : f.slots[i] \notin {"block", "twice"}
    <3>1. \A i \in 1..f.fixed : h.slots[i] \in {"plain", "block", "empty"}
      BY <1>8, <2>2 DEF FreedAs, SameCall, Kept
    <3> QED BY <2>2, <3>1, FreeOf DEF FreedAs, SameCall
  <2> QED BY <1>1, <1>2, <1>3, <1>4, <1>5, <1>11, <2>1, <2>3, <2>4, RefuseKeeps
<1> QED BY <1>9, <1>10, <1>11

(* An optional parameter nobody passed is filled.                          *)
LEMMA FillKeeps ==
  ASSUME FfiInv, FillOptional
  PROVE  FfiInv'
<1>1. PICK c : c = Current
  OBVIOUS
<1>2. /\ frames # <<>> /\ FrameInv(c) /\ c.step = "convert" /\ error_msg \in BOOLEAN
      /\ c.next <= c.fixed /\ Silent
  BY <1>1, CurrentIs DEF FillOptional, Doing
<1>3. PICK s \in {"plain", "block"} : Becomes(Holding(c, s))
  BY <1>1 DEF FillOptional
<1>4. /\ c \in Frame /\ c.slots \in [1..c.fixed -> SlotState] /\ c.next \in 1..c.fixed
      /\ ~c.ran /\ ~c.threw
  BY <1>2 DEF FrameInv, SlotsInv, OutcomeInv, InCall, Frame
<1>5. PICK h : h = Holding(c, s)
  OBVIOUS
<1>6. HeldAs(h, c, s)
  BY <1>4, <1>5, HoldingIs
<1>7. SlotsInv(h)
  <2>1. \A i \in 1..h.fixed : IF i < h.next THEN Kept(h.slots[i]) ELSE h.slots[i] = "empty"
    BY <1>2, <1>4, <1>6 DEF FrameInv, SlotsInv, HeldAs, SameCall, Kept, Frame
  <2> QED BY <1>2, <1>4, <1>6, <2>1 DEF FrameInv, SlotsInv, HeldAs, SameCall, Frame
<1>8. OutcomeInv(h)
  BY <1>2, <1>6 DEF FrameInv, OutcomeInv, InCall, HeldAs, SameCall
<1>9. FrameInv(h) /\ ~h.ran /\ ~h.threw
  BY <1>4, <1>6, <1>7, <1>8 DEF FrameInv, HeldAs, SameCall
<1> QED BY <1>1, <1>2, <1>3, <1>4, <1>5, <1>9, FrameChanged DEF Silent

(* Every slot is filled: the stub can run.                                 *)
LEMMA ArgumentsDoneKeeps ==
  ASSUME FfiInv, ArgumentsDone
  PROVE  FfiInv'
<1>1. PICK c : c = Current
  OBVIOUS
<1>2. /\ frames # <<>> /\ FrameInv(c) /\ c.step = "convert" /\ error_msg \in BOOLEAN
      /\ c.next > IF c.opt > 0 THEN c.fixed ELSE c.argc
      /\ Becomes([c EXCEPT !.step = "invoke", !.next = 0, !.argc = 0, !.opt = 0])
      /\ error_msg' = error_msg /\ ended' = NoneEnded
  BY <1>1, CurrentIs DEF ArgumentsDone, Doing, Silent
<1>3. /\ c \in Frame /\ c.next = c.fixed + 1 /\ ~c.ran /\ ~c.threw
      /\ \A i \in 1..c.fixed : Kept(c.slots[i])
  BY <1>2 DEF FrameInv, SlotsInv, OutcomeInv, InCall, Frame
<1>4. PICK d : d = [c EXCEPT !.step = "invoke", !.next = 0, !.argc = 0, !.opt = 0]
  OBVIOUS
<1>5. /\ d \in Frame /\ d.step = "invoke" /\ d.what = c.what /\ d.fixed = c.fixed
      /\ d.slots = c.slots /\ d.promise = c.promise /\ d.pid = c.pid /\ d.ret = c.ret
      /\ d.odd = c.odd /\ d.ran = c.ran /\ d.threw = c.threw
  BY <1>3, <1>4 DEF Frame
<1>6. FrameInv(d)
  BY <1>2, <1>3, <1>5 DEF FrameInv, SlotsInv, OutcomeInv, InCall
<1> QED BY <1>1, <1>2, <1>3, <1>4, <1>5, <1>6, FrameChanged

(* The stub begins.                                                        *)
LEMMA InvokeKeeps ==
  ASSUME FfiInv, InvokeStub
  PROVE  FfiInv'
<1>1. PICK c : c = Current
  OBVIOUS
<1>2. /\ frames # <<>> /\ FrameInv(c) /\ c.step = "invoke" /\ error_msg \in BOOLEAN
      /\ Becomes([c EXCEPT !.step = "stub", !.ran = TRUE])
      /\ error_msg' = (error_msg /\ c.what # "method") /\ ended' = NoneEnded
  BY <1>1, CurrentIs DEF InvokeStub, Doing
<1>3. /\ c \in Frame /\ ~c.ran /\ ~c.threw /\ c.ret = "none" /\ ~c.odd
      /\ \A i \in 1..c.fixed : Kept(c.slots[i])
  BY <1>2 DEF FrameInv, SlotsInv, OutcomeInv, InCall, Frame
<1>4. PICK d : d = [c EXCEPT !.step = "stub", !.ran = TRUE]
  OBVIOUS
<1>5. /\ d \in Frame /\ d.step = "stub" /\ d.what = c.what /\ d.fixed = c.fixed
      /\ d.slots = c.slots /\ d.promise = c.promise /\ d.pid = c.pid /\ d.ret = c.ret
      /\ d.odd = c.odd /\ d.ran /\ d.threw = c.threw
  BY <1>3, <1>4 DEF Frame
<1>6. FrameInv(d)
  BY <1>2, <1>3, <1>5 DEF FrameInv, SlotsInv, OutcomeInv, InCall
<1> QED BY <1>1, <1>2, <1>3, <1>4, <1>5, <1>6, FrameChanged

(* A stub throws: the message is that of the call on top.                  *)
LEMMA StubThrowsKeeps ==
  ASSUME FfiInv, Latitude = {}, StubThrows
  PROVE  FfiInv'
<1>1. PICK c : c = Current
  OBVIOUS
<1>2. /\ frames # <<>> /\ FrameInv(c) /\ c.step = "stub" /\ c.what = "method"
      /\ Becomes([c EXCEPT !.threw = TRUE]) /\ error_msg' = TRUE /\ ended' = NoneEnded
  BY <1>1, CurrentIs DEF StubThrows, Doing
<1>3. PICK d : d = [c EXCEPT !.threw = TRUE]
  OBVIOUS
<1>4. /\ d \in Frame /\ d.step = "stub" /\ d.what = c.what /\ d.fixed = c.fixed
      /\ d.slots = c.slots /\ d.promise = c.promise /\ d.pid = c.pid /\ d.ret = c.ret
      /\ d.odd = c.odd /\ d.ran = c.ran /\ d.threw
  BY <1>2, <1>3 DEF FrameInv, Frame
<1>5. FrameInv(d)
  BY <1>2, <1>4 DEF FrameInv, SlotsInv, OutcomeInv, InCall
<1> QED BY <1>1, <1>2, <1>3, <1>4, <1>5, FrameChanged

(* A task throws outside of any call.                                      *)
LEMMA TaskThrowsKeeps ==
  ASSUME FfiInv, TaskThrows
  PROVE  FfiInv'
<1>1. frames = <<>> /\ frames' = <<>> /\ error_msg' = TRUE /\ ended' = NoneEnded
  BY DEF TaskThrows
<1>2. Len(frames') = 0 /\ frames' \in Seq(Frame)
  BY <1>1, EmptySeq
<1>3. HeardInv' /\ CallMemoryFreed'
  BY <1>1 DEF HeardInv, CallMemoryFreed, NoneEnded
<1> QED BY <1>1, <1>2, <1>3 DEF FfiInv, ThrewInv

(* The stub returns a value, or nothing.                                   *)
LEMMA StubReturnsKeeps ==
  ASSUME FfiInv, StubReturns
  PROVE  FfiInv'
<1>1. PICK c : c = Current
  OBVIOUS
<1>2. /\ frames # <<>> /\ FrameInv(c) /\ c.step = "stub" /\ error_msg \in BOOLEAN
      /\ c.threw => error_msg
      /\ error_msg /\ c.what = "method" /\ c.ran => c.threw
      /\ error_msg' = error_msg /\ ended' = NoneEnded
  BY <1>1, CurrentIs DEF StubReturns, Doing, Silent
<1>3. PICK ret \in {"none", "block"}, odd \in BOOLEAN :
        /\ c.promise # "no" \/ c.what = "set" => ret = "none"
        /\ odd => ret = "block"
        /\ Becomes([c EXCEPT !.step = "return", !.ret = ret, !.odd = odd])
  BY <1>1 DEF StubReturns
<1>4. PICK d : d = [c EXCEPT !.step = "return", !.ret = ret, !.odd = odd]
  OBVIOUS
<1>5. /\ d \in Frame /\ d.step = "return" /\ d.what = c.what /\ d.fixed = c.fixed
      /\ d.slots = c.slots /\ d.promise = c.promise /\ d.pid = c.pid /\ d.ret = ret
      /\ d.odd = odd /\ d.ran = c.ran /\ d.threw = c.threw
  BY <1>2, <1>4 DEF FrameInv, Frame
<1>6. FrameInv(d)
  BY <1>2, <1>3, <1>5 DEF FrameInv, SlotsInv, OutcomeInv, InCall
<1> QED BY <1>1, <1>2, <1>3, <1>4, <1>5, <1>6, FrameChanged

(* What was converted and returned is freed once.                          *)
LEMMA FreedIs ==
  ASSUME NEW c, FrameInv(c), c.step = "return"
  PROVE  LET f == Freed(c)
         IN  /\ FreedAs(FreeArgs(c), c) /\ f \in Frame
             /\ f.what = c.what /\ f.promise = c.promise /\ f.pid = c.pid
             /\ f.odd = c.odd /\ f.ran = c.ran /\ f.threw = c.threw
             /\ f.ret \in {"none", "freed"}
             /\ \A i \in DOMAIN f.slots : f.slots[i] \notin {"block", "twice"}
<1>1. /\ c \in Frame /\ c.slots \in [1..c.fixed -> SlotState] /\ c.ret \in {"none", "block"}
      /\ \A i \in 1..c.fixed : Kept(c.slots[i])
  BY DEF FrameInv, SlotsInv, OutcomeInv
<1>2. PICK g : g = FreeArgs(c)
  OBVIOUS
<1>3. FreedAs(g, c)
  BY <1>1, <1>2, FreeArgsIs
<1>4. PICK f : f = [g EXCEPT !.ret = Free(g.ret)]
  OBVIOUS
<1>5. f = Freed(c)
  BY <1>2, <1>4 DEF Freed
<1>6. Free(g.ret) \in {"none", "freed"}
  BY <1>1, <1>3, FreeOf DEF FreedAs, SameCall
<1>7. /\ f \in Frame /\ f.slots = g.slots /\ f.ret \in {"none", "freed"} /\ f.what = g.what
      /\ f.promise = g.promise /\ f.pid = g.pid /\ f.odd = g.odd /\ f.ran = g.ran
      /\ f.threw = g.threw
  BY <1>3, <1>4, <1>6 DEF FreedAs, Frame
<1>8. \A i \in DOMAIN f.slots : f.slots[i] \notin {"block", "twice"}
  <2>1. ASSUME NEW i \in 1..c.fixed PROVE f.slots[i] \in {"plain", "freed"}
    <3>1. f.slots[i] = Free(c.slots[i])
      BY <1>3, <1>7 DEF FreedAs
    <3>2. c.slots[i] = "plain" \/ c.slots[i] = "block"
      BY <1>1 DEF Kept
    <3> QED BY <3>1, <3>2, FreeOf
  <2>2. DOMAIN f.slots = 1..c.fixed
    BY <1>3, <1>7 DEF FreedAs
  <2> QED BY <2>1, <2>2
<1> QED BY <1>2, <1>3, <1>5, <1>7, <1>8 DEF FreedAs, SameCall

(* A call returns: its blocks are freed and it is told its outcome.        *)
LEMMA ReturnsKeep ==
  ASSUME FfiInv, ReturnMethod \/ ReturnAccessor
  PROVE  FfiInv'
<1>1. PICK c : c = Current
  OBVIOUS
<1>2. /\ frames # <<>> /\ FrameInv(c) /\ c.step = "return" /\ error_msg \in BOOLEAN
      /\ c.threw => error_msg
      /\ error_msg /\ c.what = "method" /\ c.ran => c.threw
  BY <1>1, CurrentIs DEF ReturnMethod, ReturnAccessor, Doing
<1>3. /\ c \in Frame /\ c.ran /\ c.slots \in [1..c.fixed -> SlotState]
      /\ c.pid = IF c.promise = "no" THEN "none" ELSE "live"
      /\ c.threw => c.what = "method"
      /\ c.ret \in {"none", "block"} /\ (c.odd => c.ret = "block")
      /\ c.what = "set" => c.ret = "none"
      /\ c.what = "get" => c.fixed = 0
      /\ \A i \in 1..c.fixed : Kept(c.slots[i])
  BY <1>2 DEF FrameInv, SlotsInv, OutcomeInv, InCall
<1>4. PICK f : f = Freed(c)
  OBVIOUS
<1>5. /\ f \in Frame /\ f.what = c.what /\ f.promise = c.promise /\ f.pid = c.pid
      /\ f.odd = c.odd /\ f.ran = c.ran /\ f.threw = c.threw
      /\ f.ret \in {"none", "freed"}
      /\ \A i \in DOMAIN f.slots : f.slots[i] \notin {"block", "twice"}
  BY <1>2, <1>4, FreedIs
<1>6. CASE ReturnMethod
  <2>1. CASE c.odd \/ error_msg
    <3>1. Ends(f, "error") /\ error_msg' = FALSE /\ f.what = "method"
      BY <1>1, <1>4, <1>5, <1>6, <2>1 DEF ReturnMethod, Told
    <3> QED BY <1>2, <1>3, <1>5, <2>1, <3>1, EndsKeeps
  <2>2. CASE ~(c.odd \/ error_msg)
    <3>1. Ends(f, "value") /\ error_msg' = error_msg
      BY <1>1, <1>4, <1>6, <2>2 DEF ReturnMethod
    <3> QED BY <1>2, <1>3, <1>5, <2>2, <3>1, EndsKeeps
  <2> QED BY <2>1, <2>2
<1>7. CASE ReturnAccessor
  <2>1. c.what # "method" /\ ~c.threw /\ error_msg' = error_msg /\ ~Current.threw
    BY <1>1, <1>3, <1>7 DEF ReturnAccessor
  <2>2. CASE c.odd
    <3>1. Ends(c, "error")
      BY <1>1, <1>7, <2>2 DEF ReturnAccessor
    <3>2. c.what = "get" /\ \A i \in DOMAIN c.slots : c.slots[i] \notin {"block", "twice"}
      <4>1. c.what = "get"
        BY <1>3, <2>1, <2>2 DEF Frame
      <4>2. DOMAIN c.slots = {}
        BY <1>3, <4>1
      <4> QED BY <4>1, <4>2
    <3> QED BY <1>2, <1>3, <2>1, <2>2, <3>1, <3>2, EndsKeeps
  <2>3. CASE ~c.odd
    <3>1. Ends(f, "value")
      BY <1>1, <1>4, <1>7, <2>3 DEF ReturnAccessor
    <3> QED BY <1>2, <1>5, <2>1, <3>1, EndsKeeps
  <2> QED BY <2>2, <2>3
<1> QED BY <1>6, <1>7

(* A refused call returns what it was told.                                *)
LEMMA RefusedReturnsKeeps ==
  ASSUME FfiInv, RefusedReturns
  PROVE  FfiInv'
<1>1. PICK c : c = Current
  OBVIOUS
<1>2. /\ frames # <<>> /\ FrameInv(c) /\ c.step = "refused" /\ error_msg \in BOOLEAN
      /\ Ends(c, "nothing") /\ error_msg' = error_msg
  BY <1>1, CurrentIs DEF RefusedReturns, Doing
<1>3. /\ c \in Frame /\ ~c.ran /\ ~c.threw /\ c.ret = "none" /\ c.promise # "no"
      /\ c.pid = "rejected"
      /\ \A i \in DOMAIN c.slots : c.slots[i] \notin {"block", "twice"}
  BY <1>2 DEF FrameInv, SlotsInv, OutcomeInv, InCall
<1> QED BY <1>1, <1>2, <1>3, EndsKeeps

(* Every step of the calls keeps their invariant.                          *)
LEMMA FfiKept ==
  ASSUME Latitude = {}, FfiInv, [FfiNext]_fiVars
  PROVE  FfiInv'
<1>1. CASE UNCHANGED fiVars
  BY <1>1 DEF FfiInv, ThrewInv, HeardInv, CallMemoryFreed, fiVars
<1>2. ASSUME NEW fixed \in 0..MaxParams, NEW argc \in 0..MaxParams + 1,
             NEW opt \in 0..fixed, NEW rest \in BOOLEAN, NEW promise \in PromiseKinds(argc),
             MethodCall(fixed, opt, rest, argc, promise)
      PROVE  FfiInv'
  <2>1. fixed \in Nat /\ argc \in Nat /\ opt \in Nat
    BY BoundsAssumption
  <2> QED BY <1>2, <2>1, MethodCallKeeps
<1> QED BY <1>1, <1>2, BadFunctionsKeeps, AccessorsKeep, CountKeeps, ConvertKeeps, FillKeeps,
           ArgumentsDoneKeeps, InvokeKeeps, StubThrowsKeeps, TaskThrowsKeeps,
           StubReturnsKeeps, ReturnsKeep, RefusedReturnsKeeps DEF FfiNext

(* CallHeard and CallMemoryFreed: in a stack of calls of any depth, with   *)
(* any number of parameters, each call hears its own outcome, its promise  *)
(* is settled by it, and every argument and result it allocated is freed   *)
(* once, whichever parameter was refused, but for what an accessor that    *)
(* fails leaves (feature_manager_qjs.cpp, feature_ffi_templates.h).        *)
THEOREM CallsAreExact ==
  ASSUME Latitude = {}
  PROVE  FfiSpec => [](CallHeard /\ CallMemoryFreed)
<1>1. FfiInit => FfiInv
  <2>1. SUFFICES ASSUME FfiInit PROVE FfiInv
    OBVIOUS
  <2>2. frames \in Seq(Frame) /\ Len(frames) = 0
    BY <2>1, EmptySeq DEF FfiInit
  <2>3. HeardInv /\ CallMemoryFreed
    BY <2>1 DEF FfiInit, HeardInv, CallMemoryFreed, NoneEnded
  <2>4. 1..Len(frames) = {}
    BY <2>2
  <2>5. ThrewInv
    BY <2>4 DEF ThrewInv
  <2> QED BY <2>1, <2>2, <2>3, <2>4, <2>5 DEF FfiInit, FfiInv
<1>2. FfiInv /\ [FfiNext]_fiVars => FfiInv'
  BY FfiKept
<1>3. FfiInv => CallHeard /\ CallMemoryFreed
  <2>1. SUFFICES ASSUME FfiInv PROVE CallHeard /\ CallMemoryFreed
    OBVIOUS
  <2>2. DOMAIN frames = 1..Len(frames)
    BY <2>1, LenProperties DEF FfiInv
  <2>3. ASSUME NEW k \in DOMAIN frames, frames[k].ran, NEW i \in DOMAIN frames[k].slots
        PROVE  frames[k].slots[i] # "empty"
    <3>1. PICK c : c = frames[k]
      OBVIOUS
    <3>2. FrameInv(c)
      BY <2>1, <2>2, <3>1 DEF FfiInv
    <3>3. c.step \in {"stub", "return"}
      BY <2>3, <3>1, <3>2 DEF FrameInv, OutcomeInv, InCall
    <3>4. \A j \in 1..c.fixed : c.slots[j] \in {"plain", "block"} /\ DOMAIN c.slots = 1..c.fixed
      BY <3>2, <3>3 DEF FrameInv, SlotsInv, Kept
    <3>5. DOMAIN c.slots = 1..c.fixed
      BY <3>2 DEF FrameInv, SlotsInv
    <3> QED BY <2>3, <3>1, <3>4, <3>5
  <2> QED BY <2>1, <2>3 DEF FfiInv, HeardInv, CallHeard
<1> QED BY <1>1, <1>2, <1>3, PTL DEF FfiSpec

-----------------------------------------------------------------------------
(***************************************************************************)
(* Calls of system.storage and system.exchange, for any calls and keys.    *)
(*                                                                         *)
(* If one call alone may have written a key, its value is there from the   *)
(* end of its work (SetInv), and a get that began after its success finds  *)
(* it and says so (GetInv).  That others may write is for ever, as a call  *)
(* keeps its operation.                                                    *)
(***************************************************************************)
WriterOp == Storing \cup Deleting \cup {"clear"}
StoreOps == StorageOp \cup ExchangeOp \cup {"clear", "exchange clear", "none"}
StoreKeys == StorageKey \cup SharedKey
StoreValue == StoreCall \cup {"nothing"}
SuccessCalls == {<<"success">>, <<"success", "complete">>}
FunctionCalls == SuccessCalls \cup {<<>>, <<"fail">>, <<"fail", "complete">>}

StoreWorks ==
  [op : StoreOps, key : StoreKeys \cup {"none"},
   step : {"idle", "started", "done", "not found", "failed", "ended"},
   found : StoreValue, freed : {0, 1}]
StoreAnswers ==
  [calls : FunctionCalls, value : StoreValue, after : SUBSET StoreCall]

(* No other call may have written anything. *)
Alone(d) == \A e \in StoreCall : work[e].op \in WriterOp => e = d
IsStored(d) == stored[work[d].key] = d
HasSet(d, k) == work[d].op \in Storing /\ work[d].key = k /\ Alone(d)

StoreTypes ==
  /\ stored \in [StoreKeys -> StoreValue] /\ away \in BOOLEAN
  /\ work \in [StoreCall -> StoreWorks] /\ results \in [StoreCall -> StoreAnswers]

Handled(c) ==
  /\ work[c].step = "idle" => work[c] = NotStarted
  /\ work[c].step \notin {"idle", "ended"} => work[c].key \in StoreKeys
  /\ work[c].freed = IF work[c].step = "ended" THEN 1 ELSE 0
  /\ work[c].step # "ended" => results[c].calls = <<>>
  /\ results[c].after \subseteq Successes

HandleInv == \A c \in StoreCall : Handled(c)

SetInv ==
  \A d \in StoreCall : work[d].op \in Storing =>
    /\ work[d].step # "not found"
    /\ (work[d].step = "done" \/ d \in Successes) /\ Alone(d) => IsStored(d)

GetInv ==
  \A c \in StoreCall : work[c].op \in Getting =>
    \A d \in results[c].after : HasSet(d, work[c].key) =>
      /\ work[c].step # "not found"
      /\ work[c].step = "done" => work[c].found = d
      /\ c \in Successes => results[c].value = d

StoresInv == StoreTypes /\ HandleInv /\ SetInv /\ GetInv

(* Calls of functions with a success among them.                           *)
LEMMA SuccessInCalls ==
  ASSUME NEW s \in FunctionCalls
  PROVE  "success" \in {s[i] : i \in DOMAIN s} <=> s \in SuccessCalls
<1>1. CASE s = <<"success">>
  <2>1. 1 \in DOMAIN s /\ s[1] = "success"
    BY <1>1
  <2> QED BY <1>1, <2>1 DEF SuccessCalls
<1>2. CASE s = <<"success", "complete">>
  <2>1. 1 \in DOMAIN s /\ s[1] = "success"
    BY <1>2
  <2> QED BY <1>2, <2>1 DEF SuccessCalls
<1>3. CASE s = <<>>
  <2>1. DOMAIN s = {} /\ s \notin SuccessCalls
    BY <1>3 DEF SuccessCalls
  <2> QED BY <2>1
<1>4. CASE s = <<"fail">>
  <2>1. DOMAIN s = {1} /\ s[1] = "fail" /\ s \notin SuccessCalls
    BY <1>4 DEF SuccessCalls
  <2> QED BY <2>1
<1>5. CASE s = <<"fail", "complete">>
  <2>1. /\ DOMAIN s = {1, 2} /\ s[1] = "fail" /\ s[2] = "complete"
        /\ s \notin SuccessCalls
    BY <1>5 DEF SuccessCalls
  <2> QED BY <2>1
<1> QED BY <1>1, <1>2, <1>3, <1>4, <1>5 DEF FunctionCalls, SuccessCalls

(* The calls that were told success.                                       *)
LEMMA SuccessIs ==
  ASSUME StoreTypes
  PROVE  Successes = {c \in StoreCall : results[c].calls \in SuccessCalls}
<1>1. \A c \in StoreCall : results[c].calls \in FunctionCalls
  BY DEF StoreTypes, StoreAnswers
<1> QED BY <1>1, SuccessInCalls DEF Successes

(* A call gets on: what its new state and answer must be, given the ones   *)
(* of the other calls, is asked here once for all steps.                   *)
LEMMA StoreStep ==
  ASSUME StoresInv, NEW c \in StoreCall, work[c].step # "ended",
         NEW w \in StoreWorks, work' \in [StoreCall -> StoreWorks], work'[c] = w,
         \A d \in StoreCall \ {c} : work'[d] = work[d],
         NEW a \in StoreAnswers, results' \in [StoreCall -> StoreAnswers],
         results'[c] = a, \A d \in StoreCall \ {c} : results'[d] = results[d],
         away' \in BOOLEAN, stored' \in [StoreKeys -> StoreValue],
         stored' = stored \/ w.op \in WriterOp,
         work[c].op \in {"none", w.op},
         w.step # "idle", w.step # "ended" => w.key \in StoreKeys,
         w.freed = IF w.step = "ended" THEN 1 ELSE 0,
         w.step # "ended" => a.calls = <<>>,
         a.after \subseteq Successes,
         w.op \in Storing =>
           /\ w.step # "not found"
           /\ (w.step = "done" \/ a.calls \in SuccessCalls) /\ Alone(c) =>
                stored'[w.key] = c,
         w.op \in Getting =>
           \A d \in a.after : HasSet(d, w.key) =>
             /\ w.step # "not found"
             /\ w.step = "done" => w.found = d
             /\ a.calls \in SuccessCalls => a.value = d
  PROVE  StoresInv'
<1>1. StoreTypes /\ HandleInv /\ SetInv /\ GetInv
  BY DEF StoresInv
<1>2. /\ work' \in [StoreCall -> StoreWorks] /\ work'[c] = w
      /\ \A d \in StoreCall \ {c} : work'[d] = work[d]
      /\ results' \in [StoreCall -> StoreAnswers] /\ results'[c] = a
      /\ \A d \in StoreCall \ {c} : results'[d] = results[d]
  BY <1>1 DEF StoreTypes
<1>3. StoreTypes'
  BY <1>2 DEF StoreTypes
<1>4. /\ c \notin Successes
      /\ \A d \in StoreCall \ {c} : d \in Successes' <=> d \in Successes
      /\ c \in Successes' <=> a.calls \in SuccessCalls
      /\ Successes \subseteq StoreCall
  <2>1. Successes = {d \in StoreCall : results[d].calls \in SuccessCalls}
    BY <1>1, SuccessIs
  <2>2. Successes' = {d \in StoreCall : results'[d].calls \in SuccessCalls}
    <3>1. ASSUME NEW d \in StoreCall
          PROVE  "success" \in {results'[d].calls[i] : i \in DOMAIN results'[d].calls}
                   <=> results'[d].calls \in SuccessCalls
      <4>1. results'[d].calls \in FunctionCalls
        BY <1>2 DEF StoreAnswers
      <4> QED BY <4>1, SuccessInCalls
    <3> QED BY <3>1 DEF Successes
  <2>3. results[c].calls = <<>> /\ <<>> \notin SuccessCalls
    BY <1>1 DEF HandleInv, Handled, SuccessCalls
  <2> QED BY <1>2, <2>1, <2>2, <2>3
<1>5. ASSUME NEW d \in StoreCall, Alone(d)' PROVE Alone(d)
  <2>1. ASSUME NEW e \in StoreCall, work[e].op \in WriterOp PROVE work'[e].op \in WriterOp
    <3>1. "none" \notin WriterOp
      BY DEF WriterOp, Storing, Deleting
    <3> QED BY <1>2, <2>1, <3>1
  <2> QED BY <1>5, <2>1 DEF Alone
<1>6. HandleInv'
  <2>1. \A d \in StoreCall \ {c} : results[d].after \subseteq Successes
    BY <1>1 DEF HandleInv, Handled
  <2>2. Successes \subseteq Successes'
    BY <1>4
  <2>3. SUFFICES ASSUME NEW d \in StoreCall PROVE Handled(d)'
    BY DEF HandleInv
  <2>4. CASE d = c
    BY <1>2, <2>2, <2>4 DEF Handled
  <2>5. CASE d # c
    BY <1>1, <1>2, <2>1, <2>2, <2>5 DEF HandleInv, Handled
  <2> QED BY <2>4, <2>5
<1>7. SetInv'
  <2>1. SUFFICES ASSUME NEW d \in StoreCall, work'[d].op \in Storing
                 PROVE  /\ work'[d].step # "not found"
                        /\ (work'[d].step = "done" \/ d \in Successes') /\ Alone(d)'
                             => IsStored(d)'
    BY DEF SetInv
  <2>2. CASE d = c
    BY <1>2, <1>4, <1>5, <2>1, <2>2 DEF IsStored
  <2>3. CASE d # c
    <3>1. /\ work[d].step # "not found"
          /\ (work[d].step = "done" \/ d \in Successes) /\ Alone(d) => IsStored(d)
      BY <1>1, <1>2, <2>1, <2>3 DEF SetInv
    <3>2. Alone(d)' => stored' = stored
      <4>1. Alone(d)' => w.op \notin WriterOp
        BY <1>2, <2>3 DEF Alone
      <4> QED BY <4>1
    <3> QED BY <1>2, <1>4, <1>5, <2>3, <3>1, <3>2 DEF IsStored
  <2> QED BY <2>2, <2>3
<1>8. GetInv'
  <2>1. SUFFICES ASSUME NEW b \in StoreCall, work'[b].op \in Getting,
                        NEW d \in results'[b].after, HasSet(d, work[b].key)'
                 PROVE  /\ work'[b].step # "not found"
                        /\ work'[b].step = "done" => work'[b].found = d
                        /\ b \in Successes' => results'[b].value = d
    BY DEF GetInv
  <2>2. d \in Successes /\ d # c /\ d \in StoreCall
    <3>1. results'[b].after \subseteq Successes
      BY <1>1, <1>2 DEF HandleInv, Handled
    <3> QED BY <1>4, <2>1, <3>1
  <2>3. HasSet(d, work'[b].key)
    BY <1>2, <1>5, <2>1, <2>2 DEF HasSet
  <2>4. CASE b = c
    BY <1>2, <1>4, <2>1, <2>3, <2>4
  <2>5. CASE b # c
    <3>1. work'[b] = work[b] /\ results'[b] = results[b]
      BY <1>2, <2>5
    <3>2. b \in Successes' <=> b \in Successes
      BY <1>4, <2>5
    <3>3. d \in results[b].after /\ HasSet(d, work[b].key) /\ work[b].op \in Getting
      BY <2>1, <2>3, <3>1
    <3>4. \A e \in results[b].after : HasSet(e, work[b].key) =>
            /\ work[b].step # "not found"
            /\ work[b].step = "done" => work[b].found = e
            /\ b \in Successes => results[b].value = e
      BY <1>1, <3>3, Zenon DEF GetInv
    <3>5. /\ work[b].step # "not found"
          /\ work[b].step = "done" => work[b].found = d
          /\ b \in Successes => results[b].value = d
      BY <3>3, <3>4, Zenon
    <3> QED BY <3>1, <3>2, <3>5
  <2> QED BY <2>4, <2>5
<1> QED BY <1>3, <1>6, <1>7, <1>8 DEF StoresInv

(* What a call is told. *)
LEMMA TellsAnswers ==
  ASSUME StoreTypes, NEW c \in StoreCall, NEW outcome \in {"success", "fail"},
         NEW value \in StoreValue, NEW after \in SUBSET StoreCall,
         Tells(c, outcome, value, after)
  PROVE  /\ results' \in [StoreCall -> StoreAnswers] /\ away' \in BOOLEAN
         /\ \A d \in StoreCall \ {c} : results'[d] = results[d]
         /\ results'[c].value = value /\ results'[c].after = after
         /\ results'[c].calls \in SuccessCalls => outcome = "success"
<1>1. PICK functions \in IF away THEN {<<>>} ELSE {<<outcome>>, <<outcome, "complete">>} :
        /\ results' = [results EXCEPT ![c] =
                        [calls |-> functions, value |-> value, after |-> after]]
        /\ away' = (Len(functions) < 2)
  BY DEF Tells
<1>2. /\ functions \in FunctionCalls
      /\ functions \in SuccessCalls => outcome = "success"
  <2>1. functions \in {<<>>, <<outcome>>, <<outcome, "complete">>}
    BY <1>1
  <2>2. outcome = "success" \/ outcome = "fail"
    OBVIOUS
  <2>3. <<>> \notin SuccessCalls /\ <<"fail">> \notin SuccessCalls
        /\ <<"fail", "complete">> \notin SuccessCalls
    BY DEF SuccessCalls
  <2>4. CASE outcome = "success"
    BY <2>1, <2>4 DEF FunctionCalls, SuccessCalls
  <2>5. CASE outcome = "fail"
    BY <2>1, <2>3, <2>5 DEF FunctionCalls
  <2> QED BY <2>2, <2>4, <2>5
<1>3. PICK a : a = [calls |-> functions, value |-> value, after |-> after]
  OBVIOUS
<1>4. a \in StoreAnswers /\ a.calls = functions /\ a.value = value /\ a.after = after
  BY <1>2, <1>3 DEF StoreAnswers
<1>5. results' = [results EXCEPT ![c] = a]
  BY <1>1, <1>3
<1>6. away' \in BOOLEAN
  BY <1>1
<1> QED BY <1>2, <1>4, <1>5, <1>6 DEF StoreTypes

(* A call ends: its handle is freed and its functions are called.          *)
LEMMA FinishesKeeps ==
  ASSUME StoresInv, NEW c \in StoreCall, work[c].step # "ended",
         NEW op \in StoreOps, NEW outcome \in {"success", "fail"},
         Finishes(c, op, outcome, 1), work[c].op \in {"none", op},
         stored' \in [StoreKeys -> StoreValue], stored' = stored \/ op \in WriterOp,
         op \in Storing /\ outcome = "success" /\ Alone(c) => stored'[work[c].key] = c,
         op \in Getting /\ outcome = "success" =>
           \A d \in results'[c].after : HasSet(d, work[c].key) => work[c].found = d
  PROVE  StoresInv'
<1>1. StoreTypes /\ HandleInv
  BY DEF StoresInv
<1>2. work[c] \in StoreWorks /\ results[c] \in StoreAnswers
  BY <1>1 DEF StoreTypes
<1>3. PICK w : w = [work[c] EXCEPT !.op = op, !.step = "ended", !.freed = 1]
  OBVIOUS
<1>4. /\ w \in StoreWorks /\ w.op = op /\ w.step = "ended" /\ w.freed = 1
      /\ w.key = work[c].key /\ w.found = work[c].found
  BY <1>2, <1>3 DEF StoreWorks
<1>5. work' = [work EXCEPT ![c] = w]
  BY <1>1, <1>2, <1>3 DEF Finishes, StoreTypes, StoreWorks
<1>6. /\ work' \in [StoreCall -> StoreWorks] /\ work'[c] = w
      /\ \A d \in StoreCall \ {c} : work'[d] = work[d]
  BY <1>1, <1>4, <1>5 DEF StoreTypes
<1>7. PICK after \in SUBSET StoreCall :
        /\ Tells(c, outcome, work[c].found, after) /\ after \subseteq Successes
  <2>1. Successes \subseteq StoreCall /\ results[c].after \subseteq Successes
    BY <1>1 DEF HandleInv, Handled, Successes
  <2> QED BY <2>1 DEF Finishes
<1>8. /\ results' \in [StoreCall -> StoreAnswers] /\ away' \in BOOLEAN
      /\ \A d \in StoreCall \ {c} : results'[d] = results[d]
      /\ results'[c].value = work[c].found /\ results'[c].after = after
      /\ results'[c].calls \in SuccessCalls => outcome = "success"
  <2>1. work[c].found \in StoreValue
    BY <1>2 DEF StoreWorks
  <2> QED BY <1>1, <1>7, <2>1, TellsAnswers
<1>9. PICK a \in StoreAnswers : a = results'[c]
  BY <1>8
<1> QED BY <1>4, <1>6, <1>7, <1>8, <1>9, StoreStep

(* What a get that is told a value under the key may tell: what is there,  *)
(* if only one call that succeeded before may have written.                *)
LEMMA StoredIsSeen ==
  ASSUME StoresInv, NEW d \in Successes, NEW k, HasSet(d, k)
  PROVE  stored[k] = d /\ d # "nothing" /\ d \in StoreCall
<1>1. d \in StoreCall
  BY DEF Successes
<1> QED BY <1>1, StoreCallAssumption DEF StoresInv, SetInv, HasSet, IsStored

(* A call of either store hands its work to the pool.                      *)
LEMMA StoreWorkKeeps ==
  ASSUME StoresInv, NEW c \in StoreCall, NEW op \in StorageOp \cup ExchangeOp,
         StoreWork(c, op)
  PROVE  StoresInv'
<1>1. /\ work[c] = NotStarted /\ stored' = stored /\ StoreTypes
      /\ work[c].step = "idle" /\ work[c].op = "none" /\ work[c].key = "none"
  <2>1. work[c] = NotStarted /\ stored' = stored /\ StoreTypes
    BY DEF StoreWork, Unstarted, StoresInv
  <2> QED BY <2>1 DEF NotStarted
<1>2. op \in StoreOps /\ stored' \in [StoreKeys -> StoreValue]
  BY <1>1 DEF StoreOps, StoreTypes
<1>3. CASE NotTaken(c, op)
  BY <1>1, <1>2, <1>3, FinishesKeeps DEF NotTaken
<1>4. CASE \E k \in IF op \in StorageOp THEN StorageKey ELSE SharedKey :
            /\ work' = [work EXCEPT ![c] = [NotStarted EXCEPT
                          !.op = op, !.key = k, !.step = "started"]]
            /\ results' = [results EXCEPT ![c].after = Successes]
            /\ UNCHANGED away
  <2>1. PICK k \in StoreKeys :
            /\ work' = [work EXCEPT ![c] = [NotStarted EXCEPT
                          !.op = op, !.key = k, !.step = "started"]]
            /\ results' = [results EXCEPT ![c].after = Successes] /\ away' = away
    BY <1>4 DEF StoreKeys
  <2>2. PICK w : w = [NotStarted EXCEPT !.op = op, !.key = k, !.step = "started"]
    OBVIOUS
  <2>3. /\ w \in StoreWorks /\ w.op = op /\ w.key = k /\ w.step = "started"
        /\ w.freed = 0
    BY <1>2, <2>2 DEF NotStarted, StoreWorks, StoreValue
  <2>4. PICK a : a = [results[c] EXCEPT !.after = Successes]
    OBVIOUS
  <2>5. a \in StoreAnswers /\ a.calls = <<>> /\ a.after = Successes
    <3>1. results[c] \in StoreAnswers /\ results[c].calls = <<>>
      BY <1>1 DEF StoresInv, StoreTypes, HandleInv, Handled
    <3> QED BY <2>4, <3>1 DEF StoreAnswers, Successes
  <2>6. results' = [results EXCEPT ![c] = a] /\ work' = [work EXCEPT ![c] = w]
    BY <2>1, <2>2, <2>4
  <2>7. /\ work' \in [StoreCall -> StoreWorks] /\ work'[c] = w
        /\ \A d \in StoreCall \ {c} : work'[d] = work[d]
        /\ results' \in [StoreCall -> StoreAnswers] /\ results'[c] = a
        /\ \A d \in StoreCall \ {c} : results'[d] = results[d]
    BY <1>1, <2>3, <2>5, <2>6 DEF StoreTypes
  <2>8. <<>> \notin SuccessCalls
    BY DEF SuccessCalls
  <2>9. away' \in BOOLEAN
    BY <1>1, <2>1 DEF StoreTypes
  <2> QED BY <1>1, <1>2, <2>3, <2>5, <2>7, <2>8, <2>9, StoreStep
<1> QED BY <1>3, <1>4 DEF StoreWork

(* A synchronous get reads at once.                                        *)
LEMMA GetSyncKeeps ==
  ASSUME StoresInv, NEW c \in StoreCall, NEW k \in StorageKey, StorageGetSync(c, k)
  PROVE  StoresInv'
<1>1. /\ work[c] = NotStarted /\ stored' = stored /\ StoreTypes
      /\ work[c].step = "idle" /\ work[c].op = "none" /\ k \in StoreKeys
  BY DEF StorageGetSync, Unstarted, NotStarted, StoresInv, StoreKeys
<1>2. PICK outcome \in {"success", "fail"} :
        /\ work' = [work EXCEPT ![c] = [NotStarted EXCEPT
                      !.op = "get", !.key = k, !.step = "ended", !.freed = 1]]
        /\ Tells(c, outcome, IF outcome = "success" THEN stored[k] ELSE "nothing",
                 Successes)
  BY DEF StorageGetSync
<1>3. PICK w : w = [NotStarted EXCEPT !.op = "get", !.key = k, !.step = "ended",
                                      !.freed = 1]
  OBVIOUS
<1>4. /\ w \in StoreWorks /\ w.op = "get" /\ w.key = k /\ w.step = "ended"
      /\ w.freed = 1
  BY <1>1, <1>3 DEF NotStarted, StoreWorks, StoreValue, StoreOps, StorageOp
<1>5. work' = [work EXCEPT ![c] = w]
  BY <1>2, <1>3
<1>6. /\ work' \in [StoreCall -> StoreWorks] /\ work'[c] = w
      /\ \A d \in StoreCall \ {c} : work'[d] = work[d]
  BY <1>1, <1>4, <1>5 DEF StoreTypes
<1>7. PICK value \in StoreValue :
        value = IF outcome = "success" THEN stored[k] ELSE "nothing"
  BY <1>1 DEF StoreTypes, StoreValue
<1>8. /\ results' \in [StoreCall -> StoreAnswers] /\ away' \in BOOLEAN
      /\ \A d \in StoreCall \ {c} : results'[d] = results[d]
      /\ results'[c].value = value /\ results'[c].after = Successes
      /\ results'[c].calls \in SuccessCalls => outcome = "success"
  <2>1. Successes \in SUBSET StoreCall
    BY DEF Successes
  <2> QED BY <1>1, <1>2, <1>7, <2>1, TellsAnswers
<1>9. PICK a \in StoreAnswers : a = results'[c]
  BY <1>8
<1>10. ASSUME NEW d \in a.after, HasSet(d, w.key), a.calls \in SuccessCalls
       PROVE  a.value = d
  BY <1>4, <1>7, <1>8, <1>9, <1>10, StoredIsSeen
<1>11. stored' \in [StoreKeys -> StoreValue] /\ "get" \notin Storing
  BY <1>1 DEF StoreTypes, Storing
<1> QED BY <1>1, <1>4, <1>6, <1>8, <1>9, <1>10, <1>11, StoreStep

(* A store is cleared, as a whole.                                         *)
LEMMA ClearKeeps ==
  ASSUME ~ClearFails, StoresInv, NEW c \in StoreCall, StorageClear(c) \/ ExchangeClear(c)
  PROVE  StoresInv'
<1>1. work[c] = NotStarted /\ work[c].step = "idle" /\ work[c].op = "none"
  <2>1. work[c] = NotStarted
    BY DEF StorageClear, ExchangeClear, Unstarted
  <2> QED BY <2>1 DEF NotStarted
<1>2. /\ "clear" \in StoreOps /\ "exchange clear" \in StoreOps /\ "clear" \in WriterOp
      /\ {"clear", "exchange clear"} \cap (Storing \cup Getting) = {}
  BY DEF StoreOps, WriterOp, Storing, Getting
<1>3. stored \in [StoreKeys -> StoreValue]
  BY DEF StoresInv, StoreTypes
<1>4. CASE StorageClear(c)
  <2>1. PICK outcome \in {"success", "fail"} : Finishes(c, "clear", outcome, 1)
    <3>1. CASE Finishes(c, "clear", "fail", 1)
      BY <3>1
    <3>2. CASE \E failures \in 0..0 :
                 Finishes(c, "clear", IF failures = 0 THEN "success" ELSE "fail",
                          failures + 1)
      <4>1. Finishes(c, "clear", "success", 1)
        BY <3>2
      <4> QED BY <4>1
    <3> QED BY <1>4, <3>1, <3>2 DEF StorageClear
  <2>2. stored' \in [StoreKeys -> StoreValue]
    BY <1>3, <1>4 DEF StorageClear, StoreValue
  <2> QED BY <1>1, <1>2, <2>1, <2>2, FinishesKeeps
<1>5. CASE ExchangeClear(c)
  <2>1. stored' = stored
        /\ \E outcome \in {"success", "fail"} : Finishes(c, "exchange clear", outcome, 1)
    BY <1>5 DEF ExchangeClear
  <2> QED BY <1>1, <1>2, <1>3, <2>1, FinishesKeeps
<1> QED BY <1>4, <1>5

(* The work of a call reads or writes its store.                           *)
LEMMA WorkIsDoneKeeps ==
  ASSUME StoresInv, NEW c \in StoreCall, WorkIsDone(c)
  PROVE  StoresInv'
<1>1. StoreTypes /\ HandleInv /\ SetInv /\ GetInv
  BY DEF StoresInv
<1>2. PICK v \in StoreWorks : v = work[c]
  BY <1>1 DEF StoreTypes
<1>3. /\ v.step = "started" /\ v.key \in StoreKeys /\ v.freed = 0 /\ v.op \in StoreOps
      /\ v.found \in StoreValue
  BY <1>1, <1>2 DEF WorkIsDone, HandleInv, Handled, StoreWorks
<1>4. PICK a \in StoreAnswers : a = results[c]
  BY <1>1 DEF StoreTypes
<1>5. a.calls = <<>> /\ a.after \subseteq Successes /\ <<>> \notin SuccessCalls
  BY <1>1, <1>2, <1>3, <1>4 DEF HandleInv, Handled, SuccessCalls
<1>6. /\ results' \in [StoreCall -> StoreAnswers] /\ results'[c] = a /\ away' \in BOOLEAN
      /\ \A d \in StoreCall \ {c} : results'[d] = results[d]
  BY <1>1, <1>4 DEF WorkIsDone, StoreTypes
<1>7. PICK here \in StoreValue : here = stored[v.key] /\ v.key \in DOMAIN stored
  BY <1>1, <1>3 DEF StoreTypes
<1>8. \A d \in a.after : HasSet(d, v.key) => here = d /\ here # "nothing"
  BY <1>5, <1>7, StoredIsSeen
<1>9. Storing \cap (Getting \cup Deleting) = {} /\ Deleting \cap Getting = {}
      /\ Storing \cup Deleting \subseteq WriterOp
  BY DEF Storing, Getting, Deleting, WriterOp
<1>10. CASE work' = [work EXCEPT ![c].step = "failed"] /\ stored' = stored
  <2>1. PICK w : w = [v EXCEPT !.step = "failed"]
    OBVIOUS
  <2>2. w \in StoreWorks /\ w.op = v.op /\ w.step = "failed" /\ w.key = v.key /\ w.freed = 0
    BY <1>2, <1>3, <2>1 DEF StoreWorks
  <2>3. work' = [work EXCEPT ![c] = w]
    BY <1>2, <1>10, <2>1
  <2>4. /\ work' \in [StoreCall -> StoreWorks] /\ work'[c] = w
        /\ \A d \in StoreCall \ {c} : work'[d] = work[d]
    BY <1>1, <2>2, <2>3 DEF StoreTypes
  <2>5. stored' \in [StoreKeys -> StoreValue] /\ stored' = stored
    BY <1>1, <1>10 DEF StoreTypes
  <2>6. w.step \notin {"idle", "ended", "done", "not found"} /\ w.freed = 0
        /\ a.calls \notin SuccessCalls
    BY <1>5, <2>2
  <2>7. work[c].step # "ended" /\ work[c].op \in {"none", w.op} /\ w.key \in StoreKeys
    BY <1>2, <1>3, <2>2
  <2> QED BY <1>5, <1>6, <2>2, <2>4, <2>5, <2>6, <2>7, StoreStep
<1>11. CASE /\ here = "nothing" /\ v.op \in Getting \cup Deleting
            /\ work' = [work EXCEPT ![c].step = "not found"] /\ stored' = stored
  <2>1. PICK w : w = [v EXCEPT !.step = "not found"]
    OBVIOUS
  <2>2. w \in StoreWorks /\ w.op = v.op /\ w.step = "not found" /\ w.key = v.key
        /\ w.freed = 0
    BY <1>2, <1>3, <2>1 DEF StoreWorks
  <2>3. work' = [work EXCEPT ![c] = w]
    BY <1>2, <1>11, <2>1
  <2>4. /\ work' \in [StoreCall -> StoreWorks] /\ work'[c] = w
        /\ \A d \in StoreCall \ {c} : work'[d] = work[d]
    BY <1>1, <2>2, <2>3 DEF StoreTypes
  <2>5. stored' \in [StoreKeys -> StoreValue]
    BY <1>1, <1>11 DEF StoreTypes
  <2>6. w.op \notin Storing /\ \A d \in a.after : ~HasSet(d, w.key)
    BY <1>8, <1>9, <1>11, <2>2
  <2>7. work[c].step # "ended" /\ work[c].op \in {"none", w.op} /\ w.key \in StoreKeys
        /\ w.step \notin {"idle", "ended"} /\ stored' = stored
    BY <1>2, <1>3, <1>11, <2>2
  <2> QED BY <1>5, <1>6, <2>2, <2>4, <2>5, <2>6, <2>7, StoreStep
<1>12. CASE /\ here # "nothing" \/ v.op \notin Getting \cup Deleting
            /\ work' = [work EXCEPT ![c].step = "done", ![c].found =
                          IF v.op \in Getting THEN here ELSE @]
            /\ stored' = [stored EXCEPT ![v.key] =
                            IF v.op \in Storing THEN c
                            ELSE IF v.op \in Deleting THEN "nothing" ELSE @]
  <2>1. PICK w : w = [v EXCEPT !.step = "done",
                               !.found = IF v.op \in Getting THEN here ELSE v.found]
    OBVIOUS
  <2>2. /\ w \in StoreWorks /\ w.op = v.op /\ w.step = "done" /\ w.key = v.key
        /\ w.freed = 0
        /\ v.op \in Getting => w.found = here
    BY <1>2, <1>3, <2>1 DEF StoreWorks
  <2>3. work' = [work EXCEPT ![c] = w]
    BY <1>1, <1>2, <1>12, <2>1 DEF StoreTypes
  <2>4. /\ work' \in [StoreCall -> StoreWorks] /\ work'[c] = w
        /\ \A d \in StoreCall \ {c} : work'[d] = work[d]
    BY <1>1, <2>2, <2>3 DEF StoreTypes
  <2>5. /\ stored' \in [StoreKeys -> StoreValue]
        /\ v.op \in Storing => stored'[v.key] = c
        /\ v.op \notin Storing \cup Deleting => stored' = stored
    BY <1>1, <1>3, <1>12 DEF StoreTypes, StoreValue
  <2>6. stored' = stored \/ w.op \in WriterOp
    BY <1>9, <2>2, <2>5
  <2>7. w.op \in Storing => stored'[w.key] = c
    BY <2>2, <2>5
  <2>8. \A d \in a.after : w.op \in Getting /\ HasSet(d, w.key) => w.found = d
    BY <1>8, <2>2
  <2>9. work[c].step # "ended" /\ work[c].op \in {"none", w.op} /\ w.key \in StoreKeys
        /\ w.step \notin {"idle", "ended", "not found"} /\ a.calls \notin SuccessCalls
    BY <1>2, <1>3, <1>5, <2>2
  <2> QED BY <1>5, <1>6, <2>2, <2>4, <2>5, <2>6, <2>7, <2>8, <2>9, StoreStep
<1> QED BY <1>2, <1>7, <1>10, <1>11, <1>12 DEF WorkIsDone

(* The work is done: its call is told.                                     *)
LEMMA CallbackKeeps ==
  ASSUME StoresInv, NEW c \in StoreCall, StorageCb(c) \/ ExchangeCb(c)
  PROVE  StoresInv'
<1>1. StoreTypes /\ HandleInv /\ SetInv /\ GetInv
  BY DEF StoresInv
<1>2. PICK v \in StoreWorks : v = work[c]
  BY <1>1 DEF StoreTypes
<1>3. /\ v.step \in {"done", "not found", "failed"} /\ v.op \in StorageOp \cup ExchangeOp
      /\ stored' = stored
  BY <1>2 DEF StorageCb, ExchangeCb, CallsBack
<1>4. PICK outcome \in {"success", "fail"} :
        /\ Finishes(c, v.op, outcome, 1)
        /\ v.step = "failed" => outcome = "fail"
  <2>1. CASE StorageCb(c)
    BY <1>2, <2>1 DEF StorageCb
  <2>2. CASE ExchangeCb(c)
    BY <1>2, <2>2 DEF ExchangeCb
  <2> QED BY <2>1, <2>2
<1>5. v.op \in StoreOps /\ stored' \in [StoreKeys -> StoreValue]
  BY <1>1, <1>3 DEF StoreOps, StoreTypes
<1>6. ASSUME v.op \in Storing, outcome = "success", Alone(c)
      PROVE  stored'[work[c].key] = c
  BY <1>1, <1>2, <1>3, <1>4, <1>6 DEF SetInv, IsStored
<1>7. ASSUME v.op \in Getting, outcome = "success",
             NEW d \in results'[c].after, HasSet(d, work[c].key)
      PROVE  work[c].found = d
  <2>1. results'[c].after = results[c].after
    <3>1. work[c] # NotStarted
      <4>1. NotStarted.step = "idle"
        BY DEF NotStarted
      <4> QED BY <1>2, <1>3, <4>1
    <3> QED BY <1>1, <1>4, <3>1 DEF Finishes, Tells, StoreTypes
  <2> QED BY <1>1, <1>2, <1>3, <1>4, <1>7, <2>1 DEF GetInv
<1> QED BY <1>2, <1>3, <1>4, <1>5, <1>6, <1>7, FinishesKeeps

(* Every step of the stores keeps their invariant.                         *)
LEMMA StoresKeptByStep ==
  ASSUME ~ClearFails, StoresInv, [StoresNext]_stVars
  PROVE  StoresInv'
<1>1. CASE UNCHANGED <<stored, work, results>> /\ away' \in BOOLEAN
  <2>1. Successes' = Successes
    BY <1>1 DEF Successes
  <2> QED BY <1>1, <2>1 DEF StoresInv, StoreTypes, HandleInv, Handled, SetInv, GetInv, HasSet, Alone,
                            IsStored
<1>2. CASE UNCHANGED stVars
  BY <1>1, <1>2 DEF stVars, StoresInv, StoreTypes
<1>3. CASE StoresDetached
  BY <1>1, <1>3 DEF StoresDetached
<1>4. ASSUME NEW c \in StoreCall,
             \/ StorageGet(c) \/ StorageSet(c) \/ StorageDelete(c) \/ StorageKeyAt(c)
             \/ ExchangeSet(c) \/ ExchangeGet(c) \/ ExchangeRemove(c)
      PROVE  StoresInv'
  <2>1. PICK op \in StorageOp \cup ExchangeOp : StoreWork(c, op)
    BY <1>4 DEF StorageGet, StorageSet, StorageDelete, StorageKeyAt, ExchangeSet,
                ExchangeGet, ExchangeRemove, StorageOp, ExchangeOp
  <2> QED BY <2>1, StoreWorkKeeps
<1> QED BY <1>2, <1>3, <1>4, GetSyncKeeps, ClearKeeps, WorkIsDoneKeeps, CallbackKeeps
        DEF StoresNext, StoreEnds

(* Each handle of system.storage and system.exchange is freed once, and a  *)
(* success of a get that began after the success of a set tells what was   *)
(* set, unless another call may have written.                              *)
THEOREM StoresKeepValues ==
  ASSUME ~ClearFails
  PROVE  StoresSpec => []StoresKept
<1>1. StoresInit => StoresInv
  <2>1. SUFFICES ASSUME StoresInit PROVE StoresInv
    OBVIOUS
  <2>2. /\ NotStarted \in StoreWorks /\ NoAnswer \in StoreAnswers
        /\ NotStarted.op = "none" /\ NotStarted.step = "idle" /\ NotStarted.freed = 0
        /\ NoAnswer.calls = <<>> /\ NoAnswer.after = {}
    BY DEF NotStarted, NoAnswer, StoreWorks, StoreAnswers, StoreOps, StoreValue, FunctionCalls
  <2>3. "none" \notin Storing \cup Getting
    BY DEF Storing, Getting
  <2>4. StoreTypes
    BY <2>1, <2>2 DEF StoresInit, StoreTypes, StoreKeys, StoreValue
  <2> QED BY <2>1, <2>2, <2>3, <2>4 DEF StoresInit, StoresInv, HandleInv, Handled, SetInv, GetInv
<1>2. StoresInv /\ [StoresNext]_stVars => StoresInv'
  BY StoresKeptByStep
<1>3. StoresInv => StoresKept
  <2>1. SUFFICES ASSUME StoresInv, NEW c \in StoreCall
                 PROVE  /\ work[c].step = "ended" => work[c].freed = 1
                        /\ work[c].step # "ended" =>
                             work[c].freed = 0 /\ results[c].calls = <<>>
                        /\ work[c].op \in Getting /\ c \in Successes =>
                             \A d \in results[c].after :
                               work[d].op \in Storing /\ work[d].key = work[c].key =>
                                 \/ results[c].value = d
                                 \/ \E e \in StoreCall \ {c, d} :
                                      work[e].op \in Storing \cup Deleting \cup {"clear"}
    BY DEF StoresKept
  <2>2. /\ work[c].step = "ended" => work[c].freed = 1
        /\ work[c].step # "ended" => work[c].freed = 0 /\ results[c].calls = <<>>
    BY <2>1 DEF StoresInv, HandleInv, Handled
  <2>3. ASSUME work[c].op \in Getting, c \in Successes, NEW d \in results[c].after,
               work[d].op \in Storing, work[d].key = work[c].key, results[c].value # d
        PROVE  \E e \in StoreCall \ {c, d} : work[e].op \in Storing \cup Deleting \cup {"clear"}
    <3>1. ~Alone(d)
      BY <2>1, <2>3 DEF StoresInv, GetInv, HasSet
    <3>2. PICK e \in StoreCall : work[e].op \in WriterOp /\ e # d
      BY <3>1 DEF Alone
    <3>3. e # c
      BY <2>3, <3>2 DEF WriterOp, Getting, Storing, Deleting
    <3> QED BY <3>2, <3>3 DEF WriterOp
  <2> QED BY <2>2, <2>3
<1> QED BY <1>1, <1>2, <1>3, PTL DEF StoresSpec

-----------------------------------------------------------------------------
(***************************************************************************)
(* Calls of system.packagemanager, for any calls and packages.  A report   *)
(* in the queue is the only one of its call, and the call has heard        *)
(* nothing; so the promise cannot be settled again.                        *)
(***************************************************************************)
PkgOps == Operations \cup {"none", "hasInstalled", "getPackageInfo", "clearPackageData",
                           "getInstalledPackages", "getPackagesInOperation"}
PkgCodes == {"ok", "missing", "exists", "short", "no memory", "other"}
PkgReport == [call : PkgCall, code : PkgCodes]

PkgTypes ==
  /\ asking \in [PkgCall -> [op : PkgOps, package : Package \cup {NoCall.package},
                             step : {"idle", "asked", "reported", "answered"}]]
  /\ reports \in Seq(PkgReport) /\ DOMAIN hears = PkgCall
  /\ instance \in {"live", "detached", "closed"}

(* The feature's references, each with what it is for. *)
ClaimsInv ==
  /\ observers \subseteq PkgCall /\ IsFiniteSet(observers)
  /\ \A c \in observers : asking[c].step # "idle"
  /\ claims = Cardinality(observers) + Len(reports)

ReportsInv ==
  /\ IsInjective(reports)
  /\ \A r, q \in Range(reports) : r.call = q.call => r = q
  /\ \A r \in Range(reports) :
       asking[r.call].step = "reported" /\ hears[r.call] = <<>>

(* A promise and its event. *)
Settles(h) ==
  /\ Len(h) = 2 /\ h[2].what = "event"
  /\ h[1].what = "resolve" <=> h[2].code = 0

HearsInv ==
  \A c \in PkgCall :
    /\ asking[c].step \in {"asked", "reported"} <=> asking[c].op \in Operations
    /\ asking[c].step \in {"idle", "asked"} => hears[c] = <<>>
    /\ asking[c].step = "answered" => Len(hears[c]) = 1
    /\ asking[c].step = "reported" =>
         /\ hears[c] = <<>> \/ Settles(hears[c])
         /\ hears[c] = <<>> /\ instance = "live" =>
              \E r \in Range(reports) : r.call = c

PackagesInv == PkgTypes /\ ClaimsInv /\ ReportsInv /\ HearsInv

(* A call that is answered within touches nothing of the listeners.        *)
LEMMA AnsweredKeeps ==
  ASSUME PackagesInv, NEW c \in PkgCall, NEW op \in PkgOps \ Operations,
         NEW p \in Package, Begins(c, op, p, "answered"),
         NEW what, NEW code, Answers(c, what, code),
         UNCHANGED <<observers, reports, claims, installed, instance>>
  PROVE  PackagesInv'
<1>1. /\ asking[c].step = "idle"
      /\ asking' = [asking EXCEPT ![c] = [op |-> op, package |-> p, step |-> "answered"]]
      /\ hears' = [hears EXCEPT ![c] = Append(@, Heard(what, code))]
  BY DEF Begins, Answers
<1>2. hears[c] = <<>> /\ c \notin observers
  BY <1>1 DEF PackagesInv, HearsInv, ClaimsInv
<1>3. Len(Append(<<>>, Heard(what, code))) = 1
  BY EmptySeq, AppendProperties
<1>4. /\ asking' \in [PkgCall -> [op : PkgOps, package : Package \cup {NoCall.package},
                                 step : {"idle", "asked", "reported", "answered"}]]
      /\ asking'[c].op = op /\ asking'[c].step = "answered"
      /\ \A d \in PkgCall \ {c} : asking'[d] = asking[d]
  BY <1>1 DEF PackagesInv, PkgTypes
<1>5. /\ DOMAIN hears' = PkgCall /\ Len(hears'[c]) = 1
      /\ \A d \in PkgCall \ {c} : hears'[d] = hears[d]
  BY <1>1, <1>2, <1>3 DEF PackagesInv, PkgTypes
<1>6. \A r \in Range(reports) : r.call \in PkgCall /\ r.call # c
  <2>1. \A r \in Range(reports) : r \in PkgReport
    BY RangeOf, ElementOfSeq DEF PackagesInv, PkgTypes
  <2> QED BY <1>1, <2>1 DEF PackagesInv, ReportsInv, PkgReport
<1>7. PkgTypes'
  BY <1>4, <1>5 DEF PackagesInv, PkgTypes
<1>8. ClaimsInv'
  BY <1>2, <1>4 DEF PackagesInv, ClaimsInv
<1>9. ReportsInv'
  BY <1>4, <1>5, <1>6 DEF PackagesInv, ReportsInv
<1>10. HearsInv'
  BY <1>4, <1>5 DEF PackagesInv, HearsInv
<1> QED BY <1>7, <1>8, <1>9, <1>10 DEF PackagesInv

(* Calls that are answered before they return.                             *)
LEMMA WithinKeeps ==
  ASSUME PackagesInv, NEW c \in PkgCall,
         \/ PackagesRefused(c) \/ GetInstalledPackages(c) \/ GetPackagesInOperation(c)
         \/ \E p \in Package : HasInstalled(c, p) \/ GetPackageInfo(c, p)
                               \/ ClearPackageData(c, p)
  PROVE  PackagesInv'
<1>1. CASE PackagesRefused(c)
  BY <1>1, AnsweredKeeps DEF PackagesRefused, PkgOps, Operations
<1>2. CASE GetInstalledPackages(c)
  BY <1>2, AnsweredKeeps DEF GetInstalledPackages, PkgOps, Operations
<1>3. CASE GetPackagesInOperation(c)
  BY <1>3, AnsweredKeeps DEF GetPackagesInOperation, PkgOps, Operations
<1>4. ASSUME NEW p \in Package, HasInstalled(c, p) PROVE PackagesInv'
  BY <1>4, AnsweredKeeps DEF HasInstalled, PkgOps, Operations
<1>5. ASSUME NEW p \in Package, NEW op \in PkgOps \ Operations, OfInstalled(c, p, op)
      PROVE  PackagesInv'
  BY <1>5, AnsweredKeeps DEF OfInstalled
<1>6. ASSUME NEW p \in Package, GetPackageInfo(c, p) \/ ClearPackageData(c, p)
      PROVE  PackagesInv'
  BY <1>5, <1>6 DEF GetPackageInfo, ClearPackageData, PkgOps, Operations
<1> QED BY <1>1, <1>2, <1>3, <1>4, <1>6

(* A listener is made, and takes a handle.                                 *)
LEMMA AsksKeeps ==
  ASSUME PackagesInv, NEW c \in PkgCall, NEW op \in Operations, NEW p \in Package,
         Asks(c, op, p)
  PROVE  PackagesInv'
<1>1. /\ asking[c].step = "idle"
      /\ asking' = [asking EXCEPT ![c] = [op |-> op, package |-> p, step |-> "asked"]]
      /\ observers' = observers \cup {c} /\ claims' = claims + 1
      /\ reports' = reports /\ hears' = hears /\ instance' = instance
  BY DEF Asks, Begins
<1>2. hears[c] = <<>> /\ c \notin observers
  BY <1>1 DEF PackagesInv, HearsInv, ClaimsInv
<1>3. /\ asking' \in [PkgCall -> [op : PkgOps, package : Package \cup {NoCall.package},
                                 step : {"idle", "asked", "reported", "answered"}]]
      /\ asking'[c].op = op /\ asking'[c].step = "asked"
      /\ \A d \in PkgCall \ {c} : asking'[d] = asking[d]
  BY <1>1 DEF PackagesInv, PkgTypes, PkgOps
<1>4. \A r \in Range(reports) : r.call \in PkgCall /\ r.call # c
  <2>1. \A r \in Range(reports) : r \in PkgReport
    BY RangeOf, ElementOfSeq DEF PackagesInv, PkgTypes
  <2> QED BY <1>1, <2>1 DEF PackagesInv, ReportsInv, PkgReport
<1>5. PkgTypes'
  BY <1>1, <1>3 DEF PackagesInv, PkgTypes
<1>6. ClaimsInv'
  <2>1. /\ IsFiniteSet(observers') /\ Cardinality(observers) \in Nat
        /\ Cardinality(observers') = Cardinality(observers) + 1
    BY <1>1, <1>2, FS_AddElement, FS_CardinalityType DEF PackagesInv, ClaimsInv
  <2>2. Len(reports) \in Nat
    BY LenProperties DEF PackagesInv, PkgTypes
  <2> QED BY <1>1, <1>3, <2>1, <2>2 DEF PackagesInv, ClaimsInv
<1>7. ReportsInv'
  BY <1>1, <1>3, <1>4 DEF PackagesInv, ReportsInv
<1>8. HearsInv'
  BY <1>1, <1>2, <1>3 DEF PackagesInv, HearsInv
<1> QED BY <1>5, <1>6, <1>7, <1>8 DEF PackagesInv

(* A result comes, and is posted with a handle if the instance is there.   *)
LEMMA PostsKeeps ==
  ASSUME PackagesInv, NEW c \in PkgCall, NEW code \in PkgCodes, Posts(c, code)
  PROVE  PackagesInv'
<1> DEFINE r == [call |-> c, code |-> code]
<1>1. /\ asking[c].step = "asked" /\ asking' = [asking EXCEPT ![c].step = "reported"]
      /\ observers' = observers /\ hears' = hears /\ instance' = instance
      /\ IF instance = "live"
         THEN reports' = Append(reports, r) /\ claims' = claims + 1
         ELSE reports' = reports /\ claims' = claims
  BY DEF Posts
<1>2. hears[c] = <<>> /\ asking[c].op \in Operations
  BY <1>1 DEF PackagesInv, HearsInv
<1>3. /\ asking' \in [PkgCall -> [op : PkgOps, package : Package \cup {NoCall.package},
                                 step : {"idle", "asked", "reported", "answered"}]]
      /\ asking'[c].op = asking[c].op /\ asking'[c].step = "reported"
      /\ \A d \in PkgCall \ {c} : asking'[d] = asking[d]
  BY <1>1 DEF PackagesInv, PkgTypes, PkgOps
<1>4. reports \in Seq(PkgReport) /\ r \in PkgReport /\ r.call = c
  BY DEF PackagesInv, PkgTypes, PkgReport
<1>5. \A q \in Range(reports) : q.call \in PkgCall /\ q.call # c
  <2>1. \A q \in Range(reports) : q \in PkgReport
    BY <1>4, RangeOf, ElementOfSeq
  <2> QED BY <1>1, <2>1 DEF PackagesInv, ReportsInv, PkgReport
<1> HIDE DEF r
<1>6. r \notin Range(reports)
  BY <1>4, <1>5
<1>7. CASE instance # "live"
  <2>1. PkgTypes'
    BY <1>1, <1>3, <1>7 DEF PackagesInv, PkgTypes
  <2>2. ClaimsInv'
    BY <1>1, <1>3, <1>7 DEF PackagesInv, ClaimsInv
  <2>3. ReportsInv'
    BY <1>1, <1>3, <1>5, <1>7 DEF PackagesInv, ReportsInv
  <2>4. HearsInv'
    BY <1>1, <1>2, <1>3, <1>7 DEF PackagesInv, HearsInv
  <2> QED BY <2>1, <2>2, <2>3, <2>4 DEF PackagesInv
<1>8. CASE instance = "live"
  <2>1. /\ reports' \in Seq(PkgReport) /\ Len(reports') = Len(reports) + 1
        /\ IsInjective(reports') /\ Range(reports') = Range(reports) \cup {r}
    <3>1. /\ Append(reports, r) \in Seq(PkgReport)
          /\ Len(Append(reports, r)) = Len(reports) + 1
      BY <1>4, AppendProperties
    <3>2. /\ IsInjective(Append(reports, r))
          /\ Range(Append(reports, r)) = Range(reports) \cup {r}
      BY <1>4, <1>6, InjectiveAppend DEF PackagesInv, ReportsInv
    <3> QED BY <1>1, <1>8, <3>1, <3>2
  <2>2. PkgTypes'
    BY <1>1, <1>3, <2>1 DEF PackagesInv, PkgTypes
  <2>3. ClaimsInv'
    <3>1. Cardinality(observers) \in Nat /\ Len(reports) \in Nat
      BY <1>4, LenProperties, FS_CardinalityType DEF PackagesInv, ClaimsInv
    <3> QED BY <1>1, <1>3, <1>8, <2>1, <3>1 DEF PackagesInv, ClaimsInv
  <2>4. ReportsInv'
    BY <1>1, <1>2, <1>3, <1>4, <1>5, <2>1 DEF PackagesInv, ReportsInv
  <2>5. HearsInv'
    BY <1>1, <1>2, <1>3, <1>4, <2>1 DEF PackagesInv, HearsInv
  <2> QED BY <2>2, <2>3, <2>4, <2>5 DEF PackagesInv
<1> QED BY <1>7, <1>8

(* The service frees a listener.                                           *)
LEMMA ListenerFreedKeeps ==
  ASSUME PackagesInv, NEW c \in PkgCall, ListenerFreed(c)
  PROVE  PackagesInv'
<1>1. /\ c \in observers /\ observers' = observers \ {c} /\ claims' = claims - 1
      /\ asking' = asking /\ reports' = reports /\ hears' = hears
      /\ instance' = instance
  BY DEF ListenerFreed
<1>2. /\ IsFiniteSet(observers') /\ Cardinality(observers) \in Nat
      /\ Cardinality(observers') = Cardinality(observers) - 1
      /\ Len(reports) \in Nat
  BY <1>1, FS_RemoveElement, FS_CardinalityType, LenProperties
     DEF PackagesInv, ClaimsInv, PkgTypes
<1>3. ClaimsInv'
  BY <1>1, <1>2 DEF PackagesInv, ClaimsInv
<1> QED BY <1>1, <1>3 DEF PackagesInv, PkgTypes, ReportsInv, HearsInv

(* What the two maps of errors make of a code.                             *)
LEMMA CodeOfEvent ==
  ASSUME NEW r \in PkgReport
  PROVE  Codes(r)[2] = 0 <=> r.code = "ok"
<1>1. r.code \in PkgCodes
  BY DEF PkgReport
<1>2. /\ InstallCodes("ok")[2] = 0 /\ InstallCodes("missing")[2] # 0
      /\ InstallCodes("exists")[2] # 0 /\ InstallCodes("short")[2] # 0
      /\ InstallCodes("no memory")[2] # 0 /\ InstallCodes("other")[2] # 0
  BY SMT DEF InstallCodes
<1>3. /\ UninstallCodes("ok")[2] = 0 /\ UninstallCodes("missing")[2] # 0
      /\ UninstallCodes("exists")[2] # 0 /\ UninstallCodes("short")[2] # 0
      /\ UninstallCodes("no memory")[2] # 0 /\ UninstallCodes("other")[2] # 0
  BY SMT DEF UninstallCodes
<1>4. /\ InstallCodes(r.code)[2] = 0 <=> r.code = "ok"
      /\ UninstallCodes(r.code)[2] = 0 <=> r.code = "ok"
  BY <1>1, <1>2, <1>3, Zenon DEF PkgCodes
<1> QED BY <1>4 DEF Codes

(* A report is taken from the queue: its call hears of it if it can.       *)
LEMMA HandlePmResultKeeps ==
  ASSUME PackagesInv, HandlePmResult
  PROVE  PackagesInv'
<1>1. /\ reports # <<>> /\ reports' = Tail(reports) /\ claims' = claims - 1
      /\ asking' = asking /\ observers' = observers /\ instance' = instance
      /\ IF instance # "live" THEN hears' = hears
         ELSE hears' = [hears EXCEPT ![Head(reports).call] = @ \o
                <<Heard(IF Head(reports).code = "ok" THEN "resolve" ELSE "reject",
                        Codes(Head(reports))[1]),
                  Heard("event", Codes(Head(reports))[2])>>]
  BY DEF HandlePmResult
<1>2. /\ reports \in Seq(PkgReport) /\ Tail(reports) \in Seq(PkgReport)
      /\ Head(reports) \in PkgReport
      /\ Len(reports) \in Nat /\ Len(Tail(reports)) = Len(reports) - 1
      /\ Range(reports) = Range(Tail(reports)) \cup {Head(reports)}
      /\ IsInjective(Tail(reports)) /\ Head(reports) \notin Range(Tail(reports))
  BY <1>1, RangeTail, InjectiveTail, HeadTailProperties, LenProperties
     DEF PackagesInv, PkgTypes, ReportsInv
<1>3. PICK r \in PkgReport : r = Head(reports)
  BY <1>2
<1>4. r.call \in PkgCall /\ r.code \in PkgCodes
  BY DEF PkgReport
<1>5. hears[r.call] = <<>> /\ asking[r.call].step = "reported"
  BY <1>2, <1>3 DEF PackagesInv, ReportsInv
<1>6. \A q \in Range(Tail(reports)) : q.call # r.call
  BY <1>2, <1>3 DEF PackagesInv, ReportsInv
<1> DEFINE told == <<Heard(IF r.code = "ok" THEN "resolve" ELSE "reject", Codes(r)[1]),
                     Heard("event", Codes(r)[2])>>
<1>7. Settles(told) /\ <<>> \o told = told
  <2>1. Len(told) = 2 /\ told[1].what = (IF r.code = "ok" THEN "resolve" ELSE "reject")
        /\ told[2].what = "event" /\ told[2].code = Codes(r)[2]
    BY DEF Heard
  <2>2. Settles(told)
    <3> HIDE DEF told
    <3> QED BY <2>1, CodeOfEvent DEF Settles
  <2>3. told \in Seq({told[1], told[2]})
    OBVIOUS
  <2> HIDE DEF told
  <2>4. <<>> \o told = told
    BY <2>3, ConcatEmptySeq
  <2> QED BY <2>2, <2>4
<1>8. /\ DOMAIN hears' = PkgCall
      /\ hears'[r.call] = IF instance = "live" THEN told ELSE <<>>
      /\ \A d \in PkgCall \ {r.call} : hears'[d] = hears[d]
  <2>1. IF instance # "live" THEN hears' = hears
        ELSE hears' = [hears EXCEPT ![r.call] = @ \o told]
    BY <1>1, <1>3
  <2> HIDE DEF told
  <2> QED BY <1>4, <1>5, <1>7, <2>1 DEF PackagesInv, PkgTypes
<1> HIDE DEF told
<1>9. PkgTypes'
  BY <1>1, <1>2, <1>8 DEF PackagesInv, PkgTypes
<1>10. ClaimsInv'
  <2>1. Cardinality(observers) \in Nat
    BY FS_CardinalityType DEF PackagesInv, ClaimsInv
  <2> QED BY <1>1, <1>2, <2>1 DEF PackagesInv, ClaimsInv
<1>11. ReportsInv'
  <2>1. \A q \in Range(Tail(reports)) : q.call \in PkgCall
    <3>1. \A q \in Range(reports) : q.call \in PkgCall
      <4>1. \A q \in Range(reports) : q \in PkgReport
        BY RangeOf, ElementOfSeq DEF PackagesInv, PkgTypes
      <4> QED BY <4>1 DEF PkgReport
    <3> QED BY <1>2, <3>1
  <2> QED BY <1>1, <1>2, <1>6, <1>8, <2>1 DEF PackagesInv, ReportsInv
<1>12. HearsInv'
  <2>1. ASSUME NEW d \in PkgCall, d # r.call
        PROVE  (\E q \in Range(reports) : q.call = d) =>
                 \E q \in Range(reports') : q.call = d
    BY <1>1, <1>2, <1>3, <2>1
  <2>2. ASSUME NEW d \in PkgCall
        PROVE  /\ asking[d].step \in {"asked", "reported"} <=> asking[d].op \in Operations
               /\ asking[d].step \in {"idle", "asked"} => hears[d] = <<>>
               /\ asking[d].step = "answered" => Len(hears[d]) = 1
               /\ asking[d].step = "reported" =>
                    /\ hears[d] = <<>> \/ Settles(hears[d])
                    /\ hears[d] = <<>> /\ instance = "live" =>
                         \E q \in Range(reports) : q.call = d
    BY DEF PackagesInv, HearsInv
  <2>3. <<>> # told
    BY <1>7 DEF Settles
  <2>4. ASSUME NEW d \in PkgCall
        PROVE  /\ asking'[d].step \in {"asked", "reported"} <=> asking'[d].op \in Operations
               /\ asking'[d].step \in {"idle", "asked"} => hears'[d] = <<>>
               /\ asking'[d].step = "answered" => Len(hears'[d]) = 1
               /\ asking'[d].step = "reported" =>
                    /\ hears'[d] = <<>> \/ Settles(hears'[d])
                    /\ hears'[d] = <<>> /\ instance' = "live" =>
                         \E q \in Range(reports') : q.call = d
    <3>1. CASE d = r.call
      BY <1>1, <1>5, <1>7, <1>8, <2>2, <2>3, <3>1
    <3>2. CASE d # r.call
      BY <1>1, <1>8, <2>1, <2>2, <3>2
    <3> QED BY <3>1, <3>2
  <2> QED BY <2>4 DEF HearsInv
<1> QED BY <1>9, <1>10, <1>11, <1>12 DEF PackagesInv

(* The instance ends.                                                      *)
LEMMA PackagesEndKeeps ==
  ASSUME PackagesInv, PackagesDetached \/ PackagesClosed
  PROVE  PackagesInv'
<1>1. CASE PackagesDetached
  <2>1. /\ instance' = "detached" /\ asking' = asking /\ observers' = observers
        /\ reports' = reports /\ claims' = claims /\ hears' = hears
    BY <1>1 DEF PackagesDetached
  <2> QED BY <2>1 DEF PackagesInv, PkgTypes, ClaimsInv, ReportsInv, HearsInv
<1>2. CASE PackagesClosed
  <2>1. /\ instance' = "closed" /\ asking' = asking /\ observers' = observers
        /\ reports' = <<>> /\ claims' = claims - Len(reports) /\ hears' = hears
    BY <1>2 DEF PackagesClosed
  <2>2. /\ <<>> \in Seq(PkgReport) /\ Len(<<>>) = 0
        /\ Cardinality(observers) \in Nat /\ Len(reports) \in Nat
    BY EmptySeq, LenProperties, FS_CardinalityType DEF PackagesInv, PkgTypes, ClaimsInv
  <2>3. Range(reports') = {} /\ IsInjective(reports')
    BY <2>1 DEF Range, IsInjective
  <2> QED BY <2>1, <2>2, <2>3 DEF PackagesInv, PkgTypes, ClaimsInv, ReportsInv, HearsInv
<1> QED BY <1>1, <1>2

(* At the beginning nothing is asked.                                      *)
LEMMA PackagesStart ==
  ASSUME PackagesInit
  PROVE  PackagesInv
<1>1. NoCall.op = "none" /\ NoCall.step = "idle" /\ NoCall.package \in {NoCall.package}
      /\ NoCall \in [op : {"none"}, package : {NoCall.package}, step : {"idle"}]
  BY DEF NoCall
<1>2. asking = [c \in PkgCall |-> NoCall] /\ observers = {} /\ reports = <<>>
      /\ claims = 0 /\ hears = [c \in PkgCall |-> <<>>] /\ instance = "live"
  BY DEF PackagesInit
<1>3. Range(reports) = {} /\ IsInjective(reports)
  BY <1>2 DEF Range, IsInjective
<1>4. IsFiniteSet({}) /\ Cardinality({}) = 0 /\ <<>> \in Seq(PkgReport) /\ Len(<<>>) = 0
  BY FS_EmptySet, EmptySeq
<1>5. PkgTypes
  BY <1>1, <1>2, <1>4 DEF PkgTypes, PkgOps
<1> QED BY <1>1, <1>2, <1>3, <1>4, <1>5
        DEF PackagesInv, ClaimsInv, ReportsInv, HearsInv, Operations

(* Every step of the packages keeps their invariant.                       *)
LEMMA PackagesKept ==
  ASSUME PackagesInv, [PackagesNext]_paVars
  PROVE  PackagesInv'
<1>1. CASE UNCHANGED paVars
  BY <1>1 DEF PackagesInv, PkgTypes, ClaimsInv, ReportsInv, HearsInv, paVars
<1>2. ASSUME NEW c \in PkgCall, NEW p \in Package, Install(c, p) \/ Uninstall(c, p)
      PROVE  PackagesInv'
  BY <1>2, AsksKeeps DEF Install, Uninstall, Operations
<1>3. ASSUME NEW c \in PkgCall, OnInstallResult(c) \/ OnUninstallResult(c)
      PROVE  PackagesInv'
  BY <1>3, PostsKeeps DEF OnInstallResult, OnUninstallResult, PkgCodes
<1> QED BY <1>1, <1>2, <1>3, WithinKeeps, ListenerFreedKeeps, HandlePmResultKeeps,
           PackagesEndKeeps DEF PackagesNext

(* The feature has as many references to the instance's handle as there    *)
(* are listeners and reports, and a promise of install or uninstall is     *)
(* settled once, by the result of its own operation, with its event.       *)
THEOREM PackagesAreHeard == PackagesSpec => []PackagesHeard
<1>1. PackagesInv /\ [PackagesNext]_paVars => PackagesInv'
  BY PackagesKept
<1>2. PackagesInv => PackagesHeard
  <2>1. SUFFICES ASSUME PackagesInv PROVE PackagesHeard
    OBVIOUS
  <2>2. reports \in Seq(PkgReport)
    BY <2>1 DEF PackagesInv, PkgTypes
  <2>3. ASSUME NEW c \in PkgCall
        PROVE  (\E r \in Range(reports) : r.call = c) <=>
                 (\E i \in DOMAIN reports : reports[i].call = c)
    BY <2>2, RangeOf
  <2>4. Len(<<>>) = 0
    BY EmptySeq
  <2>5. ASSUME NEW c \in PkgCall
        PROVE  /\ asking[c].op \in Operations =>
                    /\ Len(hears[c]) \in {0, 2}
                    /\ hears[c] # <<>> =>
                         /\ asking[c].step = "reported"
                         /\ hears[c][2].what = "event"
                         /\ hears[c][1].what = "resolve" <=> hears[c][2].code = 0
                    /\ asking[c].step = "reported" /\ instance = "live" =>
                         Len(hears[c]) = 2 <=>
                           ~\E i \in DOMAIN reports : reports[i].call = c
               /\ asking[c].step = "answered" => Len(hears[c]) = 1
    BY <2>1, <2>3, <2>4 DEF PackagesInv, HearsInv, ReportsInv, Settles
  <2> QED BY <2>1, <2>5 DEF PackagesInv, ClaimsInv, PackagesHeard
<1> QED BY <1>1, <1>2, PackagesStart, PTL DEF PackagesSpec

-----------------------------------------------------------------------------
(***************************************************************************)
(* Requests of system.brightness: while the instance is there its list     *)
(* holds the requests that run and those that were refused and left in it, *)
(* so that its end frees each of them once more.                           *)
(***************************************************************************)
RequestNode == [step : {"idle", "running", "ended", "listed", "left", "late"},
                node : 0..2, param : 0..2]
Tellings == {<<>>, <<"success">>, BothCalled}
UvEnds == IF uv = "open" THEN 0 ELSE 1

(* The count of Frees, step by step.                                       *)
Counts(n, ends) ==
  /\ n.step = "idle" => n.node = 0 /\ n.param = 0
  /\ n.step = "running" => n.node = ends /\ n.param = ends
  /\ n.step = "ended" => n.node = 1 /\ n.param = 1
  /\ n.step = "listed" => n.node = ends /\ n.param = 1 + ends
  /\ n.step \in {"left", "late"} => n.node = 2 /\ n.param = 2

BrightnessInv ==
  /\ asked \in [Setting -> RequestNode]
  /\ said \in [Setting -> Tellings]
  /\ uv \in {"open", "closed", "kept"}
  /\ uv = "open" => inList = {c \in Setting : asked[c].step \in {"running", "listed"}}
  /\ \A c \in Setting :
       /\ Counts(asked[c], UvEnds)
       /\ asked[c].step = "ended" => said[c] = BothCalled
       /\ asked[c].step = "left" => uv # "open"
       /\ asked[c].step = "late" => uv = "kept"

(* A node and its arguments are freed once more.                           *)
LEMMA FreedMore ==
  ASSUME NEW n \in RequestNode, n.node \in 0..1, n.param \in 0..1
  PROVE  LET m == FreedOnceMore(n)
         IN  /\ m \in RequestNode /\ m.step = n.step
             /\ m.node = n.node + 1 /\ m.param = n.param + 1
<1>1. PICK i \in 0..2, j \in 0..2 : i = n.node + 1 /\ j = n.param + 1
  OBVIOUS
<1>2. FreedOnceMore(n) = [n EXCEPT !.node = i, !.param = j]
  BY <1>1 DEF FreedOnceMore
<1> QED BY <1>1, <1>2 DEF RequestNode

(* A node that is freed once more and goes to another step.                *)
LEMMA SteppedMore ==
  ASSUME NEW n \in RequestNode, NEW s \in {"ended", "left", "late"}
  PROVE  LET m == [FreedOnceMore(n) EXCEPT !.step = s]
         IN  /\ n.node = 0 /\ n.param = 0 =>
                  m \in RequestNode /\ m.step = s /\ m.node = 1 /\ m.param = 1
             /\ n.node = 1 /\ n.param = 1 =>
                  m \in RequestNode /\ m.step = s /\ m.node = 2 /\ m.param = 2
<1>1. ASSUME NEW k \in 0..1, NEW i \in 1..2, i = k + 1, n.node = k, n.param = k
      PROVE  LET m == [FreedOnceMore(n) EXCEPT !.step = s]
             IN  m \in RequestNode /\ m.step = s /\ m.node = i /\ m.param = i
  <2>1. FreedOnceMore(n) = [n EXCEPT !.node = i, !.param = i]
    BY <1>1 DEF FreedOnceMore
  <2>2. PICK f : f = [n EXCEPT !.node = i, !.param = i]
    OBVIOUS
  <2>3. n \in RequestNode /\ i \in 0..2
    BY <1>1
  <2>4. f \in RequestNode /\ f.node = i /\ f.param = i
    BY ONLY <2>2, <2>3 DEF RequestNode
  <2> QED BY <2>1, <2>2, <2>4 DEF RequestNode
<1>2. 1 = 0 + 1 /\ 2 = 1 + 1
  OBVIOUS
<1> QED BY <1>1, <1>2

(* A request is made.                                                      *)
LEMMA SetupKeeps ==
  ASSUME BrightnessInv, NEW c \in Setting, Setup(c)
  PROVE  BrightnessInv'
<1>1. /\ asked[c] \in RequestNode /\ asked[c].step = "idle" /\ asked[c].node = 0
      /\ asked[c].param = 0
  BY DEF BrightnessInv, Setup, Counts
<1>2. uv = "open" /\ uv' = uv /\ UvEnds' = UvEnds /\ UvEnds = 0
  BY DEF Setup, UvEnds
<1>3. CASE /\ asked' = [asked EXCEPT ![c].step = "running"]
           /\ inList' = inList \cup {c} /\ UNCHANGED said
  <2>1. /\ asked' \in [Setting -> RequestNode]
        /\ asked'[c].step = "running" /\ asked'[c].node = 0 /\ asked'[c].param = 0
        /\ \A d \in Setting \ {c} : asked'[d] = asked[d]
    BY <1>1, <1>3 DEF BrightnessInv, RequestNode
  <2> QED BY <1>1, <1>2, <1>3, <2>1 DEF BrightnessInv, Counts
<1>4. CASE /\ asked' = [asked EXCEPT ![c] = Ended(FreedOnceMore(@))]
           /\ DoCallback(c) /\ UNCHANGED inList
  <2>1. PICK m \in RequestNode : /\ m = Ended(FreedOnceMore(asked[c]))
                                 /\ m.step = "ended" /\ m.node = 1 /\ m.param = 1
    BY <1>1, SteppedMore DEF Ended
  <2>2. /\ asked' \in [Setting -> RequestNode]
        /\ asked'[c] = m
        /\ \A d \in Setting \ {c} : asked'[d] = asked[d]
    BY <1>4, <2>1 DEF BrightnessInv
  <2> QED BY <1>1, <1>2, <1>4, <2>1, <2>2 DEF BrightnessInv, Counts, DoCallback, Tellings
<1>5. CASE /\ asked' = [asked EXCEPT ![c].step = "listed", ![c].param = 1]
           /\ inList' = inList \cup {c}
           /\ DoCallback(c) \/ UNCHANGED said
  <2>1. /\ asked' \in [Setting -> RequestNode]
        /\ asked'[c].step = "listed" /\ asked'[c].node = 0 /\ asked'[c].param = 1
        /\ \A d \in Setting \ {c} : asked'[d] = asked[d]
    BY <1>1, <1>5 DEF BrightnessInv, RequestNode
  <2>2. /\ said' \in [Setting -> Tellings]
        /\ \A d \in Setting \ {c} : said'[d] = said[d]
    BY <1>5 DEF BrightnessInv, DoCallback, Tellings
  <2> QED BY <1>1, <1>2, <1>5, <2>1, <2>2 DEF BrightnessInv, Counts
<1> QED BY <1>3, <1>4, <1>5 DEF Setup

(* A request is answered.                                                  *)
LEMMA CbKeeps ==
  ASSUME BrightnessInv, NEW c \in Setting, BrightnessCb(c)
  PROVE  BrightnessInv'
<1>1. /\ asked[c] \in RequestNode /\ asked[c].step = "running" /\ uv = "open"
      /\ asked' = [asked EXCEPT ![c] = Ended(FreedOnceMore(@))]
      /\ inList' = inList \ {c} /\ uv' = uv /\ DoCallback(c)
      /\ UvEnds = 0 /\ UvEnds' = 0
  BY DEF BrightnessInv, BrightnessCb, UvEnds
<1>2. asked[c].node = 0 /\ asked[c].param = 0
  BY <1>1 DEF BrightnessInv, Counts
<1>3. PICK m \in RequestNode : /\ m = Ended(FreedOnceMore(asked[c]))
                               /\ m.step = "ended" /\ m.node = 1 /\ m.param = 1
  BY <1>1, <1>2, SteppedMore DEF Ended
<1>4. /\ asked' \in [Setting -> RequestNode]
      /\ asked'[c] = m
      /\ \A d \in Setting \ {c} : asked'[d] = asked[d]
  BY <1>1, <1>3 DEF BrightnessInv
<1> QED BY <1>1, <1>3, <1>4 DEF BrightnessInv, Counts, DoCallback, Tellings

(* What the end of the instance makes of each request.                     *)
LEMMA DetachedIs ==
  ASSUME BrightnessInv, uv = "open", NEW c \in Setting
  PROVE  /\ Detached[c] \in RequestNode /\ Detached[c].step = asked[c].step
         /\ Counts(Detached[c], 1)
         /\ asked[c].step = "running" => Detached[c].node = 1 /\ Detached[c].param = 1
<1>1. /\ asked[c] \in RequestNode /\ Counts(asked[c], 0)
      /\ c \in inList <=> asked[c].step \in {"running", "listed"}
  BY DEF BrightnessInv, UvEnds
<1>2. Detached[c] = IF c \in inList THEN FreedOnceMore(asked[c]) ELSE asked[c]
  BY DEF Detached
<1>3. CASE c \in inList
  <2>1. asked[c].node = 0 /\ asked[c].param \in 0..1
    BY <1>1, <1>3 DEF Counts
  <2>2. PICK m \in RequestNode :
          /\ m = Detached[c] /\ m.step = asked[c].step
          /\ m.node = asked[c].node + 1 /\ m.param = asked[c].param + 1
    BY <1>1, <1>2, <1>3, <2>1, FreedMore
  <2> QED BY <1>1, <1>3, <2>1, <2>2 DEF Counts
<1>4. CASE c \notin inList
  BY <1>1, <1>2, <1>4 DEF Counts
<1> QED BY <1>3, <1>4

(* The instance ends: the requests in the list are freed.                  *)
LEMMA BrightnessDetachedKeeps ==
  ASSUME BrightnessInv, BrightnessDetached
  PROVE  BrightnessInv'
<1>1. /\ uv = "open" /\ uv' \in {"closed", "kept"} /\ said' = said
      /\ asked' = Detached /\ UvEnds' = 1
  BY DEF BrightnessDetached, UvEnds
<1>2. \A c \in Setting : /\ asked'[c] \in RequestNode /\ asked'[c].step = asked[c].step
                         /\ Counts(asked'[c], 1)
  BY <1>1, DetachedIs
<1>3. asked' \in [Setting -> RequestNode]
  BY <1>1, <1>2 DEF Detached
<1>4. \A c \in Setting : Counts(asked[c], UvEnds)'
  BY <1>1, <1>2
<1> QED BY <1>1, <1>2, <1>3, <1>4 DEF BrightnessInv

(* A function of the answer drops the instance.                            *)
LEMMA CbThatLeavesKeeps ==
  ASSUME BrightnessInv, NEW c \in Setting, CbThatLeaves(c)
  PROVE  BrightnessInv'
<1>1. /\ uv = "open" /\ uv' \in {"closed", "kept"} /\ UvEnds' = 1
      /\ asked[c].step = "running"
      /\ asked' = [Detached EXCEPT ![c] = [FreedOnceMore(@) EXCEPT !.step = "left"]]
  BY DEF CbThatLeaves, UvEnds
<1>2. /\ said' \in [Setting -> Tellings]
      /\ \A d \in Setting \ {c} : said'[d] = said[d]
  BY DEF BrightnessInv, CbThatLeaves, Tellings
<1>3. Detached[c] \in RequestNode /\ Detached[c].node = 1 /\ Detached[c].param = 1
  BY <1>1, DetachedIs
<1>4. PICK m \in RequestNode : /\ m = [FreedOnceMore(Detached[c]) EXCEPT !.step = "left"]
                               /\ m.step = "left" /\ m.node = 2 /\ m.param = 2
  BY <1>3, SteppedMore DEF Ended
<1>5. Detached \in [Setting -> RequestNode]
  BY DetachedIs, <1>1 DEF Detached
<1>6. /\ asked' \in [Setting -> RequestNode] /\ asked'[c] = m
      /\ \A d \in Setting \ {c} : asked'[d] = Detached[d]
  BY <1>1, <1>4, <1>5
<1>7. ASSUME NEW d \in Setting
      PROVE  /\ Counts(asked'[d], 1)
             /\ asked'[d].step = "ended" => said'[d] = BothCalled
             /\ asked'[d].step # "late"
  <2>1. CASE d = c
    BY <1>4, <1>6, <2>1 DEF Counts
  <2>2. CASE d # c
    <3>1. /\ asked'[d] = Detached[d] /\ asked'[d].step = asked[d].step
          /\ Counts(Detached[d], 1)
      BY <1>1, <1>6, <2>2, DetachedIs
    <3> QED BY <1>1, <1>2, <2>2, <3>1 DEF BrightnessInv
  <2> QED BY <2>1, <2>2
<1>8. \A d \in Setting : Counts(asked[d], UvEnds)'
  BY <1>1, <1>7
<1> QED BY <1>1, <1>2, <1>6, <1>7, <1>8 DEF BrightnessInv

(* An answer comes after a recovery that failed.                           *)
LEMMA LateCbKeeps ==
  ASSUME BrightnessInv, NEW c \in Setting, LateCb(c)
  PROVE  BrightnessInv'
<1>1. /\ uv = "kept" /\ uv' = uv /\ UvEnds = 1 /\ UvEnds' = 1
      /\ asked[c] \in RequestNode /\ asked[c].step = "running"
      /\ asked' = [asked EXCEPT ![c] = [FreedOnceMore(@) EXCEPT !.step = "late"]]
  BY DEF LateCb, UvEnds, BrightnessInv
<1>2. asked[c].node = 1 /\ asked[c].param = 1
  BY <1>1 DEF BrightnessInv, Counts
<1>3. PICK m \in RequestNode : /\ m = [FreedOnceMore(asked[c]) EXCEPT !.step = "late"]
                               /\ m.step = "late" /\ m.node = 2 /\ m.param = 2
  BY <1>1, <1>2, SteppedMore DEF Ended
<1>4. /\ asked' \in [Setting -> RequestNode] /\ asked'[c] = m
      /\ \A d \in Setting \ {c} : asked'[d] = asked[d]
  BY <1>1, <1>3 DEF BrightnessInv
<1>5. /\ said' \in [Setting -> Tellings]
      /\ \A d \in Setting \ {c} : said'[d] = said[d]
  BY DEF BrightnessInv, LateCb, DoCallback, Tellings
<1> QED BY <1>1, <1>3, <1>4, <1>5 DEF BrightnessInv, Counts

(* Every step of the brightness keeps its invariant.                       *)
LEMMA BrightnessKept ==
  ASSUME BrightnessInv, [BrightnessNext]_brVars
  PROVE  BrightnessInv'
<1>1. CASE UNCHANGED brVars
  BY <1>1 DEF BrightnessInv, brVars, UvEnds
<1> QED BY <1>1, SetupKeeps, CbKeeps, CbThatLeavesKeeps, LateCbKeeps,
           BrightnessDetachedKeeps DEF BrightnessNext

(* The invariant is the account that is checked.                           *)
LEMMA BrightnessCounts == BrightnessInv => BrightnessFrees
<1>1. SUFFICES ASSUME BrightnessInv, NEW c \in Setting
               PROVE  /\ [node |-> asked[c].node, param |-> asked[c].param] =
                           Frees(asked[c].step, UvEnds)
                      /\ asked[c].step = "ended" => said[c] = BothCalled
                      /\ asked[c].step = "left" => uv # "open"
                      /\ asked[c].step = "late" => uv = "kept"
  BY DEF BrightnessFrees, UvEnds
<1>2. asked[c] \in RequestNode /\ Counts(asked[c], UvEnds)
  BY <1>1 DEF BrightnessInv
<1>3. PICK s, i, j, e : s = asked[c].step /\ i = asked[c].node /\ j = asked[c].param
                        /\ e = UvEnds
  OBVIOUS
<1>4. [node |-> i, param |-> j] = Frees(s, e)
  <2>1. CASE s = "idle"
    BY <1>2, <1>3, <2>1 DEF Counts, Frees
  <2>2. CASE s = "running"
    BY <1>2, <1>3, <2>2 DEF Counts, Frees
  <2>3. CASE s = "ended"
    BY <1>2, <1>3, <2>3 DEF Counts, Frees
  <2>4. CASE s = "listed"
    BY <1>2, <1>3, <2>4 DEF Counts, Frees
  <2>5. CASE s \in {"left", "late"}
    BY <1>2, <1>3, <2>5 DEF Counts, Frees
  <2> QED BY <1>2, <1>3, <2>1, <2>2, <2>3, <2>4, <2>5 DEF RequestNode
<1> QED BY <1>1, <1>3, <1>4 DEF BrightnessInv

(* The node of each call of system.brightness and its arguments are freed  *)
(* once, by the answer of uv_brightness or by the end of the instance, and *)
(* twice in the cases BrightnessFrees names and no other, among them the   *)
(* setKeepScreenOn that is refused; a call that was answered has heard.    *)
THEOREM BrightnessFreesAsTold == BrightnessSpec => []BrightnessFrees
<1>1. BrightnessInit => BrightnessInv
  BY DEF BrightnessInit, BrightnessInv, RequestNode, Counts, Tellings
<1>2. BrightnessInv /\ [BrightnessNext]_brVars => BrightnessInv'
  BY BrightnessKept
<1> QED BY <1>1, <1>2, BrightnessCounts, PTL DEF BrightnessSpec

-----------------------------------------------------------------------------
(***************************************************************************)
(* Gestures of system.test.input, for any number of them: the handles are  *)
(* those of the requests that are under way, and once the generator is     *)
(* destroyed the page has ended, so that whoever strays is told nothing.   *)
(***************************************************************************)
UnderWay == {c \in Gesture : ir[c] \in {"queued", "performing", "performed"}}

InputInv ==
  /\ ir \in [Gesture -> {"idle", "queued", "performing", "performed", "freed"}]
  /\ irResult \in [Gesture -> {"unset", "ok", "failed"}]
  /\ irParams \in [Gesture -> {0, 1}]
  /\ gestured \in [Gesture -> {"nothing", "resolve", "reject"}]
  /\ IsFiniteSet(UnderWay) /\ irHandles = Cardinality(UnderWay)
  /\ inputCtx \in {"none", "made", "destroyed"}
  /\ inputCtx = "destroyed" => inputPage = "detached"
  /\ \A c \in Gesture :
       /\ ir[c] # "freed" => irParams[c] = 0 /\ gestured[c] = "nothing"
       /\ c \in strayed => gestured[c] = "nothing" /\ inputPage = "detached"
       /\ c \in strayed => ir[c] \in {"performed", "freed"}
       /\ ir[c] \in {"queued", "performing"} => inputCtx # "none"
       /\ ir[c] = "freed" /\ gestured[c] = "nothing" => inputPage = "detached"
       /\ gestured[c] = "resolve" => irResult[c] = "ok"

(* A gesture is refused before it is queued.                               *)
LEMMA RefusedKeeps ==
  ASSUME InputInv, NEW c \in Gesture, InputRefused(c)
  PROVE  InputInv'
<1>1. /\ ir[c] = "idle" /\ ir' = [ir EXCEPT ![c] = "freed"]
      /\ gestured[c] = "nothing" /\ irParams[c] = 0
      /\ gestured' = [gestured EXCEPT ![c] = "reject"]
      /\ irParams' \in {irParams, [irParams EXCEPT ![c] = 1]}
      /\ irResult' = irResult /\ irHandles' = irHandles /\ strayed' = strayed
      /\ inputCtx' = inputCtx /\ inputPage' = inputPage
  <2>1. ir[c] = "idle" /\ gestured[c] = "nothing" /\ irParams[c] = 0
    BY DEF InputInv, InputRefused
  <2> QED BY <2>1 DEF InputInv, InputRefused, Goes, TellsOnce
<1>2. UnderWay' = UnderWay
  BY <1>1 DEF UnderWay, InputInv
<1> QED BY <1>1, <1>2 DEF InputInv

(* A gesture is queued.                                                    *)
LEMMA QueuedKeeps ==
  ASSUME InputInv, NEW c \in Gesture, QueueAsyncWork(c)
  PROVE  InputInv'
<1>1. /\ ir[c] = "idle" /\ ir' = [ir EXCEPT ![c] = "queued"]
      /\ irHandles' = irHandles + 1 /\ inputCtx = "made" /\ strayed' = strayed
      /\ irResult' = irResult /\ irParams' = irParams /\ gestured' = gestured
      /\ inputCtx' = inputCtx /\ inputPage' = inputPage
  BY DEF QueueAsyncWork, Goes
<1>2. UnderWay' = UnderWay \cup {c} /\ c \notin UnderWay
  BY <1>1 DEF UnderWay, InputInv
<1>3. IsFiniteSet(UnderWay') /\ Cardinality(UnderWay') = Cardinality(UnderWay) + 1
  BY <1>2, FS_AddElement DEF InputInv
<1> QED BY <1>1, <1>3 DEF InputInv

(* A thread of the pool performs a gesture.                                *)
LEMMA PerformedKeeps ==
  ASSUME InputInv, NEW c \in Gesture, WorkBegins(c) \/ WorkPerforms(c)
  PROVE  InputInv'
<1>1. /\ ir[c] \in {"queued", "performing"}
      /\ ir' \in {[ir EXCEPT ![c] = "performing"], [ir EXCEPT ![c] = "performed"]}
      /\ irHandles' = irHandles /\ irParams' = irParams /\ gestured' = gestured
      /\ inputCtx' = inputCtx /\ inputPage' = inputPage
      /\ irResult' \in {irResult, [irResult EXCEPT ![c] = "ok"],
                        [irResult EXCEPT ![c] = "failed"]}
      /\ \/ strayed' = strayed
         \/ /\ ir[c] = "performing" /\ ir'[c] = "performed"
            /\ inputCtx # "made" /\ strayed' = strayed \cup {c}
  BY DEF WorkBegins, WorkPerforms, Goes, InputInv
<1>2. UnderWay' = UnderWay
  BY <1>1 DEF UnderWay, InputInv
<1>3. gestured[c] = "nothing"
  BY <1>1 DEF InputInv
<1> QED BY <1>1, <1>2, <1>3 DEF InputInv

(* Back on the loop a gesture is answered and freed.                       *)
LEMMA AfterInputKeeps ==
  ASSUME InputInv, NEW c \in Gesture, AfterInput(c)
  PROVE  InputInv'
<1>1. /\ ir[c] = "performed" /\ ir' = [ir EXCEPT ![c] = "freed"]
      /\ irHandles' = irHandles - 1 /\ irParams' = [irParams EXCEPT ![c] = @ + 1]
      /\ gestured' = IF inputPage = "detached" THEN gestured
                     ELSE [gestured EXCEPT ![c] =
                             IF irResult[c] = "ok" THEN "resolve" ELSE "reject"]
      /\ inputCtx' = inputCtx /\ inputPage' = inputPage /\ irResult' = irResult
      /\ strayed' = strayed
  <2>1. gestured[c] = "nothing"
    BY DEF AfterInput, InputInv
  <2> QED BY <2>1 DEF AfterInput, FreeInputReq, Goes, TellsOnce, InputInv
<1>2. UnderWay' = UnderWay \ {c} /\ c \in UnderWay
  BY <1>1 DEF UnderWay, InputInv
<1>3. IsFiniteSet(UnderWay') /\ Cardinality(UnderWay') = Cardinality(UnderWay) - 1
  BY <1>2, FS_RemoveElement DEF InputInv
<1>4. irParams[c] = 0 /\ gestured[c] = "nothing"
  BY <1>1 DEF InputInv
<1>5. irParams' \in [Gesture -> {0, 1}]
  BY <1>1, <1>4 DEF InputInv
<1>6. gestured' \in [Gesture -> {"nothing", "resolve", "reject"}]
  BY <1>1 DEF InputInv
<1>7. \A d \in Gesture :
        /\ d \in strayed' => gestured'[d] = "nothing" /\ inputPage' = "detached"
        /\ d \in strayed' => ir'[d] \in {"performed", "freed"}
        /\ ir'[d] \in {"queued", "performing"} => inputCtx' # "none"
  BY <1>1, <1>4 DEF InputInv
<1>8. \A d \in Gesture :
        /\ ir'[d] # "freed" => irParams'[d] = 0 /\ gestured'[d] = "nothing"
        /\ ir'[d] = "freed" /\ gestured'[d] = "nothing" => inputPage' = "detached"
        /\ gestured'[d] = "resolve" => irResult'[d] = "ok"
  BY <1>1, <1>4 DEF InputInv
<1> QED BY <1>1, <1>3, <1>5, <1>6, <1>7, <1>8 DEF InputInv

(* The page ends, or the feature.                                          *)
LEMMA InputEndKeeps ==
  ASSUME InputInv, InputDetached \/ InputDestroyed
  PROVE  InputInv'
<1>1. UnderWay' = UnderWay
  BY DEF InputDetached, InputDestroyed, UnderWay
<1>2. CASE InputDetached
  BY <1>1, <1>2 DEF InputDetached, InputInv
<1>3. CASE InputDestroyed
  BY <1>1, <1>3 DEF InputDestroyed, InputInv
<1> QED BY <1>2, <1>3

(* Every step of the gestures keeps their invariant.                       *)
LEMMA InputKept ==
  ASSUME InputInv, [InputNext]_iwVars
  PROVE  InputInv'
<1>1. CASE UNCHANGED iwVars
  BY <1>1 DEF InputInv, UnderWay, iwVars
<1> QED BY <1>1, RefusedKeeps, QueuedKeeps, PerformedKeeps, AfterInputKeeps,
           InputEndKeeps DEF InputNext

(* Whatever the threads and the ends of instance and feature do, a request *)
(* holds one handle while it is under way, its arguments are freed once,   *)
(* its promise hears how it went, and of a gesture that is performed after *)
(* onDestroy has destroyed its generator nobody hears.                     *)
THEOREM InputsArePerformed == InputSpec => []InputsPerformed
<1>1. InputInit => InputInv
  <2>1. SUFFICES ASSUME InputInit PROVE InputInv
    OBVIOUS
  <2>2. UnderWay = {}
    BY <2>1 DEF InputInit, UnderWay
  <2> QED BY <2>1, <2>2, FS_EmptySet DEF InputInit, InputInv
<1>2. InputInv /\ [InputNext]_iwVars => InputInv'
  BY InputKept
<1>3. InputInv => InputsPerformed
  BY DEF InputInv, InputsPerformed, UnderWay
<1> QED BY <1>1, <1>2, <1>3, PTL DEF InputSpec

-----------------------------------------------------------------------------
(***************************************************************************)
(* Pictures of system.media, for any calls and any number of ids.          *)
(*                                                                         *)
(* An id goes round: it is in a task to the UI, has a widget, is in the    *)
(* tasks back, and is free again, while the erasure of its last widget may *)
(* still be on its way.  WidgetInv and PictureInv say where each id is, by *)
(* the tasks that name it and by what its call was told; the order of two  *)
(* such tasks is what keeps a reused id from meeting its last life.        *)
(***************************************************************************)
Ids0 == 0..(Ids - 1)
UITasks == {"preview", "erase", "delete"}
AppTasks == {"success", "fail", "complete"}
TaskOf(t, p) == [task |-> t, pid |-> p]
UITask == [task : UITasks, pid : Ids0]
AppTask == [task : AppTasks, pid : Ids0]
ToldBegun == {<<"idle", "shown", o>> : o \in {"success", "fail"}}
ToldAll == {<<"idle">>, <<"idle", "fail">>, <<"idle", "shown">>} \cup ToldBegun
           \cup {<<"idle", "shown", o, "complete">> : o \in {"success", "fail"}}

(* a comes before b in s. *)
Before(s, a, b) ==
  \A i, j \in DOMAIN s : s[i] = a /\ s[j] = b => i < j

InUI(t, p) == TaskOf(t, p) \in Range(toUI)
InApp(t, p) == TaskOf(t, p) \in Range(toApp)
Widget(p) == IF p \in DOMAIN widgets THEN widgets[p] ELSE "none"

PvTypes ==
  /\ DOMAIN pictures \subseteq Ids0 /\ \A p \in DOMAIN pictures : pictures[p] \in Preview
  /\ DOMAIN widgets \subseteq Ids0
  /\ \A p \in DOMAIN widgets : widgets[p] \in {"shown", "told", "complete"}
  /\ nextId \in Ids0 /\ toUI \in Seq(UITask) /\ IsInjective(toUI)
  /\ toApp \in Seq(AppTask) /\ heeds \in [Preview -> ToldAll]
  /\ managing \in {"yes", "detached", "no"} /\ misled = FALSE

(* The UI's side of an id, until its part of the manager is deleted. *)
WidgetInv(p) ==
  /\ InUI("erase", p) <=> Widget(p) = "complete"
  /\ InUI("preview", p) =>
       /\ Widget(p) \in {"none", "complete"}
       /\ Before(toUI, TaskOf("erase", p), TaskOf("preview", p))
       /\ Before(toUI, TaskOf("preview", p), TaskOf("delete", 0))

(* The deletion is posted once, after every picture. *)
EndInv ==
  /\ InUI("delete", 0) <=> managing = "detached"
  /\ \A p \in Ids0 : InUI("delete", p) => p = 0
  /\ managing # "yes" => DOMAIN pictures = {}
  /\ managing = "no" =>
       DOMAIN widgets = {} /\ \A p \in Ids0 : ~InUI("preview", p)

(* The application's side of an id, while there is a manager. *)
PictureInv(p) ==
  IF p \notin DOMAIN pictures
  THEN /\ ~InUI("preview", p) /\ Widget(p) \in {"none", "complete"}
       /\ \A t \in AppTasks : ~InApp(t, p)
  ELSE /\ heeds[pictures[p]] \in {<<"idle", "shown">>} \cup ToldBegun
       /\ heeds[pictures[p]] = <<"idle", "shown">> <=>
            \/ InUI("preview", p) \/ Widget(p) = "shown"
            \/ InApp("success", p) \/ InApp("fail", p)
       /\ InUI("preview", p) \/ Widget(p) = "shown" =>
            \A t \in AppTasks : ~InApp(t, p)
       /\ InApp("complete", p) <=>
            ~InUI("preview", p) /\ Widget(p) \in {"none", "complete"}
       /\ ~(InApp("success", p) /\ InApp("fail", p))
       /\ \A t \in {"success", "fail"} :
            Before(toApp, TaskOf(t, p), TaskOf("complete", p))

PicturesInv ==
  /\ \A p \in Ids0 : PictureInv(p)
  /\ IsInjective(toApp)
  /\ \A i, j \in DOMAIN pictures : pictures[i] = pictures[j] => i = j

PreviewsInv ==
  /\ PvTypes /\ EndInv
  /\ managing # "no" => \A p \in Ids0 : WidgetInv(p)
  /\ managing = "yes" => PicturesInv

(* An element at the end comes after all others.                           *)
LEMMA BeforeAppend ==
  ASSUME NEW T, NEW s \in Seq(T), NEW x \in T, NEW a, NEW b, Before(s, a, b),
         a # b, x # a \/ b \notin Range(s)
  PROVE  Before(Append(s, x), a, b)
<1>1. /\ Append(s, x) \in Seq(T) /\ Len(Append(s, x)) = Len(s) + 1 /\ Len(s) \in Nat
      /\ Append(s, x)[Len(s) + 1] = x
      /\ \A i \in 1..Len(s) : Append(s, x)[i] = s[i]
  BY AppendProperties, LenProperties
<1>2. DOMAIN Append(s, x) = 1..(Len(s) + 1) /\ DOMAIN s = 1..Len(s)
  BY <1>1, LenProperties
<1>3. SUFFICES ASSUME NEW i \in 1..(Len(s) + 1), NEW j \in 1..(Len(s) + 1),
                      Append(s, x)[i] = a, Append(s, x)[j] = b
               PROVE  i < j
  BY <1>2 DEF Before
<1>4. CASE i \in 1..Len(s) /\ j \in 1..Len(s)
  BY <1>1, <1>2, <1>3, <1>4 DEF Before
<1>5. CASE i = Len(s) + 1
  <2>1. x = a
    BY <1>1, <1>3, <1>5
  <2>2. j \in 1..Len(s)
    BY <1>1, <1>3, <1>5
  <2>3. s[j] = b
    BY <1>1, <1>3, <2>2
  <2>4. b \in Range(s)
    BY <2>2, <2>3, RangeOf
  <2> QED BY <2>1, <2>4
<1>6. CASE i \in 1..Len(s) /\ j = Len(s) + 1
  BY <1>1, <1>6
<1> QED BY <1>1, <1>4, <1>5, <1>6

(* What is not there comes before anything.                                *)
LEMMA BeforeAbsent ==
  ASSUME NEW T, NEW s \in Seq(T), NEW a, NEW b, a \notin Range(s) \/ b \notin Range(s)
  PROVE  Before(s, a, b)
BY RangeOf, LenProperties DEF Before

(* The order stays when the first goes, which has nothing before it.       *)
LEMMA BeforeTail ==
  ASSUME NEW T, NEW s \in Seq(T), s # <<>>, NEW a, NEW b, Before(s, a, b)
  PROVE  /\ Before(Tail(s), a, b)
         /\ Head(s) = b /\ a # b => a \notin Range(s)
<1>1. /\ Tail(s) \in Seq(T) /\ Head(s) = s[1] /\ Len(Tail(s)) = Len(s) - 1
      /\ Len(s) \in Nat \ {0} /\ \A i \in 1..Len(s) - 1 : Tail(s)[i] = s[i + 1]
  BY HeadTailProperties, LenProperties, EmptySeq
<1>2. DOMAIN Tail(s) = 1..(Len(s) - 1) /\ DOMAIN s = 1..Len(s)
  BY <1>1, LenProperties
<1>3. ASSUME NEW i \in 1..(Len(s) - 1), NEW j \in 1..(Len(s) - 1),
             Tail(s)[i] = a, Tail(s)[j] = b
      PROVE  i < j
  <2>1. i + 1 \in DOMAIN s /\ j + 1 \in DOMAIN s /\ s[i + 1] = a /\ s[j + 1] = b
    BY <1>1, <1>2, <1>3
  <2>2. i + 1 < j + 1
    BY <2>1 DEF Before
  <2> QED BY <2>2
<1>4. ASSUME Head(s) = b, a # b, a \in Range(s)
      PROVE  FALSE
  <2>1. PICK i \in 1..Len(s) : s[i] = a
    BY <1>4, RangeOf
  <2>2. 1 \in DOMAIN s /\ s[1] = b
    BY <1>1, <1>2, <1>4
  <2>3. i < 1
    BY <1>2, <2>1, <2>2 DEF Before
  <2> QED BY <2>1, <2>3
<1> QED BY <1>2, <1>3, <1>4 DEF Before

(* Tasks of different kinds, or of different ids, are different tasks.     *)
LEMMA TasksDiffer ==
  ASSUME NEW t, NEW p, NEW u, NEW q
  PROVE  /\ TaskOf(t, p).task = t /\ TaskOf(t, p).pid = p
         /\ TaskOf(t, p) = TaskOf(u, q) <=> t = u /\ p = q
<1>1. TaskOf(t, p).task = t /\ TaskOf(t, p).pid = p /\ TaskOf(u, q).task = u
      /\ TaskOf(u, q).pid = q
  BY DEF TaskOf
<1>2. t = u /\ p = q => TaskOf(t, p) = TaskOf(u, q)
  BY DEF TaskOf
<1> QED BY <1>1, <1>2

(* A task is posted to either thread.                                      *)
LEMMA UIAppends ==
  ASSUME toUI \in Seq(UITask), IsInjective(toUI), NEW t \in UITasks, NEW p \in Ids0,
         ~InUI(t, p), toUI' = Append(toUI, TaskOf(t, p))
  PROVE  /\ toUI' \in Seq(UITask) /\ IsInjective(toUI')
         /\ \A u, q : InUI(u, q)' <=> InUI(u, q) \/ (u = t /\ q = p)
         /\ \A a, b : Before(toUI, a, b) /\ a # b
                      /\ (TaskOf(t, p) # a \/ b \notin Range(toUI)) => Before(toUI', a, b)
<1>1. TaskOf(t, p) \in UITask
  BY DEF TaskOf, UITask
<1>2. /\ IsInjective(toUI') /\ Range(toUI') = Range(toUI) \cup {TaskOf(t, p)}
      /\ toUI' \in Seq(UITask)
  BY <1>1, InjectiveAppend, AppendProperties DEF InUI
<1>3. \A u, q : TaskOf(u, q) = TaskOf(t, p) <=> u = t /\ q = p
  BY TasksDiffer
<1>4. \A u, q : InUI(u, q)' <=> InUI(u, q) \/ (u = t /\ q = p)
  BY <1>2, <1>3 DEF InUI
<1>5. \A a, b : Before(toUI, a, b) /\ a # b
                /\ (TaskOf(t, p) # a \/ b \notin Range(toUI)) => Before(toUI', a, b)
  BY <1>1, BeforeAppend
<1> QED BY <1>2, <1>4, <1>5

(* What a task posted to the app changes of the order of the tasks there.  *)
LEMMA AppAppends ==
  ASSUME toApp \in Seq(AppTask), NEW t \in AppTasks, NEW p \in Ids0,
         toApp' = Append(toApp, TaskOf(t, p))
  PROVE  /\ toApp' \in Seq(AppTask)
         /\ IsInjective(toApp) /\ ~InApp(t, p) => IsInjective(toApp')
         /\ \A u, q : InApp(u, q)' <=> InApp(u, q) \/ (u = t /\ q = p)
         /\ \A a, b : Before(toApp, a, b) /\ a # b
                      /\ (TaskOf(t, p) # a \/ b \notin Range(toApp)) => Before(toApp', a, b)
<1>1. TaskOf(t, p) \in AppTask
  BY DEF TaskOf, AppTask
<1>2. toApp' \in Seq(AppTask) /\ Range(toApp') = Range(toApp) \cup {TaskOf(t, p)}
  BY <1>1, RangeOfAppend, AppendProperties
<1>3. IsInjective(toApp) /\ ~InApp(t, p) => IsInjective(toApp')
  BY <1>1, InjectiveAppend DEF InApp
<1>4. \A u, q : TaskOf(u, q) = TaskOf(t, p) <=> u = t /\ q = p
  BY TasksDiffer
<1>5. \A u, q : InApp(u, q)' <=> InApp(u, q) \/ (u = t /\ q = p)
  BY <1>2, <1>4 DEF InApp
<1>6. \A a, b : Before(toApp, a, b) /\ a # b
                /\ (TaskOf(t, p) # a \/ b \notin Range(toApp)) => Before(toApp', a, b)
  BY <1>1, BeforeAppend
<1> QED BY <1>2, <1>3, <1>5, <1>6

(* The first task of either is run.                                        *)
LEMMA UIRuns ==
  ASSUME toUI \in Seq(UITask), IsInjective(toUI), toUI # <<>>, toUI' = Tail(toUI)
  PROVE  \E t \in UITasks, p \in Ids0 :
           /\ Head(toUI) = TaskOf(t, p) /\ Head(toUI).task = t /\ Head(toUI).pid = p
           /\ InUI(t, p) /\ toUI' \in Seq(UITask) /\ IsInjective(toUI')
           /\ \A u, q : InUI(u, q)' <=> InUI(u, q) /\ ~(u = t /\ q = p)
           /\ \A a, b : Before(toUI, a, b) => Before(toUI', a, b)
           /\ \A a : Before(toUI, a, TaskOf(t, p)) /\ a # TaskOf(t, p) =>
                       a \notin Range(toUI)
<1>1. /\ Head(toUI) \in UITask /\ toUI' \in Seq(UITask) /\ IsInjective(toUI')
      /\ Range(toUI) = Range(toUI') \cup {Head(toUI)} /\ Head(toUI) \notin Range(toUI')
  BY RangeTail, InjectiveTail
<1>2. PICK t \in UITasks, p \in Ids0 : Head(toUI) = TaskOf(t, p)
  BY <1>1 DEF UITask, TaskOf
<1>3. \A u, q : TaskOf(u, q) = TaskOf(t, p) <=> u = t /\ q = p
  BY TasksDiffer
<1>4. /\ InUI(t, p) /\ Head(toUI).task = t /\ Head(toUI).pid = p
  BY <1>1, <1>2, TasksDiffer DEF InUI
<1>5. \A u, q : InUI(u, q)' <=> InUI(u, q) /\ ~(u = t /\ q = p)
  BY <1>1, <1>2, <1>3 DEF InUI
<1>6. /\ \A a, b : Before(toUI, a, b) => Before(toUI', a, b)
      /\ \A a : Before(toUI, a, TaskOf(t, p)) /\ a # TaskOf(t, p) => a \notin Range(toUI)
  BY <1>2, BeforeTail
<1> QED BY <1>1, <1>2, <1>4, <1>5, <1>6

(* What running the first task of the app changes of that order.           *)
LEMMA AppRuns ==
  ASSUME toApp \in Seq(AppTask), toApp # <<>>, toApp' = Tail(toApp)
  PROVE  \E t \in AppTasks, p \in Ids0 :
           /\ Head(toApp) = TaskOf(t, p) /\ Head(toApp).task = t /\ Head(toApp).pid = p
           /\ InApp(t, p) /\ toApp' \in Seq(AppTask)
           /\ IsInjective(toApp) =>
                /\ IsInjective(toApp')
                /\ \A u, q : InApp(u, q)' <=> InApp(u, q) /\ ~(u = t /\ q = p)
           /\ \A a, b : Before(toApp, a, b) => Before(toApp', a, b)
           /\ \A a : Before(toApp, a, TaskOf(t, p)) /\ a # TaskOf(t, p) =>
                       a \notin Range(toApp)
<1>1. /\ Head(toApp) \in AppTask /\ toApp' \in Seq(AppTask)
      /\ Range(toApp) = Range(toApp') \cup {Head(toApp)}
      /\ IsInjective(toApp) => IsInjective(toApp') /\ Head(toApp) \notin Range(toApp')
  BY RangeTail, InjectiveTail
<1>2. PICK t \in AppTasks, p \in Ids0 : Head(toApp) = TaskOf(t, p)
  BY <1>1 DEF AppTask, TaskOf
<1>3. \A u, q : TaskOf(u, q) = TaskOf(t, p) <=> u = t /\ q = p
  BY TasksDiffer
<1>4. /\ InApp(t, p) /\ Head(toApp).task = t /\ Head(toApp).pid = p
  BY <1>1, <1>2, TasksDiffer DEF InApp
<1>5. IsInjective(toApp) => \A u, q : InApp(u, q)' <=> InApp(u, q) /\ ~(u = t /\ q = p)
  BY <1>1, <1>2, <1>3 DEF InApp
<1>6. /\ \A a, b : Before(toApp, a, b) => Before(toApp', a, b)
      /\ \A a : Before(toApp, a, TaskOf(t, p)) /\ a # TaskOf(t, p) => a \notin Range(toApp)
  BY <1>2, BeforeTail
<1> QED BY <1>1, <1>2, <1>4, <1>5, <1>6

(* The next number of the ring of ids, without its division.               *)
LEMMA ModBelow ==
  ASSUME NEW n \in Nat \ {0}, NEW x \in 0..(n - 1)
  PROVE  x % n = x /\ (x + n) % n = x
OBVIOUS

(* With an id to spare, the one a picture gets is free.                    *)
LEMMA AllocIsFree ==
  ASSUME nextId \in Ids0, DOMAIN pictures \subseteq Ids0, Cardinality(DOMAIN pictures) < Ids
  PROVE  AllocPreviewImageId \in Ids0 \ DOMAIN pictures
<1> DEFINE F == {s \in 0..(Ids - 1) : (nextId + s) % Ids \notin DOMAIN pictures}
<1>1. Ids \in Nat \ {0} /\ nextId \in 0..(Ids - 1)
  BY PreviewAssumption DEF Ids0
<1>2. Cardinality(Ids0) = Ids
  BY <1>1, FS_Interval DEF Ids0
<1>3. PICK q \in Ids0 : q \notin DOMAIN pictures
  <2>1. CASE Ids0 \subseteq DOMAIN pictures
    <3>1. DOMAIN pictures = Ids0
      BY <2>1
    <3> QED BY <1>1, <1>2, <3>1
  <2> QED BY <2>1
<1>4. q \in 0..(Ids - 1)
  BY <1>3 DEF Ids0
<1>5. PICK s \in 0..(Ids - 1) : (nextId + s) % Ids = q
  <2>1. CASE q >= nextId
    <3>1. nextId + (q - nextId) = q /\ q - nextId \in 0..(Ids - 1)
      BY <1>1, <1>4, <2>1
    <3> QED BY <1>1, <1>4, <3>1, ModBelow
  <2>2. CASE q < nextId
    <3>1. nextId + (q - nextId + Ids) = q + Ids /\ q - nextId + Ids \in 0..(Ids - 1)
      BY <1>1, <1>4, <2>2
    <3> QED BY <1>1, <1>4, <3>1, ModBelow
  <2> QED BY <1>1, <1>4, <2>1, <2>2
<1>6. s \in F
  BY <1>3, <1>5
<1>7. F # {} /\ F \in SUBSET Nat
  BY <1>6
<1>8. PICK c \in F : c = CHOOSE t \in F : \A u \in F : t <= u
  <2>1. \E t \in F : \A u \in F : t <= u
    BY <1>7, LeastExists
  <2> QED BY <2>1
<1>9. AllocPreviewImageId = (nextId + c) % Ids
  BY <1>8 DEF AllocPreviewImageId
<1>10. c \in 0..(Ids - 1) /\ (nextId + c) % Ids \notin DOMAIN pictures
  BY <1>8
<1>11. (nextId + c) % Ids \in 0..(Ids - 1)
  BY <1>1, <1>10
<1> QED BY <1>9, <1>10, <1>11 DEF Ids0

(* A tuple with one more element.                                          *)
LEMMA AppendIs ==
  ASSUME NEW T, NEW s \in Seq(T), NEW e \in T, NEW t \in Seq(T), Len(t) = Len(s) + 1,
         \A k \in 1..Len(s) : t[k] = s[k], t[Len(s) + 1] = e
  PROVE  Append(s, e) = t
<1> DEFINE a == Append(s, e)
<1>1. a \in Seq(T) /\ Len(a) = Len(s) + 1 /\ Len(s) \in Nat /\ a[Len(s) + 1] = e
      /\ \A k \in 1..Len(s) : a[k] = s[k]
  BY AppendProperties, LenProperties
<1>2. \A k \in 1..Len(a) : a[k] = t[k]
  BY <1>1
<1> HIDE DEF a
<1>3. a = t
  BY <1>1, <1>2, SeqEqual
<1> QED BY <1>3 DEF a

(* What a call was told, one word longer.                                  *)
LEMMA AppendToOne ==
  ASSUME NEW a, NEW b
  PROVE  Append(<<a>>, b) = <<a, b>>
<1> DEFINE T == {a, b}
           s == <<a>>
           t == <<a, b>>
<1>1. /\ Len(s) = 1 /\ Len(t) = 2 /\ s[1] = a
      /\ t[1] = a /\ t[2] = b
  OBVIOUS
<1>2. s \in Seq(T) /\ t \in Seq(T) /\ b \in T
  OBVIOUS
<1> HIDE DEF s, t, T
<1>3. Len(t) = Len(s) + 1 /\ t[Len(s) + 1] = b /\ \A k \in 1..Len(s) : t[k] = s[k]
  BY <1>1
<1>4. Append(s, b) = t
  BY <1>2, <1>3, AppendIs
<1> QED BY <1>4 DEF s, t

(* The same, two words longer. *)
LEMMA AppendToTwo ==
  ASSUME NEW a, NEW b, NEW c
  PROVE  Append(<<a, b>>, c) = <<a, b, c>>
<1> DEFINE T == {a, b, c}
           s == <<a, b>>
           t == <<a, b, c>>
<1>1. /\ Len(s) = 2 /\ Len(t) = 3 /\ s[1] = a /\ s[2] = b
      /\ t[1] = a /\ t[2] = b /\ t[3] = c
  OBVIOUS
<1>2. s \in Seq(T) /\ t \in Seq(T) /\ c \in T
  OBVIOUS
<1> HIDE DEF s, t, T
<1>3. Len(t) = Len(s) + 1 /\ t[Len(s) + 1] = c /\ \A k \in 1..Len(s) : t[k] = s[k]
  BY <1>1
<1>4. Append(s, c) = t
  BY <1>2, <1>3, AppendIs
<1> QED BY <1>4 DEF s, t

(* The same, three words longer. *)
LEMMA AppendToThree ==
  ASSUME NEW a, NEW b, NEW c, NEW d
  PROVE  Append(<<a, b, c>>, d) = <<a, b, c, d>>
<1> DEFINE T == {a, b, c, d}
           s == <<a, b, c>>
           t == <<a, b, c, d>>
<1>1. /\ Len(s) = 3 /\ Len(t) = 4 /\ s[1] = a /\ s[2] = b /\ s[3] = c
      /\ t[1] = a /\ t[2] = b /\ t[3] = c /\ t[4] = d
  OBVIOUS
<1>2. s \in Seq(T) /\ t \in Seq(T) /\ d \in T
  OBVIOUS
<1> HIDE DEF s, t, T
<1>3. Len(t) = Len(s) + 1 /\ t[Len(s) + 1] = d /\ \A k \in 1..Len(s) : t[k] = s[k]
  BY <1>1
<1>4. Append(s, d) = t
  BY <1>2, <1>3, AppendIs
<1> QED BY <1>4 DEF s, t

(* What a call is told, one word after the other.                          *)
LEMMA ToldNext ==
  /\ Append(<<"idle">>, "fail") = <<"idle", "fail">>
  /\ Append(<<"idle">>, "shown") = <<"idle", "shown">>
  /\ \A o \in {"success", "fail"} :
       /\ Append(<<"idle", "shown">>, o) \in ToldBegun
       /\ Append(<<"idle", "shown">>, o) # <<"idle", "shown">>
  /\ <<"idle">> \notin {<<"idle", "shown">>} \cup ToldBegun
  /\ <<"idle", "shown">> \notin ToldBegun
  /\ \A h \in ToldBegun : Append(h, "complete") \in ToldAll
<1>1. /\ Append(<<"idle">>, "fail") = <<"idle", "fail">>
      /\ Append(<<"idle">>, "shown") = <<"idle", "shown">>
  BY AppendToOne, AppendToTwo
<1>2. ASSUME NEW o
      PROVE  /\ Append(<<"idle", "shown">>, o) = <<"idle", "shown", o>>
             /\ Append(<<"idle", "shown", o>>, "complete") = <<"idle", "shown", o, "complete">>
  <2>1. Append(<<"idle", "shown">>, o) = <<"idle", "shown", o>>
    BY AppendToOne, AppendToTwo
  <2>2. Append(<<"idle", "shown", o>>, "complete") = <<"idle", "shown", o, "complete">>
    BY AppendToThree
  <2> QED BY <2>1, <2>2
<1>3. /\ <<"idle">> # <<"idle", "shown">>
      /\ \A o : <<"idle", "shown", o>> # <<"idle", "shown">> /\ <<"idle", "shown", o>> # <<"idle">>
  OBVIOUS
<1> QED BY <1>1, <1>2, <1>3 DEF ToldBegun, ToldAll

(* A call fails at once.                                                   *)
LEMMA FailKeeps ==
  ASSUME PreviewsInv, NEW c \in Preview, heeds[c] = <<"idle">>, managing = "yes",
         MediaFailCallback(c), UNCHANGED <<widgets, toApp, managing>>
  PROVE  PreviewsInv'
<1>1. /\ heeds' = [heeds EXCEPT ![c] = <<"idle", "fail">>] /\ pictures' = pictures
      /\ nextId' = nextId /\ toUI' = toUI /\ misled' = misled /\ widgets' = widgets
      /\ toApp' = toApp /\ managing' = managing
  BY ToldNext DEF MediaFailCallback, Tell
<1>2. PvTypes /\ EndInv /\ (\A p \in Ids0 : WidgetInv(p)) /\ PicturesInv
  BY DEF PreviewsInv
<1>3. ASSUME NEW p \in DOMAIN pictures
      PROVE  pictures[p] # c /\ pictures[p] \in Preview
  <2>1. p \in Ids0 /\ pictures[p] \in Preview
    BY <1>2, <1>3 DEF PvTypes
  <2>2. heeds[pictures[p]] \in {<<"idle", "shown">>} \cup ToldBegun
    BY <1>2, <1>3, <2>1 DEF PicturesInv, PictureInv
  <2> QED BY <2>1, <2>2, ToldNext
<1>4. PvTypes'
  BY <1>1, <1>2 DEF PvTypes, ToldAll
<1>5. EndInv' /\ \A p \in Ids0 : WidgetInv(p)'
  BY <1>1, <1>2 DEF EndInv, WidgetInv, InUI, Widget
<1>6. ASSUME NEW p \in Ids0
      PROVE  PictureInv(p)'
  <2>1. PictureInv(p)
    BY <1>2 DEF PicturesInv
  <2>2. \A t : (InUI(t, p)' <=> InUI(t, p)) /\ (InApp(t, p)' <=> InApp(t, p))
    BY <1>1 DEF InUI, InApp
  <2>3. Widget(p)' = Widget(p)
    BY <1>1 DEF Widget
  <2>4. p \in DOMAIN pictures => heeds'[pictures[p]] = heeds[pictures[p]]
    BY <1>1, <1>2, <1>3 DEF PvTypes
  <2> QED BY <1>1, <2>1, <2>2, <2>3, <2>4 DEF PictureInv
<1>7. PicturesInv'
  BY <1>1, <1>2, <1>6 DEF PicturesInv
<1> QED BY <1>1, <1>2, <1>4, <1>5, <1>7 DEF PreviewsInv

(* A picture is shown: its id may still have a widget to be erased.        *)
LEMMA PictureKeeps ==
  ASSUME PreviewsInv, NEW c \in Preview, heeds[c] = <<"idle">>, managing = "yes",
         PreviewImage(c), UNCHANGED <<widgets, toApp, managing>>
  PROVE  PreviewsInv'
<1>1. PvTypes /\ EndInv /\ (\A p \in Ids0 : WidgetInv(p)) /\ PicturesInv
  BY DEF PreviewsInv
<1>2. PICK n : n = AllocPreviewImageId
  OBVIOUS
<1>3. n \in Ids0 /\ n \notin DOMAIN pictures /\ n \in Nat
  <2>1. n \in Ids0 \ DOMAIN pictures
    BY <1>1, <1>2, AllocIsFree DEF PreviewImage, PvTypes
  <2> QED BY <2>1, PreviewAssumption DEF Ids0
<1>4. /\ heeds' = [heeds EXCEPT ![c] = <<"idle", "shown">>]
      /\ misled' = (misled \/ n \in DOMAIN pictures)
      /\ pictures' = With(pictures, n, c) /\ nextId' = (nextId + 1) % Ids
      /\ toUI' = Append(toUI, TaskOf("preview", n)) /\ widgets' = widgets
      /\ toApp' = toApp /\ managing' = managing
  <2>1. Append(heeds[c], "shown") = <<"idle", "shown">>
    BY ToldNext
  <2>2. /\ heeds' = [heeds EXCEPT ![c] = Append(heeds[c], "shown")]
        /\ misled' = (misled \/ n \in DOMAIN pictures)
        /\ pictures' = With(pictures, n, c) /\ nextId' = (nextId + 1) % Ids
        /\ toUI' = Append(toUI, [task |-> "preview", pid |-> n])
    BY <1>2 DEF PreviewImage, Tell
  <2> QED BY <2>1, <2>2 DEF TaskOf
<1>5. /\ DOMAIN pictures' = DOMAIN pictures \cup {n} /\ pictures'[n] = c
      /\ \A p \in DOMAIN pictures : pictures'[p] = pictures[p]
  BY <1>3, <1>4 DEF With
<1>6. ~InUI("preview", n) /\ Widget(n) \in {"none", "complete"} /\ \A t \in AppTasks : ~InApp(t, n)
  BY <1>1, <1>3 DEF PicturesInv, PictureInv
<1>7. /\ toUI' \in Seq(UITask) /\ IsInjective(toUI')
      /\ \A u, q : InUI(u, q)' <=> InUI(u, q) \/ (u = "preview" /\ q = n)
      /\ \A a, b : Before(toUI, a, b) /\ a # b
                   /\ (TaskOf("preview", n) # a \/ b \notin Range(toUI)) => Before(toUI', a, b)
  <2>1. "preview" \in UITasks /\ toUI \in Seq(UITask) /\ IsInjective(toUI)
    BY <1>1 DEF PvTypes, UITasks
  <2> QED BY <1>3, <1>4, <1>6, <2>1, UIAppends
<1>8. ASSUME NEW p \in DOMAIN pictures
      PROVE  pictures[p] # c /\ pictures[p] \in Preview
  <2>1. p \in Ids0 /\ pictures[p] \in Preview
    BY <1>1, <1>8 DEF PvTypes
  <2>2. heeds[pictures[p]] \in {<<"idle", "shown">>} \cup ToldBegun
    BY <1>1, <1>8, <2>1 DEF PicturesInv, PictureInv
  <2> QED BY <2>1, <2>2, ToldNext
<1>9. PvTypes'
  <2>1. nextId' \in Ids0
    BY <1>1, <1>4, PreviewAssumption DEF PvTypes, Ids0
  <2>2. heeds' \in [Preview -> ToldAll]
    BY <1>1, <1>4 DEF PvTypes, ToldAll
  <2>3. DOMAIN pictures' \subseteq Ids0 /\ \A p \in DOMAIN pictures' : pictures'[p] \in Preview
    BY <1>1, <1>3, <1>5 DEF PvTypes
  <2> QED BY <1>1, <1>3, <1>4, <1>7, <2>1, <2>2, <2>3 DEF PvTypes
<1>10. EndInv'
  BY <1>1, <1>4, <1>7 DEF EndInv
<1>11. ASSUME NEW p \in Ids0
       PROVE  WidgetInv(p)'
  <2>1. WidgetInv(p) /\ Widget(p)' = Widget(p)
    BY <1>1, <1>4 DEF Widget
  <2>2. ~InUI("delete", 0)
    BY <1>1 DEF EndInv
  <2>3. CASE p # n
    <3>1. /\ Before(toUI, TaskOf("erase", p), TaskOf("preview", p)) =>
               Before(toUI', TaskOf("erase", p), TaskOf("preview", p))
          /\ Before(toUI, TaskOf("preview", p), TaskOf("delete", 0)) =>
               Before(toUI', TaskOf("preview", p), TaskOf("delete", 0))
      BY <1>7, <2>3, TasksDiffer
    <3> QED BY <1>7, <2>1, <2>3, <3>1 DEF WidgetInv
  <2>4. CASE p = n
    <3>1. toUI \in Seq(UITask)
      BY <1>1 DEF PvTypes
    <3>2. Before(toUI, TaskOf("erase", n), TaskOf("preview", n))
      BY <1>6, <3>1, BeforeAbsent DEF InUI
    <3>3. Before(toUI, TaskOf("preview", n), TaskOf("delete", 0))
      BY <2>2, <3>1, BeforeAbsent DEF InUI
    <3>4. Before(toUI', TaskOf("erase", n), TaskOf("preview", n))
      BY <1>7, <3>2, TasksDiffer
    <3>5. Before(toUI', TaskOf("preview", n), TaskOf("delete", 0))
      BY <1>7, <2>2, <3>3, TasksDiffer DEF InUI
    <3> QED BY <1>6, <1>7, <2>1, <2>4, <3>4, <3>5 DEF WidgetInv
  <2> QED BY <2>3, <2>4
<1>12. ASSUME NEW p \in Ids0
       PROVE  PictureInv(p)'
  <2>1. PictureInv(p) /\ Widget(p)' = Widget(p) /\ \A t : InApp(t, p)' <=> InApp(t, p)
    BY <1>1, <1>4 DEF Widget, PicturesInv, InApp
  <2>2. CASE p # n
    <3>1. InUI("preview", p)' <=> InUI("preview", p)
      BY <1>7, <2>2
    <3>2. p \in DOMAIN pictures' <=> p \in DOMAIN pictures
      BY <1>5, <2>2
    <3>3. p \in DOMAIN pictures =>
            pictures'[p] = pictures[p] /\ heeds'[pictures[p]] = heeds[pictures[p]]
      BY <1>1, <1>4, <1>5, <1>8 DEF PvTypes
    <3> QED BY <1>4, <2>1, <3>1, <3>2, <3>3 DEF PictureInv
  <2>3. CASE p = n
    <3>1. toApp' \in Seq(AppTask)
      BY <1>1, <1>4 DEF PvTypes
    <3>2. InUI("preview", n)' /\ n \in DOMAIN pictures' /\ pictures'[n] = c
      BY <1>5, <1>7
    <3>3. heeds'[c] = <<"idle", "shown">>
      BY <1>1, <1>4 DEF PvTypes
    <3>4. \A t \in AppTasks : ~InApp(t, n)'
      BY <1>6, <2>1, <2>3
    <3>5. \A t \in {"success", "fail"} : Before(toApp', TaskOf(t, n), TaskOf("complete", n))
      BY <3>1, <3>4, BeforeAbsent DEF InApp, AppTasks
    <3>6. "success" \in AppTasks /\ "fail" \in AppTasks /\ "complete" \in AppTasks
      BY DEF AppTasks
    <3> QED BY <2>3, <3>2, <3>3, <3>4, <3>5, <3>6 DEF PictureInv
  <2> QED BY <2>2, <2>3
<1>13. PicturesInv'
  <2>1. ASSUME NEW i \in DOMAIN pictures', NEW j \in DOMAIN pictures', pictures'[i] = pictures'[j]
        PROVE  i = j
    BY <1>1, <1>5, <1>8, <2>1 DEF PicturesInv
  <2> QED BY <1>1, <1>4, <1>12, <2>1 DEF PicturesInv
<1> QED BY <1>4, <1>9, <1>10, <1>11, <1>13 DEF PreviewsInv

(* The instance ends: what is on the UI is deleted there, in its turn.     *)
LEMMA PreviewsDetachedKeeps ==
  ASSUME PreviewsInv, PreviewsDetached
  PROVE  PreviewsInv'
<1>1. /\ managing = "yes" /\ managing' = "detached" /\ pictures' = NoPictures
      /\ toUI' = Append(toUI, TaskOf("delete", 0)) /\ nextId' = nextId
      /\ widgets' = widgets /\ toApp' = toApp /\ heeds' = heeds /\ misled' = misled
  BY DEF PreviewsDetached, ManagerGone, TaskOf
<1>2. PvTypes /\ EndInv /\ \A p \in Ids0 : WidgetInv(p)
  BY <1>1 DEF PreviewsInv
<1>3. ~InUI("delete", 0)
  BY <1>1, <1>2 DEF EndInv
<1>4. /\ toUI' \in Seq(UITask) /\ IsInjective(toUI')
      /\ \A u, q : InUI(u, q)' <=> InUI(u, q) \/ (u = "delete" /\ q = 0)
      /\ \A a, b : Before(toUI, a, b) /\ a # b
                   /\ (TaskOf("delete", 0) # a \/ b \notin Range(toUI)) => Before(toUI', a, b)
  <2>1. "delete" \in UITasks /\ toUI \in Seq(UITask) /\ IsInjective(toUI) /\ 0 \in Ids0
    BY <1>2, PreviewAssumption DEF PvTypes, UITasks, Ids0
  <2> QED BY <1>1, <1>3, <2>1, UIAppends
<1>5. DOMAIN pictures' = {}
  BY <1>1 DEF NoPictures
<1>6. PvTypes'
  BY <1>1, <1>2, <1>4, <1>5 DEF PvTypes
<1>7. EndInv'
  BY <1>1, <1>2, <1>4, <1>5 DEF EndInv
<1>8. ASSUME NEW p \in Ids0
      PROVE  WidgetInv(p)'
  <2>1. WidgetInv(p) /\ Widget(p)' = Widget(p)
    BY <1>1, <1>2 DEF Widget
  <2>2. /\ TaskOf("erase", p) # TaskOf("preview", p) /\ TaskOf("preview", p) # TaskOf("delete", 0)
        /\ TaskOf("delete", 0) # TaskOf("erase", p)
    BY TasksDiffer
  <2>3. /\ Before(toUI, TaskOf("erase", p), TaskOf("preview", p)) =>
             Before(toUI', TaskOf("erase", p), TaskOf("preview", p))
        /\ Before(toUI, TaskOf("preview", p), TaskOf("delete", 0)) =>
             Before(toUI', TaskOf("preview", p), TaskOf("delete", 0))
    BY <1>4, <2>2
  <2> QED BY <1>4, <2>1, <2>3 DEF WidgetInv
<1> QED BY <1>1, <1>6, <1>7, <1>8 DEF PreviewsInv

(* A task of the application's loop: it finds the picture of its call.     *)
LEMMA AppPostedKeeps ==
  ASSUME ~LeaveWithin, PreviewsInv, AppPosted
  PROVE  PreviewsInv'
<1>1. PvTypes /\ EndInv /\ (managing # "no" => \A p \in Ids0 : WidgetInv(p))
      /\ (managing = "yes" => PicturesInv)
  BY DEF PreviewsInv
<1>2. toApp # <<>> /\ toApp' = Tail(toApp) /\ nextId' = nextId /\ widgets' = widgets
      /\ toApp \in Seq(AppTask)
  BY <1>1 DEF AppPosted, PvTypes
<1>3. PICK t \in AppTasks, n \in Ids0 :
        /\ Head(toApp) = TaskOf(t, n) /\ Head(toApp).task = t /\ Head(toApp).pid = n
        /\ InApp(t, n) /\ toApp' \in Seq(AppTask)
        /\ IsInjective(toApp) =>
             /\ IsInjective(toApp')
             /\ \A u, q : InApp(u, q)' <=> InApp(u, q) /\ ~(u = t /\ q = n)
        /\ \A a, b : Before(toApp, a, b) => Before(toApp', a, b)
        /\ \A a : Before(toApp, a, TaskOf(t, n)) /\ a # TaskOf(t, n) =>
                    a \notin Range(toApp)
  BY <1>2, AppRuns
<1>4. CASE managing # "yes"
  <2>1. UNCHANGED <<pictures, toUI, heeds, managing, misled>>
    BY <1>4 DEF AppPosted
  <2> QED BY <1>1, <1>2, <1>3, <1>4, <2>1
          DEF PreviewsInv, PvTypes, EndInv, WidgetInv, InUI, Widget
<1>5. CASE managing = "yes"
  <2>1. PicturesInv /\ \A p \in Ids0 : WidgetInv(p)
    BY <1>1, <1>5
  <2>2. /\ n \in DOMAIN pictures /\ PictureInv(n) /\ IsInjective(toApp)
        /\ pictures[n] \in Preview
    BY <1>1, <1>3, <2>1 DEF PicturesInv, PictureInv, PvTypes
  <2>3. PICK h : h = heeds[pictures[n]]
    OBVIOUS
  <2>4. /\ heeds' = [heeds EXCEPT ![pictures[n]] = Append(h, t)]
        /\ pictures' = IF t = "complete" THEN Erased(pictures, n) ELSE pictures
        /\ toUI' = toUI /\ managing' = managing /\ misled' = misled
    BY <1>3, <1>5, <2>2, <2>3 DEF AppPosted, Tell
  <2>5. /\ \A u, q : InUI(u, q)' <=> InUI(u, q)
        /\ \A q : Widget(q)' = Widget(q)
        /\ \A q \in Ids0 : WidgetInv(q)'
    BY <1>2, <2>1, <2>4 DEF InUI, Widget, WidgetInv
  <2>6. /\ \A u, q : InApp(u, q)' <=> InApp(u, q) /\ ~(u = t /\ q = n)
        /\ IsInjective(toApp')
    BY <1>3, <2>2
  <2>7. EndInv'
    BY <1>1, <1>2, <1>5, <2>4, <2>5 DEF EndInv
  <2>8. DOMAIN pictures' \subseteq DOMAIN pictures
        /\ \A q \in DOMAIN pictures' : pictures'[q] = pictures[q]
    BY <2>4 DEF Erased
  <2>9. /\ h \in {<<"idle", "shown">>} \cup ToldBegun
        /\ t \in {"success", "fail"} => h = <<"idle", "shown">>
        /\ t = "complete" => h \in ToldBegun
    <3>1. t = "complete" => ~InApp("success", n) /\ ~InApp("fail", n)
      <4>1. /\ TaskOf("success", n) # TaskOf("complete", n)
            /\ TaskOf("fail", n) # TaskOf("complete", n)
        BY TasksDiffer
      <4> QED BY <1>3, <2>2, <4>1 DEF PictureInv, InApp
    <3>2. t = "complete" => ~InUI("preview", n) /\ Widget(n) # "shown"
      BY <1>3, <2>2 DEF PictureInv
    <3> QED BY <1>3, <2>2, <2>3, <3>1, <3>2 DEF PictureInv
  <2>10. Append(h, t) \in ToldAll /\ (t # "complete" => Append(h, t) \in ToldBegun)
    BY <2>9, ToldNext DEF AppTasks, ToldAll
  <2>11. PvTypes'
    BY <1>1, <1>2, <1>3, <2>4, <2>8, <2>10 DEF PvTypes
  <2>12. ASSUME NEW q \in Ids0, q # n
         PROVE  PictureInv(q)'
    <3>1. PictureInv(q) /\ (\A u : InApp(u, q)' <=> InApp(u, q))
      BY <2>1, <2>6, <2>12 DEF PicturesInv
    <3>2. q \in DOMAIN pictures' <=> q \in DOMAIN pictures
      BY <2>4, <2>12 DEF Erased
    <3>3. q \in DOMAIN pictures => pictures[q] # pictures[n] /\ pictures[q] \in Preview
      BY <1>1, <2>1, <2>2, <2>12 DEF PicturesInv, PvTypes
    <3>4. q \in DOMAIN pictures =>
            pictures'[q] = pictures[q] /\ heeds'[pictures[q]] = heeds[pictures[q]]
      BY <1>1, <2>4, <2>8, <3>2, <3>3 DEF PvTypes
    <3>5. \A u \in {"success", "fail"} :
            Before(toApp, TaskOf(u, q), TaskOf("complete", q)) =>
              Before(toApp', TaskOf(u, q), TaskOf("complete", q))
      BY <1>3
    <3> QED BY <2>5, <3>1, <3>2, <3>4, <3>5 DEF PictureInv
  <2>13. PictureInv(n)'
    <3>1. CASE t = "complete"
      <4>1. n \notin DOMAIN pictures'
        BY <2>4, <3>1 DEF Erased
      <4>2. ~InApp("success", n) /\ ~InApp("fail", n)
        BY <2>2, <2>3, <2>9, <3>1, ToldNext DEF PictureInv
      <4>3. ~InUI("preview", n) /\ Widget(n) \in {"none", "complete"}
        BY <1>3, <2>2, <3>1 DEF PictureInv
      <4>4. \A u \in AppTasks : ~InApp(u, n)'
        BY <2>6, <3>1, <4>2 DEF AppTasks
      <4> QED BY <2>5, <4>1, <4>3, <4>4 DEF PictureInv
    <3>2. CASE t \in {"success", "fail"}
      <4>1. n \in DOMAIN pictures' /\ pictures'[n] = pictures[n]
        BY <2>2, <2>4, <3>2
      <4>2. heeds'[pictures[n]] = Append(h, t) /\ Append(h, t) \in ToldBegun
            /\ Append(h, t) # <<"idle", "shown">>
        BY <1>1, <2>2, <2>4, <2>9, <3>2, ToldNext DEF PvTypes
      <4>3. ~InUI("preview", n) /\ Widget(n) # "shown"
        BY <1>3, <2>2 DEF PictureInv
      <4>4. ~InApp("success", n)' /\ ~InApp("fail", n)'
        BY <1>3, <2>2, <2>6, <3>2 DEF PictureInv
      <4>5. InApp("complete", n)' <=> InApp("complete", n)
        BY <2>6, <3>2
      <4>6. \A u \in {"success", "fail"} : Before(toApp', TaskOf(u, n), TaskOf("complete", n))
        BY <1>3, <2>2 DEF PictureInv
      <4> QED BY <2>2, <2>5, <4>1, <4>2, <4>3, <4>4, <4>5, <4>6 DEF PictureInv
    <3> QED BY <3>1, <3>2 DEF AppTasks
  <2>14. PicturesInv'
    BY <2>1, <2>6, <2>8, <2>12, <2>13 DEF PicturesInv
  <2> QED BY <1>5, <2>4, <2>5, <2>7, <2>11, <2>14 DEF PreviewsInv
<1> QED BY <1>4, <1>5

(* A task of the UI thread.                                                *)
LEMMA UIPostedKeeps ==
  ASSUME PreviewsInv, UIPosted
  PROVE  PreviewsInv'
<1>1. PvTypes /\ EndInv /\ (managing # "no" => \A p \in Ids0 : WidgetInv(p))
      /\ (managing = "yes" => PicturesInv)
  BY DEF PreviewsInv
<1>2. toUI # <<>> /\ toUI' = Tail(toUI) /\ pictures' = pictures /\ nextId' = nextId
      /\ toApp' = toApp /\ heeds' = heeds /\ toUI \in Seq(UITask) /\ IsInjective(toUI)
  BY <1>1 DEF UIPosted, PvTypes
<1>3. PICK t \in UITasks, n \in Ids0 :
        /\ Head(toUI) = TaskOf(t, n) /\ Head(toUI).task = t /\ Head(toUI).pid = n
        /\ InUI(t, n) /\ toUI' \in Seq(UITask) /\ IsInjective(toUI')
        /\ \A u, q : InUI(u, q)' <=> InUI(u, q) /\ ~(u = t /\ q = n)
        /\ \A a, b : Before(toUI, a, b) => Before(toUI', a, b)
        /\ \A a : Before(toUI, a, TaskOf(t, n)) /\ a # TaskOf(t, n) =>
                    a \notin Range(toUI)
  BY <1>2, UIRuns
<1>4. \A u, q : InApp(u, q)' <=> InApp(u, q)
  BY <1>2 DEF InApp
<1>5. CASE t = "preview"
  <2>1. managing # "no" /\ WidgetInv(n)
    BY <1>1, <1>3, <1>5 DEF EndInv
  <2>2. n \notin DOMAIN widgets
    <3>1. TaskOf("erase", n) # TaskOf("preview", n)
      BY TasksDiffer
    <3>2. ~InUI("erase", n)
      BY <1>3, <1>5, <2>1, <3>1 DEF WidgetInv, InUI
    <3>3. Widget(n) = "none"
      BY <1>3, <1>5, <2>1, <3>2 DEF WidgetInv
    <3> QED BY <1>1, <3>3 DEF Widget, PvTypes
  <2>3. misled' = FALSE /\ widgets' = With(widgets, n, "shown") /\ managing' = managing
    BY <1>1, <1>3, <1>5, <2>1, <2>2 DEF UIPosted, PvTypes
  <2>4. /\ DOMAIN widgets' = DOMAIN widgets \cup {n} /\ widgets'[n] = "shown"
        /\ \A q \in DOMAIN widgets : widgets'[q] = widgets[q]
        /\ Widget(n)' = "shown" /\ \A q : q # n => Widget(q)' = Widget(q)
    BY <2>2, <2>3 DEF With, Widget
  <2>5. PvTypes'
    BY <1>1, <1>2, <1>3, <2>3, <2>4 DEF PvTypes
  <2>6. EndInv'
    BY <1>1, <1>2, <1>3, <1>5, <2>1, <2>3 DEF EndInv
  <2>7. ASSUME NEW q \in Ids0
        PROVE  WidgetInv(q)'
    <3>1. WidgetInv(q)
      BY <1>1, <2>1
    <3>2. CASE q # n
      BY <1>3, <2>4, <3>1, <3>2 DEF WidgetInv
    <3>3. CASE q = n
      <4>1. ~InUI("preview", n)'
        BY <1>3, <1>5
      <4>2. ~InUI("erase", n)'
        BY <1>1, <1>3, <2>1, <2>2 DEF WidgetInv, Widget
      <4> QED BY <2>4, <3>3, <4>1, <4>2 DEF WidgetInv
    <3> QED BY <3>2, <3>3
  <2>8. managing = "yes" => PicturesInv'
    <3>1. SUFFICES ASSUME managing = "yes" PROVE PicturesInv'
      OBVIOUS
    <3>2. ASSUME NEW q \in Ids0
          PROVE  PictureInv(q)'
      <4>1. PictureInv(q)
        BY <1>1, <3>1 DEF PicturesInv
      <4>2. CASE q # n
        <5>1. InUI("preview", q)' <=> InUI("preview", q)
          BY <1>3, <4>2
        <5> QED BY <1>2, <1>4, <2>4, <4>1, <4>2, <5>1 DEF PictureInv
      <4>3. CASE q = n
        <5>1. InUI("preview", n) /\ ~InUI("preview", n)' /\ Widget(n)' = "shown"
          BY <1>3, <1>5, <2>4
        <5>2. n \in DOMAIN pictures /\ \A u \in AppTasks : ~InApp(u, n)
          BY <1>3, <1>5, <4>1, <4>3 DEF PictureInv
        <5>3. "complete" \in AppTasks
          BY DEF AppTasks
        <5> QED BY <1>2, <1>4, <4>1, <4>3, <5>1, <5>2, <5>3 DEF PictureInv
      <4> QED BY <4>2, <4>3
    <3> QED BY <1>1, <1>2, <3>1, <3>2 DEF PicturesInv
  <2> QED BY <2>1, <2>3, <2>5, <2>6, <2>7, <2>8 DEF PreviewsInv
<1>6. CASE t = "erase"
  <2>1. misled' = misled /\ widgets' = Erased(widgets, n) /\ managing' = managing
    BY <1>3, <1>6 DEF UIPosted
  <2>2. /\ DOMAIN widgets' = DOMAIN widgets \ {n}
        /\ \A q \in DOMAIN widgets' : widgets'[q] = widgets[q]
        /\ Widget(n)' = "none" /\ \A q : q # n => Widget(q)' = Widget(q)
    BY <2>1 DEF Erased, Widget
  <2>3. \A q : InUI("preview", q)' <=> InUI("preview", q)
    BY <1>3, <1>6
  <2>4. PvTypes'
    BY <1>1, <1>2, <1>3, <2>1, <2>2 DEF PvTypes
  <2>5. EndInv'
    BY <1>1, <1>2, <1>3, <1>6, <2>1, <2>2 DEF EndInv
  <2>6. ASSUME managing # "no", NEW q \in Ids0
        PROVE  WidgetInv(q)'
    <3>1. WidgetInv(q)
      BY <1>1, <2>6
    <3>2. (InUI("erase", q)' <=> InUI("erase", q) /\ q # n)
      BY <1>3, <1>6
    <3> QED BY <1>3, <2>2, <2>3, <3>1, <3>2 DEF WidgetInv
  <2>7. managing = "yes" => PicturesInv'
    <3>1. SUFFICES ASSUME managing = "yes" PROVE PicturesInv'
      OBVIOUS
    <3>2. Widget(n) = "complete"
      BY <1>1, <1>3, <1>6, <3>1 DEF WidgetInv
    <3>3. ASSUME NEW q \in Ids0
          PROVE  PictureInv(q)'
      <4>1. PictureInv(q)
        BY <1>1, <3>1 DEF PicturesInv
      <4>2. (Widget(q)' = "shown" <=> Widget(q) = "shown")
            /\ (Widget(q)' \in {"none", "complete"} <=> Widget(q) \in {"none", "complete"})
        BY <2>2, <3>2
      <4> QED BY <1>2, <1>4, <2>3, <4>1, <4>2 DEF PictureInv
    <3> QED BY <1>1, <1>2, <3>1, <3>3 DEF PicturesInv
  <2> QED BY <2>1, <2>4, <2>5, <2>6, <2>7 DEF PreviewsInv
<1>7. CASE t = "delete"
  <2>1. misled' = misled /\ widgets' = NoPictures /\ managing' = "no"
    BY <1>3, <1>7 DEF UIPosted
  <2>2. DOMAIN widgets' = {}
    BY <2>1 DEF NoPictures
  <2>3. n = 0 /\ managing = "detached"
    BY <1>1, <1>3, <1>7 DEF EndInv
  <2>4. ASSUME NEW p \in Ids0
        PROVE  ~InUI("preview", p)
    <3>1. TaskOf("preview", p) # TaskOf("delete", 0)
      BY TasksDiffer
    <3>2. WidgetInv(p)
      BY <1>1, <2>3
    <3> QED BY <1>3, <1>7, <2>3, <3>1, <3>2 DEF WidgetInv, InUI
  <2>5. EndInv'
    BY <1>1, <1>2, <1>3, <1>7, <2>1, <2>2, <2>3, <2>4 DEF EndInv
  <2>6. PvTypes'
    BY <1>1, <1>2, <1>3, <2>1, <2>2 DEF PvTypes
  <2> QED BY <2>1, <2>5, <2>6 DEF PreviewsInv
<1> QED BY <1>3, <1>5, <1>6, <1>7 DEF UITasks

(* A widget says how it went.                                              *)
LEMMA WidgetShowsKeeps ==
  ASSUME PreviewsInv, NEW n \in Ids0, WidgetShows(n)
  PROVE  PreviewsInv'
<1>1. PvTypes /\ EndInv /\ (managing # "no" => \A p \in Ids0 : WidgetInv(p))
      /\ (managing = "yes" => PicturesInv)
  BY DEF PreviewsInv
<1>2. PICK t \in {"success", "fail"} : toApp' = Append(toApp, TaskOf(t, n))
  BY DEF WidgetShows, Report, TaskOf
<1>3. /\ n \in DOMAIN widgets /\ widgets[n] = "shown" /\ widgets' = With(widgets, n, "told")
      /\ pictures' = pictures /\ nextId' = nextId /\ toUI' = toUI /\ heeds' = heeds
      /\ managing' = managing /\ misled' = misled /\ Widget(n) = "shown"
  BY DEF WidgetShows, Widget
<1>4. /\ DOMAIN widgets' = DOMAIN widgets /\ widgets'[n] = "told"
      /\ \A q \in DOMAIN widgets : q # n => widgets'[q] = widgets[q]
      /\ Widget(n)' = "told" /\ \A q : q # n => Widget(q)' = Widget(q)
  BY <1>3 DEF With, Widget
<1>5. /\ toApp' \in Seq(AppTask)
      /\ IsInjective(toApp) /\ ~InApp(t, n) => IsInjective(toApp')
      /\ \A u, q : InApp(u, q)' <=> InApp(u, q) \/ (u = t /\ q = n)
      /\ \A a, b : Before(toApp, a, b) /\ a # b
                   /\ (TaskOf(t, n) # a \/ b \notin Range(toApp)) => Before(toApp', a, b)
  <2>1. t \in AppTasks /\ toApp \in Seq(AppTask)
    BY <1>1 DEF AppTasks, PvTypes
  <2> QED BY <1>2, <2>1, AppAppends
<1>6. \A u, q : InUI(u, q)' <=> InUI(u, q)
  BY <1>3 DEF InUI
<1>7. PvTypes'
  BY <1>1, <1>3, <1>4, <1>5 DEF PvTypes
<1>8. EndInv'
  BY <1>1, <1>3, <1>4, <1>6 DEF EndInv
<1>9. ASSUME managing # "no", NEW q \in Ids0
      PROVE  WidgetInv(q)'
  <2>1. WidgetInv(q) /\ WidgetInv(n)
    BY <1>1, <1>9
  <2> QED BY <1>3, <1>4, <1>6, <2>1 DEF WidgetInv
<1>10. ASSUME managing = "yes"
       PROVE  PicturesInv'
  <2>1. PicturesInv /\ PictureInv(n)
    BY <1>1, <1>10 DEF PicturesInv
  <2>2. "complete" \in AppTasks /\ t \in AppTasks /\ "success" \in AppTasks /\ "fail" \in AppTasks
    BY DEF AppTasks
  <2>3. n \in DOMAIN pictures /\ ~InUI("preview", n) /\ \A u \in AppTasks : ~InApp(u, n)
    <3>1. n \in DOMAIN pictures
      BY <1>3, <2>1 DEF PictureInv
    <3>2. WidgetInv(n)
      BY <1>1, <1>10
    <3> QED BY <1>3, <2>1, <3>1, <3>2 DEF PictureInv, WidgetInv
  <2>4. ASSUME NEW q \in Ids0
        PROVE  PictureInv(q)'
    <3>1. PictureInv(q)
      BY <2>1 DEF PicturesInv
    <3>2. ASSUME NEW u \in {"success", "fail"}, q \in DOMAIN pictures
          PROVE  Before(toApp', TaskOf(u, q), TaskOf("complete", q))
      <4>1. Before(toApp, TaskOf(u, q), TaskOf("complete", q))
        BY <3>1, <3>2 DEF PictureInv
      <4>2. TaskOf(u, q) # TaskOf("complete", q)
        BY TasksDiffer
      <4>3. TaskOf(t, n) # TaskOf(u, q) \/ TaskOf("complete", q) \notin Range(toApp)
        BY <2>2, <2>3, TasksDiffer DEF InApp
      <4> QED BY <1>5, <4>1, <4>2, <4>3
    <3>3. CASE q # n
      BY <1>3, <1>4, <1>5, <1>6, <3>1, <3>2, <3>3 DEF PictureInv
    <3>4. CASE q = n
      BY <1>3, <1>4, <1>5, <1>6, <2>2, <2>3, <3>1, <3>2, <3>4 DEF PictureInv
    <3> QED BY <3>3, <3>4
  <2> QED BY <1>3, <1>5, <2>1, <2>2, <2>3, <2>4 DEF PicturesInv
<1> QED BY <1>3, <1>7, <1>8, <1>9, <1>10 DEF PreviewsInv

(* The user leaves a picture: the widget erases itself by a task.          *)
LEMMA CompleteKeeps ==
  ASSUME PreviewsInv, NEW n \in Ids0, PreviewImageCompleteCB(n)
  PROVE  PreviewsInv'
<1>1. PvTypes /\ EndInv /\ (managing # "no" => \A p \in Ids0 : WidgetInv(p))
      /\ (managing = "yes" => PicturesInv)
  BY DEF PreviewsInv
<1>2. /\ n \in DOMAIN widgets /\ widgets[n] = "told"
      /\ toApp' = Append(toApp, TaskOf("complete", n))
      /\ toUI' = Append(toUI, TaskOf("erase", n))
      /\ widgets' = With(widgets, n, "complete")
      /\ pictures' = pictures /\ nextId' = nextId /\ heeds' = heeds
      /\ managing' = managing /\ misled' = misled /\ Widget(n) = "told"
  BY DEF PreviewImageCompleteCB, Report, TaskOf, Widget
<1>3. /\ DOMAIN widgets' = DOMAIN widgets /\ widgets'[n] = "complete"
      /\ \A q \in DOMAIN widgets : q # n => widgets'[q] = widgets[q]
      /\ Widget(n)' = "complete" /\ \A q : q # n => Widget(q)' = Widget(q)
  BY <1>2 DEF With, Widget
<1>4. managing # "no" /\ WidgetInv(n) /\ ~InUI("erase", n) /\ ~InUI("preview", n)
  <2>1. managing # "no"
    BY <1>1, <1>2 DEF EndInv
  <2>2. WidgetInv(n)
    BY <1>1, <2>1
  <2> QED BY <1>2, <2>1, <2>2 DEF WidgetInv
<1>5. /\ toApp' \in Seq(AppTask)
      /\ IsInjective(toApp) /\ ~InApp("complete", n) => IsInjective(toApp')
      /\ \A u, q : InApp(u, q)' <=> InApp(u, q) \/ (u = "complete" /\ q = n)
      /\ \A a, b : Before(toApp, a, b) /\ a # b
                   /\ (TaskOf("complete", n) # a \/ b \notin Range(toApp)) =>
           Before(toApp', a, b)
  <2>1. "complete" \in AppTasks /\ toApp \in Seq(AppTask)
    BY <1>1 DEF AppTasks, PvTypes
  <2> QED BY <1>2, <2>1, AppAppends
<1>6. /\ toUI' \in Seq(UITask) /\ IsInjective(toUI')
      /\ \A u, q : InUI(u, q)' <=> InUI(u, q) \/ (u = "erase" /\ q = n)
      /\ \A a, b : Before(toUI, a, b) /\ a # b
                   /\ (TaskOf("erase", n) # a \/ b \notin Range(toUI)) => Before(toUI', a, b)
  <2>1. "erase" \in UITasks /\ toUI \in Seq(UITask) /\ IsInjective(toUI)
    BY <1>1 DEF UITasks, PvTypes
  <2> QED BY <1>2, <1>4, <2>1, UIAppends
<1>7. PvTypes'
  BY <1>1, <1>2, <1>3, <1>5, <1>6 DEF PvTypes
<1>8. EndInv'
  BY <1>1, <1>2, <1>3, <1>6 DEF EndInv
<1>9. ASSUME NEW q \in Ids0
      PROVE  WidgetInv(q)'
  <2>1. WidgetInv(q)
    BY <1>1, <1>4
  <2>2. /\ TaskOf("erase", q) # TaskOf("preview", q)
        /\ TaskOf("preview", q) # TaskOf("delete", 0)
        /\ TaskOf("erase", n) # TaskOf("preview", q)
    BY TasksDiffer
  <2>3. CASE q # n
    <3>1. TaskOf("erase", n) # TaskOf("erase", q)
      BY <2>3, TasksDiffer
    <3> QED BY <1>3, <1>6, <2>1, <2>2, <2>3, <3>1 DEF WidgetInv
  <2>4. CASE q = n
    BY <1>3, <1>4, <1>6, <2>4 DEF WidgetInv
  <2> QED BY <2>3, <2>4
<1>10. ASSUME managing = "yes"
       PROVE  PicturesInv'
  <2>1. PicturesInv /\ PictureInv(n)
    BY <1>1, <1>10 DEF PicturesInv
  <2>2. n \in DOMAIN pictures /\ ~InApp("complete", n)
    BY <1>2, <2>1 DEF PictureInv
  <2>3. \A q : InUI("preview", q)' <=> InUI("preview", q)
    BY <1>6
  <2>4. ASSUME NEW q \in Ids0
        PROVE  PictureInv(q)'
    <3>1. PictureInv(q)
      BY <2>1 DEF PicturesInv
    <3>2. ASSUME NEW u \in {"success", "fail"}, q \in DOMAIN pictures
          PROVE  Before(toApp', TaskOf(u, q), TaskOf("complete", q))
      <4>1. Before(toApp, TaskOf(u, q), TaskOf("complete", q))
        BY <3>1, <3>2 DEF PictureInv
      <4>2. TaskOf(u, q) # TaskOf("complete", q) /\ TaskOf("complete", n) # TaskOf(u, q)
        BY TasksDiffer
      <4> QED BY <1>5, <4>1, <4>2
    <3>3. CASE q # n
      BY <1>2, <1>3, <1>5, <2>3, <3>1, <3>2, <3>3 DEF PictureInv
    <3>4. CASE q = n
      <4>1. /\ InApp("complete", n)' /\ ~InUI("preview", n)' /\ Widget(n)' = "complete"
            /\ (InApp("success", n)' <=> InApp("success", n))
            /\ (InApp("fail", n)' <=> InApp("fail", n))
        BY <1>3, <1>4, <1>5, <2>3
      <4> QED BY <1>2, <1>4, <2>2, <3>1, <3>2, <3>4, <4>1 DEF PictureInv
    <3> QED BY <3>3, <3>4
  <2> QED BY <1>2, <1>5, <2>1, <2>2, <2>4 DEF PicturesInv
<1> QED BY <1>2, <1>4, <1>7, <1>8, <1>9, <1>10 DEF PreviewsInv

(* Every step of the previews keeps their invariant.                       *)
LEMMA PreviewsKept ==
  ASSUME ~LeaveWithin, PreviewsInv, [PreviewsNext]_pvVars
  PROVE  PreviewsInv'
<1>1. CASE UNCHANGED pvVars
  <2>1. \A p : WidgetInv(p)' <=> WidgetInv(p)
    BY <1>1 DEF pvVars, WidgetInv, InUI, Widget
  <2>2. \A p : PictureInv(p)' <=> PictureInv(p)
    BY <1>1 DEF pvVars, PictureInv, InUI, InApp, Widget
  <2>3. (EndInv' <=> EndInv) /\ (PvTypes' <=> PvTypes)
    BY <1>1 DEF pvVars, EndInv, InUI, PvTypes
  <2>4. PicturesInv' <=> PicturesInv
    BY <1>1, <2>2 DEF pvVars, PicturesInv
  <2> QED BY <1>1, <2>1, <2>3, <2>4 DEF PreviewsInv, pvVars
<1>2. ASSUME NEW c \in Preview, WrapPreviewImage(c)
      PROVE  PreviewsInv'
  <2>1. /\ heeds[c] = <<"idle">> /\ managing = "yes"
        /\ UNCHANGED <<widgets, toApp, managing>>
        /\ MediaFailCallback(c) \/ PreviewImage(c)
    BY <1>2 DEF WrapPreviewImage
  <2> QED BY <2>1, FailKeeps, PictureKeeps
<1>3. ASSUME NEW n \in 0..(Ids - 1), WidgetShows(n) \/ PreviewImageCompleteCB(n)
      PROVE  PreviewsInv'
  BY <1>3, WidgetShowsKeeps, CompleteKeeps DEF Ids0
<1> QED BY <1>1, <1>2, <1>3, PreviewsDetachedKeeps, AppPostedKeeps, UIPostedKeeps
        DEF PreviewsNext

(* PreviewsInStep, for any calls and any number of ids, if no function     *)
(* drops the instance it is called for: a task finds the picture it is of, *)
(* however often its id was used before, nothing runs on what is deleted,  *)
(* and a call hears how it went and then that it is complete               *)
(* (media_impl.cpp).                                                       *)
THEOREM PreviewsStayInStep ==
  ASSUME ~LeaveWithin
  PROVE  PreviewsSpec => []PreviewsInStep
<1>1. PreviewsInit => PreviewsInv
  <2>1. SUFFICES ASSUME PreviewsInit PROVE PreviewsInv
    OBVIOUS
  <2>2. /\ DOMAIN pictures = {} /\ DOMAIN widgets = {} /\ toUI = <<>> /\ toApp = <<>>
        /\ managing = "yes" /\ misled = FALSE /\ nextId = 0
        /\ heeds = [c \in Preview |-> <<"idle">>]
    BY <2>1 DEF PreviewsInit, NoPictures
  <2>3. /\ Range(toUI) = {} /\ Range(toApp) = {} /\ IsInjective(toUI) /\ IsInjective(toApp)
        /\ toUI \in Seq(UITask) /\ toApp \in Seq(AppTask)
    BY <2>2 DEF Range, IsInjective
  <2>4. \A t, p : ~InUI(t, p) /\ ~InApp(t, p) /\ Widget(p) = "none"
    BY <2>2, <2>3 DEF InUI, InApp, Widget
  <2>5. PvTypes
    BY <2>2, <2>3, PreviewAssumption DEF PvTypes, Ids0, ToldAll
  <2>6. EndInv
    BY <2>2, <2>4 DEF EndInv
  <2>7. \A p \in Ids0 : WidgetInv(p) /\ PictureInv(p)
    BY <2>2, <2>4 DEF WidgetInv, PictureInv
  <2> QED BY <2>2, <2>3, <2>5, <2>6, <2>7 DEF PreviewsInv, PicturesInv
<1>2. PreviewsInv /\ [PreviewsNext]_pvVars => PreviewsInv'
  BY PreviewsKept
<1>3. PreviewsInv => PreviewsInStep
  <2>1. SUFFICES ASSUME PreviewsInv PROVE PreviewsInStep
    OBVIOUS
  <2>2. PvTypes /\ EndInv /\ (managing = "yes" => PicturesInv)
        /\ (managing # "no" => \A p \in Ids0 : WidgetInv(p))
    BY <2>1 DEF PreviewsInv
  <2>3. \A i, j \in DOMAIN pictures : pictures[i] = pictures[j] => i = j
    BY <2>2 DEF PicturesInv, EndInv
  <2>4. \A c \in Preview : heeds[c] \in ToldAll
    BY <2>2 DEF PvTypes
  <2>5. ASSUME managing = "yes", NEW p \in DOMAIN widgets, p \notin DOMAIN pictures
        PROVE  \E k \in DOMAIN toUI : toUI[k].pid = p
    <3>1. p \in Ids0 /\ widgets[p] \in {"shown", "told", "complete"}
      BY <2>2, <2>5 DEF PvTypes
    <3>2. InUI("erase", p)
      BY <2>2, <2>5, <3>1 DEF PicturesInv, PictureInv, WidgetInv, Widget
    <3>3. PICK k \in 1..Len(toUI) : toUI[k] = TaskOf("erase", p)
      BY <2>2, <3>2, RangeOf DEF InUI, PvTypes
    <3>4. k \in DOMAIN toUI /\ toUI[k].pid = p
      BY <2>2, <3>3, TasksDiffer, LenProperties DEF PvTypes
    <3> QED BY <3>4
  <2>6. managing = "yes" => DOMAIN widgets \subseteq
          DOMAIN pictures \cup {toUI[k].pid : k \in DOMAIN toUI}
    BY <2>5
  <2> QED BY <2>2, <2>3, <2>4, <2>6 DEF PreviewsInStep, ToldAll, ToldBegun, PvTypes
<1> QED BY <1>1, <1>2, <1>3, PTL DEF PreviewsSpec

-----------------------------------------------------------------------------
(***************************************************************************)
(* Samples of service.health, for any calls, instances, types and topics.  *)
(*                                                                         *)
(* A call of n types waits n times, in one list or in n, and num goes down *)
(* with each sample it takes: it never waits more often than num says      *)
(* (WaitsOf), so that the sample that makes num zero is its last.  While   *)
(* its functions run it stands in its list for the last time, and first    *)
(* (Settled, WalkInv).  Whoever waits at the shared HealthTopic is there.  *)
(***************************************************************************)
AnyPage == HealthPage \cup {NoMeta.page}
HealthAnswers == {<<>>, <<"reject">>, <<"resolve">>}
HealthMeta == [page : AnyPage, num : Nat, array : Nat, size : Nat,
               answer : HealthAnswers]
HealthTopic == [open : Nat, getList : Seq(HealthCall), subList : Seq(HealthPage)]

(* The promise of the call is resolved, and its functions run.             *)
Settled(c) == walk.step = "answered" /\ walk.call = c

(* The places a call waits at.                                             *)
WaitsOf(c) ==
  {w \in Event \X Nat : /\ w[2] \in DOMAIN hevents[w[1]].getList
                        /\ hevents[w[1]].getList[w[2]] = c}

HsTypes ==
  /\ hevents \in [Event -> HealthTopic] /\ known \in BOOLEAN
  /\ getMeta \in [HealthCall -> HealthMeta]
  /\ topicRefs \in Nat /\ pending \in Nat
  /\ healthCtx \in {"live", "isdestory", "deleted"}
  /\ quit \subseteq HealthPage

(* Nobody waits for a topic that is not open, and who has left is in no    *)
(* list that the context knows of.                                         *)
TopicInv(e) ==
  /\ IsActive(hevents[e]) => hevents[e].open > 0
  /\ ToSet(hevents[e].subList) \cap quit = {}
  /\ IsInjective(hevents[e].subList)
  /\ e # Shared => hevents[e].subList = <<>>
  /\ e = Shared /\ ~known =>
       hevents[e].getList = <<>> /\ hevents[e].subList = <<>>
  /\ e = Shared =>
       \A c \in ToSet(hevents[e].getList) : getMeta[c].page \notin quit

WaitsInv(c) ==
  /\ getMeta[c].array + getMeta[c].num = getMeta[c].size
  /\ getMeta[c].answer # <<>> => getMeta[c].num = 0
  /\ IsFiniteSet(WaitsOf(c))
  /\ ~Settled(c) => Cardinality(WaitsOf(c)) <= getMeta[c].num

TopicsInv ==
  /\ IsFiniteSet(OpenTopics) /\ topicRefs = pending + Cardinality(OpenTopics)
  /\ healthCtx # "live" => quit = HealthPage
  /\ healthCtx = "deleted" => topicRefs = 0

ListsInv ==
  /\ HsTypes /\ toDead \subseteq {"own"} /\ TopicsInv
  /\ \A e \in Event : TopicInv(e)
  /\ \A c \in HealthCall : WaitsInv(c)

(* Where health_topic_cb stands: a function runs of somebody who is        *)
(* subscribed, or of a call that waits nowhere else and is first, unless   *)
(* its instance has left.                                                  *)
WalkInv ==
  /\ walk.step \in {"calls", "called", "answered"} => walk.e \in Event
  /\ walk.step = "calls" =>
       walk.e = Shared /\ walk.page \in ToSet(hevents[Shared].subList)
  /\ walk.step = "answered" =>
       /\ walk.call \in HealthCall /\ getMeta[walk.call].answer = <<"resolve">>
       /\ WaitsOf(walk.call) \subseteq {<<walk.e, 1>>}
       /\ getMeta[walk.call].page \notin quit =>
            LET waiting == hevents[walk.e].getList
            IN  waiting # <<>> /\ Head(waiting) = walk.call

HealthInv == ListsInv /\ WalkInv

-----------------------------------------------------------------------------
(* Lists and numbers *)

(* All that is not gone stays of a list, and the first stays the first.    *)
LEMMA RemainingHas ==
  ASSUME NEW T, NEW s \in Seq(T), NEW gone
  PROVE  LET r == Remaining(s, gone)
         IN  /\ r \in Seq(T) /\ DOMAIN r = 1..Len(r)
             /\ \E f \in [1..Len(r) -> 1..Len(s)] :
                  /\ \A m, n \in 1..Len(r) : f[m] = f[n] => m = n
                  /\ \A n \in 1..Len(r) : r[n] = s[f[n]] /\ r[n] \notin gone
                  /\ \A i \in 1..Len(s) :
                       s[i] \notin gone => \E n \in 1..Len(r) : f[n] = i
                  /\ 1 \in 1..Len(s) /\ s[1] \notin gone =>
                       1 \in 1..Len(r) /\ f[1] = 1
<1> DEFINE stay == {i \in DOMAIN s : s[i] \notin gone}
           UpTo(i) == {j \in stay : j <= i}
           Place(i) == Cardinality(UpTo(i))
           P == [i \in stay |-> Place(i)]
           m == Cardinality(stay)
           f == [n \in 1..m |-> CHOOSE i \in stay : Place(i) = n]
           r == Remaining(s, gone)
<1>1. Len(s) \in Nat /\ DOMAIN s = 1..Len(s)
  BY LenProperties
<1>2. stay \subseteq 1..Len(s) /\ IsFiniteSet(stay) /\ m \in Nat
  <2>1. IsFiniteSet(1..Len(s)) /\ stay \in SUBSET (1..Len(s))
    BY <1>1, UpToCounted
  <2>2. IsFiniteSet(stay)
    BY <2>1, FS_Subset
  <2> HIDE DEF stay
  <2> QED BY <2>1, <2>2, FS_CardinalityType
<1>3. \A i \in stay : IsFiniteSet(UpTo(i)) /\ Place(i) \in 1..m
  <2>1. SUFFICES ASSUME NEW i \in stay PROVE IsFiniteSet(UpTo(i)) /\ Place(i) \in 1..m
    OBVIOUS
  <2>2. UpTo(i) \in SUBSET stay /\ i \in UpTo(i)
    BY <1>2
  <2> HIDE DEF UpTo, stay
  <2>3. IsFiniteSet(UpTo(i)) /\ Place(i) <= m
    BY <1>2, <2>2, FS_Subset
  <2>4. Place(i) \in Nat /\ Place(i) # 0
    BY <2>2, <2>3, FS_CardinalityType, FS_EmptySet
  <2> QED BY <1>2, <2>3, <2>4
<1>4. \A i, j \in stay : i < j => Place(i) < Place(j)
  <2>1. SUFFICES ASSUME NEW i \in stay, NEW j \in stay, i < j PROVE Place(i) < Place(j)
    OBVIOUS
  <2>2. UpTo(i) \in SUBSET UpTo(j) /\ j \in UpTo(j) /\ j \notin UpTo(i)
    BY <1>2, <2>1
  <2>3. IsFiniteSet(UpTo(j)) /\ Place(i) \in Nat /\ Place(j) \in Nat
    <3> HIDE DEF Place, UpTo, stay, m
    <3> QED BY <1>2, <1>3
  <2> HIDE DEF UpTo, stay
  <2>4. Place(i) <= Place(j) /\ (Place(j) = Place(i) => UpTo(j) = UpTo(i))
    BY <2>2, <2>3, FS_Subset
  <2>5. UpTo(j) # UpTo(i)
    BY <2>2
  <2> QED BY <2>3, <2>4, <2>5
<1>5. P \in Injection(stay, 1..m)
  <2>1. \A i, j \in stay : Place(i) = Place(j) => i = j
    <3>1. SUFFICES ASSUME NEW i \in stay, NEW j \in stay, Place(i) = Place(j)
                   PROVE i = j
      OBVIOUS
    <3> HIDE DEF Place, stay, m
    <3>2. i \in Nat /\ j \in Nat /\ Place(i) \in Nat /\ Place(j) \in Nat
      <4>1. i \in 1..Len(s) /\ j \in 1..Len(s) /\ i \in stay /\ j \in stay
        BY <1>2
      <4>2. Place(i) \in 1..m /\ Place(j) \in 1..m
        BY <1>3
      <4> QED BY <1>1, <1>2, <4>1, <4>2
    <3>3. ~(i < j) /\ ~(j < i)
      BY <1>4, <3>1, <3>2
    <3> QED BY <3>2, <3>3
  <2> HIDE DEF Place, stay
  <2> QED BY <1>3, <2>1 DEF Injection, IsInjective
<1>6. \A n \in 1..m : \E i \in stay : Place(i) = n
  <2>1. IsFiniteSet(1..m) /\ Cardinality(1..m) = m
    BY <1>2, UpToCounted
  <2> HIDE DEF Place, stay
  <2>2. P \in Surjection(stay, 1..m)
    BY <1>5, <2>1, FS_Injection
  <2> QED BY <2>2 DEF Surjection
<1>7. \A n \in 1..m : f[n] \in stay /\ Place(f[n]) = n
  <2> HIDE DEF Place, stay
  <2> QED BY <1>6
<1>8. r = [n \in 1..m |-> s[f[n]]]
  BY DEF Remaining
<1>9. f \in [1..m -> 1..Len(s)] /\ \A k, n \in 1..m : f[k] = f[n] => k = n
  <2>1. \A n \in 1..m : f[n] \in 1..Len(s)
    BY <1>2, <1>7
  <2> HIDE DEF Place, stay
  <2> QED BY <1>7, <2>1
<1>10. \A n \in 1..m : s[f[n]] \in T /\ s[f[n]] \notin gone
  <2>1. \A i \in stay : s[i] \in T /\ s[i] \notin gone
    BY <1>1, ElementOfSeq
  <2> HIDE DEF f, stay, Place
  <2> QED BY <1>7, <2>1
<1> HIDE DEF f, stay, r, m
<1>11. r \in Seq(T) /\ Len(r) = m /\ DOMAIN r = 1..m
  <2>1. r \in [1..m -> T]
    BY <1>8, <1>10
  <2>2. r \in Seq(T)
    BY <1>2, <2>1, SeqDef
  <2>3. DOMAIN r = 1..m
    BY <2>1
  <2> QED BY <1>2, <2>2, <2>3, LenProperties
<1>12. \A n \in 1..Len(r) : r[n] = s[f[n]] /\ r[n] \notin gone
  BY <1>8, <1>10, <1>11
<1>13. \A i \in stay : Place(i) \in 1..m /\ f[Place(i)] = i
  <2>1. SUFFICES ASSUME NEW i \in stay PROVE Place(i) \in 1..m /\ f[Place(i)] = i
    OBVIOUS
  <2>2. Place(i) \in 1..m /\ f[Place(i)] \in stay /\ Place(f[Place(i)]) = Place(i)
    <3> HIDE DEF Place
    <3> QED BY <1>3, <1>7
  <2> DEFINE j == f[Place(i)]
  <2> HIDE DEF Place, j
  <2>3. P[i] = Place(i) /\ (j \in stay => P[j] = Place(j))
    OBVIOUS
  <2>4. P[j] = P[i] /\ j \in stay
    BY <2>2, <2>3 DEF j
  <2> HIDE DEF P
  <2>5. i = j
    BY <1>5, <2>4 DEF Injection, IsInjective
  <2> QED BY <2>2, <2>5 DEF j
<1>14. \A i \in 1..Len(s) : s[i] \notin gone => \E n \in 1..m : f[n] = i
  <2>1. \A i \in 1..Len(s) : s[i] \notin gone => i \in stay
    BY <1>1 DEF stay
  <2> HIDE DEF Place
  <2> QED BY <1>13, <2>1
<1>15. 1 \in 1..Len(s) /\ s[1] \notin gone => 1 \in 1..m /\ f[1] = 1
  <2>1. SUFFICES ASSUME 1 \in 1..Len(s), s[1] \notin gone
                 PROVE 1 \in 1..m /\ f[1] = 1
    OBVIOUS
  <2>2. 1 \in stay
    BY <1>1, <2>1 DEF stay
  <2>3. UpTo(1) = {1}
    <3> HIDE DEF stay, m
    <3>1. \A j \in stay : j \in Nat /\ 1 <= j
      BY ONLY <1>1, <1>2
    <3>2. \A j \in stay : j <= 1 <=> j = 1
      BY ONLY <3>1
    <3> QED BY ONLY <2>2, <3>2
  <2>4. Place(1) = 1
    <3> HIDE DEF UpTo
    <3> QED BY <2>3, FS_Singleton
  <2> HIDE DEF Place
  <2> QED BY <1>13, <2>2, <2>4
<1> HIDE DEF Place
<1> QED BY <1>9, <1>11, <1>12, <1>14, <1>15 DEF r

(* What stays of a list stands in it in its order.                         *)
LEMMA RemainingIs ==
  ASSUME NEW T, NEW s \in Seq(T), NEW gone
  PROVE  LET r == Remaining(s, gone)
         IN  /\ r \in Seq(T) /\ DOMAIN r = 1..Len(r)
             /\ \E f \in [1..Len(r) -> 1..Len(s)] :
                  /\ \A m, n \in 1..Len(r) : f[m] = f[n] => m = n
                  /\ \A n \in 1..Len(r) : r[n] = s[f[n]] /\ r[n] \notin gone
<1> DEFINE r == Remaining(s, gone)
<1>1. r \in Seq(T) /\ DOMAIN r = 1..Len(r)
  BY RemainingHas
<1>2. PICK f \in [1..Len(r) -> 1..Len(s)] :
        /\ \A m, n \in 1..Len(r) : f[m] = f[n] => m = n
        /\ \A n \in 1..Len(r) : r[n] = s[f[n]] /\ r[n] \notin gone
        /\ \A i \in 1..Len(s) :
             s[i] \notin gone => \E n \in 1..Len(r) : f[n] = i
        /\ 1 \in 1..Len(s) /\ s[1] \notin gone => 1 \in 1..Len(r) /\ f[1] = 1
  BY RemainingHas
<1> HIDE DEF r
<1>3. \E h \in [1..Len(r) -> 1..Len(s)] :
        /\ \A m, n \in 1..Len(r) : h[m] = h[n] => m = n
        /\ \A n \in 1..Len(r) : r[n] = s[h[n]] /\ r[n] \notin gone
  BY <1>2
<1> QED BY <1>1, <1>3 DEF r

(* So all others remain.                                                   *)
LEMMA AllOthersRemain ==
  ASSUME NEW T, NEW s \in Seq(T), NEW gone
  PROVE  ToSet(s) \ gone \subseteq ToSet(Remaining(s, gone))
<1> DEFINE r == Remaining(s, gone)
<1>1. DOMAIN r = 1..Len(r) /\ DOMAIN s = 1..Len(s)
  BY RemainingHas, LenProperties
<1>2. PICK f \in [1..Len(r) -> 1..Len(s)] :
        /\ \A m, n \in 1..Len(r) : f[m] = f[n] => m = n
        /\ \A n \in 1..Len(r) : r[n] = s[f[n]] /\ r[n] \notin gone
        /\ \A i \in 1..Len(s) :
             s[i] \notin gone => \E n \in 1..Len(r) : f[n] = i
        /\ 1 \in 1..Len(s) /\ s[1] \notin gone => 1 \in 1..Len(r) /\ f[1] = 1
  BY RemainingHas
<1> HIDE DEF r
<1>3. ASSUME NEW x \in ToSet(s), x \notin gone PROVE x \in ToSet(r)
  <2>1. PICK i \in 1..Len(s) : s[i] = x
    BY <1>1, <1>3 DEF ToSet
  <2>2. PICK n \in 1..Len(r) : f[n] = i
    BY <1>2, <1>3, <2>1
  <2> QED BY <1>1, <1>2, <2>1, <2>2 DEF ToSet
<1> QED BY <1>3 DEF r

LEMMA NothingRemains ==
  ASSUME NEW gone
  PROVE  Remaining(<<>>, gone) = <<>>
<1>1. PICK s \in Seq({gone}) : s = <<>>
  <2>1. <<>> \in Seq({gone})
    OBVIOUS
  <2> QED BY <2>1
<1> DEFINE r == Remaining(s, gone)
<1>2. /\ r \in Seq({gone}) /\ DOMAIN r = 1..Len(r)
      /\ \E f \in [1..Len(r) -> 1..Len(s)] :
           /\ \A m, n \in 1..Len(r) : f[m] = f[n] => m = n
           /\ \A n \in 1..Len(r) : r[n] = s[f[n]] /\ r[n] \notin gone
  BY RemainingIs
<1> HIDE DEF r
<1>3. PICK f \in [1..Len(r) -> 1..Len(s)] : TRUE
  BY <1>2
<1>4. Len(r) \in Nat /\ Len(s) = 0
  BY <1>1, <1>2, LenProperties
<1>5. ~(1 <= Len(r))
  <2>1. SUFFICES ASSUME 1 <= Len(r) PROVE FALSE
    OBVIOUS
  <2>2. 1 \in 1..Len(r) /\ 1..Len(s) = {}
    BY <1>4, <2>1
  <2> QED BY <2>2
<1>6. Len(r) = 0
  BY <1>4, <1>5
<1>7. r = <<>>
  BY <1>2, <1>6, EmptySeq
<1> QED BY <1>1, <1>7 DEF r

(* A set that is counted out by an interval of numbers.                    *)
LEMMA CountedOut ==
  ASSUME NEW k \in Nat, NEW S, NEW f \in [1..k -> S],
         \A m, n \in 1..k : f[m] = f[n] => m = n,
         \A x \in S : \E n \in 1..k : f[n] = x
  PROVE  IsFiniteSet(S) /\ Cardinality(S) = k
<1>1. IsFiniteSet(1..k) /\ Cardinality(1..k) = k
  BY UpToCounted
<1>2. f \in Bijection(1..k, S)
  BY DEF Bijection, Injection, Surjection, IsInjective
<1> QED BY <1>1, <1>2, FS_Bijection DEF ExistsBijection

(* Two sets that are apart.                                                *)
LEMMA CountedTogether ==
  ASSUME NEW S, NEW T, IsFiniteSet(S), IsFiniteSet(T), S \cap T = {}
  PROVE  /\ IsFiniteSet(S \cup T)
         /\ Cardinality(S \cup T) = Cardinality(S) + Cardinality(T)
<1>1. Cardinality({}) = 0 /\ Cardinality(S) \in Nat /\ Cardinality(T) \in Nat
  BY FS_EmptySet, FS_CardinalityType
<1>2. IsFiniteSet(S \cup T) /\ Cardinality(S \cup T) =
        Cardinality(S) + Cardinality(T) - Cardinality(S \cap T)
  BY FS_Union
<1>3. Cardinality(S \cap T) = 0
  BY <1>1
<1> QED BY <1>1, <1>2, <1>3

(* A finite set with k more elements.                                      *)
LEMMA Grown ==
  ASSUME NEW S, NEW T, IsFiniteSet(S), NEW k \in Nat, NEW f,
         \A m, n \in 1..k : f[m] = f[n] => m = n,
         \A n \in 1..k : f[n] \notin S,
         T = S \cup {f[n] : n \in 1..k}
  PROVE  IsFiniteSet(T) /\ Cardinality(T) = Cardinality(S) + k
<1> DEFINE N == {f[n] : n \in 1..k}
           g == [n \in 1..k |-> f[n]]
<1>1. IsFiniteSet(N) /\ Cardinality(N) = k
  <2>1. g \in [1..k -> N] /\ (\A m, n \in 1..k : g[m] = g[n] => m = n)
        /\ \A x \in N : \E n \in 1..k : g[n] = x
    OBVIOUS
  <2> HIDE DEF g, N
  <2> QED BY <2>1, CountedOut
<1>2. S \cap N = {} /\ T = S \cup N
  OBVIOUS
<1> HIDE DEF N
<1>3. IsFiniteSet(S \cup N) /\ Cardinality(S \cup N) = Cardinality(S) + Cardinality(N)
  BY <1>1, <1>2, CountedTogether
<1> QED BY <1>1, <1>2, <1>3

-----------------------------------------------------------------------------
(* The topics that are open *)

LEMMA OpenTopicsAre ==
  ASSUME NEW x
  PROVE  x \in OpenTopics <=>
           \E e \in Event : \E i \in 1..hevents[e].open : x = <<e, i>>
BY DEF OpenTopics

LEMMA EventsDiffer ==
  ASSUME NEW c \in HealthCall, NEW i \in 1..MaxTypes
  PROVE  <<c, i>> \in Event /\ <<c, i>> # Shared /\ Shared \in Event
<1>1. <<c, i>> \in Own(c) /\ i # 0
  BY HealthAssumption DEF Own
<1> QED BY <1>1 DEF Event, Shared

(* Topics of the shared HealthTopic open.                                  *)
LEMMA SharedOpens ==
  ASSUME hevents \in [Event -> HealthTopic], IsFiniteSet(OpenTopics), NEW k \in Nat,
         \A e \in Event : hevents'[e].open =
           hevents[e].open + (IF e = Shared THEN k ELSE 0)
  PROVE  IsFiniteSet(OpenTopics') /\ Cardinality(OpenTopics') = Cardinality(OpenTopics) + k
<1>1. Shared \in Event /\ hevents[Shared].open \in Nat
      /\ \A e \in Event : hevents[e].open \in Nat
  BY DEF Event, HealthTopic
<1> DEFINE o == hevents[Shared].open
           f == [n \in 1..k |-> <<Shared, o + n>>]
<1>2. \A m, n \in 1..k : f[m] = f[n] => m = n
  BY <1>1
<1>3. \A n \in 1..k : f[n] \notin OpenTopics
  <2>1. SUFFICES ASSUME NEW n \in 1..k, <<Shared, o + n>> \in OpenTopics PROVE FALSE
    OBVIOUS
  <2>2. PICK e \in Event : \E i \in 1..hevents[e].open : <<Shared, o + n>> = <<e, i>>
    BY <2>1, OpenTopicsAre
  <2> QED BY <1>1, <2>2
<1>4. OpenTopics' = OpenTopics \cup {f[n] : n \in 1..k}
  <2>1. ASSUME NEW x \in OpenTopics' PROVE x \in OpenTopics \cup {f[n] : n \in 1..k}
    <3>1. PICK e, i : e \in Event /\ i \in 1..hevents'[e].open /\ x = <<e, i>>
      BY <2>1 DEF OpenTopics
    <3>2. CASE i \in 1..hevents[e].open
      BY <3>1, <3>2, OpenTopicsAre
    <3>3. CASE i \notin 1..hevents[e].open
      <4>1. e = Shared /\ i - o \in 1..k /\ i = o + (i - o)
        BY <1>1, <3>1, <3>3
      <4>2. x = f[i - o]
        BY <3>1, <4>1
      <4> QED BY <4>1, <4>2
    <3> QED BY <3>2, <3>3
  <2>2. ASSUME NEW x \in OpenTopics PROVE x \in OpenTopics'
    <3>1. PICK e, i : e \in Event /\ i \in 1..hevents[e].open /\ x = <<e, i>>
      BY <2>2, OpenTopicsAre
    <3>2. i \in 1..hevents'[e].open
      BY <1>1, <3>1
    <3> QED BY <3>1, <3>2 DEF OpenTopics
  <2>3. ASSUME NEW n \in 1..k PROVE f[n] \in OpenTopics'
    <3>1. o + n \in 1..hevents'[Shared].open /\ f[n] = <<Shared, o + n>>
      BY <1>1, <2>3
    <3> QED BY <1>1, <3>1 DEF OpenTopics
  <2> QED BY <2>1, <2>2, <2>3
<1> HIDE DEF f
<1> QED BY <1>2, <1>3, <1>4, Grown

(* A topic opens for each of the first k types of a call.                  *)
LEMMA OwnOpens ==
  ASSUME hevents \in [Event -> HealthTopic], IsFiniteSet(OpenTopics),
         NEW c \in HealthCall, NEW k \in 0..MaxTypes,
         \A e \in Event : hevents'[e].open =
           hevents[e].open + (IF e \in {<<c, i>> : i \in 1..k} THEN 1 ELSE 0)
  PROVE  IsFiniteSet(OpenTopics') /\ Cardinality(OpenTopics') = Cardinality(OpenTopics) + k
<1>1. /\ \A i \in 1..k : <<c, i>> \in Event
      /\ \A e \in Event : hevents[e].open \in Nat
      /\ k \in Nat
  <2>1. \A i \in 1..k : i \in 1..MaxTypes
    BY HealthAssumption
  <2> QED BY <2>1, EventsDiffer, HealthAssumption DEF HealthTopic
<1> DEFINE O(n) == hevents[<<c, n>>].open
           f == [n \in 1..k |-> <<<<c, n>>, O(n) + 1>>]
<1>2. \A m, n \in 1..k : f[m] = f[n] => m = n
  OBVIOUS
<1>3. \A n \in 1..k : f[n] \notin OpenTopics
  <2>1. SUFFICES ASSUME NEW n \in 1..k, <<<<c, n>>, O(n) + 1>> \in OpenTopics PROVE FALSE
    OBVIOUS
  <2>2. PICK e \in Event : \E i \in 1..hevents[e].open : <<<<c, n>>, O(n) + 1>> = <<e, i>>
    BY <2>1, OpenTopicsAre
  <2> QED BY <1>1, <2>2
<1>4. OpenTopics' = OpenTopics \cup {f[n] : n \in 1..k}
  <2>1. ASSUME NEW x \in OpenTopics' PROVE x \in OpenTopics \cup {f[n] : n \in 1..k}
    <3>1. PICK e, i : e \in Event /\ i \in 1..hevents'[e].open /\ x = <<e, i>>
      BY <2>1 DEF OpenTopics
    <3>2. CASE i \in 1..hevents[e].open
      BY <3>1, <3>2, OpenTopicsAre
    <3>3. CASE i \notin 1..hevents[e].open
      <4>1. PICK n \in 1..k : e = <<c, n>> /\ i = O(n) + 1
        <5>1. e \in {<<c, j>> : j \in 1..k}
          BY <1>1, <3>1, <3>3
        <5>2. PICK n \in 1..k : e = <<c, n>>
          BY <5>1
        <5>3. hevents'[e].open = hevents[e].open + 1 /\ hevents[e].open \in Nat
          BY <1>1, <3>1, <5>1
        <5>4. i = hevents[e].open + 1
          BY <3>1, <3>3, <5>3
        <5> QED BY <5>2, <5>4
      <4>2. x = f[n]
        BY <3>1, <4>1
      <4> QED BY <4>1, <4>2
    <3> QED BY <3>2, <3>3
  <2>2. ASSUME NEW x \in OpenTopics PROVE x \in OpenTopics'
    <3>1. PICK e, i : e \in Event /\ i \in 1..hevents[e].open /\ x = <<e, i>>
      BY <2>2, OpenTopicsAre
    <3>2. i \in 1..hevents'[e].open
      BY <1>1, <3>1
    <3> QED BY <3>1, <3>2 DEF OpenTopics
  <2>3. ASSUME NEW n \in 1..k PROVE f[n] \in OpenTopics'
    <3>1. O(n) + 1 \in 1..hevents'[<<c, n>>].open /\ f[n] = <<<<c, n>>, O(n) + 1>>
      BY <1>1, <2>3
    <3> QED BY <1>1, <3>1 DEF OpenTopics
  <2> QED BY <2>1, <2>2, <2>3
<1> HIDE DEF f
<1> QED BY <1>1, <1>2, <1>3, <1>4, Grown

(* Some topics of a HealthTopic close.                                     *)
LEMMA TopicsClose ==
  ASSUME hevents \in [Event -> HealthTopic], IsFiniteSet(OpenTopics),
         NEW e \in Event, NEW k \in 0..hevents[e].open,
         \A d \in Event : hevents'[d].open =
           IF d = e THEN hevents[e].open - k ELSE hevents[d].open
  PROVE  /\ IsFiniteSet(OpenTopics') /\ Cardinality(OpenTopics') \in Nat
         /\ Cardinality(OpenTopics) = Cardinality(OpenTopics') + k
<1> DEFINE o == hevents'[e].open
           f == [n \in 1..k |-> <<e, o + n>>]
<1>1. /\ \A d \in Event : hevents[d].open \in Nat
      /\ k \in Nat /\ o = hevents[e].open - k /\ o \in Nat
  BY DEF HealthTopic
<1> HIDE DEF o
<1>2. \A m, n \in 1..k : f[m] = f[n] => m = n
  BY <1>1
<1>3. \A n \in 1..k : f[n] \notin OpenTopics'
  <2>1. SUFFICES ASSUME NEW n \in 1..k, <<e, o + n>> \in OpenTopics' PROVE FALSE
    OBVIOUS
  <2>2. PICK d \in Event : \E i \in 1..hevents'[d].open : <<e, o + n>> = <<d, i>>
    BY <2>1 DEF OpenTopics
  <2>3. o + n \in 1..o
    BY <2>2 DEF o
  <2> QED BY <1>1, <2>3
<1>4. OpenTopics = OpenTopics' \cup {f[n] : n \in 1..k}
  <2>1. ASSUME NEW x \in OpenTopics PROVE x \in OpenTopics' \cup {f[n] : n \in 1..k}
    <3>1. PICK d, i : d \in Event /\ i \in 1..hevents[d].open /\ x = <<d, i>>
      BY <2>1, OpenTopicsAre
    <3>2. CASE i \in 1..hevents'[d].open
      BY <3>1, <3>2 DEF OpenTopics
    <3>3. CASE i \notin 1..hevents'[d].open
      <4>1. d = e
        BY <3>1, <3>3
      <4>2. i \notin 1..o
        BY <3>3, <4>1 DEF o
      <4>3. i - o \in 1..k /\ i = o + (i - o)
        BY <1>1, <3>1, <4>1, <4>2
      <4>4. x = f[i - o]
        BY <3>1, <4>1, <4>3
      <4> QED BY <4>3, <4>4
    <3> QED BY <3>2, <3>3
  <2>2. ASSUME NEW x \in OpenTopics' PROVE x \in OpenTopics
    <3>1. PICK d, i : d \in Event /\ i \in 1..hevents'[d].open /\ x = <<d, i>>
      BY <2>2 DEF OpenTopics
    <3>2. i \in 1..hevents[d].open
      BY <1>1, <3>1
    <3> QED BY <3>1, <3>2, OpenTopicsAre
  <2>3. ASSUME NEW n \in 1..k PROVE f[n] \in OpenTopics
    <3>1. o + n \in 1..hevents[e].open /\ f[n] = <<e, o + n>>
      BY <1>1, <2>3
    <3> QED BY <3>1, OpenTopicsAre
  <2> QED BY <2>1, <2>2, <2>3
<1>5. OpenTopics' \in SUBSET OpenTopics
  BY <1>4
<1>6. IsFiniteSet(OpenTopics') /\ Cardinality(OpenTopics') \in Nat
  BY <1>5, FS_Subset, FS_CardinalityType
<1> HIDE DEF f
<1>7. Cardinality(OpenTopics) = Cardinality(OpenTopics') + k
  BY <1>1, <1>2, <1>3, <1>4, <1>6, Grown
<1> QED BY <1>6, <1>7

-----------------------------------------------------------------------------
(* The calls that wait *)

LEMMA WaitsAre ==
  ASSUME hevents \in [Event -> HealthTopic], NEW c
  PROVE  /\ \A e \in Event : \A i \in DOMAIN hevents[e].getList :
              hevents[e].getList[i] = c => <<e, i>> \in WaitsOf(c)
         /\ \A w \in WaitsOf(c) :
              \E e \in Event : \E i \in DOMAIN hevents[e].getList :
                w = <<e, i>> /\ hevents[e].getList[i] = c
<1>1. \A e \in Event : DOMAIN hevents[e].getList \subseteq Nat
  <2>1. \A e \in Event : hevents[e].getList \in Seq(HealthCall)
    BY DEF HealthTopic
  <2> QED BY <2>1, LenProperties
<1>2. ASSUME NEW e \in Event, NEW i \in DOMAIN hevents[e].getList,
             hevents[e].getList[i] = c
      PROVE  <<e, i>> \in WaitsOf(c)
  BY <1>1, <1>2 DEF WaitsOf
<1>3. ASSUME NEW w \in WaitsOf(c)
      PROVE  \E e \in Event : \E i \in DOMAIN hevents[e].getList :
               w = <<e, i>> /\ hevents[e].getList[i] = c
  BY <1>3 DEF WaitsOf
<1> QED BY <1>2, <1>3

(* The list of one HealthTopic gets shorter.                               *)
LEMMA WaitsMoved ==
  ASSUME hevents \in [Event -> HealthTopic], (hevents \in [Event -> HealthTopic])',
         NEW c, IsFiniteSet(WaitsOf(c)), NEW e \in Event,
         \A d \in Event \ {e} : hevents'[d].getList = hevents[d].getList,
         NEW f, \A n \in DOMAIN hevents'[e].getList :
                  /\ f[n] \in DOMAIN hevents[e].getList
                  /\ hevents'[e].getList[n] = hevents[e].getList[f[n]],
         \A m, n \in DOMAIN hevents'[e].getList : f[m] = f[n] => m = n,
         NEW gone, \A n \in DOMAIN hevents'[e].getList : <<e, f[n]>> \notin gone,
         \A w \in gone : w[1] = e
  PROVE  /\ IsFiniteSet(WaitsOf(c)')
         /\ Cardinality(WaitsOf(c)') <= Cardinality(WaitsOf(c) \ gone)
<1> DEFINE W == WaitsOf(c)
           V == WaitsOf(c)'
           g == [w \in V |-> IF w[1] = e THEN <<e, f[w[2]]>> ELSE w]
<1>1. ASSUME NEW w \in V
      PROVE  \E d \in Event : \E i \in DOMAIN hevents'[d].getList :
               w = <<d, i>> /\ hevents'[d].getList[i] = c
  BY <1>1 DEF WaitsOf
<1>2. ASSUME NEW w \in V PROVE g[w] \in W \ gone
  <2>1. PICK d, i : /\ d \in Event /\ i \in DOMAIN hevents'[d].getList
                    /\ w = <<d, i>> /\ hevents'[d].getList[i] = c
    BY <1>1, <1>2
  <2>2. CASE d = e
    <3>1. g[w] = <<e, f[i]>> /\ f[i] \in DOMAIN hevents[e].getList
          /\ hevents[e].getList[f[i]] = c
      BY <2>1, <2>2
    <3> QED BY <2>1, <2>2, <3>1, WaitsAre
  <2>3. CASE d # e
    <3>1. g[w] = <<d, i>> /\ hevents[d].getList = hevents'[d].getList
      BY <2>1, <2>3
    <3>2. g[w] \in W /\ g[w][1] # e
      BY <2>1, <2>3, <3>1, WaitsAre
    <3> QED BY <3>2
  <2> QED BY <2>2, <2>3
<1>3. ASSUME NEW v \in V, NEW w \in V, g[v] = g[w] PROVE v = w
  <2>1. PICK d, i : d \in Event /\ i \in DOMAIN hevents'[d].getList /\ v = <<d, i>>
    BY <1>1, <1>3
  <2>2. PICK b, j : b \in Event /\ j \in DOMAIN hevents'[b].getList /\ w = <<b, j>>
    BY <1>1, <1>3
  <2>3. g[v] = (IF d = e THEN <<e, f[i]>> ELSE <<d, i>>)
        /\ g[w] = (IF b = e THEN <<e, f[j]>> ELSE <<b, j>>)
    BY <2>1, <2>2
  <2>4. d = b /\ (d = e => f[i] = f[j]) /\ (d # e => i = j)
    BY <1>3, <2>3
  <2> QED BY <2>1, <2>2, <2>4
<1>4. g \in Injection(V, W \ gone)
  <2>1. g \in [V -> W \ gone]
    BY <1>2
  <2> HIDE DEF V, W
  <2> QED BY <1>3, <2>1 DEF Injection, IsInjective
<1>5. IsFiniteSet(W \ gone)
  <2>1. W \ gone \in SUBSET W
    OBVIOUS
  <2> HIDE DEF W
  <2> QED BY <2>1, FS_Subset DEF W
<1> HIDE DEF g, V, W
<1> QED BY <1>4, <1>5, FS_Injection DEF V, W

(* Nobody waits anywhere else than before.                                 *)
LEMMA WaitsStay ==
  ASSUME \A e \in Event : hevents'[e].getList = hevents[e].getList
  PROVE  \A c : WaitsOf(c)' = WaitsOf(c)
<1>1. SUFFICES ASSUME NEW c PROVE WaitsOf(c)' = WaitsOf(c)
  OBVIOUS
<1>2. \A w \in Event \X Nat :
        /\ w[1] \in Event
        /\ hevents'[w[1]].getList = hevents[w[1]].getList
  OBVIOUS
<1> QED BY <1>2 DEF WaitsOf

-----------------------------------------------------------------------------
(* A call of getRecentSamples with n types, of which k topics are opened.  *)

(* The topics are counted.                                                 *)
LEMMA TargetsOpen ==
  ASSUME HsTypes, IsFiniteSet(OpenTopics), NEW c \in HealthCall, NEW n \in 0..MaxTypes,
         NEW k \in 0..n,
         \A e \in Event : hevents'[e].open = hevents[e].open + OpenedAt(c, n, k, e)
  PROVE  /\ IsFiniteSet(OpenTopics')
         /\ Cardinality(OpenTopics') =
              Cardinality(OpenTopics) + (IF IdleFor(n) THEN k ELSE 0)
<1>1. hevents \in [Event -> HealthTopic] /\ n \in Nat /\ k \in Nat /\ k \in 0..MaxTypes
  BY HealthAssumption DEF HsTypes
<1>2. CASE ~IdleFor(n)
  <2>1. \A e \in Event : hevents'[e].open = hevents[e].open + (IF e = Shared THEN 0 ELSE 0)
    BY <1>2 DEF OpenedAt
  <2> QED BY <1>1, <1>2, <2>1, SharedOpens
<1>3. CASE IdleFor(n) /\ known
  <2>1. \A e \in Event : OpenedAt(c, n, k, e) = IF e = Shared THEN k ELSE 0
    BY <1>3 DEF OpenedAt, TargetsOf
  <2>2. \A e \in Event : hevents'[e].open = hevents[e].open + (IF e = Shared THEN k ELSE 0)
    BY <2>1
  <2> QED BY <1>1, <1>3, <2>2, SharedOpens
<1>4. CASE IdleFor(n) /\ ~known
  <2>1. \A e \in Event :
          OpenedAt(c, n, k, e) = IF e \in {<<c, i>> : i \in 1..k} THEN 1 ELSE 0
    <3>1. SUFFICES ASSUME NEW e \in Event
                   PROVE OpenedAt(c, n, k, e) =
                           IF e \in {<<c, i>> : i \in 1..k} THEN 1 ELSE 0
      OBVIOUS
    <3>2. CASE e \in TargetsOf(c, n)
      <4>1. PICK i \in 1..n : e = <<c, i>>
        BY <1>4, <3>2 DEF TargetsOf
      <4>2. e[2] = i /\ (e \in {<<c, j>> : j \in 1..k} <=> i \in 1..k)
        BY <4>1
      <4> QED BY <1>1, <1>4, <3>2, <4>1, <4>2 DEF OpenedAt
    <3>3. CASE e \notin TargetsOf(c, n)
      <4>1. e \notin {<<c, j>> : j \in 1..k}
        BY <1>1, <1>4, <3>3 DEF TargetsOf
      <4> QED BY <3>3, <4>1 DEF OpenedAt
    <3> QED BY <3>2, <3>3
  <2>2. \A e \in Event : hevents'[e].open =
          hevents[e].open + (IF e \in {<<c, i>> : i \in 1..k} THEN 1 ELSE 0)
    BY <2>1
  <2> QED BY <1>1, <1>4, <2>2, OwnOpens
<1> QED BY <1>2, <1>3, <1>4

(* The lists after the call waits: l stands for the list before.           *)
LEMMA WaitIs ==
  ASSUME HsTypes, NEW c \in HealthCall, NEW n \in 0..MaxTypes, NEW e \in Event,
         NEW l \in Seq(HealthCall)
  PROVE  LET w == WaitAt(c, n, e)
         IN  /\ l \o w \in Seq(HealthCall) /\ Len(w) \in Nat /\ Len(l) \in Nat
             /\ Len(w) = IF e \notin TargetsOf(c, n) THEN 0 ELSE IF known THEN n ELSE 1
             /\ DOMAIN (l \o w) = 1..(Len(l) + Len(w)) /\ DOMAIN l = 1..Len(l)
             /\ \A i \in 1..Len(l) : (l \o w)[i] = l[i]
             /\ \A i \in 1..Len(w) : (l \o w)[Len(l) + i] = c
<1> DEFINE w == WaitAt(c, n, e)
           m == IF e \notin TargetsOf(c, n) THEN 0 ELSE IF known THEN n ELSE 1
<1>1. m \in Nat
  BY HealthAssumption
<1>2. w = [i \in 1..m |-> c]
  BY DEF WaitAt
<1> HIDE DEF m, w
<1>3. w \in Seq(HealthCall) /\ Len(w) = m /\ \A i \in 1..m : w[i] = c
  BY <1>1, <1>2
<1>4. /\ l \o w \in Seq(HealthCall) /\ Len(l \o w) = Len(l) + Len(w)
      /\ \A i \in 1..Len(l) + Len(w) :
           (l \o w)[i] = IF i <= Len(l) THEN l[i] ELSE w[i - Len(l)]
  BY <1>3, ConcatProperties
<1>5. Len(l) \in Nat /\ DOMAIN l = 1..Len(l) /\ DOMAIN (l \o w) = 1..(Len(l) + Len(w))
  BY <1>4, LenProperties
<1>6. \A i \in 1..m : /\ Len(l) + i \in 1..Len(l) + Len(w) /\ ~(Len(l) + i <= Len(l))
                     /\ (Len(l) + i) - Len(l) = i
  BY <1>1, <1>3, <1>5
<1>7. \A i \in 1..m : (l \o w)[Len(l) + i] = c
  BY <1>3, <1>4, <1>6
<1>8. \A i \in 1..Len(l) : (l \o w)[i] = l[i]
  BY <1>1, <1>3, <1>4, <1>5
<1> QED BY <1>1, <1>3, <1>4, <1>5, <1>7, <1>8 DEF m, w

(* Who comes to wait does so behind the first.                             *)
LEMMA FirstStays ==
  ASSUME HsTypes, NEW c \in HealthCall, NEW n \in 0..MaxTypes, NEW e \in Event,
         NEW l \in Seq(HealthCall), l # <<>>
  PROVE  l \o WaitAt(c, n, e) # <<>> /\ Head(l \o WaitAt(c, n, e)) = Head(l)
<1> DEFINE w == WaitAt(c, n, e)
<1>1. /\ l \o w \in Seq(HealthCall) /\ Len(w) \in Nat /\ Len(l) \in Nat
      /\ DOMAIN (l \o w) = 1..(Len(l) + Len(w)) /\ DOMAIN l = 1..Len(l)
      /\ \A i \in 1..Len(l) : (l \o w)[i] = l[i]
  BY WaitIs
<1>2. Len(l) # 0 /\ Head(l) = l[1]
  BY EmptySeq, HeadTailProperties
<1>3. 1 \in 1..Len(l) /\ 1 \in DOMAIN (l \o w)
  BY <1>1, <1>2
<1> HIDE DEF w
<1>4. PICK s \in Seq(HealthCall) : s = l \o w
  BY <1>1
<1>5. s # <<>> /\ s[1] = l[1]
  BY <1>1, <1>3, <1>4
<1>6. Head(s) = s[1]
  BY <1>5, HeadTailProperties
<1> QED BY <1>2, <1>4, <1>5, <1>6 DEF w

(* The call waits n times, and nobody else waits longer.                   *)
LEMMA WaitsAdded ==
  ASSUME HsTypes, NEW c \in HealthCall, NEW n \in 1..MaxTypes, WaitsOf(c) = {},
         \A e \in Event : hevents'[e].getList = hevents[e].getList \o WaitAt(c, n, e)
  PROVE  /\ IsFiniteSet(WaitsOf(c)') /\ Cardinality(WaitsOf(c)') = n
         /\ \A d \in HealthCall \ {c} : WaitsOf(d)' = WaitsOf(d)
<1> DEFINE L(e) == hevents[e].getList
           W(e) == WaitAt(c, n, e)
<1>1. hevents \in [Event -> HealthTopic] /\ n \in Nat /\ n \in 0..MaxTypes
      /\ \A e \in Event : L(e) \in Seq(HealthCall)
  BY HealthAssumption DEF HsTypes, HealthTopic
<1>2. \A e \in Event :
        /\ Len(W(e)) \in Nat /\ Len(L(e)) \in Nat /\ DOMAIN L(e) = 1..Len(L(e))
        /\ Len(W(e)) = IF e \notin TargetsOf(c, n) THEN 0 ELSE IF known THEN n ELSE 1
        /\ DOMAIN hevents'[e].getList = 1..(Len(L(e)) + Len(W(e)))
        /\ \A i \in 1..Len(L(e)) : hevents'[e].getList[i] = L(e)[i]
        /\ \A i \in 1..Len(W(e)) : hevents'[e].getList[Len(L(e)) + i] = c
  <2>1. SUFFICES ASSUME NEW e \in Event
        PROVE
        /\ Len(W(e)) \in Nat /\ Len(L(e)) \in Nat /\ DOMAIN L(e) = 1..Len(L(e))
        /\ Len(W(e)) = IF e \notin TargetsOf(c, n) THEN 0 ELSE IF known THEN n ELSE 1
        /\ DOMAIN hevents'[e].getList = 1..(Len(L(e)) + Len(W(e)))
        /\ \A i \in 1..Len(L(e)) : hevents'[e].getList[i] = L(e)[i]
        /\ \A i \in 1..Len(W(e)) : hevents'[e].getList[Len(L(e)) + i] = c
    OBVIOUS
  <2>2. PICK l \in Seq(HealthCall) : l = L(e) /\ hevents'[e].getList = l \o WaitAt(c, n, e)
    BY <1>1
  <2> HIDE DEF L
  <2> QED BY <1>1, <2>2, WaitIs
<1> HIDE DEF L, W
<1>3. ASSUME NEW d
      PROVE  WaitsOf(d)' =
               WaitsOf(d) \cup (IF d # c THEN {}
                 ELSE {v \in Event \X Nat : v[2] \in Len(L(v[1])) + 1..Len(L(v[1])) + Len(W(v[1]))})
  <2>1. ASSUME NEW e \in Event, NEW i \in Nat
        PROVE  i \in DOMAIN hevents'[e].getList /\ hevents'[e].getList[i] = d
                 <=> \/ i \in DOMAIN hevents[e].getList /\ hevents[e].getList[i] = d
                     \/ d = c /\ i \in Len(L(e)) + 1..Len(L(e)) + Len(W(e))
    <3>1. PICK p \in Nat, q \in Nat :
            /\ p = Len(L(e)) /\ q = Len(W(e)) /\ DOMAIN hevents[e].getList = 1..p
            /\ DOMAIN hevents'[e].getList = 1..(p + q)
            /\ \A k \in 1..p : hevents'[e].getList[k] = hevents[e].getList[k]
            /\ \A k \in 1..q : hevents'[e].getList[p + k] = c
      BY <1>2 DEF L
    <3>2. CASE i \in 1..p
      <4>1. i \in 1..(p + q) /\ i \notin p + 1..p + q
        BY <3>2
      <4> QED BY <3>1, <3>2, <4>1
    <3>3. CASE i \in p + 1..p + q
      <4>1. /\ i - p \in 1..q /\ i = p + (i - p)
            /\ i \notin 1..p /\ i \in 1..(p + q)
        BY <3>3
      <4>2. hevents'[e].getList[i] = c
        BY <3>1, <4>1
      <4> QED BY <3>1, <3>3, <4>1, <4>2
    <3>4. CASE i \notin 1..(p + q)
      <4>1. i \notin 1..p /\ i \notin p + 1..p + q
        BY <3>4
      <4> QED BY <3>1, <3>4, <4>1
    <3>5. i \in 1..p \/ i \in p + 1..p + q \/ i \notin 1..(p + q)
      OBVIOUS
    <3> QED BY <3>2, <3>3, <3>4, <3>5
  <2>2. ASSUME NEW v \in Event \X Nat
        PROVE  v \in WaitsOf(d)' <=>
                 \/ v \in WaitsOf(d)
                 \/ d = c /\ v[2] \in Len(L(v[1])) + 1..Len(L(v[1])) + Len(W(v[1]))
    <3>1. v[1] \in Event /\ v[2] \in Nat
      BY <2>2
    <3> QED BY <2>1, <2>2, <3>1 DEF WaitsOf
  <2>3. WaitsOf(d) \subseteq Event \X Nat /\ WaitsOf(d)' \subseteq Event \X Nat
    BY DEF WaitsOf
  <2> QED BY <2>2, <2>3
<1>4. \A d \in HealthCall \ {c} : WaitsOf(d)' = WaitsOf(d)
  BY <1>3
<1> DEFINE V == {v \in Event \X Nat : v[2] \in Len(L(v[1])) + 1..Len(L(v[1])) + Len(W(v[1]))}
<1>5. WaitsOf(c)' = V
  BY <1>3
<1>6. CASE known
  <2> DEFINE o == Len(L(Shared))
             f == [i \in 1..n |-> <<Shared, o + i>>]
  <2>1. Shared \in Event /\ o \in Nat /\ Len(W(Shared)) = n
        /\ \A e \in Event : e # Shared => Len(W(e)) = 0
    BY <1>2, <1>6 DEF Event, TargetsOf
  <2>2. f \in [1..n -> V]
    <3>1. \A i \in 1..n : <<Shared, o + i>> \in V
      BY <1>1, <2>1
    <3> HIDE DEF V
    <3> QED BY <3>1
  <2>3. \A i, j \in 1..n : f[i] = f[j] => i = j
    BY <2>1
  <2>4. \A v \in V : \E i \in 1..n : f[i] = v
    <3>1. SUFFICES ASSUME NEW v \in V PROVE \E i \in 1..n : f[i] = v
      OBVIOUS
    <3>2. PICK e \in Event, j \in Nat : v = <<e, j>>
      OBVIOUS
    <3>3. j \in Len(L(e)) + 1..Len(L(e)) + Len(W(e))
      BY <3>1, <3>2
    <3>4. e = Shared
      BY <1>2, <2>1, <3>2, <3>3
    <3>5. j - o \in 1..n /\ j = o + (j - o)
      BY <2>1, <3>3, <3>4
    <3>6. f[j - o] = v
      BY <3>2, <3>4, <3>5
    <3> QED BY <3>5, <3>6
  <2> HIDE DEF f, V
  <2> QED BY <1>1, <1>4, <1>5, <2>2, <2>3, <2>4, CountedOut
<1>7. CASE ~known
  <2> DEFINE f == [i \in 1..n |-> <<<<c, i>>, Len(L(<<c, i>>)) + 1>>]
  <2>1. \A i \in 1..n : <<c, i>> \in Event /\ Len(W(<<c, i>>)) = 1
                       /\ Len(L(<<c, i>>)) \in Nat
    <3>1. \A i \in 1..n : i \in 1..MaxTypes
      BY <1>1, HealthAssumption
    <3> QED BY <1>2, <1>7, <3>1, EventsDiffer DEF TargetsOf
  <2>2. f \in [1..n -> V]
    <3>1. ASSUME NEW i \in 1..n PROVE <<<<c, i>>, Len(L(<<c, i>>)) + 1>> \in V
      <4>1. PICK e \in Event : e = <<c, i>> /\ Len(W(e)) = 1 /\ Len(L(e)) \in Nat
        BY <2>1
      <4>2. PICK j \in Nat : j = Len(L(e)) + 1 /\ j \in Len(L(e)) + 1..Len(L(e)) + Len(W(e))
        <5>1. PICK k \in Nat : k = Len(L(e))
          BY <4>1
        <5>2. k + 1 \in Nat /\ k + 1 \in k + 1..k + 1
          OBVIOUS
        <5> QED BY <4>1, <5>1, <5>2
      <4>3. PICK v \in Event \X Nat : v = <<e, j>> /\ v[1] = e /\ v[2] = j
        <5>1. <<e, j>> \in Event \X Nat /\ <<e, j>>[1] = e /\ <<e, j>>[2] = j
          OBVIOUS
        <5> HIDE DEF V
        <5> QED BY <5>1
      <4>4. v \in V
        BY <4>2, <4>3
      <4> QED BY <4>1, <4>2, <4>3, <4>4
    <3> HIDE DEF V
    <3> QED BY <3>1
  <2>3. \A i, j \in 1..n : f[i] = f[j] => i = j
    OBVIOUS
  <2>4. \A v \in V : \E i \in 1..n : f[i] = v
    <3>1. SUFFICES ASSUME NEW v \in V PROVE \E i \in 1..n : f[i] = v
      OBVIOUS
    <3>2. PICK e \in Event, j \in Nat : v = <<e, j>>
      OBVIOUS
    <3>3. j \in Len(L(e)) + 1..Len(L(e)) + Len(W(e))
      BY <3>1, <3>2
    <3>4. e \in TargetsOf(c, n)
      BY <1>2, <3>2, <3>3
    <3>5. PICK i \in 1..n : e = <<c, i>>
      BY <1>7, <3>4 DEF TargetsOf
    <3>6. j = Len(L(<<c, i>>)) + 1
      <4>1. Len(W(e)) = 1 /\ Len(L(e)) \in Nat
        BY <2>1, <3>5
      <4>2. j = Len(L(e)) + 1
        BY <3>2, <3>3, <4>1
      <4> QED BY <3>5, <4>2
    <3>7. f[i] = v
      BY <3>2, <3>5, <3>6
    <3> QED BY <3>7
  <2> HIDE DEF f, V
  <2> QED BY <1>1, <1>4, <1>5, <2>2, <2>3, <2>4, CountedOut
<1> QED BY <1>6, <1>7

(* What a call is after getRecentSamples.                                  *)
LEMMA AskedIs ==
  ASSUME NEW p \in HealthPage, NEW n \in Nat, NEW a \in HealthAnswers
  PROVE  \E m \in HealthMeta :
           /\ m = Asked(p, n, a)
           /\ m.page = p /\ m.num = n /\ m.array = 0 /\ m.size = n /\ m.answer = a
<1>1. Asked(p, n, a) \in HealthMeta
  BY DEF Asked, HealthMeta, AnyPage
<1> QED BY <1>1 DEF Asked

(* What getRecentSamples has to start from.                                *)
LEMMA GetStarts ==
  ASSUME HealthInv, NEW c \in HealthCall, NEW p \in HealthPage, NotAsked(c), Here(p)
  PROVE  WaitsOf(c) = {} /\ getMeta[c].num = 0 /\ healthCtx = "live" /\ ~Settled(c)
         /\ \A e \in Event : c \notin ToSet(hevents[e].getList)
<1>1. /\ getMeta[c].num = 0 /\ WaitsInv(c) /\ TopicsInv /\ HsTypes
      /\ getMeta[c].answer = <<>> /\ WalkInv
  BY DEF NotAsked, NoMeta, Asked, HealthInv, ListsInv
<1>5. ~Settled(c)
  <2>1. ASSUME Settled(c) PROVE getMeta[c].answer = <<"resolve">>
    BY <1>1, <2>1 DEF Settled, WalkInv
  <2>2. <<"resolve">> # <<>>
    OBVIOUS
  <2> QED BY <1>1, <2>1, <2>2
<1>2. WaitsOf(c) = {}
  <2>1. IsFiniteSet(WaitsOf(c)) /\ Cardinality(WaitsOf(c)) <= 0
    BY <1>1, <1>5 DEF WaitsInv
  <2>2. Cardinality(WaitsOf(c)) \in Nat
    BY <2>1, FS_CardinalityType
  <2>3. Cardinality(WaitsOf(c)) = 0
    BY <2>1, <2>2
  <2> QED BY <2>1, <2>3, FS_EmptySet
<1>3. healthCtx = "live"
  BY <1>1 DEF TopicsInv, Here
<1>4. \A e \in Event : c \notin ToSet(hevents[e].getList)
  <2>1. SUFFICES ASSUME NEW e \in Event, NEW i \in DOMAIN hevents[e].getList,
                        hevents[e].getList[i] = c
                 PROVE FALSE
    BY DEF ToSet
  <2>2. <<e, i>> \in WaitsOf(c)
    BY <1>1, <2>1, WaitsAre DEF HsTypes
  <2> QED BY <1>2, <2>2
<1> QED BY <1>1, <1>2, <1>3, <1>4, <1>5

LEMMA TopicsGrow ==
  ASSUME HsTypes, TopicsInv, NEW k \in Nat, NEW b, IsFiniteSet(OpenTopics'),
         Cardinality(OpenTopics') = Cardinality(OpenTopics) + (IF b THEN k ELSE 0),
         topicRefs' = topicRefs + (IF b THEN k ELSE 0),
         healthCtx = "live", UNCHANGED <<pending, healthCtx, quit>>
  PROVE  TopicsInv'
<1>1. Cardinality(OpenTopics) \in Nat /\ pending \in Nat
      /\ topicRefs = pending + Cardinality(OpenTopics)
  BY FS_CardinalityType DEF TopicsInv, HsTypes
<1>2. PICK m \in Nat : m = IF b THEN k ELSE 0
  OBVIOUS
<1>3. topicRefs' = pending' + Cardinality(OpenTopics')
  BY <1>1, <1>2
<1> QED BY <1>3 DEF TopicsInv

(* A HealthTopic for which topics were opened.                             *)
LEMMA TopicsGrown ==
  ASSUME HsTypes, NEW c \in HealthCall, NEW n \in Nat, NEW k \in Nat
  PROVE  hevents' = [e \in Event |-> [hevents[e] EXCEPT !.open = @ + OpenedAt(c, n, k, e)]]
         => /\ hevents' \in [Event -> HealthTopic]
            /\ \A e \in Event :
                 /\ hevents'[e].open = hevents[e].open + OpenedAt(c, n, k, e)
                 /\ hevents[e].open \in Nat
                 /\ hevents'[e].getList = hevents[e].getList
                 /\ hevents'[e].subList = hevents[e].subList
<1>1. \A e \in Event : hevents[e] \in HealthTopic
  BY DEF HsTypes
<1>2. \A e \in Event : OpenedAt(c, n, k, e) \in Nat
  BY DEF OpenedAt
<1>3. ASSUME hevents' = [e \in Event |-> [hevents[e] EXCEPT !.open = @ + OpenedAt(c, n, k, e)]]
      PROVE
      /\ hevents' \in [Event -> HealthTopic]
      /\ \A e \in Event :
           /\ hevents'[e].open = hevents[e].open + OpenedAt(c, n, k, e)
           /\ hevents[e].open \in Nat
           /\ hevents'[e].getList = hevents[e].getList
           /\ hevents'[e].subList = hevents[e].subList
  <2>1. ASSUME NEW e \in Event
        PROVE  /\ hevents'[e] \in HealthTopic
               /\ hevents'[e].open = hevents[e].open + OpenedAt(c, n, k, e)
               /\ hevents[e].open \in Nat
               /\ hevents'[e].getList = hevents[e].getList
               /\ hevents'[e].subList = hevents[e].subList
    <3>1. PICK h \in HealthTopic : h = hevents[e]
      BY <1>1
    <3>2. h.open \in Nat /\ h.getList \in Seq(HealthCall)
      BY DEF HealthTopic
    <3>3. PICK o \in Nat : o = h.open + OpenedAt(c, n, k, e)
      BY <1>2, <3>2
    <3>4. hevents'[e] = [h EXCEPT !.open = o]
      BY <1>3, <3>1, <3>3
    <3>5. /\ hevents'[e] \in HealthTopic
          /\ hevents'[e].open = o /\ hevents'[e].getList = h.getList
          /\ hevents'[e].subList = h.subList
      BY <3>4 DEF HealthTopic
    <3> QED BY <3>1, <3>2, <3>3, <3>5
  <2>2. DOMAIN hevents' = Event /\ hevents' = [e \in Event |-> hevents'[e]]
    BY <1>3
  <2> QED BY <2>1, <2>2, Zenon
<1> QED BY <1>3, Zenon

(* The k-th topic cannot be opened: the ones before stay.                  *)
LEMMA RejectedKeeps ==
  ASSUME HealthInv, NEW c \in HealthCall, NEW p \in HealthPage, NotAsked(c), Here(p),
         NEW n \in 0..MaxTypes, NEW k \in 0..n,
         hevents' \in [Event -> HealthTopic],
         \A e \in Event :
           /\ hevents'[e].open = hevents[e].open + OpenedAt(c, n, k, e)
           /\ hevents[e].open \in Nat
           /\ hevents'[e].getList = hevents[e].getList
           /\ hevents'[e].subList = hevents[e].subList,
         topicRefs' = topicRefs + (IF IdleFor(n) THEN k ELSE 0),
         getMeta' \in [HealthCall -> HealthMeta], NEW m, getMeta'[c] = m,
         m.page = p, m.num = 0, m.array = 0, m.size = 0, m.answer = <<"reject">>,
         \A d \in HealthCall \ {c} : getMeta'[d] = getMeta[d],
         UNCHANGED <<known, pending, healthCtx, quit, walk, toDead>>
  PROVE  ListsInv'
<1>0. n \in Nat /\ k \in Nat
  BY HealthAssumption
<1>1. /\ HsTypes /\ TopicsInv /\ toDead \subseteq {"own"}
      /\ \A e \in Event : TopicInv(e)
      /\ \A d \in HealthCall : WaitsInv(d)
  BY DEF HealthInv, ListsInv
<1>2. \A e \in Event : OpenedAt(c, n, k, e) \in Nat
  BY <1>0 DEF OpenedAt
<1>6. WaitsOf(c) = {} /\ healthCtx = "live" /\ \A d : Settled(d)' <=> Settled(d)
  BY GetStarts DEF Settled
<1>7. IsFiniteSet(OpenTopics') /\ Cardinality(OpenTopics) \in Nat
      /\ Cardinality(OpenTopics') =
           Cardinality(OpenTopics) + (IF IdleFor(n) THEN k ELSE 0)
  <2>1. IsFiniteSet(OpenTopics)
    BY <1>1 DEF TopicsInv
  <2> QED BY <1>1, <2>1, TargetsOpen, FS_CardinalityType
<1>8. TopicsInv'
  BY <1>0, <1>1, <1>6, <1>7, TopicsGrow
<1>9. HsTypes'
  <2>1. topicRefs' \in Nat
    BY <1>0, <1>1 DEF HsTypes
  <2> QED BY <1>1, <2>1 DEF HsTypes
<1>10. ASSUME NEW e \in Event PROVE TopicInv(e)'
  <2>1. TopicInv(e) /\ OpenedAt(c, n, k, e) \in Nat
    BY <1>1, <1>2
  <2>2. e = Shared =>
          \A d \in ToSet(hevents[e].getList) : getMeta'[d].page \notin quit
    <3>1. ToSet(hevents[e].getList) \subseteq HealthCall
      <4>1. hevents[e].getList \in Seq(HealthCall)
        BY <1>1 DEF HsTypes, HealthTopic
      <4> QED BY <4>1, ElementOfSeq, LenProperties DEF ToSet
    <3> QED BY <2>1, <3>1 DEF TopicInv, Here
  <2> QED BY <1>1, <2>1, <2>2 DEF TopicInv, IsActive
<1>11. ASSUME NEW d \in HealthCall PROVE WaitsInv(d)'
  <2>1. WaitsOf(d)' = WaitsOf(d) /\ WaitsInv(d)
    BY <1>1, WaitsStay
  <2>2. CASE d = c
    <3>1. WaitsOf(c)' = {} /\ Cardinality({}) = 0 /\ IsFiniteSet({})
      BY <1>6, <2>1, <2>2, FS_EmptySet
    <3>2. IsFiniteSet(WaitsOf(c)') /\ Cardinality(WaitsOf(c)') = 0
      BY <3>1
    <3> QED BY <2>2, <3>2 DEF WaitsInv
  <2>3. CASE d # c
    BY <1>6, <2>1, <2>3 DEF WaitsInv
  <2> QED BY <2>2, <2>3
<1> QED BY <1>1, <1>8, <1>9, <1>10, <1>11 DEF ListsInv

(* A HealthTopic for which somebody comes to wait.                         *)
LEMMA ListsGrow ==
  ASSUME HsTypes, NEW c \in HealthCall, NEW n \in 1..MaxTypes
  PROVE  hevents' = [e \in Event |-> [hevents[e] EXCEPT
                       !.open = @ + OpenedAt(c, n, n, e), !.getList = @ \o WaitAt(c, n, e)]]
         => /\ hevents' \in [Event -> HealthTopic]
            /\ \A e \in Event :
                 /\ hevents'[e].open = hevents[e].open + OpenedAt(c, n, n, e)
                 /\ hevents'[e].getList = hevents[e].getList \o WaitAt(c, n, e)
                 /\ hevents'[e].subList = hevents[e].subList
<1>0. n \in Nat /\ n \in 0..MaxTypes
  BY HealthAssumption
<1>2. \A e \in Event : OpenedAt(c, n, n, e) \in Nat
  BY <1>0 DEF OpenedAt
<1>3. \A e \in Event : /\ hevents[e] \in HealthTopic /\ hevents[e].open \in Nat
                       /\ hevents[e].getList \in Seq(HealthCall)
  BY DEF HsTypes, HealthTopic
<1>4. \A e \in Event : hevents[e].getList \o WaitAt(c, n, e) \in Seq(HealthCall)
  BY <1>0, <1>3, WaitIs
<1>5. ASSUME hevents' = [e \in Event |-> [hevents[e] EXCEPT
               !.open = @ + OpenedAt(c, n, n, e), !.getList = @ \o WaitAt(c, n, e)]]
      PROVE
      /\ hevents' \in [Event -> HealthTopic]
      /\ \A e \in Event :
           /\ hevents'[e].open = hevents[e].open + OpenedAt(c, n, n, e)
           /\ hevents'[e].getList = hevents[e].getList \o WaitAt(c, n, e)
           /\ hevents'[e].subList = hevents[e].subList
  <2>1. ASSUME NEW e \in Event
        PROVE  /\ hevents'[e] \in HealthTopic
               /\ hevents'[e].open = hevents[e].open + OpenedAt(c, n, n, e)
               /\ hevents'[e].getList = hevents[e].getList \o WaitAt(c, n, e)
               /\ hevents'[e].subList = hevents[e].subList
    <3>1. PICK h \in HealthTopic : h = hevents[e]
      BY <1>3
    <3>2. PICK o \in Nat : o = h.open + OpenedAt(c, n, n, e)
      BY <1>2, <1>3, <3>1
    <3>3. PICK g \in Seq(HealthCall) : g = h.getList \o WaitAt(c, n, e)
      BY <1>4, <3>1
    <3>4. hevents'[e] = [h EXCEPT !.open = o, !.getList = g]
      BY <1>5, <3>1, <3>2, <3>3
    <3>5. /\ hevents'[e] \in HealthTopic
          /\ hevents'[e].open = o /\ hevents'[e].getList = g
          /\ hevents'[e].subList = h.subList
      BY <3>4 DEF HealthTopic
    <3> QED BY <3>1, <3>2, <3>3, <3>5
  <2>2. DOMAIN hevents' = Event /\ hevents' = [e \in Event |-> hevents'[e]]
    BY <1>5
  <2> QED BY <2>1, <2>2, Zenon
<1> QED BY <1>5, Zenon

(* The call waits for a sample of each type.                               *)
LEMMA AcceptedKeeps ==
  ASSUME HealthInv, NEW c \in HealthCall, NEW p \in HealthPage, NotAsked(c), Here(p),
         NEW n \in 1..MaxTypes,
         hevents' \in [Event -> HealthTopic],
         \A e \in Event :
           /\ hevents'[e].open = hevents[e].open + OpenedAt(c, n, n, e)
           /\ hevents'[e].getList = hevents[e].getList \o WaitAt(c, n, e)
           /\ hevents'[e].subList = hevents[e].subList,
         topicRefs' = topicRefs + (IF IdleFor(n) THEN n ELSE 0),
         getMeta' \in [HealthCall -> HealthMeta], NEW m, getMeta'[c] = m,
         m.page = p, m.num = n, m.array = 0, m.size = n, m.answer = <<>>,
         \A d \in HealthCall \ {c} : getMeta'[d] = getMeta[d],
         UNCHANGED <<known, pending, healthCtx, quit, walk, toDead>>
  PROVE  ListsInv'
<1>0. n \in Nat /\ n \in 0..MaxTypes /\ n \in 0..n /\ n > 0
  BY HealthAssumption
<1>1. /\ HsTypes /\ TopicsInv /\ toDead \subseteq {"own"}
      /\ \A e \in Event : TopicInv(e)
      /\ \A d \in HealthCall : WaitsInv(d)
  BY DEF HealthInv, ListsInv
<1>2. \A e \in Event : OpenedAt(c, n, n, e) \in Nat
  BY <1>0 DEF OpenedAt
<1>3. \A e \in Event : /\ hevents[e] \in HealthTopic /\ hevents[e].open \in Nat
                       /\ hevents[e].getList \in Seq(HealthCall)
  BY <1>1 DEF HsTypes, HealthTopic
<1>4. ASSUME NEW e \in Event
      PROVE  /\ hevents[e].getList \o WaitAt(c, n, e) \in Seq(HealthCall)
             /\ \A i \in DOMAIN (hevents[e].getList \o WaitAt(c, n, e)) :
                  (hevents[e].getList \o WaitAt(c, n, e))[i] \in
                    ToSet(hevents[e].getList) \cup {c}
             /\ e \notin TargetsOf(c, n) =>
                  hevents[e].getList \o WaitAt(c, n, e) = hevents[e].getList
  <2>1. PICK l \in Seq(HealthCall) : l = hevents[e].getList
    BY <1>3
  <2> DEFINE w == WaitAt(c, n, e)
  <2>2. /\ l \o w \in Seq(HealthCall) /\ Len(w) \in Nat /\ Len(l) \in Nat
        /\ DOMAIN (l \o w) = 1..(Len(l) + Len(w)) /\ DOMAIN l = 1..Len(l)
        /\ \A i \in 1..Len(l) : (l \o w)[i] = l[i]
        /\ \A i \in 1..Len(w) : (l \o w)[Len(l) + i] = c
    BY <1>0, <1>1, WaitIs
  <2>3. e \notin TargetsOf(c, n) => w = <<>>
    BY DEF WaitAt
  <2> HIDE DEF w
  <2>4. ASSUME NEW i \in DOMAIN (l \o w) PROVE (l \o w)[i] \in ToSet(l) \cup {c}
    <3>1. CASE i \in 1..Len(l)
      BY <2>2, <3>1 DEF ToSet
    <3>2. CASE i \notin 1..Len(l)
      <4>1. PICK j \in 1..Len(w) : i = Len(l) + j
        <5>1. i - Len(l) \in 1..Len(w) /\ i = Len(l) + (i - Len(l))
          BY <2>2, <2>4, <3>2
        <5> QED BY <5>1
      <4> QED BY <2>2, <4>1
    <3> QED BY <3>1, <3>2
  <2>5. e \notin TargetsOf(c, n) => l \o w = l
    BY <2>3, ConcatEmptySeq
  <2> QED BY <2>1, <2>2, <2>4, <2>5 DEF w
<1>8. WaitsOf(c) = {} /\ healthCtx = "live" /\ \A d : Settled(d)' <=> Settled(d)
  BY GetStarts DEF Settled
<1>9. IsFiniteSet(OpenTopics') /\ Cardinality(OpenTopics) \in Nat
      /\ Cardinality(OpenTopics') =
           Cardinality(OpenTopics) + (IF IdleFor(n) THEN n ELSE 0)
  <2>1. IsFiniteSet(OpenTopics)
    BY <1>1 DEF TopicsInv
  <2> QED BY <1>0, <1>1, <2>1, TargetsOpen, FS_CardinalityType
<1>10. TopicsInv'
  BY <1>0, <1>1, <1>8, <1>9, TopicsGrow
<1>11. HsTypes'
  <2>1. topicRefs' \in Nat
    BY <1>0, <1>1 DEF HsTypes
  <2> QED BY <1>1, <2>1 DEF HsTypes
<1>12. ASSUME NEW e \in Event PROVE TopicInv(e)'
  <2>1. /\ TopicInv(e) /\ OpenedAt(c, n, n, e) \in Nat /\ hevents[e].open \in Nat
        /\ hevents'[e].open = hevents[e].open + OpenedAt(c, n, n, e)
        /\ hevents'[e].subList = hevents[e].subList
    BY <1>1, <1>2, <1>3
  <2>2. ToSet(hevents[e].getList) \subseteq HealthCall
    <3>1. hevents[e].getList \in Seq(HealthCall)
      BY <1>3
    <3> QED BY <3>1, ElementOfSeq, LenProperties DEF ToSet
  <2>3. ASSUME e = Shared, NEW d \in ToSet(hevents'[e].getList)
        PROVE  getMeta'[d].page \notin quit
    <3>1. d \in ToSet(hevents[e].getList) \cup {c}
      <4>1. PICK i \in DOMAIN hevents'[e].getList : hevents'[e].getList[i] = d
        BY <2>3 DEF ToSet
      <4>2. hevents'[e].getList = hevents[e].getList \o WaitAt(c, n, e)
        BY <2>3
      <4>3. i \in DOMAIN (hevents[e].getList \o WaitAt(c, n, e))
            /\ (hevents[e].getList \o WaitAt(c, n, e))[i] = d
        BY <4>1, <4>2
      <4> QED BY <1>4, <4>3
    <3> QED BY <2>1, <2>2, <2>3, <3>1 DEF TopicInv, Here
  <2>4. e \notin TargetsOf(c, n) => hevents'[e].getList = hevents[e].getList
    BY <1>4
  <2>5. ASSUME IsActive(hevents'[e]) PROVE hevents'[e].open > 0
    <3>1. CASE e \notin TargetsOf(c, n)
      <4>1. hevents[e].open > 0
        BY <2>1, <2>4, <2>5, <3>1 DEF TopicInv, IsActive
      <4> QED BY <2>1, <4>1
    <3>2. CASE e \in TargetsOf(c, n) /\ IdleFor(n)
      <4>1. OpenedAt(c, n, n, e) > 0
        <5>1. CASE known
          BY <1>0, <3>2, <5>1 DEF OpenedAt
        <5>2. CASE ~known
          <6>1. PICK i \in 1..n : e = <<c, i>>
            BY <3>2, <5>2 DEF TargetsOf
          <6>2. e[2] = i /\ i <= n
            BY <1>0, <6>1
          <6>3. OpenedAt(c, n, n, e) = 1
            BY <3>2, <5>2, <6>2 DEF OpenedAt
          <6> QED BY <6>3
        <5> QED BY <5>1, <5>2
      <4> QED BY <2>1, <4>1
    <3>3. CASE e \in TargetsOf(c, n) /\ ~IdleFor(n)
      <4>1. e = Shared /\ IsActive(hevents[Shared])
        BY <1>0, <3>3 DEF IdleFor, TargetsOf
      <4>2. hevents[e].open > 0
        BY <2>1, <4>1 DEF TopicInv
      <4> QED BY <2>1, <4>2
    <3> QED BY <3>1, <3>2, <3>3
  <2>6. ASSUME e = Shared /\ ~known
        PROVE  hevents'[e].getList = <<>> /\ hevents'[e].subList = <<>>
    <3>1. e \notin TargetsOf(c, n)
      <4>1. \A i \in 1..n : <<c, i>> # Shared
        <5>1. \A i \in 1..n : i # 0
          BY <1>0
        <5> QED BY <5>1 DEF Shared
      <4> QED BY <2>6, <4>1 DEF TargetsOf
    <3> QED BY <2>1, <2>4, <2>6, <3>1 DEF TopicInv
  <2>7. (e # Shared => hevents'[e].subList = <<>>) /\ IsInjective(hevents'[e].subList)
        /\ ToSet(hevents'[e].subList) \cap quit = {}
    BY <2>1 DEF TopicInv
  <2> QED BY <2>3, <2>5, <2>6, <2>7 DEF TopicInv
<1>13. /\ IsFiniteSet(WaitsOf(c)') /\ Cardinality(WaitsOf(c)') = n
       /\ \A d \in HealthCall \ {c} : WaitsOf(d)' = WaitsOf(d)
  BY <1>1, <1>8, WaitsAdded
<1>14. ASSUME NEW d \in HealthCall PROVE WaitsInv(d)'
  <2>1. CASE d = c
    <3>1. 0 + n = n /\ n <= n
      BY <1>0
    <3>2. WaitsInv(c)'
      BY <1>13, <3>1 DEF WaitsInv
    <3> QED BY <2>1, <3>2
  <2>2. CASE d # c
    <3>1. WaitsInv(d) /\ WaitsOf(d)' = WaitsOf(d)
      BY <1>1, <1>13, <2>2
    <3> QED BY <1>8, <2>2, <3>1 DEF WaitsInv
  <2> QED BY <2>1, <2>2
<1> QED BY <1>1, <1>10, <1>11, <1>12, <1>14 DEF ListsInv

(* What getRecentSamples does: it is refused, or all of its types wait.     *)
Refused(c, p, n) ==
  \E k \in 0..(IF IdleFor(n) THEN n - 1 ELSE 0) :
    /\ hevents' = [e \in Event |->
                    [hevents[e] EXCEPT !.open = @ + OpenedAt(c, n, k, e)]]
    /\ topicRefs' = topicRefs + (IF IdleFor(n) THEN k ELSE 0)
    /\ getMeta' = [getMeta EXCEPT ![c] = Asked(p, 0, <<"reject">>)]
Accepted(c, p, n) ==
  /\ n > 0
  /\ hevents' = [e \in Event |-> [hevents[e] EXCEPT
                  !.open = @ + OpenedAt(c, n, n, e), !.getList = @ \o WaitAt(c, n, e)]]
  /\ topicRefs' = topicRefs + (IF IdleFor(n) THEN n ELSE 0)
  /\ getMeta' = [getMeta EXCEPT ![c] = Asked(p, n, <<>>)]
LEMMA GetRecentSamplesIs ==
  ASSUME NEW c, NEW p, GetRecentSamples(c, p)
  PROVE  /\ NotAsked(c) /\ Here(p)
         /\ UNCHANGED <<known, pending, healthCtx, quit, walk, toDead>>
         /\ \E n \in 0..MaxTypes : Refused(c, p, n) \/ Accepted(c, p, n)
BY Zenon DEF GetRecentSamples, Refused, Accepted

(* Either of the two.                                                      *)
LEMMA GetRecentSamplesKeeps ==
  ASSUME HealthInv, NEW c \in HealthCall, NEW p \in HealthPage, GetRecentSamples(c, p)
  PROVE  ListsInv'
<1>1. /\ NotAsked(c) /\ Here(p) /\ HsTypes
      /\ UNCHANGED <<known, pending, healthCtx, quit, walk, toDead>>
  BY GetRecentSamplesIs DEF HealthInv, ListsInv
<1>2. PICK n \in 0..MaxTypes : Refused(c, p, n) \/ Accepted(c, p, n)
  BY GetRecentSamplesIs
<1>0. n \in Nat /\ (n > 0 => n \in 1..MaxTypes)
  BY HealthAssumption
<1>3. ASSUME NEW k \in 0..(IF IdleFor(n) THEN n - 1 ELSE 0),
             hevents' = [e \in Event |->
                           [hevents[e] EXCEPT !.open = @ + OpenedAt(c, n, k, e)]],
             topicRefs' = topicRefs + (IF IdleFor(n) THEN k ELSE 0),
             getMeta' = [getMeta EXCEPT ![c] = Asked(p, 0, <<"reject">>)]
      PROVE  ListsInv'
  <2>1. k \in 0..n /\ k \in Nat /\ n \in Nat
    BY HealthAssumption DEF IdleFor
  <2>2. PICK m \in HealthMeta :
          /\ m = Asked(p, 0, <<"reject">>)
          /\ m.page = p /\ m.num = 0 /\ m.array = 0 /\ m.size = 0 /\ m.answer = <<"reject">>
    BY <2>1, AskedIs DEF HealthAnswers
  <2>3. getMeta' = [getMeta EXCEPT ![c] = m] /\ getMeta \in [HealthCall -> HealthMeta]
    BY <1>1, <1>3, <2>2 DEF HsTypes
  <2>4. /\ getMeta' \in [HealthCall -> HealthMeta] /\ getMeta'[c] = m
        /\ \A d \in HealthCall \ {c} : getMeta'[d] = getMeta[d]
    BY <2>3
  <2>5. /\ hevents' \in [Event -> HealthTopic]
        /\ \A e \in Event :
             /\ hevents'[e].open = hevents[e].open + OpenedAt(c, n, k, e)
             /\ hevents[e].open \in Nat
             /\ hevents'[e].getList = hevents[e].getList
             /\ hevents'[e].subList = hevents[e].subList
    BY <1>1, <1>3, <2>1, TopicsGrown, Zenon
  <2>6. topicRefs' = topicRefs + (IF IdleFor(n) THEN k ELSE 0)
    BY <1>3, Zenon
  <2>7. m.page = p /\ m.num = 0 /\ m.array = 0 /\ m.size = 0 /\ m.answer = <<"reject">>
    BY <2>2, Zenon
  <2> QED BY <1>1, <2>1, <2>4, <2>5, <2>6, <2>7, RejectedKeeps, SMTT(30)
<1>4. ASSUME n > 0,
             hevents' = [e \in Event |-> [hevents[e] EXCEPT
                           !.open = @ + OpenedAt(c, n, n, e), !.getList = @ \o WaitAt(c, n, e)]],
             topicRefs' = topicRefs + (IF IdleFor(n) THEN n ELSE 0),
             getMeta' = [getMeta EXCEPT ![c] = Asked(p, n, <<>>)]
      PROVE  ListsInv'
  <2>1. n \in 1..MaxTypes /\ n \in Nat
    BY <1>0, <1>4, Zenon
  <2>2. PICK m \in HealthMeta :
          /\ m = Asked(p, n, <<>>)
          /\ m.page = p /\ m.num = n /\ m.array = 0 /\ m.size = n /\ m.answer = <<>>
    BY <2>1, AskedIs DEF HealthAnswers
  <2>3. getMeta' = [getMeta EXCEPT ![c] = m] /\ getMeta \in [HealthCall -> HealthMeta]
    BY <1>1, <1>4, <2>2, Zenon DEF HsTypes
  <2>4. /\ getMeta' \in [HealthCall -> HealthMeta] /\ getMeta'[c] = m
        /\ \A d \in HealthCall \ {c} : getMeta'[d] = getMeta[d]
    BY ONLY <2>3
  <2>5. /\ hevents' \in [Event -> HealthTopic]
        /\ \A e \in Event :
             /\ hevents'[e].open = hevents[e].open + OpenedAt(c, n, n, e)
             /\ hevents'[e].getList = hevents[e].getList \o WaitAt(c, n, e)
             /\ hevents'[e].subList = hevents[e].subList
    BY <1>1, <1>4, <2>1, ListsGrow, Zenon
  <2>6. topicRefs' = topicRefs + (IF IdleFor(n) THEN n ELSE 0)
    BY <1>4, Zenon
  <2>7. m.page = p /\ m.num = n /\ m.array = 0 /\ m.size = n /\ m.answer = <<>>
    BY <2>2, Zenon
  <2> QED BY <1>1, <2>1, <2>4, <2>5, <2>6, <2>7, AcceptedKeeps, ZenonT(30)
<1> QED BY <1>2, <1>3, <1>4, Zenon DEF Refused, Accepted

-----------------------------------------------------------------------------
(* The other calls of the script *)

(* Nobody waits elsewhere, and no call changes.                            *)
LEMMA CallsStay ==
  ASSUME \A c \in HealthCall : WaitsInv(c), UNCHANGED getMeta,
         \A e \in Event : hevents'[e].getList = hevents[e].getList,
         walk' = walk \/ walk.step # "answered"
  PROVE  \A c \in HealthCall : WaitsInv(c)'
<1>1. \A c : WaitsOf(c)' = WaitsOf(c)
  BY WaitsStay
<1>2. \A c : Settled(c) => Settled(c)'
  BY DEF Settled
<1> QED BY <1>1, <1>2 DEF WaitsInv

(* A list of calls gets shorter, and no call changes.                      *)
LEMMA CallsLeave ==
  ASSUME hevents \in [Event -> HealthTopic], (hevents \in [Event -> HealthTopic])',
         HsTypes, \A c \in HealthCall : WaitsInv(c), UNCHANGED getMeta, NEW e \in Event,
         \A d \in Event \ {e} : hevents'[d].getList = hevents[d].getList,
         NEW f, \A n \in DOMAIN hevents'[e].getList :
                  /\ f[n] \in DOMAIN hevents[e].getList
                  /\ hevents'[e].getList[n] = hevents[e].getList[f[n]],
         \A m, n \in DOMAIN hevents'[e].getList : f[m] = f[n] => m = n,
         walk' = walk \/ walk.step # "answered"
  PROVE  \A c \in HealthCall : WaitsInv(c)'
<1>1. SUFFICES ASSUME NEW c \in HealthCall PROVE WaitsInv(c)'
  OBVIOUS
<1>2. WaitsInv(c) /\ IsFiniteSet(WaitsOf(c))
  BY DEF WaitsInv
<1>3. /\ IsFiniteSet(WaitsOf(c)')
      /\ Cardinality(WaitsOf(c)') <= Cardinality(WaitsOf(c) \ {})
  BY <1>2, WaitsMoved
<1>4. WaitsOf(c) \ {} = WaitsOf(c)
  OBVIOUS
<1>5. /\ Cardinality(WaitsOf(c)') \in Nat /\ Cardinality(WaitsOf(c)) \in Nat
      /\ getMeta[c].num \in Nat
  BY <1>2, <1>3, FS_CardinalityType DEF HsTypes, HealthMeta
<1>6. ~Settled(c)' => Cardinality(WaitsOf(c)') <= getMeta'[c].num
  <2>0. SUFFICES ASSUME ~Settled(c) PROVE Cardinality(WaitsOf(c)') <= getMeta'[c].num
    BY DEF Settled
  <2>1. PICK a \in Nat, b \in Nat, m \in Nat :
          a = Cardinality(WaitsOf(c)') /\ b = Cardinality(WaitsOf(c)) /\ m = getMeta[c].num
    BY <1>5
  <2>2. a <= b /\ b <= m
    BY <1>2, <1>3, <1>4, <2>0, <2>1 DEF WaitsInv
  <2> QED BY <2>1, <2>2
<1> QED BY <1>2, <1>3, <1>6 DEF WaitsInv

(* A subscription of an instance.                                          *)
LEMMA SubscribeSampleKeeps ==
  ASSUME HealthInv, NEW p \in HealthPage, SubscribeSample(p)
  PROVE  ListsInv'
<1> DEFINE h == hevents[Shared]
           opens == p \notin ToSet(h.subList) /\ ~IsActive(h)
           k == IF opens THEN 1 ELSE 0
           s == IF p \in ToSet(h.subList) THEN h.subList ELSE Append(h.subList, p)
<1>1. /\ HsTypes /\ TopicsInv /\ toDead \subseteq {"own"}
      /\ \A e \in Event : TopicInv(e)
      /\ \A c \in HealthCall : WaitsInv(c)
      /\ Here(p) /\ known' = TRUE /\ UNCHANGED <<getMeta, pending, healthCtx, quit, walk, toDead>>
  BY DEF HealthInv, ListsInv, SubscribeSample
<1>2. /\ Shared \in Event /\ h \in HealthTopic /\ h.open \in Nat
      /\ h.getList \in Seq(HealthCall) /\ h.subList \in Seq(HealthPage)
      /\ k \in Nat /\ k \in {0, 1} /\ healthCtx = "live"
  BY <1>1 DEF Event, HsTypes, HealthTopic, TopicsInv, Here
<1>3. CASE UNCHANGED <<hevents, topicRefs>>
  <2>1. /\ \A c \in HealthCall : WaitsInv(c)'
        /\ \A e \in Event : TopicInv(e)'
        /\ OpenTopics' = OpenTopics
    BY <1>1, <1>3, CallsStay DEF TopicInv, OpenTopics
  <2>2. TopicsInv'
    BY <1>1, <1>3, <2>1 DEF TopicsInv
  <2>3. HsTypes'
    BY <1>1, <1>3 DEF HsTypes
  <2> QED BY <1>1, <2>1, <2>2, <2>3 DEF ListsInv
<1>4. CASE /\ hevents' = [hevents EXCEPT
                 ![Shared].open = @ + (IF opens THEN 1 ELSE 0),
                 ![Shared].subList = IF p \in ToSet(@) THEN @ ELSE Append(@, p)]
           /\ topicRefs' = topicRefs + (IF opens THEN 1 ELSE 0)
  <2>1. /\ s \in Seq(HealthPage) /\ IsInjective(s) /\ ToSet(s) \subseteq ToSet(h.subList) \cup {p}
        /\ s # <<>>
    <3>1. IsInjective(h.subList)
      BY <1>1, <1>2 DEF TopicInv
    <3>2. CASE p \in ToSet(h.subList)
      <4>1. h.subList # <<>>
        BY <3>2 DEF ToSet
      <4> QED BY <1>2, <3>1, <3>2, <4>1
    <3>3. CASE p \notin ToSet(h.subList)
      <4>1. PICK l \in Seq(HealthPage) : l = h.subList
        BY <1>2
      <4>2. p \notin Range(l)
        BY <3>3, <4>1 DEF ToSet, Range
      <4>3. /\ IsInjective(Append(l, p)) /\ Range(Append(l, p)) = Range(l) \cup {p}
            /\ Append(l, p) \in Seq(HealthPage) /\ Append(l, p) # <<>>
        BY <3>1, <4>1, <4>2, InjectiveAppend, AppendProperties
      <4> QED BY <3>3, <4>1, <4>3 DEF ToSet, Range
    <3> QED BY <3>2, <3>3
  <2> HIDE DEF s, k, h, opens
  <2>2. PICK o \in Nat : o = h.open + k
    BY <1>2
  <2>3. hevents' = [hevents EXCEPT ![Shared] = [h EXCEPT !.open = o, !.subList = s]]
    BY <1>4, <2>2 DEF h, k, s, opens
  <2>4. PICK H \in HealthTopic : /\ H = [h EXCEPT !.open = o, !.subList = s]
                                 /\ H.open = o /\ H.subList = s /\ H.getList = h.getList
    <3> DEFINE H == [h EXCEPT !.open = o, !.subList = s]
    <3>1. H \in HealthTopic /\ H.open = o /\ H.subList = s /\ H.getList = h.getList
      BY <1>2, <2>1 DEF HealthTopic
    <3> HIDE DEF H
    <3> QED BY <3>1 DEF H
  <2>5. /\ hevents' \in [Event -> HealthTopic] /\ hevents'[Shared] = H
        /\ \A e \in Event \ {Shared} : hevents'[e] = hevents[e]
    BY <1>1, <1>2, <2>3, <2>4 DEF HsTypes
  <2>6. topicRefs' = topicRefs + k
    BY <1>4 DEF k, opens, h
  <2>7. IsFiniteSet(OpenTopics') /\ Cardinality(OpenTopics') = Cardinality(OpenTopics) + k
    <3>1. \A e \in Event : hevents'[e].open = hevents[e].open + (IF e = Shared THEN k ELSE 0)
      <4>1. ASSUME NEW e \in Event, e # Shared PROVE hevents'[e].open = hevents[e].open + 0
        <5>1. hevents[e].open \in Nat
          BY <1>1 DEF HsTypes, HealthTopic
        <5> QED BY <2>5, <4>1, <5>1
      <4>2. hevents'[Shared].open = hevents[Shared].open + k
        BY <2>2, <2>4, <2>5 DEF h
      <4> QED BY <4>1, <4>2
    <3> QED BY <1>1, <1>2, <3>1, SharedOpens DEF HsTypes, TopicsInv
  <2>8. TopicsInv'
    <3>1. Cardinality(OpenTopics') = Cardinality(OpenTopics) + (IF TRUE THEN k ELSE 0)
          /\ topicRefs' = topicRefs + (IF TRUE THEN k ELSE 0)
      BY <2>6, <2>7
    <3> QED BY <1>1, <1>2, <2>7, <3>1, TopicsGrow
  <2>9. HsTypes'
    <3>1. topicRefs' \in Nat
      BY <1>1, <1>2, <2>6 DEF HsTypes
    <3> QED BY <1>1, <2>5, <3>1 DEF HsTypes
  <2>10. ASSUME NEW e \in Event PROVE TopicInv(e)'
    <3>1. TopicInv(e) /\ known'
      BY <1>1
    <3>2. CASE e # Shared
      BY <1>1, <2>5, <3>1, <3>2 DEF TopicInv
    <3>3. CASE e = Shared
      <4>1. o > 0
        <5>1. CASE opens
          BY <1>2, <2>2, <5>1 DEF k
        <5>2. CASE ~opens
          <6>1. IsActive(h)
            BY <5>2 DEF opens, IsActive, ToSet
          <6>2. h.open > 0
            BY <3>1, <3>3, <6>1 DEF TopicInv, h
          <6> QED BY <1>2, <2>2, <6>2
        <5> QED BY <5>1, <5>2
      <4>2. ToSet(s) \cap quit = {}
        BY <1>1, <2>1, <3>1, <3>3 DEF TopicInv, Here, h
      <4>3. \A c \in ToSet(h.getList) : getMeta[c].page \notin quit
        BY <3>1, <3>3 DEF TopicInv, h
      <4> QED BY <1>1, <2>1, <2>4, <2>5, <3>3, <4>1, <4>2, <4>3 DEF TopicInv
    <3> QED BY <3>2, <3>3
  <2>11. \A c \in HealthCall : WaitsInv(c)'
    <3>1. \A e \in Event : hevents'[e].getList = hevents[e].getList
      BY <2>4, <2>5 DEF h
    <3> QED BY <1>1, <3>1, CallsStay
  <2> QED BY <1>1, <2>8, <2>9, <2>10, <2>11 DEF ListsInv
<1> QED BY <1>3, <1>4 DEF SubscribeSample

(* An instance is taken off the shared HealthTopic, of which the calls in  *)
(* waiting are left.                                                       *)
LEMMA UnsubscribedIs ==
  ASSUME HsTypes, TopicsInv, TopicInv(Shared), NEW p \in HealthPage,
         NEW waiting \in Seq(HealthCall),
         waiting # <<>> => hevents[Shared].getList # <<>>,
         Unsubscribed(p, waiting)
  PROVE  /\ hevents' \in [Event -> HealthTopic] /\ pending' \in Nat
         /\ \A e \in Event \ {Shared} : hevents'[e] = hevents[e]
         /\ hevents'[Shared].getList = waiting
         /\ ToSet(hevents'[Shared].subList) \subseteq ToSet(hevents[Shared].subList) \ {p}
         /\ IsInjective(hevents'[Shared].subList)
         /\ IsActive(hevents'[Shared]) => hevents'[Shared].open > 0
         /\ IsFiniteSet(OpenTopics')
         /\ pending' + Cardinality(OpenTopics') = pending + Cardinality(OpenTopics)
         /\ ToSet(hevents[Shared].subList) \ {p} \subseteq ToSet(hevents'[Shared].subList)
         /\ walk' = IF walk.step = "calls" /\ walk.page = p
                    THEN WalkAt("erased", walk.e) ELSE walk
<1> DEFINE h == hevents[Shared]
           stay == Remaining(h.subList, {p})
           after == [h EXCEPT !.getList = waiting, !.subList = stay]
           closes == p \in ToSet(h.subList) /\ ~IsActive(after) /\ after.open > 0
           k == IF closes THEN 1 ELSE 0
<1>1. /\ Shared \in Event /\ hevents \in [Event -> HealthTopic] /\ h \in HealthTopic
      /\ h.open \in Nat /\ h.subList \in Seq(HealthPage) /\ pending \in Nat
      /\ IsFiniteSet(OpenTopics) /\ Cardinality(OpenTopics) \in Nat
  BY FS_CardinalityType DEF Event, HsTypes, HealthTopic, TopicsInv
<1>2. /\ stay \in Seq(HealthPage) /\ IsInjective(stay)
      /\ ToSet(stay) \subseteq ToSet(h.subList) \ {p}
      /\ ToSet(h.subList) \ {p} \subseteq ToSet(stay)
      /\ stay # <<>> => h.subList # <<>>
  <2>1. PICK l \in Seq(HealthPage) : l = h.subList
    BY <1>1
  <2>2. /\ stay \in Seq(HealthPage) /\ DOMAIN stay = 1..Len(stay)
        /\ \E f \in [1..Len(stay) -> 1..Len(l)] :
             /\ \A m, n \in 1..Len(stay) : f[m] = f[n] => m = n
             /\ \A n \in 1..Len(stay) : stay[n] = l[f[n]] /\ stay[n] \notin {p}
    <3>1. stay = Remaining(l, {p})
      BY <2>1
    <3> HIDE DEF stay
    <3>2. /\ Remaining(l, {p}) \in Seq(HealthPage)
          /\ DOMAIN Remaining(l, {p}) = 1..Len(Remaining(l, {p}))
          /\ \E f \in [1..Len(Remaining(l, {p})) -> 1..Len(l)] :
               /\ \A m, n \in 1..Len(Remaining(l, {p})) : f[m] = f[n] => m = n
               /\ \A n \in 1..Len(Remaining(l, {p})) :
                    Remaining(l, {p})[n] = l[f[n]] /\ Remaining(l, {p})[n] \notin {p}
      BY RemainingIs
    <3> QED BY <3>1, <3>2
  <2>8. l = <<>> => stay = <<>>
    BY <2>1, NothingRemains
  <2>9. ToSet(l) \ {p} \subseteq ToSet(stay)
    BY <2>1, AllOthersRemain
  <2> HIDE DEF stay
  <2>3. PICK f \in [1..Len(stay) -> 1..Len(l)] :
             /\ \A m, n \in 1..Len(stay) : f[m] = f[n] => m = n
             /\ \A n \in 1..Len(stay) : stay[n] = l[f[n]] /\ stay[n] \notin {p}
    BY <2>2
  <2>4. DOMAIN l = 1..Len(l) /\ IsInjective(l)
    BY <2>1, LenProperties DEF TopicInv
  <2>5. IsInjective(stay)
    BY <2>2, <2>3, <2>4 DEF IsInjective
  <2>6. ToSet(stay) \subseteq ToSet(l) \ {p}
    BY <2>2, <2>3, <2>4 DEF ToSet
  <2> QED BY <2>1, <2>2, <2>5, <2>6, <2>8, <2>9
<1> HIDE DEF stay
<1>3. /\ after \in HealthTopic /\ after.open = h.open /\ after.getList = waiting
      /\ after.subList = stay
  BY <1>1, <1>2 DEF HealthTopic
<1>4. hevents' = [hevents EXCEPT ![Shared] = [after EXCEPT !.open = @ - k]]
      /\ pending' = pending + k
  BY DEF Unsubscribed, stay
<1>5. k \in 0..h.open /\ k \in Nat /\ (k # 0 => ~IsActive(after))
  BY <1>1, <1>3
<1> HIDE DEF closes, k, after, h
<1>6. PICK o \in Nat : o = h.open - k
  BY <1>1, <1>5
<1>7. PICK H \in HealthTopic : /\ H = [after EXCEPT !.open = o] /\ H.open = o
                               /\ H.getList = waiting /\ H.subList = stay
  <2> DEFINE H == [after EXCEPT !.open = o]
  <2>1. /\ H \in HealthTopic /\ H.open = o /\ H.getList = waiting /\ H.subList = stay
    BY <1>3 DEF HealthTopic
  <2> HIDE DEF H
  <2> QED BY <2>1 DEF H
<1>8. hevents' = [hevents EXCEPT ![Shared] = H]
  BY <1>3, <1>4, <1>6, <1>7
<1>9. /\ hevents' \in [Event -> HealthTopic] /\ hevents'[Shared] = H
      /\ \A e \in Event \ {Shared} : hevents'[e] = hevents[e]
  BY <1>1, <1>8
<1>10. IsActive(H) => H.open > 0
  <2>1. SUFFICES ASSUME IsActive(H) PROVE o > 0
    BY <1>7
  <2>2. IsActive(after)
    BY <1>3, <1>7, <2>1 DEF IsActive
  <2>3. k = 0
    BY <1>5, <2>2
  <2>4. IsActive(h)
    BY <1>2, <1>3, <2>2 DEF IsActive, h
  <2>5. h.open > 0
    BY <2>4 DEF TopicInv, h
  <2> QED BY <1>1, <1>6, <2>3, <2>5
<1>11. /\ IsFiniteSet(OpenTopics') /\ Cardinality(OpenTopics') \in Nat
       /\ Cardinality(OpenTopics) = Cardinality(OpenTopics') + k
  <2>1. \A d \in Event : hevents'[d].open =
          IF d = Shared THEN hevents[Shared].open - k ELSE hevents[d].open
    BY <1>6, <1>7, <1>9 DEF h
  <2>2. k \in 0..hevents[Shared].open
    BY <1>5 DEF h
  <2> QED BY <1>1, <2>1, <2>2, TopicsClose
<1>12. pending' \in Nat /\ pending' + Cardinality(OpenTopics') = pending + Cardinality(OpenTopics)
  BY <1>1, <1>4, <1>5, <1>11
<1>13. walk' = IF walk.step = "calls" /\ walk.page = p
                THEN WalkAt("erased", walk.e) ELSE walk
  BY DEF Unsubscribed
<1> QED BY <1>2, <1>7, <1>9, <1>10, <1>11, <1>12, <1>13 DEF h

(* An instance unsubscribes.                                               *)
LEMMA UnsubscribeSampleKeeps ==
  ASSUME HealthInv, NEW p \in HealthPage, UnsubscribeSample(p)
  PROVE  ListsInv'
<1>1. /\ HsTypes /\ TopicsInv /\ toDead \subseteq {"own"}
      /\ \A e \in Event : TopicInv(e)
      /\ \A c \in HealthCall : WaitsInv(c)
      /\ Here(p) /\ known /\ Unsubscribed(p, hevents[Shared].getList)
      /\ UNCHANGED <<known, getMeta, topicRefs, healthCtx, quit, toDead>>
      /\ walk' = walk \/ walk.step # "answered"
  BY DEF HealthInv, ListsInv, UnsubscribeSample, Unsubscribed
<1>2. Shared \in Event /\ hevents[Shared].getList \in Seq(HealthCall)
  BY <1>1 DEF Event, HsTypes, HealthTopic
<1>3. /\ hevents' \in [Event -> HealthTopic] /\ pending' \in Nat
      /\ \A e \in Event \ {Shared} : hevents'[e] = hevents[e]
      /\ hevents'[Shared].getList = hevents[Shared].getList
      /\ ToSet(hevents'[Shared].subList) \subseteq ToSet(hevents[Shared].subList) \ {p}
      /\ IsInjective(hevents'[Shared].subList)
      /\ IsActive(hevents'[Shared]) => hevents'[Shared].open > 0
      /\ IsFiniteSet(OpenTopics')
      /\ pending' + Cardinality(OpenTopics') = pending + Cardinality(OpenTopics)
  BY <1>1, <1>2, UnsubscribedIs
<1>4. HsTypes' /\ TopicsInv'
  BY <1>1, <1>3 DEF HsTypes, TopicsInv
<1>5. ASSUME NEW e \in Event PROVE TopicInv(e)'
  <2>1. TopicInv(e)
    BY <1>1
  <2>2. CASE e = Shared
    BY <1>1, <1>3, <2>1, <2>2 DEF TopicInv
  <2>3. CASE e # Shared
    BY <1>1, <1>3, <2>1, <2>3 DEF TopicInv
  <2> QED BY <2>2, <2>3
<1>6. \A c \in HealthCall : WaitsInv(c)'
  <2>1. \A e \in Event : hevents'[e].getList = hevents[e].getList
    BY <1>3
  <2> QED BY <1>1, <2>1, CallsStay
<1> QED BY <1>1, <1>4, <1>5, <1>6 DEF ListsInv

(* An instance leaves: its calls do not wait any more where it finds them. *)
LEMMA HealthDetachedKeeps ==
  ASSUME HealthInv, NEW p \in HealthPage, HealthDetached(p)
  PROVE  ListsInv'
<1> DEFINE own == {c \in HealthCall : getMeta[c].page = p}
           l == hevents[Shared].getList
           r == Remaining(l, own)
<1>1. /\ HsTypes /\ TopicsInv /\ toDead \subseteq {"own"}
      /\ \A e \in Event : TopicInv(e)
      /\ \A c \in HealthCall : WaitsInv(c)
      /\ Here(p) /\ quit' = quit \cup {p}
      /\ UNCHANGED <<known, getMeta, topicRefs, healthCtx, toDead>>
      /\ walk' = walk \/ walk.step # "answered"
  BY DEF HealthInv, ListsInv, HealthDetached, Unsubscribed
<1>2. /\ Shared \in Event /\ l \in Seq(HealthCall) /\ healthCtx = "live"
      /\ \A e \in Event : hevents[e].getList \in Seq(HealthCall)
  BY <1>1 DEF Event, HsTypes, HealthTopic, TopicsInv, Here
<1>3. \A e \in Event : ToSet(hevents[e].getList) \subseteq HealthCall
  <2>1. SUFFICES ASSUME NEW e \in Event, NEW i \in DOMAIN hevents[e].getList
                 PROVE hevents[e].getList[i] \in HealthCall
    BY DEF ToSet
  <2> QED BY <1>2, ElementOfSeq, LenProperties
<1>4. ASSUME NEW e \in Event, e # Shared,
             hevents'[e] = hevents[e]
      PROVE  TopicInv(e)'
  <2>1. TopicInv(e) /\ hevents[e].subList = <<>> /\ ToSet(<<>>) = {}
    BY <1>1, <1>4 DEF TopicInv, ToSet
  <2> QED BY <1>1, <1>4, <2>1 DEF TopicInv
<1>5. CASE ~known
  <2>1. UNCHANGED <<hevents, pending>>
    BY <1>5 DEF HealthDetached
  <2>2. TopicInv(Shared)'
    <3>1. TopicInv(Shared) /\ l = <<>> /\ hevents[Shared].subList = <<>> /\ ToSet(<<>>) = {}
      BY <1>1, <1>2, <1>5 DEF TopicInv, ToSet
    <3> QED BY <1>1, <2>1, <3>1 DEF TopicInv
  <2>3. \A e \in Event : TopicInv(e)'
    BY <1>4, <2>1, <2>2
  <2>4. \A c \in HealthCall : WaitsInv(c)'
    BY <1>1, <2>1, CallsStay
  <2>5. OpenTopics' = OpenTopics
    BY <2>1 DEF OpenTopics
  <2>6. HsTypes' /\ TopicsInv'
    BY <1>1, <1>2, <2>1, <2>5 DEF HsTypes, TopicsInv
  <2> QED BY <1>1, <2>3, <2>4, <2>6 DEF ListsInv
<1>6. CASE known
  <2>1. Unsubscribed(p, r)
    BY <1>6 DEF HealthDetached
  <2>2. /\ r \in Seq(HealthCall) /\ DOMAIN r = 1..Len(r)
        /\ \E f \in [1..Len(r) -> 1..Len(l)] :
             /\ \A m, n \in 1..Len(r) : f[m] = f[n] => m = n
             /\ \A n \in 1..Len(r) : r[n] = l[f[n]] /\ r[n] \notin own
    <3> HIDE DEF own, l
    <3> QED BY <1>2, RemainingIs DEF l
  <2>5. l = <<>> => r = <<>>
    BY NothingRemains
  <2> HIDE DEF r, own, l
  <2>3. PICK f \in [1..Len(r) -> 1..Len(l)] :
             /\ \A m, n \in 1..Len(r) : f[m] = f[n] => m = n
             /\ \A n \in 1..Len(r) : r[n] = l[f[n]] /\ r[n] \notin own
    BY <2>2
  <2>4. DOMAIN l = 1..Len(l)
    BY <1>2, LenProperties
  <2>6. /\ hevents' \in [Event -> HealthTopic] /\ pending' \in Nat
        /\ \A e \in Event \ {Shared} : hevents'[e] = hevents[e]
        /\ hevents'[Shared].getList = r
        /\ ToSet(hevents'[Shared].subList) \subseteq ToSet(hevents[Shared].subList) \ {p}
        /\ IsInjective(hevents'[Shared].subList)
        /\ IsActive(hevents'[Shared]) => hevents'[Shared].open > 0
        /\ IsFiniteSet(OpenTopics')
        /\ pending' + Cardinality(OpenTopics') = pending + Cardinality(OpenTopics)
    <3>1. TopicInv(Shared) /\ (r # <<>> => hevents[Shared].getList # <<>>)
      BY <1>1, <1>2, <2>5 DEF l
    <3> QED BY <1>1, <2>1, <2>2, <3>1, UnsubscribedIs
  <2>7. HsTypes' /\ TopicsInv'
    BY <1>1, <1>2, <2>6 DEF HsTypes, TopicsInv
  <2>8. TopicInv(Shared)'
    <3>1. TopicInv(Shared)
      BY <1>1, <1>2
    <3>2. \A c \in ToSet(r) : getMeta[c].page \notin quit'
      <4>1. SUFFICES ASSUME NEW n \in 1..Len(r) PROVE getMeta[r[n]].page \notin quit'
        BY <2>2 DEF ToSet
      <4>2. r[n] \in ToSet(l) /\ r[n] \notin own
        BY <2>3, <2>4 DEF ToSet
      <4>3. r[n] \in HealthCall /\ getMeta[r[n]].page \notin quit
        BY <1>2, <1>3, <3>1, <4>2 DEF TopicInv, l
      <4> QED BY <1>1, <4>2, <4>3 DEF own
    <3> QED BY <1>1, <1>6, <2>6, <3>1, <3>2 DEF TopicInv
  <2>9. \A e \in Event : TopicInv(e)'
    BY <1>4, <2>6, <2>8
  <2>10. \A c \in HealthCall : WaitsInv(c)'
    <3>1. \A n \in DOMAIN hevents'[Shared].getList :
             /\ f[n] \in DOMAIN hevents[Shared].getList
             /\ hevents'[Shared].getList[n] = hevents[Shared].getList[f[n]]
      BY <2>2, <2>3, <2>4, <2>6 DEF l
    <3>2. \A m, n \in DOMAIN hevents'[Shared].getList : f[m] = f[n] => m = n
      BY <2>2, <2>3, <2>6
    <3>3. hevents \in [Event -> HealthTopic] /\ UNCHANGED getMeta
          /\ \A d \in Event \ {Shared} : hevents'[d].getList = hevents[d].getList
      BY <1>1, <2>6 DEF HsTypes
    <3> QED BY <1>1, <1>2, <2>6, <3>1, <3>2, <3>3, CallsLeave
  <2> QED BY <1>1, <2>7, <2>9, <2>10 DEF ListsInv
<1> QED BY <1>5, <1>6

-----------------------------------------------------------------------------
(* The calls of the script find health_topic_cb where it stands.           *)

(* Whatever is done in a function, the callback stands on what it stood    *)
(* on, unless it has been freed, and the call that is settled is the first *)
(* unless its instance leaves.                                             *)
LEMMA WalkStays ==
  ASSUME HealthInv, quit \subseteq quit',
         walk' = walk \/ walk' = WalkAt("erased", walk.e),
         walk' = walk /\ walk.step = "calls" =>
           walk.page \in ToSet(hevents'[Shared].subList),
         walk.step = "answered" =>
           /\ getMeta'[walk.call] = getMeta[walk.call]
           /\ \A d \in HealthCall : d = walk.call => WaitsOf(d)' \subseteq {<<walk.e, 1>>}
           /\ /\ getMeta[walk.call].page \notin quit'
              /\ hevents[walk.e].getList # <<>>
              /\ Head(hevents[walk.e].getList) = walk.call
              => /\ hevents'[walk.e].getList # <<>>
                 /\ Head(hevents'[walk.e].getList) = walk.call
  PROVE  WalkInv'
<1>1. CASE walk' = walk
  <2>1. CASE walk.step = "answered"
    <3>1. PICK d \in HealthCall :
            /\ d = walk.call /\ d = walk'.call /\ getMeta[d].answer = <<"resolve">>
            /\ walk.e \in Event
      BY <1>1, <2>1 DEF HealthInv, WalkInv
    <3>2. WaitsOf(d)' \subseteq {<<walk'.e, 1>>}
      BY <1>1, <2>1, <3>1
    <3>3. WaitsOf(d)' = WaitsOf(walk.call)'
      BY <3>1
    <3>4. getMeta'[d] = getMeta[d]
      BY <2>1, <3>1
    <3>5. getMeta[d].page \notin quit' =>
            hevents'[walk.e].getList # <<>> /\ Head(hevents'[walk.e].getList) = d
      BY <2>1, <3>1 DEF HealthInv, WalkInv
    <3> QED BY <1>1, <2>1, <3>1, <3>2, <3>3, <3>4, <3>5 DEF WalkInv
  <2>2. CASE walk.step # "answered"
    BY <1>1, <2>2 DEF HealthInv, WalkInv
  <2> QED BY <2>1, <2>2
<1>2. CASE walk' = WalkAt("erased", walk.e)
  <2>1. walk'.step = "erased"
    BY <1>2 DEF WalkAt, Walk
  <2> QED BY <2>1 DEF WalkInv
<1> QED BY <1>1, <1>2

(* A call is asked: it waits behind the one that is settled.               *)
LEMMA GetRecentSamplesWalks ==
  ASSUME HealthInv, NEW c \in HealthCall, NEW p \in HealthPage, GetRecentSamples(c, p)
  PROVE  WalkInv'
<1>1. /\ NotAsked(c) /\ Here(p) /\ HsTypes /\ UNCHANGED <<quit, walk>> /\ WalkInv
  BY GetRecentSamplesIs DEF HealthInv, ListsInv
<1>2. PICK n \in 0..MaxTypes : Refused(c, p, n) \/ Accepted(c, p, n)
  BY GetRecentSamplesIs
<1>0. n \in Nat /\ (n > 0 => n \in 1..MaxTypes)
  BY HealthAssumption
<1>3. ~Settled(c) /\ WaitsOf(c) = {}
  BY <1>1, GetStarts
<1>4. \A d \in HealthCall \ {c} : getMeta'[d] = getMeta[d]
  <2>1. PICK v : getMeta' = [getMeta EXCEPT ![c] = v]
    BY <1>2, Zenon DEF Refused, Accepted
  <2> QED BY ONLY <2>1, <1>1 DEF HsTypes
<1>5. \A e \in Event : /\ hevents'[e].subList = hevents[e].subList
                       /\ \/ hevents'[e].getList = hevents[e].getList
                          \/ hevents'[e].getList = hevents[e].getList \o WaitAt(c, n, e)
  <2>1. ASSUME NEW k \in 0..(IF IdleFor(n) THEN n - 1 ELSE 0),
               hevents' = [e \in Event |->
                             [hevents[e] EXCEPT !.open = @ + OpenedAt(c, n, k, e)]]
        PROVE  \A e \in Event : /\ hevents'[e].getList = hevents[e].getList
                                /\ hevents'[e].subList = hevents[e].subList
    <3>1. k \in Nat
      BY <1>0 DEF IdleFor
    <3> QED BY <1>0, <1>1, <2>1, <3>1, TopicsGrown, Zenon
  <2>2. ASSUME n > 0,
               hevents' = [e \in Event |-> [hevents[e] EXCEPT
                             !.open = @ + OpenedAt(c, n, n, e), !.getList = @ \o WaitAt(c, n, e)]]
        PROVE  \A e \in Event : /\ hevents'[e].getList = hevents[e].getList \o WaitAt(c, n, e)
                                /\ hevents'[e].subList = hevents[e].subList
    <3>1. n \in 1..MaxTypes
      BY <1>0, <2>2, Zenon
    <3> QED BY <1>1, <2>2, <3>1, ListsGrow, Zenon
  <2> QED BY <1>2, <2>1, <2>2, Zenon DEF Refused, Accepted
<1>6. \A d \in HealthCall \ {c} : WaitsOf(d)' = WaitsOf(d)
  <2>1. CASE \A e \in Event : hevents'[e].getList = hevents[e].getList
    BY <2>1, WaitsStay
  <2>2. CASE /\ n > 0
             /\ hevents' = [e \in Event |-> [hevents[e] EXCEPT
                             !.open = @ + OpenedAt(c, n, n, e), !.getList = @ \o WaitAt(c, n, e)]]
    <3>1. n \in 1..MaxTypes
      BY <1>0, <2>2, Zenon
    <3>2. \A e \in Event : hevents'[e].getList = hevents[e].getList \o WaitAt(c, n, e)
      BY <1>1, <2>2, <3>1, ListsGrow, Zenon
    <3> QED BY <1>1, <1>3, <3>1, <3>2, WaitsAdded
  <2>3. ASSUME NEW k \in 0..(IF IdleFor(n) THEN n - 1 ELSE 0),
               hevents' = [e \in Event |->
                             [hevents[e] EXCEPT !.open = @ + OpenedAt(c, n, k, e)]]
        PROVE  \A e \in Event : hevents'[e].getList = hevents[e].getList
    <3>1. k \in Nat
      BY <1>0 DEF IdleFor
    <3> QED BY <1>0, <1>1, <2>3, <3>1, TopicsGrown, Zenon
  <2> QED BY <1>2, <2>1, <2>2, <2>3, Zenon DEF Refused, Accepted
<1>7. ASSUME walk.step = "answered"
      PROVE  /\ getMeta'[walk.call] = getMeta[walk.call]
             /\ \A d \in HealthCall : d = walk.call => WaitsOf(d)' \subseteq {<<walk.e, 1>>}
             /\ hevents[walk.e].getList # <<>> =>
                  /\ hevents'[walk.e].getList # <<>>
                  /\ Head(hevents'[walk.e].getList) = Head(hevents[walk.e].getList)
  <2>1. walk.call \in HealthCall \ {c} /\ walk.e \in Event
        /\ WaitsOf(walk.call) \subseteq {<<walk.e, 1>>}
    BY <1>1, <1>3, <1>7 DEF WalkInv, Settled
  <2>2. PICK e \in Event : e = walk.e
    BY <2>1
  <2>3. PICK l \in Seq(HealthCall) : l = hevents[e].getList
    BY <1>1 DEF HsTypes, HealthTopic
  <2>4. l # <<>> => l \o WaitAt(c, n, e) # <<>> /\ Head(l \o WaitAt(c, n, e)) = Head(l)
    BY <1>0, <1>1, FirstStays
  <2>5. getMeta'[walk.call] = getMeta[walk.call]
    BY <1>4, <2>1
  <2>6. \A d \in HealthCall : d = walk.call => WaitsOf(d)' \subseteq {<<walk.e, 1>>}
    BY <1>6, <2>1
  <2>7. l # <<>> => /\ hevents'[e].getList # <<>>
                    /\ Head(hevents'[e].getList) = Head(l)
    BY <1>5, <2>3, <2>4
  <2> QED BY <2>2, <2>3, <2>5, <2>6, <2>7
<1>8. walk.step = "calls" => walk.page \in ToSet(hevents'[Shared].subList)
  <2>1. Shared \in Event
    BY DEF Event
  <2> QED BY <1>1, <1>5, <2>1 DEF WalkInv
<1> QED BY <1>1, <1>7, <1>8, WalkStays

LEMMA SubscribeSampleWalks ==
  ASSUME HealthInv, NEW p \in HealthPage, SubscribeSample(p)
  PROVE  WalkInv'
<1> DEFINE h == hevents[Shared]
           s == IF p \in ToSet(h.subList) THEN h.subList ELSE Append(h.subList, p)
<1>1. HsTypes /\ UNCHANGED <<getMeta, quit, walk>> /\ WalkInv /\ Shared \in Event
  BY DEF HealthInv, ListsInv, SubscribeSample, Event
<1>2. h \in HealthTopic /\ h.subList \in Seq(HealthPage) /\ h.open \in Nat
  BY <1>1 DEF HsTypes, HealthTopic
<1>3. /\ \A e \in Event : hevents'[e].getList = hevents[e].getList
      /\ ToSet(h.subList) \subseteq ToSet(hevents'[Shared].subList)
  <2>1. CASE UNCHANGED hevents
    BY <2>1
  <2>2. CASE \E k \in {0, 1} : hevents' = [hevents EXCEPT
                                 ![Shared].open = @ + k, ![Shared].subList = s]
    <3>1. PICK k \in {0, 1} : hevents' = [hevents EXCEPT
                                ![Shared].open = @ + k, ![Shared].subList = s]
      BY <2>2
    <3>2. ToSet(h.subList) \subseteq ToSet(s)
      <4>1. CASE p \notin ToSet(h.subList)
        <5>1. PICK l \in Seq(HealthPage) : l = h.subList
          BY <1>2
        <5>2. /\ Len(Append(l, p)) = Len(l) + 1 /\ Len(l) \in Nat
              /\ \A i \in 1..Len(l) : Append(l, p)[i] = l[i]
              /\ DOMAIN l = 1..Len(l) /\ DOMAIN Append(l, p) = 1..Len(l) + 1
          BY AppendProperties, LenProperties
        <5>3. \A i \in 1..Len(l) : i \in 1..Len(l) + 1
          BY <5>2
        <5> QED BY <4>1, <5>1, <5>2, <5>3 DEF ToSet
      <4> QED BY <4>1
    <3> HIDE DEF s, h
    <3>3. PICK o \in Nat : o = h.open + k
      BY <1>2
    <3>4. hevents' = [hevents EXCEPT ![Shared] = [h EXCEPT !.open = o, !.subList = s]]
      BY <3>1, <3>3 DEF h
    <3>5. /\ [h EXCEPT !.open = o, !.subList = s].getList = h.getList
          /\ [h EXCEPT !.open = o, !.subList = s].subList = s
      BY <1>2 DEF HealthTopic
    <3>6. /\ hevents'[Shared] = [h EXCEPT !.open = o, !.subList = s]
          /\ \A e \in Event \ {Shared} : hevents'[e] = hevents[e]
      BY <1>1, <3>4 DEF HsTypes
    <3> QED BY <3>2, <3>5, <3>6 DEF h
  <2> QED BY <2>1, <2>2 DEF SubscribeSample
<1>4. \A c : WaitsOf(c)' = WaitsOf(c)
  BY <1>3, WaitsStay
<1>5. walk.step = "calls" => walk.page \in ToSet(hevents'[Shared].subList)
  BY <1>1, <1>3 DEF WalkInv
<1>6. walk.step = "answered" => walk.e \in Event
                                /\ WaitsOf(walk.call) \subseteq {<<walk.e, 1>>}
  BY <1>1 DEF WalkInv
<1> QED BY <1>1, <1>3, <1>4, <1>5, <1>6, WalkStays

LEMMA UnsubscribeSampleWalks ==
  ASSUME HealthInv, NEW p \in HealthPage, UnsubscribeSample(p)
  PROVE  WalkInv'
<1>1. /\ HsTypes /\ TopicsInv /\ TopicInv(Shared) /\ WalkInv /\ Shared \in Event
      /\ Unsubscribed(p, hevents[Shared].getList) /\ UNCHANGED <<getMeta, quit>>
  BY DEF HealthInv, ListsInv, UnsubscribeSample, Event
<1>2. hevents[Shared].getList \in Seq(HealthCall)
  BY <1>1 DEF HsTypes, HealthTopic
<1>3. /\ \A e \in Event \ {Shared} : hevents'[e] = hevents[e]
      /\ hevents'[Shared].getList = hevents[Shared].getList
      /\ ToSet(hevents[Shared].subList) \ {p} \subseteq ToSet(hevents'[Shared].subList)
      /\ walk' = IF walk.step = "calls" /\ walk.page = p
                 THEN WalkAt("erased", walk.e) ELSE walk
  BY <1>1, <1>2, UnsubscribedIs
<1>4. \A e \in Event : hevents'[e].getList = hevents[e].getList
  BY <1>3
<1>5. \A c : WaitsOf(c)' = WaitsOf(c)
  BY <1>4, WaitsStay
<1>6. walk' = walk /\ walk.step = "calls" => walk.page \in ToSet(hevents'[Shared].subList)
  <2>1. WalkAt("erased", walk.e).step # "calls"
    BY DEF WalkAt, Walk
  <2> QED BY <1>1, <1>3, <2>1 DEF WalkInv
<1>7. walk.step = "answered" => walk.e \in Event
                                /\ WaitsOf(walk.call) \subseteq {<<walk.e, 1>>}
  BY <1>1 DEF WalkInv
<1> QED BY <1>1, <1>3, <1>4, <1>5, <1>6, <1>7, WalkStays

(* The calls of an instance that leaves are taken off: another one that is *)
(* settled stays the first.                                                *)
LEMMA HealthDetachedWalks ==
  ASSUME HealthInv, NEW p \in HealthPage, HealthDetached(p)
  PROVE  WalkInv'
<1> DEFINE own == {c \in HealthCall : getMeta[c].page = p}
           l == hevents[Shared].getList
           r == Remaining(l, own)
<1>1. /\ HsTypes /\ TopicsInv /\ TopicInv(Shared) /\ WalkInv /\ Shared \in Event
      /\ UNCHANGED getMeta /\ quit' = quit \cup {p}
      /\ l \in Seq(HealthCall)
  BY DEF HealthInv, ListsInv, HealthDetached, Event, HsTypes, HealthTopic
<1>2. CASE ~known
  <2>1. UNCHANGED <<hevents, walk>>
    BY <1>2 DEF HealthDetached
  <2>2. \A c : WaitsOf(c)' = WaitsOf(c)
    BY <2>1, WaitsStay
  <2>3. walk.step = "calls" => walk.page \in ToSet(hevents'[Shared].subList)
    BY <1>1, <2>1 DEF WalkInv
  <2>4. walk.step = "answered" => WaitsOf(walk.call) \subseteq {<<walk.e, 1>>}
    BY <1>1 DEF WalkInv
  <2> QED BY <1>1, <2>1, <2>2, <2>3, <2>4, WalkStays
<1>3. CASE known
  <2>1. Unsubscribed(p, r)
    BY <1>3 DEF HealthDetached
  <2>2. /\ r \in Seq(HealthCall) /\ DOMAIN r = 1..Len(r)
        /\ \E f \in [1..Len(r) -> 1..Len(l)] :
             /\ \A m, n \in 1..Len(r) : f[m] = f[n] => m = n
             /\ \A n \in 1..Len(r) : r[n] = l[f[n]] /\ r[n] \notin own
             /\ \A i \in 1..Len(l) : l[i] \notin own => \E n \in 1..Len(r) : f[n] = i
             /\ 1 \in 1..Len(l) /\ l[1] \notin own => 1 \in 1..Len(r) /\ f[1] = 1
    <3> HIDE DEF own, l
    <3> QED BY <1>1, RemainingHas DEF l
  <2>3. l = <<>> => r = <<>>
    BY NothingRemains
  <2> HIDE DEF r, own, l
  <2>4. PICK f \in [1..Len(r) -> 1..Len(l)] :
             /\ \A m, n \in 1..Len(r) : f[m] = f[n] => m = n
             /\ \A n \in 1..Len(r) : r[n] = l[f[n]] /\ r[n] \notin own
             /\ 1 \in 1..Len(l) /\ l[1] \notin own => 1 \in 1..Len(r) /\ f[1] = 1
    BY <2>2
  <2>5. /\ hevents' \in [Event -> HealthTopic]
        /\ \A e \in Event \ {Shared} : hevents'[e] = hevents[e]
        /\ hevents'[Shared].getList = r
        /\ ToSet(hevents[Shared].subList) \ {p} \subseteq ToSet(hevents'[Shared].subList)
        /\ walk' = IF walk.step = "calls" /\ walk.page = p
                   THEN WalkAt("erased", walk.e) ELSE walk
    <3>1. r # <<>> => hevents[Shared].getList # <<>>
      BY <1>1, <2>3 DEF l
    <3> QED BY <1>1, <2>1, <2>2, <3>1, UnsubscribedIs
  <2>6. walk' = walk /\ walk.step = "calls" => walk.page \in ToSet(hevents'[Shared].subList)
    <3>1. WalkAt("erased", walk.e).step # "calls"
      BY DEF WalkAt, Walk
    <3> QED BY <1>1, <2>5, <3>1 DEF WalkInv
  <2>7. l # <<>> => l[1] = Head(l) /\ 1 \in 1..Len(l)
    <3>1. PICK L \in Seq(HealthCall) : L = l
      BY <1>1 DEF l
    <3>2. L # <<>> => L[1] = Head(L) /\ 1 \in 1..Len(L)
      BY HeadTailProperties, LenProperties, EmptySeq
    <3> QED BY <3>1, <3>2
  <2>8. ASSUME walk.step = "answered", walk.e = Shared
        PROVE  /\ \A d \in HealthCall : d = walk.call => WaitsOf(d)' \subseteq {<<walk.e, 1>>}
               /\ getMeta[walk.call].page # p /\ l # <<>> /\ Head(l) = walk.call
                  => r # <<>> /\ Head(r) = walk.call
    <3>1. PICK d \in HealthCall : d = walk.call /\ WaitsOf(d) \subseteq {<<Shared, 1>>}
      BY <1>1, <2>8 DEF WalkInv
    <3>2. ASSUME l # <<>>, Head(l) = d, getMeta[d].page # p
          PROVE  r # <<>> /\ Head(r) = d /\ 1 \in 1..Len(r) /\ f[1] = 1
      <4>1. l[1] = d /\ d \notin own
        BY <2>7, <3>2 DEF own
      <4>2. 1 \in 1..Len(r) /\ f[1] = 1 /\ r[1] = d
        BY <2>4, <2>7, <3>2, <4>1
      <4>3. PICK R \in Seq(HealthCall) : R = r
        BY <2>2
      <4>4. R # <<>> => Head(R) = R[1]
        BY HeadTailProperties
      <4>5. R # <<>>
        BY <4>2, <4>3
      <4> QED BY <4>2, <4>3, <4>4, <4>5
    <3>3. ASSUME NEW w \in WaitsOf(d)' PROVE w = <<Shared, 1>>
      <4>1. PICK e \in Event, i \in Nat :
              /\ w = <<e, i>> /\ i \in DOMAIN hevents'[e].getList
              /\ hevents'[e].getList[i] = d
        BY <3>3 DEF WaitsOf
      <4>2. CASE e # Shared
        <5>1. <<e, i>> \in WaitsOf(d)
          BY <1>1, <2>5, <4>1, <4>2 DEF WaitsOf
        <5> QED BY <3>1, <4>1, <5>1
      <4>3. CASE e = Shared
        <5>1. i \in 1..Len(r) /\ r[i] = d /\ d \notin own /\ l[f[i]] = d /\ f[i] \in 1..Len(l)
          BY <2>2, <2>4, <2>5, <4>1, <4>3
        <5>2. DOMAIN l = 1..Len(l) /\ f[i] \in Nat
          BY <1>1, <5>1, LenProperties DEF l
        <5>3. <<Shared, f[i]>> \in WaitsOf(d)
          BY <1>1, <5>1, <5>2 DEF WaitsOf, l
        <5>4. f[i] = 1
          BY <3>1, <5>3
        <5>5. l # <<>> /\ Head(l) = d
          <6>1. l # <<>>
            BY <5>1, <5>2
          <6> QED BY <2>7, <5>1, <5>4, <6>1
        <5>6. getMeta[d].page # p
          BY <5>1 DEF own
        <5>7. 1 \in 1..Len(r) /\ f[1] = 1
          BY <3>2, <5>5, <5>6
        <5> QED BY <2>4, <4>1, <4>3, <5>1, <5>4, <5>7
      <4> QED BY <4>2, <4>3
    <3>4. \A b \in HealthCall : b = walk.call => WaitsOf(b)' \subseteq {<<walk.e, 1>>}
      BY <2>8, <3>1, <3>3
    <3> QED BY <2>8, <3>1, <3>2, <3>4
  <2>9. ASSUME walk.step = "answered", walk.e # Shared
        PROVE  /\ \A d \in HealthCall : d = walk.call => WaitsOf(d)' \subseteq {<<walk.e, 1>>}
               /\ hevents'[walk.e].getList = hevents[walk.e].getList
    <3>1. PICK d \in HealthCall, e \in Event :
            d = walk.call /\ e = walk.e /\ WaitsOf(d) \subseteq {<<e, 1>>} /\ e # Shared
      BY <1>1, <2>9 DEF WalkInv
    <3>2. ASSUME NEW w \in WaitsOf(d)' PROVE w = <<e, 1>>
      <4>1. PICK b \in Event, i \in Nat :
              /\ w = <<b, i>> /\ i \in DOMAIN hevents'[b].getList
              /\ hevents'[b].getList[i] = d
        BY <3>2 DEF WaitsOf
      <4>2. CASE b # Shared
        <5>1. <<b, i>> \in WaitsOf(d)
          BY <1>1, <2>5, <4>1, <4>2 DEF WaitsOf
        <5> QED BY <3>1, <4>1, <5>1
      <4>3. CASE b = Shared
        <5>1. i \in 1..Len(r) /\ l[f[i]] = d /\ f[i] \in 1..Len(l)
          BY <2>2, <2>4, <2>5, <4>1, <4>3
        <5>2. DOMAIN l = 1..Len(l) /\ f[i] \in Nat
          BY <1>1, <5>1, LenProperties DEF l
        <5>3. <<Shared, f[i]>> \in WaitsOf(d)
          BY <1>1, <5>1, <5>2 DEF WaitsOf, l
        <5> QED BY <3>1, <5>3
      <4> QED BY <4>2, <4>3
    <3>3. \A c \in HealthCall : c = walk.call => WaitsOf(c)' \subseteq {<<walk.e, 1>>}
      BY <3>1, <3>2
    <3> QED BY <2>5, <3>1, <3>3
  <2>10. walk.step = "answered" =>
           /\ \A d \in HealthCall : d = walk.call => WaitsOf(d)' \subseteq {<<walk.e, 1>>}
           /\ /\ getMeta[walk.call].page \notin quit'
              /\ hevents[walk.e].getList # <<>>
              /\ Head(hevents[walk.e].getList) = walk.call
              => /\ hevents'[walk.e].getList # <<>>
                 /\ Head(hevents'[walk.e].getList) = walk.call
    BY <1>1, <2>5, <2>8, <2>9 DEF l
  <2> QED BY <1>1, <2>5, <2>6, <2>10, WalkStays
<1> QED BY <1>2, <1>3

-----------------------------------------------------------------------------
(* The loop, and the end of the prototype *)

(* Nothing of the lists and the calls changes.                             *)
LEMMA UnchangedLists ==
  ASSUME ListsInv, walk' = walk \/ walk.step # "answered",
         UNCHANGED <<hevents, known, getMeta, topicRefs, pending, healthCtx, quit, toDead>>
  PROVE  ListsInv'
<1>1. HsTypes' /\ OpenTopics' = OpenTopics
  BY DEF ListsInv, HsTypes, OpenTopics
<1>2. TopicsInv' /\ toDead' \subseteq {"own"}
  BY <1>1 DEF ListsInv, TopicsInv
<1>3. \A e \in Event : TopicInv(e)'
  BY DEF ListsInv, TopicInv
<1>4. \A c \in HealthCall : WaitsInv(c)'
  BY CallsStay DEF ListsInv
<1> QED BY <1>1, <1>2, <1>3, <1>4 DEF ListsInv

(* What stays of a finite set without one of its elements.                 *)
LEMMA OneLess ==
  ASSUME NEW S, IsFiniteSet(S), NEW x
  PROVE  /\ IsFiniteSet(S \ {x}) /\ Cardinality(S \ {x}) \in Nat
         /\ Cardinality(S) \in Nat
         /\ Cardinality(S \ {x}) <= Cardinality(S)
         /\ x \in S => Cardinality(S) = Cardinality(S \ {x}) + 1
<1>1. IsFiniteSet(S \ {x}) /\ Cardinality(S) \in Nat
      /\ Cardinality(S \ {x}) = IF x \in S THEN Cardinality(S) - 1 ELSE Cardinality(S)
  BY FS_CardinalityType, FS_RemoveElement
<1>2. Cardinality(S \ {x}) \in Nat
  BY <1>1, FS_CardinalityType
<1> QED BY <1>1, <1>2

(* What stays of the record of a call with another count of samples.       *)
LEMMA MetaWith ==
  ASSUME NEW g \in HealthMeta, NEW n \in Nat, NEW a \in Nat
  PROVE  [g EXCEPT !.num = n, !.array = a]
         = [page |-> g.page, num |-> n, array |-> a, size |-> g.size,
            answer |-> g.answer]
<1> DEFINE h == [page |-> g.page, num |-> n, array |-> g.array, size |-> g.size,
                 answer |-> g.answer]
<1>1. [g EXCEPT !.num = n] = h
  BY DEF HealthMeta
<1>2. h \in HealthMeta
  BY DEF HealthMeta
<1>3. ASSUME NEW d \in HealthMeta
      PROVE  [d EXCEPT !.array = a]
             = [page |-> d.page, num |-> d.num, array |-> a, size |-> d.size,
                answer |-> d.answer]
  BY DEF HealthMeta
<1>4. /\ h.page = g.page /\ h.num = n /\ h.size = g.size /\ h.answer = g.answer
  OBVIOUS
<1> HIDE DEF h
<1>5. [h EXCEPT !.array = a]
      = [page |-> g.page, num |-> n, array |-> a, size |-> g.size,
         answer |-> g.answer]
  BY <1>2, <1>3, <1>4
<1> QED BY <1>1, <1>5

(* A call after a sample, of which n are still to come.                    *)
LEMMA SampleIs ==
  ASSUME NEW g \in HealthMeta, g.answer = <<>>, NEW n \in Nat, NEW a \in Nat,
         g.num - 1 = n, g.array + 1 = a
  PROVE  \E v \in HealthMeta :
           /\ v = Sampled(g) /\ v.page = g.page
           /\ v.num = n /\ v.array = a /\ v.size = g.size
           /\ v.answer = IF n = 0 THEN <<"resolve">> ELSE <<>>
<1> DEFINE r == [page |-> g.page, num |-> n, array |-> a, size |-> g.size,
                 answer |-> <<>>]
           s == [page |-> g.page, num |-> n, array |-> a, size |-> g.size,
                 answer |-> <<"resolve">>]
           m == [g EXCEPT !.num = @ - 1, !.array = @ + 1]
<1> HIDE DEF r, s, m
<1>1. m = r
  <2>1. m = [g EXCEPT !.num = n, !.array = a]
    BY DEF m
  <2>2. r = [page |-> g.page, num |-> n, array |-> a, size |-> g.size,
             answer |-> g.answer]
    BY DEF r
  <2>3. [g EXCEPT !.num = n, !.array = a]
        = [page |-> g.page, num |-> n, array |-> a, size |-> g.size,
           answer |-> g.answer]
    BY ONLY MetaWith, g \in HealthMeta, n \in Nat, a \in Nat
  <2> QED BY ONLY <2>1, <2>2, <2>3
<1>2. r \in HealthMeta /\ s \in HealthMeta
  <2>1. g.page \in AnyPage /\ g.size \in Nat /\ <<>> \in HealthAnswers
        /\ <<"resolve">> \in HealthAnswers
    BY DEF HealthMeta, HealthAnswers
  <2> QED BY <2>1 DEF HealthMeta, r, s
<1>3. [r EXCEPT !.answer = Append(@, "resolve")] = s
  <2>1. Append(<<>>, "resolve") = <<"resolve">>
    OBVIOUS
  <2> QED BY <2>1 DEF r, s
<1>4. /\ r.page = g.page /\ r.num = n /\ r.array = a /\ r.size = g.size /\ r.answer = <<>>
      /\ s.page = g.page /\ s.num = n /\ s.array = a /\ s.size = g.size
      /\ s.answer = <<"resolve">> /\ ~(n = 0 /\ n > 0)
      /\ n = 0 \/ n > 0
  BY DEF r, s
<1>5. Sampled(g) = IF n > 0 THEN r ELSE s
  <2>1. Sampled(g) = IF m.num > 0 THEN m ELSE [m EXCEPT !.answer = Append(@, "resolve")]
    BY DEF Sampled, m
  <2> QED BY <1>1, <1>3, <1>4, <2>1
<1> QED BY <1>2, <1>4, <1>5

(* Who waits has a sample to come.                                         *)
LEMMA StillToCome ==
  ASSUME HsTypes, NEW c \in HealthCall, WaitsInv(c), ~Settled(c), NEW w, w \in WaitsOf(c)
  PROVE  \E n \in Nat : /\ n + 1 = getMeta[c].num /\ getMeta[c].answer = <<>>
                        /\ Cardinality(WaitsOf(c) \ {w}) \in Nat
                        /\ Cardinality(WaitsOf(c) \ {w}) <= n
<1>1. getMeta[c].num \in Nat
  BY DEF HsTypes, HealthMeta
<1>2. IsFiniteSet(WaitsOf(c)) /\ Cardinality(WaitsOf(c)) <= getMeta[c].num
      /\ (getMeta[c].answer # <<>> => getMeta[c].num = 0)
  BY DEF WaitsInv
<1>3. /\ Cardinality(WaitsOf(c)) = Cardinality(WaitsOf(c) \ {w}) + 1
      /\ Cardinality(WaitsOf(c) \ {w}) \in Nat
  BY <1>2, OneLess
<1>4. PICK b \in Nat, d \in Nat : b = Cardinality(WaitsOf(c) \ {w}) /\ d = getMeta[c].num
  BY <1>1, <1>3
<1>5. b + 1 <= d
  BY <1>2, <1>3, <1>4
<1>6. d - 1 \in Nat /\ (d - 1) + 1 = d /\ b <= d - 1 /\ d # 0
  BY <1>4, <1>5
<1> QED BY <1>2, <1>3, <1>4, <1>6

(* The walk over subList: nobody is told who has left.                     *)
LEMMA WalkToKeeps ==
  ASSUME HealthInv, NEW e \in Event, NEW n \in Nat \ {0}, WalkTo(e, n),
         walk.step # "answered",
         UNCHANGED <<hevents, known, getMeta, topicRefs, pending, healthCtx, quit>>
  PROVE  HealthInv'
<1> DEFINE s == hevents[e].subList
<1>1. /\ ListsInv /\ HsTypes /\ TopicsInv /\ toDead \subseteq {"own"}
      /\ \A d \in Event : TopicInv(d)
      /\ \A c \in HealthCall : WaitsInv(c)
      /\ s \in Seq(HealthPage)
  BY DEF HealthInv, ListsInv, HsTypes, HealthTopic
<1>2. n <= Len(s) => s[n] \in ToSet(s) /\ s[n] \notin quit /\ e = Shared
  <2>1. SUFFICES ASSUME n <= Len(s)
                 PROVE  s[n] \in ToSet(s) /\ s[n] \notin quit /\ e = Shared
    OBVIOUS
  <2>2. Len(s) \in Nat /\ DOMAIN s = 1..Len(s)
    BY <1>1, LenProperties
  <2>3. n \in DOMAIN s
    BY <2>1, <2>2
  <2>4. s # <<>> /\ s[n] \in ToSet(s)
    BY <2>3 DEF ToSet
  <2> QED BY <1>1, <2>4 DEF TopicInv
<1>3. n <= Len(s) \/ n > Len(s)
  <2>1. Len(s) \in Nat
    BY <1>1, LenProperties
  <2> QED BY <2>1
<1>4. CASE n > Len(s)
  <2>1. walk' = WalkAt("called", e) /\ toDead' = toDead
    BY <1>4 DEF WalkTo
  <2>2. walk'.step = "called" /\ walk'.e = e
    BY <2>1 DEF WalkAt, Walk
  <2>3. WalkInv'
    BY <2>2 DEF WalkInv
  <2>4. ListsInv'
    BY <1>1, <2>1, UnchangedLists
  <2> QED BY <2>3, <2>4 DEF HealthInv
<1>5. CASE n <= Len(s) /\ ~(n > Len(s))
  <2>1. walk' = Walk("calls", e, s[n], NoAnswered) /\ toDead' = toDead
    BY <1>2, <1>5 DEF WalkTo
  <2>2. walk'.step = "calls" /\ walk'.e = e /\ walk'.page = s[n]
    BY <2>1 DEF Walk
  <2>3. WalkInv'
    BY <1>2, <1>5, <2>2 DEF WalkInv
  <2>4. ListsInv'
    BY <1>1, <2>1, UnchangedLists
  <2> QED BY <2>3, <2>4 DEF HealthInv
<1>6. n > Len(s) \/ (n <= Len(s) /\ ~(n > Len(s)))
  <2>1. Len(s) \in Nat
    BY <1>1, LenProperties
  <2> QED BY <2>1
<1> QED BY <1>4, <1>5, <1>6

(* The callback is lost: it does nothing any more.                         *)
LEMMA AstrayKeeps ==
  ASSUME HealthInv, walk' = WalkAt("astray", walk.e),
         walk.step = "answered" => hevents[walk.e].getList = <<>>,
         UNCHANGED <<hevents, known, getMeta, topicRefs, pending, healthCtx, quit, toDead>>
  PROVE  HealthInv'
<1>1. walk'.step = "astray"
  BY DEF WalkAt, Walk
<1>2. WalkInv' /\ ListsInv
  BY <1>1 DEF WalkInv, HealthInv
<1>3. CASE walk.step # "answered"
  <2>1. ListsInv'
    BY <1>2, <1>3, UnchangedLists
  <2> QED BY <1>2, <2>1 DEF HealthInv
<1>4. CASE walk.step = "answered"
  <2>1. PICK d \in HealthCall, e \in Event :
          /\ d = walk.call /\ e = walk.e /\ WaitsOf(d) \subseteq {<<e, 1>>}
          /\ hevents[e].getList = <<>>
    BY <1>4 DEF HealthInv, WalkInv
  <2>2. <<e, 1>> \notin WaitsOf(d)
    BY <2>1 DEF WaitsOf
  <2>3. WaitsOf(d) = {} /\ Cardinality({}) = 0 /\ IsFiniteSet({})
    BY <2>1, <2>2, FS_EmptySet
  <2>4. \A c : WaitsOf(c)' = WaitsOf(c)
    BY WaitsStay
  <2>5. ASSUME NEW c \in HealthCall PROVE WaitsInv(c)'
    <3>1. WaitsInv(c) /\ getMeta[c].num \in Nat
      BY <1>2 DEF ListsInv, HsTypes, HealthMeta
    <3>2. Cardinality(WaitsOf(c)) <= getMeta[c].num
      <4>1. CASE c = d
        <5>1. Cardinality(WaitsOf(d)) = 0
          BY <2>3
        <5> QED BY <3>1, <4>1, <5>1
      <4>2. CASE c # d
        BY <2>1, <3>1, <4>2 DEF WaitsInv, Settled
      <4> QED BY <4>1, <4>2
    <3> QED BY <2>4, <3>1, <3>2 DEF WaitsInv
  <2>6. OpenTopics' = OpenTopics
    BY DEF OpenTopics
  <2>7. TopicsInv' /\ HsTypes' /\ toDead' \subseteq {"own"}
    BY <1>2, <2>6 DEF ListsInv, TopicsInv, HsTypes
  <2>8. \A c \in Event : TopicInv(c)'
    BY <1>2 DEF ListsInv, TopicInv
  <2> QED BY <1>2, <2>5, <2>7, <2>8 DEF ListsInv, HealthInv
<1> QED BY <1>3, <1>4

LEMMA WalkingKeeps ==
  ASSUME HealthInv,
         FunctionReturns \/ NextSample \/ \E e \in Event : HealthTopicCb(e)
  PROVE  HealthInv'
<1>1. CASE \E e \in Event : HealthTopicCb(e)
  <2>1. PICK e \in Event : HealthTopicCb(e)
    BY <1>1
  <2>2. 1 \in Nat \ {0}
    OBVIOUS
  <2> QED BY <2>1, <2>2, WalkToKeeps DEF HealthTopicCb
<1>2. CASE NextSample
  <2>1. walk.step = "called" /\ walk.e \in Event /\ 1 \in Nat \ {0}
    BY <1>2 DEF NextSample, HealthInv, WalkInv
  <2>2. PICK e \in Event : e = walk.e
    BY <2>1
  <2>3. WalkTo(e, 1)
    BY <1>2, <2>2 DEF NextSample
  <2> QED BY <1>2, <2>1, <2>3, WalkToKeeps DEF NextSample
<1>3. CASE FunctionReturns /\ walk.step = "calls"
  <2>1. walk.e = Shared /\ Shared \in Event
    BY <1>3 DEF HealthInv, WalkInv, Event
  <2>2. hevents[Shared].subList \in Seq(HealthPage)
    BY <2>1 DEF HealthInv, ListsInv, HsTypes, HealthTopic
  <2>3. PICK n \in DOMAIN hevents[Shared].subList : WalkTo(Shared, n + 1)
    BY <1>3, <2>1 DEF FunctionReturns
  <2>4. n + 1 \in Nat \ {0}
    <3>1. n \in Nat
      BY <2>2, LenProperties
    <3> QED BY <3>1
  <2>5. PICK m \in Nat \ {0} : m = n + 1
    BY <2>4
  <2>6. WalkTo(Shared, m)
    BY <2>3, <2>5
  <2>7. UNCHANGED <<hevents, known, getMeta, topicRefs, pending, healthCtx, quit>>
    BY <1>3 DEF FunctionReturns
  <2> QED BY <1>3, <2>1, <2>6, <2>7, WalkToKeeps
<1>4. CASE FunctionReturns /\ walk.step = "erased"
  BY <1>4, AstrayKeeps DEF FunctionReturns
<1> QED BY <1>1, <1>2, <1>3, <1>4 DEF FunctionReturns

(* The end of health_topic_cb, with these calls left.                      *)
LEMMA CallbackEndsIs ==
  ASSUME HsTypes, TopicsInv, NEW e \in Event, e = walk.e, TopicInv(e),
         NEW waiting \in Seq(HealthCall),
         waiting # <<>> => hevents[e].getList # <<>>,
         CallbackEnds(waiting)
  PROVE  /\ hevents' \in [Event -> HealthTopic] /\ pending' \in Nat
         /\ \A d \in Event \ {e} : hevents'[d] = hevents[d]
         /\ hevents'[e].getList = waiting
         /\ hevents'[e].subList = hevents[e].subList
         /\ IsActive(hevents'[e]) => hevents'[e].open > 0
         /\ IsFiniteSet(OpenTopics')
         /\ pending' + Cardinality(OpenTopics') = pending + Cardinality(OpenTopics)
         /\ walk'.step = "none"
<1> DEFINE h == hevents[e]
           after == [h EXCEPT !.getList = waiting]
           closes == ~IsActive(after) /\ after.open > 0
           k == IF closes THEN 1 ELSE 0
<1>1. /\ hevents \in [Event -> HealthTopic] /\ h \in HealthTopic
      /\ h.open \in Nat /\ h.subList \in Seq(HealthPage) /\ pending \in Nat
      /\ IsFiniteSet(OpenTopics) /\ Cardinality(OpenTopics) \in Nat
  BY FS_CardinalityType DEF HsTypes, HealthTopic, TopicsInv
<1>3. /\ after \in HealthTopic /\ after.open = h.open /\ after.getList = waiting
      /\ after.subList = h.subList
  BY <1>1 DEF HealthTopic
<1>4. hevents' = [hevents EXCEPT ![e] = [after EXCEPT !.open = @ - k]]
      /\ pending' = pending + k /\ walk' = WalkAt("none", Shared)
  BY DEF CallbackEnds
<1>5. k \in 0..h.open /\ k \in Nat /\ (k # 0 => ~IsActive(after))
  BY <1>1, <1>3
<1> HIDE DEF closes, k, after, h
<1>6. PICK o \in Nat : o = h.open - k
  BY <1>1, <1>5
<1>7. PICK H \in HealthTopic : /\ H = [after EXCEPT !.open = o] /\ H.open = o
                               /\ H.getList = waiting /\ H.subList = h.subList
  <2> DEFINE H == [after EXCEPT !.open = o]
  <2>1. /\ H \in HealthTopic /\ H.open = o /\ H.getList = waiting
        /\ H.subList = h.subList
    BY <1>3 DEF HealthTopic
  <2> HIDE DEF H
  <2> QED BY <2>1 DEF H
<1>8. hevents' = [hevents EXCEPT ![e] = H]
  BY <1>3, <1>4, <1>6, <1>7
<1>9. /\ hevents' \in [Event -> HealthTopic] /\ hevents'[e] = H
      /\ \A d \in Event \ {e} : hevents'[d] = hevents[d]
  BY <1>1, <1>8
<1>10. IsActive(H) => H.open > 0
  <2>1. SUFFICES ASSUME IsActive(H) PROVE o > 0
    BY <1>7
  <2>2. IsActive(after)
    BY <1>3, <1>7, <2>1 DEF IsActive
  <2>3. k = 0
    BY <1>5, <2>2
  <2>4. IsActive(h)
    BY <1>3, <2>2 DEF IsActive, h
  <2>5. h.open > 0
    BY <2>4 DEF TopicInv, h
  <2> QED BY <1>1, <1>6, <2>3, <2>5
<1>11. /\ IsFiniteSet(OpenTopics') /\ Cardinality(OpenTopics') \in Nat
       /\ Cardinality(OpenTopics) = Cardinality(OpenTopics') + k
  <2>1. \A d \in Event : hevents'[d].open =
          IF d = e THEN hevents[e].open - k ELSE hevents[d].open
    BY <1>6, <1>7, <1>9 DEF h
  <2>2. k \in 0..hevents[e].open
    BY <1>5 DEF h
  <2> QED BY <1>1, <2>1, <2>2, TopicsClose
<1>12. pending' \in Nat /\ pending' + Cardinality(OpenTopics') = pending + Cardinality(OpenTopics)
  BY <1>1, <1>4, <1>5, <1>11
<1>13. walk'.step = "none"
  BY <1>4 DEF WalkAt, Walk
<1> QED BY <1>7, <1>9, <1>10, <1>11, <1>12, <1>13 DEF h

(* The first of a list is taken off.                                       *)
LEMMA FrontTaken ==
  ASSUME NEW l \in Seq(HealthCall), l # <<>>
  PROVE  /\ Tail(l) \in Seq(HealthCall) /\ DOMAIN Tail(l) \subseteq Nat \ {0}
         /\ \A n \in DOMAIN Tail(l) : n + 1 \in DOMAIN l /\ Tail(l)[n] = l[n + 1]
         /\ Head(l) \in HealthCall /\ 1 \in DOMAIN l /\ l[1] = Head(l)
<1>1. PICK t \in Seq(HealthCall) : /\ t = Tail(l) /\ Len(t) = Len(l) - 1
                                   /\ \A i \in 1..Len(t) : t[i] = l[i + 1]
  BY HeadTailProperties
<1>2. /\ Len(l) \in Nat /\ DOMAIN l = 1..Len(l) /\ Len(l) # 0
      /\ DOMAIN t = 1..Len(t) /\ Len(t) \in Nat
      /\ Head(l) = l[1] /\ Head(l) \in HealthCall
  BY LenProperties, EmptySeq, HeadTailProperties
<1>3. \A n \in DOMAIN t : n \in Nat \ {0} /\ n + 1 \in DOMAIN l /\ t[n] = l[n + 1]
  BY <1>1, <1>2
<1>4. 1 \in DOMAIN l
  BY <1>2
<1> QED BY <1>1, <1>2, <1>3, <1>4

(* So the others wait as often as before.                                  *)
LEMMA WaitsTaken ==
  ASSUME HsTypes, (hevents \in [Event -> HealthTopic])', NEW e \in Event,
         hevents[e].getList # <<>>, hevents'[e].getList = Tail(hevents[e].getList),
         \A d \in Event \ {e} : hevents'[d] = hevents[d],
         NEW c, IsFiniteSet(WaitsOf(c))
  PROVE  /\ IsFiniteSet(WaitsOf(c)') /\ Cardinality(WaitsOf(c)') \in Nat
         /\ Cardinality(WaitsOf(c)') <= Cardinality(WaitsOf(c) \ {<<e, 1>>})
         /\ Cardinality(WaitsOf(c)') <= Cardinality(WaitsOf(c))
<1> DEFINE l == hevents[e].getList
           f == [n \in Nat |-> n + 1]
           gone == {<<e, 1>>}
<1>1. hevents \in [Event -> HealthTopic] /\ l \in Seq(HealthCall) /\ l # <<>>
  BY DEF HsTypes, HealthTopic
<1>2. /\ DOMAIN hevents'[e].getList \subseteq Nat \ {0}
      /\ \A n \in DOMAIN hevents'[e].getList :
           n + 1 \in DOMAIN l /\ hevents'[e].getList[n] = l[n + 1]
  <2>1. PICK L \in Seq(HealthCall) : L = l /\ L # <<>>
    BY <1>1
  <2> QED BY <2>1, FrontTaken
<1>3. \A n \in DOMAIN hevents'[e].getList :
        f[n] = n + 1 /\ f[n] # 1 /\ n \in Nat
  BY <1>2
<1>4. \A m, n \in DOMAIN hevents'[e].getList : f[m] = f[n] => m = n
  <2> HIDE DEF f, gone, l
  <2> QED BY ONLY <1>3
<1>5. /\ \A n \in DOMAIN hevents'[e].getList :
           /\ f[n] \in DOMAIN hevents[e].getList
           /\ hevents'[e].getList[n] = hevents[e].getList[f[n]]
      /\ \A n \in DOMAIN hevents'[e].getList : <<e, f[n]>> \notin gone
  BY <1>2, <1>3
<1>6. /\ \A w \in gone : w[1] = e
      /\ \A d \in Event \ {e} : hevents'[d].getList = hevents[d].getList
  OBVIOUS
<1> HIDE DEF f, gone, l
<1>7. /\ IsFiniteSet(WaitsOf(c)')
      /\ Cardinality(WaitsOf(c)') <= Cardinality(WaitsOf(c) \ gone)
  BY <1>1, <1>4, <1>5, <1>6, WaitsMoved
<1>8. /\ Cardinality(WaitsOf(c) \ {<<e, 1>>}) <= Cardinality(WaitsOf(c))
      /\ Cardinality(WaitsOf(c) \ {<<e, 1>>}) \in Nat /\ Cardinality(WaitsOf(c)) \in Nat
      /\ Cardinality(WaitsOf(c)') \in Nat
  BY <1>7, OneLess, FS_CardinalityType
<1>9. Cardinality(WaitsOf(c)') <= Cardinality(WaitsOf(c) \ {<<e, 1>>})
  BY <1>7 DEF gone
<1>10. PICK x \in Nat, y \in Nat, z \in Nat :
         /\ x = Cardinality(WaitsOf(c)') /\ y = Cardinality(WaitsOf(c) \ {<<e, 1>>})
         /\ z = Cardinality(WaitsOf(c))
  BY <1>8
<1>11. x <= z
  BY <1>8, <1>9, <1>10
<1> QED BY <1>7, <1>8, <1>9, <1>10, <1>11

(* What ends the callback keeps, but for the counts of the calls.          *)
LEMMA EndedTopics ==
  ASSUME ListsInv, NEW e \in Event, e = walk.e,
         NEW waiting \in Seq(HealthCall),
         ToSet(waiting) \subseteq ToSet(hevents[e].getList),
         waiting # <<>> => hevents[e].getList # <<>>,
         CallbackEnds(waiting),
         getMeta' \in [HealthCall -> HealthMeta],
         \A c \in HealthCall : getMeta'[c].page = getMeta[c].page,
         UNCHANGED <<known, topicRefs, healthCtx, quit, toDead>>
  PROVE  /\ HsTypes' /\ TopicsInv' /\ toDead' \subseteq {"own"} /\ WalkInv'
         /\ \A d \in Event : TopicInv(d)'
         /\ (hevents \in [Event -> HealthTopic])'
         /\ hevents'[e].getList = waiting
         /\ \A d \in Event \ {e} : hevents'[d] = hevents[d]
         /\ \A c : ~Settled(c)'
<1>1. /\ HsTypes /\ TopicsInv /\ toDead \subseteq {"own"}
      /\ \A d \in Event : TopicInv(d)
  BY DEF ListsInv
<1>2. /\ hevents' \in [Event -> HealthTopic] /\ pending' \in Nat
      /\ \A d \in Event \ {e} : hevents'[d] = hevents[d]
      /\ hevents'[e].getList = waiting
      /\ hevents'[e].subList = hevents[e].subList
      /\ IsActive(hevents'[e]) => hevents'[e].open > 0
      /\ IsFiniteSet(OpenTopics')
      /\ pending' + Cardinality(OpenTopics') = pending + Cardinality(OpenTopics)
      /\ walk'.step = "none"
  BY <1>1, CallbackEndsIs
<1>3. HsTypes' /\ TopicsInv'
  BY <1>1, <1>2 DEF HsTypes, TopicsInv
<1>4. WalkInv' /\ \A c : ~Settled(c)'
  BY <1>2 DEF WalkInv, Settled
<1>5. ASSUME NEW d \in Event PROVE TopicInv(d)'
  <2>1. TopicInv(d)
    BY <1>1
  <2>2. ToSet(hevents[d].getList) \subseteq HealthCall
    <3>1. hevents[d].getList \in Seq(HealthCall)
      BY <1>1 DEF HsTypes, HealthTopic
    <3> QED BY <3>1, ElementOfSeq, LenProperties DEF ToSet
  <2>3. CASE d # e
    BY <1>2, <2>1, <2>2, <2>3 DEF TopicInv
  <2>4. CASE d = e
    <3>1. e = Shared => \A c \in ToSet(waiting) : getMeta'[c].page \notin quit
      BY <2>1, <2>2, <2>4 DEF TopicInv
    <3>2. e = Shared /\ ~known => waiting = <<>>
      <4>1. e = Shared /\ ~known => hevents[e].getList = <<>>
        BY <2>1, <2>4 DEF TopicInv
      <4> QED BY <4>1
    <3>3. /\ ToSet(hevents[e].subList) \cap quit = {} /\ IsInjective(hevents[e].subList)
          /\ e # Shared => hevents[e].subList = <<>>
          /\ e = Shared /\ ~known => hevents[e].subList = <<>>
      BY <2>1, <2>4 DEF TopicInv
    <3> QED BY <1>2, <2>4, <3>1, <3>2, <3>3 DEF TopicInv
  <2> QED BY <2>3, <2>4
<1> QED BY <1>1, <1>2, <1>3, <1>4, <1>5

(* What is first of a list is in it, and what is left is of it.            *)
LEMMA TailWithin ==
  ASSUME NEW l \in Seq(HealthCall), l # <<>>
  PROVE  ToSet(Tail(l)) \subseteq ToSet(l) /\ Head(l) \in ToSet(l)
<1>1. /\ \A n \in DOMAIN Tail(l) : n + 1 \in DOMAIN l /\ Tail(l)[n] = l[n + 1]
      /\ 1 \in DOMAIN l /\ l[1] = Head(l)
  BY FrontTaken
<1> QED BY <1>1 DEF ToSet

(* The last sample of the data is taken.                                   *)
LEMMA SampleTakenIs ==
  ASSUME SampleTaken, NEW l, l = hevents[walk.e].getList, l # <<>>,
         NEW v, v = Sampled(getMeta[Head(l)]), ~(v.num > 0)
  PROVE  /\ walk' = Walk("answered", walk.e, SomePage, Head(l))
         /\ UNCHANGED <<hevents, pending>>
         /\ toDead' = IF v.page \notin quit THEN toDead
                      ELSE toDead \cup {IF walk.e = Shared THEN "known" ELSE "own"}
BY DEF SampleTaken

LEMMA SampleTakenKeeps ==
  ASSUME HealthInv, SampleTaken
  PROVE  HealthInv'
<1>1. /\ HsTypes /\ TopicsInv /\ toDead \subseteq {"own"} /\ ListsInv
      /\ \A d \in Event : TopicInv(d)
      /\ \A d \in HealthCall : WaitsInv(d)
      /\ walk.step = "called" /\ walk.e \in Event /\ \A d : ~Settled(d)
      /\ UNCHANGED <<known, topicRefs, healthCtx, quit>>
      /\ getMeta \in [HealthCall -> HealthMeta] /\ hevents \in [Event -> HealthTopic]
  BY DEF HealthInv, ListsInv, WalkInv, SampleTaken, Settled, HsTypes
<1>2. PICK e \in Event : e = walk.e
  BY <1>1
<1>3. PICK l \in Seq(HealthCall) : l = hevents[e].getList
  BY <1>1 DEF HealthTopic
<1>4. CASE l = <<>>
  <2>1. CallbackEnds(<<>>) /\ UNCHANGED <<getMeta, toDead>>
    BY <1>2, <1>3, <1>4 DEF SampleTaken
  <2>2. CallbackEnds(l) /\ ToSet(l) \subseteq ToSet(hevents[e].getList)
        /\ (l # <<>> => hevents[e].getList # <<>>)
    BY <1>3, <1>4, <2>1
  <2>3. getMeta' \in [HealthCall -> HealthMeta]
        /\ \A c \in HealthCall : getMeta'[c].page = getMeta[c].page
    BY <1>1, <2>1
  <2>4. /\ HsTypes' /\ TopicsInv' /\ toDead' \subseteq {"own"} /\ WalkInv'
        /\ \A d \in Event : TopicInv(d)'
        /\ hevents'[e].getList = l
        /\ \A d \in Event \ {e} : hevents'[d] = hevents[d]
    BY <1>1, <1>2, <2>1, <2>2, <2>3, EndedTopics
  <2>5. \A d \in HealthCall : WaitsInv(d)'
    <3>1. \A d \in Event : hevents'[d].getList = hevents[d].getList
      BY <1>3, <2>4
    <3> QED BY <1>1, <2>1, <3>1, CallsStay
  <2> QED BY <2>4, <2>5 DEF HealthInv, ListsInv
<1>5. CASE l # <<>>
  <2>1. PICK b \in HealthCall : /\ b = Head(l) /\ 1 \in DOMAIN l /\ l[1] = b
                                /\ b \in ToSet(l)
    BY <1>5, FrontTaken, TailWithin
  <2>2. <<e, 1>> \in WaitsOf(b) /\ WaitsInv(b) /\ ~Settled(b)
    BY <1>1, <1>3, <2>1, WaitsAre
  <2>3. PICK g \in HealthMeta : g = getMeta[b]
    BY <1>1
  <2>4. PICK n \in Nat : /\ n + 1 = g.num /\ g.answer = <<>>
                         /\ Cardinality(WaitsOf(b) \ {<<e, 1>>}) \in Nat
                         /\ Cardinality(WaitsOf(b) \ {<<e, 1>>}) <= n
    BY <1>1, <2>2, <2>3, StillToCome
  <2>5. /\ g.num - 1 = n /\ g.array \in Nat /\ g.array + g.num = g.size
    BY <2>2, <2>3, <2>4 DEF HealthMeta, WaitsInv
  <2>6. PICK a \in Nat : g.array + 1 = a /\ a + n = g.size
    <3>1. PICK k \in Nat, m \in Nat : k = g.array /\ m = g.num
      BY <2>3, <2>5 DEF HealthMeta
    <3>2. n + 1 = m /\ k + m = g.size
      BY <2>4, <2>5, <3>1
    <3>3. n \in Nat /\ k \in Nat /\ k + 1 \in Nat /\ (k + 1) + n = g.size
      BY ONLY <3>2, n \in Nat, k \in Nat
    <3> QED BY <3>1, <3>3
  <2>7. PICK v \in HealthMeta :
          /\ v = Sampled(g) /\ v.page = g.page
          /\ v.num = n /\ v.array = a /\ v.size = g.size
          /\ v.answer = IF n = 0 THEN <<"resolve">> ELSE <<>>
    BY <2>4, <2>5, <2>6, SampleIs
  <2>8. getMeta' = [getMeta EXCEPT ![b] = v]
    BY <1>2, <1>3, <1>5, <2>1, <2>3, <2>7 DEF SampleTaken
  <2>9. /\ getMeta'[b] = v /\ \A d \in HealthCall \ {b} : getMeta'[d] = getMeta[d]
        /\ getMeta' \in [HealthCall -> HealthMeta]
        /\ \A d \in HealthCall : getMeta'[d].page = getMeta[d].page
    <3>1. getMeta'[b] = v /\ \A d \in HealthCall \ {b} : getMeta'[d] = getMeta[d]
      BY <1>1, <2>8
    <3>2. getMeta' \in [HealthCall -> HealthMeta]
      BY <1>1, <2>8
    <3> QED BY <2>3, <2>7, <3>1, <3>2
  <2>10. CASE v.num > 0
    <3>1. CallbackEnds(Tail(l)) /\ UNCHANGED toDead
      <4>1. hevents[walk.e].getList = l /\ Sampled(getMeta[Head(l)]) = v
        BY <1>2, <1>3, <2>1, <2>3, <2>7
      <4>2. v.num > 0 /\ v.num # 0
        BY <2>7, <2>10
      <4>3. \/ l = <<>>
            \/ v.num > 0 /\ CallbackEnds(Tail(l)) /\ UNCHANGED toDead
            \/ v.num = 0
        BY ONLY SampleTaken, <4>1 DEF SampleTaken
      <4> QED BY ONLY <1>5, <4>2, <4>3
    <3>2. PICK t \in Seq(HealthCall) :
            /\ t = Tail(l) /\ ToSet(t) \subseteq ToSet(hevents[e].getList)
            /\ hevents[e].getList # <<>>
      BY <1>3, <1>5, FrontTaken, TailWithin
    <3>3. /\ HsTypes' /\ TopicsInv' /\ toDead' \subseteq {"own"} /\ WalkInv'
          /\ \A d \in Event : TopicInv(d)'
          /\ (hevents \in [Event -> HealthTopic])'
          /\ hevents'[e].getList = t
          /\ \A d \in Event \ {e} : hevents'[d] = hevents[d]
          /\ \A c : ~Settled(c)'
      BY <1>1, <1>2, <2>9, <3>1, <3>2, EndedTopics
    <3>4. ASSUME NEW d \in HealthCall PROVE WaitsInv(d)'
      <4>1. WaitsInv(d) /\ IsFiniteSet(WaitsOf(d)) /\ ~Settled(d)
        BY <1>1 DEF WaitsInv
      <4>2. /\ IsFiniteSet(WaitsOf(d)') /\ Cardinality(WaitsOf(d)') \in Nat
            /\ Cardinality(WaitsOf(d)') <= Cardinality(WaitsOf(d) \ {<<e, 1>>})
            /\ Cardinality(WaitsOf(d)') <= Cardinality(WaitsOf(d))
        BY <1>1, <1>3, <3>2, <3>3, <4>1, WaitsTaken
      <4>3. CASE d = b
        <5>1. Cardinality(WaitsOf(b)') <= n
          <6>1. PICK x \in Nat, y \in Nat : x = Cardinality(WaitsOf(b)')
                                            /\ y = Cardinality(WaitsOf(b) \ {<<e, 1>>})
            BY <2>4, <4>2, <4>3
          <6>2. x <= y /\ y <= n
            BY <2>4, <4>2, <4>3, <6>1
          <6> QED BY <6>1, <6>2
        <5>2. v.answer = <<>>
          BY <2>7, <2>10
        <5> QED BY <2>6, <2>7, <2>9, <4>2, <4>3, <5>1, <5>2 DEF WaitsInv
      <4>4. CASE d # b
        <5>1. PICK x \in Nat, y \in Nat, z \in Nat :
                /\ x = Cardinality(WaitsOf(d)') /\ y = Cardinality(WaitsOf(d))
                /\ z = getMeta[d].num
          <6>1. getMeta[d].num \in Nat
            BY <1>1 DEF HealthMeta
          <6> QED BY <4>1, <4>2, <6>1, FS_CardinalityType
        <5>2. x <= y /\ y <= z
          BY <4>1, <4>2, <5>1 DEF WaitsInv
        <5>3. Cardinality(WaitsOf(d)') <= getMeta[d].num
          BY <5>1, <5>2
        <5> QED BY <2>9, <4>1, <4>2, <4>4, <5>3 DEF WaitsInv
      <4> QED BY <4>3, <4>4
    <3> QED BY <3>3, <3>4 DEF HealthInv, ListsInv
  <2>11. CASE ~(v.num > 0)
    <3>0. v.num = 0 /\ n = 0 /\ v.answer = <<"resolve">>
      BY <2>7, <2>11
    <3>1. /\ walk' = Walk("answered", e, SomePage, b) /\ UNCHANGED <<hevents, pending>>
          /\ toDead' = IF v.page \notin quit THEN toDead
                       ELSE toDead \cup {IF e = Shared THEN "known" ELSE "own"}
      BY <1>2, <1>3, <1>5, <2>1, <2>3, <2>7, <2>11, SampleTakenIs
    <3>2. walk'.step = "answered" /\ walk'.e = e /\ walk'.call = b
      BY <3>1 DEF Walk
    <3>3. e = Shared => v.page \notin quit
      BY <1>1, <1>3, <2>1, <2>3, <2>7 DEF TopicInv
    <3>4. toDead' \subseteq {"own"}
      BY <1>1, <3>1, <3>3
    <3>5. /\ \A c : WaitsOf(c)' = WaitsOf(c)
          /\ OpenTopics' = OpenTopics
      BY <3>1, WaitsStay DEF OpenTopics
    <3>6. HsTypes' /\ TopicsInv'
      BY <1>1, <2>9, <3>1, <3>4, <3>5 DEF HsTypes, TopicsInv
    <3>7. ASSUME NEW d \in Event PROVE TopicInv(d)'
      <4>1. ToSet(hevents[d].getList) \subseteq HealthCall
        <5>1. hevents[d].getList \in Seq(HealthCall)
          BY <1>1 DEF HealthTopic
        <5> QED BY <5>1, ElementOfSeq, LenProperties DEF ToSet
      <4>2. TopicInv(d)
        BY <1>1
      <4> QED BY <1>1, <2>9, <3>1, <4>1, <4>2 DEF TopicInv
    <3>8. WaitsOf(b) \subseteq {<<e, 1>>}
      <4>1. IsFiniteSet(WaitsOf(b) \ {<<e, 1>>})
        BY <2>2, OneLess DEF WaitsInv
      <4>2. PICK y \in Nat : y = Cardinality(WaitsOf(b) \ {<<e, 1>>}) /\ y <= n
        BY <2>4
      <4>3. y = 0
        BY <3>0, <4>2
      <4>4. WaitsOf(b) \ {<<e, 1>>} = {}
        BY <4>1, <4>2, <4>3, FS_EmptySet
      <4> QED BY <4>4
    <3>9. WalkInv'
      BY <1>3, <1>5, <2>1, <2>9, <3>0, <3>1, <3>2, <3>5, <3>8 DEF WalkInv
    <3>10. ASSUME NEW d \in HealthCall PROVE WaitsInv(d)'
      <4>1. WaitsInv(d)
        BY <1>1
      <4>2. CASE d = b
        BY <2>2, <2>6, <2>7, <2>9, <3>0, <3>2, <3>5, <4>2 DEF WaitsInv, Settled
      <4>3. CASE d # b
        BY <1>1, <2>9, <3>5, <4>1, <4>3 DEF WaitsInv
      <4> QED BY <4>2, <4>3
    <3> QED BY <3>4, <3>6, <3>7, <3>9, <3>10 DEF HealthInv, ListsInv
  <2> QED BY <2>10, <2>11
<1> QED BY <1>4, <1>5

(* The functions of a call return.                                         *)
LEMMA FrontPoppedKeeps ==
  ASSUME HealthInv, FrontPopped
  PROVE  HealthInv'
<1>1. /\ HsTypes /\ ListsInv /\ \A d \in HealthCall : WaitsInv(d)
      /\ walk.step = "answered" /\ walk.e \in Event /\ walk.call \in HealthCall
      /\ getMeta[walk.call].answer = <<"resolve">>
      /\ WaitsOf(walk.call) \subseteq {<<walk.e, 1>>}
      /\ UNCHANGED <<known, getMeta, topicRefs, healthCtx, quit, toDead>>
      /\ getMeta \in [HealthCall -> HealthMeta] /\ hevents \in [Event -> HealthTopic]
  BY DEF HealthInv, ListsInv, WalkInv, FrontPopped, HsTypes
<1>2. PICK e \in Event, b \in HealthCall :
        e = walk.e /\ b = walk.call /\ WaitsOf(b) \subseteq {<<e, 1>>}
  BY <1>1
<1>3. PICK l \in Seq(HealthCall) : l = hevents[e].getList
  BY <1>1 DEF HealthTopic
<1>4. CASE l = <<>>
  <2>1. walk' = WalkAt("astray", walk.e) /\ UNCHANGED <<hevents, pending>>
    BY <1>2, <1>3, <1>4 DEF FrontPopped
  <2> QED BY <1>1, <1>2, <1>3, <1>4, <2>1, AstrayKeeps
<1>5. CASE l # <<>>
  <2>1. CallbackEnds(Tail(l))
    BY <1>2, <1>3, <1>5 DEF FrontPopped
  <2>2. PICK t \in Seq(HealthCall) :
          /\ t = Tail(l) /\ ToSet(t) \subseteq ToSet(hevents[e].getList)
          /\ hevents[e].getList # <<>>
    BY <1>3, <1>5, FrontTaken, TailWithin
  <2>3. /\ HsTypes' /\ TopicsInv' /\ toDead' \subseteq {"own"} /\ WalkInv'
        /\ \A d \in Event : TopicInv(d)'
        /\ (hevents \in [Event -> HealthTopic])'
        /\ hevents'[e].getList = t
        /\ \A d \in Event \ {e} : hevents'[d] = hevents[d]
        /\ \A c : ~Settled(c)'
    BY <1>1, <1>2, <2>1, <2>2, EndedTopics
  <2>4. ASSUME NEW d \in HealthCall PROVE WaitsInv(d)'
    <3>1. WaitsInv(d) /\ IsFiniteSet(WaitsOf(d)) /\ getMeta[d].num \in Nat
      BY <1>1 DEF WaitsInv, HealthMeta
    <3>2. /\ IsFiniteSet(WaitsOf(d)') /\ Cardinality(WaitsOf(d)') \in Nat
          /\ Cardinality(WaitsOf(d)') <= Cardinality(WaitsOf(d) \ {<<e, 1>>})
          /\ Cardinality(WaitsOf(d)') <= Cardinality(WaitsOf(d))
      BY <1>1, <1>3, <2>2, <2>3, <3>1, WaitsTaken
    <3>3. Cardinality(WaitsOf(d)') <= getMeta[d].num
      <4>1. CASE d = b
        <5>1. WaitsOf(d) \ {<<e, 1>>} = {} /\ Cardinality({}) = 0
          BY <1>2, <4>1, FS_EmptySet
        <5>2. Cardinality(WaitsOf(d)') <= 0
          BY <3>2, <5>1
        <5>3. PICK x \in Nat, z \in Nat : x = Cardinality(WaitsOf(d)') /\ z = getMeta[d].num
          BY <3>1, <3>2
        <5>4. x <= 0
          BY <5>2, <5>3
        <5>5. x <= z
          BY <5>4
        <5> QED BY <5>3, <5>5
      <4>2. CASE d # b
        <5>1. PICK x \in Nat, y \in Nat, z \in Nat :
                /\ x = Cardinality(WaitsOf(d)') /\ y = Cardinality(WaitsOf(d))
                /\ z = getMeta[d].num
          BY <3>1, <3>2, FS_CardinalityType
        <5>2. ~Settled(d)
          BY <1>2, <4>2 DEF Settled
        <5>3. x <= y /\ y <= z
          BY <3>1, <3>2, <5>1, <5>2 DEF WaitsInv
        <5> QED BY <5>1, <5>3
      <4> QED BY <4>1, <4>2
    <3> QED BY <1>1, <3>1, <3>2, <3>3 DEF WaitsInv
  <2> QED BY <2>3, <2>4 DEF HealthInv, ListsInv
<1> QED BY <1>4, <1>5

(* A topic is closed.                                                      *)
LEMMA HealthTopicCloseCbKeeps ==
  ASSUME HealthInv, HealthTopicCloseCb
  PROVE  HealthInv'
<1>1. /\ HsTypes /\ TopicsInv /\ toDead \subseteq {"own"}
      /\ \A e \in Event : TopicInv(e)
      /\ \A c \in HealthCall : WaitsInv(c)
      /\ pending > 0 /\ pending' = pending - 1 /\ topicRefs' = topicRefs - 1
      /\ toDead' = IF healthCtx = "deleted" THEN toDead \cup {"context"} ELSE toDead
      /\ walk.step = "none" /\ walk' = walk
      /\ healthCtx' = IF topicRefs' = 0 /\ healthCtx = "isdestory" THEN "deleted"
                      ELSE healthCtx
      /\ UNCHANGED <<hevents, known, getMeta, quit>>
  BY DEF HealthInv, ListsInv, HealthTopicCloseCb
<1>2. OpenTopics' = OpenTopics /\ IsFiniteSet(OpenTopics) /\ Cardinality(OpenTopics) \in Nat
  BY <1>1, FS_CardinalityType DEF OpenTopics, TopicsInv
<1>3. /\ topicRefs > 0 /\ topicRefs' \in Nat /\ pending' \in Nat
      /\ topicRefs' = pending' + Cardinality(OpenTopics)
      /\ healthCtx # "deleted"
  <2>1. PICK n \in Nat : n = Cardinality(OpenTopics)
    BY <1>2
  <2>2. topicRefs = pending + n /\ pending \in Nat /\ topicRefs \in Nat
        /\ (healthCtx = "deleted" => topicRefs = 0)
    BY <1>1, <2>1 DEF TopicsInv, HsTypes
  <2> QED BY <1>1, <2>1, <2>2
<1>4. TopicsInv'
  BY <1>1, <1>2, <1>3 DEF TopicsInv
<1>5. HsTypes'
  BY <1>1, <1>3 DEF HsTypes
<1>6. \A e \in Event : TopicInv(e)'
  BY <1>1 DEF TopicInv
<1>7. \A c \in HealthCall : WaitsInv(c)'
  BY <1>1, CallsStay
<1>8. WalkInv'
  BY <1>1 DEF WalkInv
<1> QED BY <1>1, <1>3, <1>4, <1>5, <1>6, <1>7, <1>8 DEF HealthInv, ListsInv

(* The prototype goes: all that it knows of closes.                        *)
LEMMA HealthDestroyedKeeps ==
  ASSUME HealthInv, HealthDestroyed
  PROVE  HealthInv'
<1> DEFINE h == hevents[Shared]
<1>1. /\ HsTypes /\ TopicsInv /\ toDead \subseteq {"own"}
      /\ \A e \in Event : TopicInv(e)
      /\ \A c \in HealthCall : WaitsInv(c)
      /\ quit = HealthPage /\ healthCtx = "live" /\ healthCtx' = "isdestory"
      /\ hevents' = [hevents EXCEPT ![Shared].open = 0, ![Shared].getList = <<>>]
      /\ pending' = pending + hevents[Shared].open
      /\ UNCHANGED <<known, getMeta, topicRefs, quit, walk, toDead>>
      /\ walk.step = "none"
  BY DEF HealthInv, ListsInv, HealthDestroyed
<1>2. /\ Shared \in Event /\ hevents \in [Event -> HealthTopic] /\ h \in HealthTopic
      /\ h.open \in Nat /\ h.subList \in Seq(HealthPage) /\ pending \in Nat
      /\ IsFiniteSet(OpenTopics) /\ Cardinality(OpenTopics) \in Nat
      /\ TopicInv(Shared) /\ <<>> \in Seq(HealthCall)
  BY <1>1, FS_CardinalityType DEF Event, HsTypes, HealthTopic, TopicsInv
<1>3. h.subList = <<>>
  <2>1. PICK s \in Seq(HealthPage) : s = h.subList
    BY <1>2
  <2>2. ToSet(s) \cap HealthPage = {}
    BY <1>1, <1>2, <2>1 DEF TopicInv
  <2>3. ASSUME s # <<>> PROVE FALSE
    <3>1. 1 \in DOMAIN s /\ s[1] \in HealthPage
      <4>1. Len(s) \in Nat /\ DOMAIN s = 1..Len(s) /\ Len(s) # 0
        BY <2>3, LenProperties, EmptySeq
      <4>2. 1 \in 1..Len(s)
        BY <4>1
      <4> QED BY <4>1, <4>2, ElementOfSeq
    <3> QED BY <2>2, <3>1 DEF ToSet
  <2> QED BY <2>1, <2>3
<1>4. hevents' = [hevents EXCEPT ![Shared] = [h EXCEPT !.open = 0, !.getList = <<>>]]
  BY <1>1
<1> HIDE DEF h
<1>5. PICK H \in HealthTopic : /\ H = [h EXCEPT !.open = 0, !.getList = <<>>]
                               /\ H.open = 0 /\ H.getList = <<>> /\ H.subList = <<>>
  <2> DEFINE H == [h EXCEPT !.open = 0, !.getList = <<>>]
  <2>1. H \in HealthTopic /\ H.open = 0 /\ H.getList = <<>> /\ H.subList = <<>>
    BY <1>2, <1>3 DEF HealthTopic
  <2> HIDE DEF H
  <2> QED BY <2>1 DEF H
<1>6. /\ hevents' \in [Event -> HealthTopic] /\ hevents'[Shared] = H
      /\ \A e \in Event \ {Shared} : hevents'[e] = hevents[e]
  BY <1>2, <1>4, <1>5
<1>7. /\ IsFiniteSet(OpenTopics') /\ Cardinality(OpenTopics') \in Nat
      /\ Cardinality(OpenTopics) = Cardinality(OpenTopics') + h.open
  <2>1. h.open \in 0..hevents[Shared].open /\ hevents[Shared].open - h.open = 0
    BY <1>2 DEF h
  <2>2. \A d \in Event : hevents'[d].open =
          IF d = Shared THEN hevents[Shared].open - h.open ELSE hevents[d].open
    BY <1>5, <1>6, <2>1
  <2> QED BY <1>2, <2>1, <2>2, TopicsClose
<1>8. pending' \in Nat /\ pending' + Cardinality(OpenTopics') = pending + Cardinality(OpenTopics)
  <2>1. pending' = pending + h.open
    BY <1>1 DEF h
  <2> QED BY <1>2, <1>7, <2>1
<1>9. TopicsInv'
  BY <1>1, <1>7, <1>8 DEF TopicsInv
<1>10. HsTypes'
  BY <1>1, <1>6, <1>8 DEF HsTypes
<1>11. ASSUME NEW e \in Event PROVE TopicInv(e)'
  <2>1. TopicInv(e)
    BY <1>1
  <2>2. CASE e # Shared
    BY <1>1, <1>6, <2>1, <2>2 DEF TopicInv
  <2>3. CASE e = Shared
    <3>1. ToSet(<<>>) = {} /\ IsInjective(<<>>)
      BY DEF ToSet, IsInjective
    <3>2. ~IsActive(H)
      BY <1>5 DEF IsActive
    <3> QED BY <1>5, <1>6, <2>3, <3>1, <3>2 DEF TopicInv
  <2> QED BY <2>2, <2>3
<1>12. \A c \in HealthCall : WaitsInv(c)'
  <2>1. /\ DOMAIN hevents'[Shared].getList = {}
        /\ \A d \in Event \ {Shared} : hevents'[d].getList = hevents[d].getList
    BY <1>5, <1>6
  <2>2. PICK f : f = [n \in {} |-> n]
    OBVIOUS
  <2>3. /\ \A n \in DOMAIN hevents'[Shared].getList :
                  /\ f[n] \in DOMAIN hevents[Shared].getList
                  /\ hevents'[Shared].getList[n] = hevents[Shared].getList[f[n]]
        /\ \A m, n \in DOMAIN hevents'[Shared].getList : f[m] = f[n] => m = n
    BY <2>1
  <2>4. UNCHANGED getMeta
    BY <1>1
  <2> QED BY <1>1, <1>2, <1>6, <2>1, <2>3, <2>4, CallsLeave
<1>13. WalkInv'
  BY <1>1 DEF WalkInv
<1> QED BY <1>1, <1>9, <1>10, <1>11, <1>12, <1>13 DEF HealthInv, ListsInv

-----------------------------------------------------------------------------
LEMMA HealthStarts ==
  HealthInit => HealthInv
<1> SUFFICES ASSUME HealthInit PROVE HealthInv
  OBVIOUS
<1>1. /\ hevents = [e \in Event |-> [open |-> 0, getList |-> <<>>, subList |-> <<>>]]
      /\ known = FALSE /\ getMeta = [c \in HealthCall |-> NoMeta]
      /\ topicRefs = 0 /\ pending = 0 /\ healthCtx = "live" /\ quit = {} /\ toDead = {}
      /\ walk = WalkAt("none", Shared)
  BY DEF HealthInit
<1>2. NoMeta \in HealthMeta /\ NoMeta.num = 0 /\ NoMeta.array = 0 /\ NoMeta.size = 0
      /\ NoMeta.answer = <<>>
  <2>1. /\ NoMeta.num = 0 /\ NoMeta.array = 0 /\ NoMeta.size = 0 /\ NoMeta.answer = <<>>
        /\ NoMeta = [page |-> NoMeta.page, num |-> 0, array |-> 0, size |-> 0,
                     answer |-> <<>>]
    BY DEF NoMeta, Asked
  <2>2. NoMeta.page \in AnyPage /\ <<>> \in HealthAnswers
    BY DEF AnyPage, HealthAnswers
  <2> QED BY <2>1, <2>2 DEF HealthMeta
<1>3. \A e \in Event : /\ hevents[e].open = 0 /\ hevents[e].getList = <<>>
                       /\ hevents[e].subList = <<>>
  BY <1>1
<1>4. HsTypes
  <2>1. [open |-> 0, getList |-> <<>>, subList |-> <<>>] \in HealthTopic
    BY DEF HealthTopic
  <2>2. hevents \in [Event -> HealthTopic] /\ getMeta \in [HealthCall -> HealthMeta]
    BY <1>1, <1>2, <2>1
  <2> QED BY <1>1, <2>2 DEF HsTypes
<1>5. OpenTopics = {}
  <2>1. 1..0 = {}
    OBVIOUS
  <2> QED BY <1>3, <2>1 DEF OpenTopics
<1>6. TopicsInv
  <2>1. IsFiniteSet(OpenTopics) /\ Cardinality(OpenTopics) = 0
    BY <1>5, FS_EmptySet
  <2> QED BY <1>1, <2>1 DEF TopicsInv
<1>7. ASSUME NEW e \in Event PROVE TopicInv(e)
  <2>1. ToSet(<<>>) = {} /\ IsInjective(<<>>)
    BY DEF ToSet, IsInjective
  <2> QED BY <1>3, <2>1 DEF TopicInv, IsActive
<1>8. ASSUME NEW c \in HealthCall PROVE WaitsInv(c)
  <2>1. WaitsOf(c) = {}
    BY <1>3 DEF WaitsOf
  <2>2. IsFiniteSet(WaitsOf(c)) /\ Cardinality(WaitsOf(c)) = 0
    BY <2>1, FS_EmptySet
  <2> QED BY <1>1, <1>2, <2>2 DEF WaitsInv
<1>9. WalkInv
  <2>1. walk.step = "none"
    BY <1>1 DEF WalkAt, Walk
  <2> QED BY <2>1 DEF WalkInv
<1> QED BY <1>1, <1>4, <1>6, <1>7, <1>8, <1>9 DEF HealthInv, ListsInv

(* Nothing of it changes.                                                  *)
LEMMA HealthSame ==
  ASSUME HealthInv, UNCHANGED hsVars
  PROVE  HealthInv'
<1>1. UNCHANGED <<hevents, known, getMeta, topicRefs, pending, healthCtx, quit, walk, toDead>>
  BY DEF hsVars
<1>2. ListsInv'
  BY <1>1, UnchangedLists DEF HealthInv
<1>3. WalkInv'
  <2>1. \A c : WaitsOf(c)' = WaitsOf(c)
    BY <1>1, WaitsStay
  <2> QED BY <1>1, <2>1 DEF HealthInv, WalkInv
<1> QED BY <1>2, <1>3 DEF HealthInv

LEMMA HealthKept ==
  ASSUME HealthInv, [HealthNext]_hsVars
  PROVE  HealthInv'
<1>1. CASE UNCHANGED hsVars
  BY <1>1, HealthSame
<1>2. ASSUME NEW p \in HealthPage,
             \/ \E c \in HealthCall : GetRecentSamples(c, p)
             \/ SubscribeSample(p) \/ UnsubscribeSample(p) \/ HealthDetached(p)
      PROVE  HealthInv'
  <2>1. ListsInv'
    BY <1>2, GetRecentSamplesKeeps, SubscribeSampleKeeps, UnsubscribeSampleKeeps,
       HealthDetachedKeeps
  <2>2. WalkInv'
    BY <1>2, GetRecentSamplesWalks, SubscribeSampleWalks, UnsubscribeSampleWalks,
       HealthDetachedWalks
  <2> QED BY <2>1, <2>2 DEF HealthInv
<1>3. CASE FunctionReturns \/ NextSample \/ \E e \in Event : HealthTopicCb(e)
  BY <1>3, WalkingKeeps
<1>4. CASE SampleTaken \/ FrontPopped \/ HealthTopicCloseCb \/ HealthDestroyed
  BY <1>4, SampleTakenKeeps, FrontPoppedKeeps, HealthTopicCloseCbKeeps,
     HealthDestroyedKeeps
<1> QED BY <1>1, <1>2, <1>3, <1>4 DEF HealthNext

LEMMA HealthShows ==
  HealthInv => HealthInStep
<1> SUFFICES ASSUME HealthInv PROVE HealthInStep
  OBVIOUS
<1>1. ASSUME NEW c \in HealthCall
      PROVE  /\ Len(getMeta[c].answer) <= 1
             /\ getMeta[c].answer = <<"resolve">> => getMeta[c].array = getMeta[c].size
             /\ getMeta[c].array + getMeta[c].num = getMeta[c].size
  <2>1. PICK m \in HealthMeta : m = getMeta[c]
    BY DEF HealthInv, ListsInv, HsTypes
  <2>2. m.answer \in HealthAnswers /\ m.num \in Nat /\ m.array \in Nat
        /\ m.array + m.num = m.size /\ (m.answer # <<>> => m.num = 0)
    <3>1. WaitsInv(c)
      BY DEF HealthInv, ListsInv
    <3>2. m.answer \in HealthAnswers /\ m.num \in Nat /\ m.array \in Nat
      BY DEF HealthMeta
    <3> QED BY <2>1, <3>1, <3>2 DEF WaitsInv
  <2>3. Len(m.answer) <= 1
    <3>1. Len(<<>>) = 0 /\ Len(<<"reject">>) = 1 /\ Len(<<"resolve">>) = 1
      OBVIOUS
    <3>2. PICK a : a = m.answer /\ (a = <<>> \/ a = <<"reject">> \/ a = <<"resolve">>)
      BY <2>2 DEF HealthAnswers
    <3>3. Len(a) = 0 \/ Len(a) = 1
      BY <3>1, <3>2, Zenon
    <3>4. \A x : x = 0 \/ x = 1 => x <= 1
      OBVIOUS
    <3> QED BY <3>2, <3>3, <3>4, Zenon
  <2>4. m.answer = <<"resolve">> => m.array = m.size
    BY <2>2
  <2> QED BY <2>1, <2>2, <2>3, <2>4
<1>2. ASSUME NEW e \in Event
      PROVE  /\ IsActive(hevents[e]) => hevents[e].open > 0
             /\ ToSet(hevents[e].subList) \cap quit = {}
             /\ IsInjective(hevents[e].subList)
  BY DEF HealthInv, ListsInv, TopicInv
<1>3. /\ topicRefs = pending + Cardinality(OpenTopics) /\ toDead \subseteq {"own"}
      /\ healthCtx = "deleted" => topicRefs = 0
  BY DEF HealthInv, ListsInv, TopicsInv
<1>4. walk.step = "calls" => walk.page \in ToSet(hevents[walk.e].subList)
  BY DEF HealthInv, WalkInv
<1>5. walk.step = "answered" /\ getMeta[walk.call].page \notin quit =>
        LET waiting == hevents[walk.e].getList
        IN  waiting # <<>> /\ Head(waiting) = walk.call
  BY DEF HealthInv, WalkInv
<1> QED BY <1>1, <1>2, <1>3, <1>4, <1>5 DEF HealthInStep

(* Samples and answers go to those who are there, wherever in the callback *)
(* of a topic the script subscribes, unsubscribes, asks or drops instances *)
(* (but for calls whose HealthTopic the context does not know of), every   *)
(* call is answered once with a sample of each type, and the context       *)
(* counts its topics (health_impl.cpp).                                    *)
THEOREM HealthStaysInStep == HealthSpec => []HealthInStep
<1>1. HealthInv /\ [HealthNext]_hsVars => HealthInv'
  BY HealthKept
<1> QED BY <1>1, HealthStarts, HealthShows, PTL DEF HealthSpec

-----------------------------------------------------------------------------
(***************************************************************************)
(* A behaviour of ServiceCalls is one of each component: what is not       *)
(* loaded stutters.                                                        *)
(***************************************************************************)
LEMMA ServiceSteps ==
  ASSUME [ServicesNext]_serviceVars
  PROVE  /\ [FfiNext]_fiVars /\ [StoresNext]_stVars /\ [PackagesNext]_paVars
         /\ [PreviewsNext]_pvVars /\ [HealthNext]_hsVars
         /\ [BrightnessNext]_brVars /\ [InputNext]_iwVars
<1> USE DEF serviceVars, requestVars, pageVars
<1>1. CASE UNCHANGED serviceVars \/ ServiceEnds
  BY <1>1 DEF ServiceEnds
<1>2. CASE ServicesNext /\ ~ServiceEnds
  BY <1>2 DEF ServicesNext
<1> QED BY <1>1, <1>2

(* So a behaviour of all is one of each.                                   *)
LEMMA ServicesImplement ==
  ServicesSpec => /\ FfiSpec /\ StoresSpec /\ PackagesSpec
                  /\ PreviewsSpec /\ HealthSpec /\ BrightnessSpec /\ InputSpec
<1>1. ServicesInit => /\ FfiInit /\ StoresInit /\ PackagesInit
                      /\ PreviewsInit /\ HealthInit /\ BrightnessInit /\ InputInit
  BY DEF ServicesInit
<1>2. [ServicesNext]_serviceVars =>
        /\ [FfiNext]_fiVars /\ [StoresNext]_stVars /\ [PackagesNext]_paVars
        /\ [PreviewsNext]_pvVars /\ [HealthNext]_hsVars
        /\ [BrightnessNext]_brVars /\ [InputNext]_iwVars
  BY ServiceSteps
<1> QED BY <1>1, <1>2, PTL DEF ServicesSpec, FfiSpec, StoresSpec, PackagesSpec,
                               PreviewsSpec, HealthSpec, BrightnessSpec, InputSpec

(* CallsExact: whatever a script calls with whatever it passes, and however *)
(* its calls nest, each is told its own outcome and no block of a call      *)
(* outlives it or is freed again (feature_manager_qjs.cpp,                  *)
(* feature_ffi_templates.h).                                                *)
THEOREM ServicesCallsExact ==
  ASSUME Latitude = {}
  PROVE  ServicesSpec => []CallsExact
<1>1. CallHeard /\ CallMemoryFreed => CallsExact
  BY DEF CallsExact
<1> QED BY <1>1, CallsAreExact, ServicesImplement, PTL

(* AnswersKept: a store's value and the answer of the package service are   *)
(* what the call asked for, for any calls, keys and packages, unless        *)
(* clearing a store can fail halfway (storage_impl.cpp, exchange_impl.cpp,  *)
(* packagemanager_impl.cpp).                                                *)
THEOREM ServicesAnswersKept ==
  ASSUME ~ClearFails
  PROVE  ServicesSpec => []AnswersKept
<1>1. StoresKept /\ PackagesHeard => AnswersKept
  BY DEF AnswersKept
<1> QED BY <1>1, StoresKeepValues, PackagesAreHeard, ServicesImplement, PTL

(* PreviewsInStep: the same of the pictures when they are loaded with the   *)
(* other features: the map of pictures and the map of widgets agree up to   *)
(* the tasks on their way (media_impl.cpp).                                 *)
THEOREM ServicesPreviewsInStep ==
  ASSUME ~LeaveWithin
  PROVE  ServicesSpec => []PreviewsInStep
<1> QED BY PreviewsStayInStep, ServicesImplement, PTL

(* HealthInStep: the same of the calls and subscriptions of service.health: *)
(* each call is settled by its last sample, whatever types and instances    *)
(* share a topic and whatever the script does in its functions              *)
(* (health_impl.cpp).                                                       *)
THEOREM ServicesHealthInStep == ServicesSpec => []HealthInStep
<1> QED BY HealthStaysInStep, ServicesImplement, PTL

(* RequestsAccountedFor: the answer, the thread of the pool and the end of  *)
(* the instance in any order free a request as often as it is told, with    *)
(* nothing excluded (brightness_impl.cpp, input_impl.cpp).                  *)
THEOREM ServicesRequestsAccountedFor ==
  ServicesSpec => []RequestsAccountedFor
<1>1. BrightnessFrees /\ InputsPerformed => RequestsAccountedFor
  BY DEF RequestsAccountedFor
<1> QED BY <1>1, BrightnessFreesAsTold, InputsArePerformed, ServicesImplement, PTL
=============================================================================
