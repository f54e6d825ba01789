--------------------------- MODULE Answers_proofs ---------------------------
(***************************************************************************)
(* The components whose calls are answered: permissions                    *)
(* (PermissionsManager), messages (MessageRequests, Interconnect),         *)
(* positions (Locations), dialogs (Prompts) and requests to the net        *)
(* (Fetches), each with its inductive invariant; and what follows for all  *)
(* of them loaded together (MCFeaturesLive).                               *)
(***************************************************************************)
EXTENDS MCFeaturesLive, SequenceLemmas

-----------------------------------------------------------------------------
(***************************************************************************)
(* Permissions, for any instances, calls and addresses, a host that        *)
(* decides as late and as often as it likes, and callbacks that detach:    *)
(* SetExact, SettledOnce and ArgsReleasedOnce.                             *)
(*                                                                         *)
(* A call is settled when its decision begins and its info is deleted when *)
(* the last callback returns, by address.  Between the two the info may be *)
(* deleted by a detach and its address taken by another call.  Decided     *)
(* says that an info which is alive belongs to a call nobody settled yet,  *)
(* or to the one on the stack; FrameOf, that the one on the stack either   *)
(* keeps its address or has none for ever.                                 *)
(***************************************************************************)

PMTypes ==
  /\ cutOff \in [Caller -> BOOLEAN]
  /\ owner \in [Req -> Caller \cup {None}] /\ at \in [Req -> Addr \cup {None}]
  /\ perms_set \subseteq Addr /\ queue \in Seq(Task)
  /\ frame \in Frame \cup {NoFrame}
  /\ calls \in [Req -> Nat] /\ fails \in [Req -> Nat]
  /\ released \in [Req -> Nat]

(* Nothing exists for a call that was not made. *)
NotMade ==
  \A r \in Req : owner[r] = None =>
    at[r] = None /\ calls[r] = 0 /\ fails[r] = 0

FrameOf ==
  frame # NoFrame =>
    /\ owner[frame.req] # None /\ at[frame.req] \in {frame.addr, None}
    /\ queue # <<>>

Decided ==
  /\ SettledOnce
  /\ \A r \in Req : at[r] # None =>
       calls[r] + fails[r] = IF frame.req = r THEN 1 ELSE 0

PMInv ==
  PMTypes /\ SetExact /\ ArgsReleasedOnce /\ NotMade /\ FrameOf /\ Decided

-----------------------------------------------------------------------------
(* An address in perms_set_ is that of one info, of an instance.           *)
LEMMA OccupantOf ==
  ASSUME PMInv, NEW a \in perms_set
  PROVE  /\ a \in Addr /\ a # None /\ Occupied(a)
         /\ Occupant(a) \in Req /\ at[Occupant(a)] = a
         /\ owner[Occupant(a)] \in Caller
<1>1. \E r \in Req : at[r] = a
  BY DEF PMInv, SetExact
<1>2. Occupant(a) \in Req /\ at[Occupant(a)] = a
  BY <1>1 DEF Occupant
<1>3. a \in Addr /\ a # None
  BY NoneAssumption DEF PMInv, PMTypes
<1> QED BY <1>1, <1>2, <1>3 DEF PMInv, PMTypes, NotMade, Occupied

(* The callback on the stack is that of a call. *)
LEMMA FrameIsOfCall ==
  ASSUME PMInv
  PROVE  /\ NoFrame.req \notin Req
         /\ frame # NoFrame =>
              /\ frame.req \in Req /\ frame.addr \in Addr /\ frame.addr # None
              /\ frame.kind \in {"grant", "fail", "complete"}
BY NoneAssumption DEF PMInv, PMTypes, Frame, NoFrame

LEMMA PMInvInit == Init => PMInv
BY NoneAssumption
DEF Init, PMInv, PMTypes, SetExact, ArgsReleasedOnce, NotMade, FrameOf,
    Decided, SettledOnce, Task

LEMMA PMInvRequest ==
  ASSUME PMInv, NEW i \in Caller, NEW r \in Req, NEW a \in Addr,
         Request(i, r, a)
  PROVE  PMInv'
<1> USE DEF PMInv, PMTypes
<1>1. /\ ~cutOff[i] /\ owner[r] = None /\ at[r] = None
      /\ \A q \in Req : at[q] # a
      /\ i # None /\ a # None /\ None \notin Req
      /\ owner' = [owner EXCEPT ![r] = i] /\ at' = [at EXCEPT ![r] = a]
      /\ perms_set' = perms_set \cup {a}
      /\ UNCHANGED <<cutOff, frame, calls, fails, released>>
  BY NoneAssumption DEF Request, Occupied, NotMade, history
<1>2. PMTypes'
  <2>1. [kind |-> "ask", addr |-> a, inst |-> i] \in Task
    BY DEF Task
  <2>2. queue' \in Seq(Task)
    BY <2>1 DEF Request
  <2> QED BY <1>1, <2>2
<1>3. SetExact'
  BY <1>1 DEF SetExact
<1>4. ArgsReleasedOnce'
  BY <1>1 DEF ArgsReleasedOnce
<1>5. NotMade'
  BY <1>1 DEF NotMade
<1>6. frame # NoFrame => frame.req # r
  BY <1>1 DEF FrameOf
<1>7. FrameOf'
  <2>1. queue' # <<>>
    BY DEF Request
  <2> QED BY <1>1, <1>6, <2>1, FrameIsOfCall DEF FrameOf
<1>8. Decided'
  <2>1. calls[r] = 0 /\ fails[r] = 0
    BY <1>1 DEF NotMade
  <2>2. frame.req # r
    BY <1>6, FrameIsOfCall
  <2>3. SettledOnce'
    BY <1>1 DEF Decided, SettledOnce
  <2>4. ASSUME NEW q \in Req, at'[q] # None
        PROVE  calls[q] + fails[q] = IF frame.req = q THEN 1 ELSE 0
    <3>1. CASE q = r
      BY <2>1, <2>2, <3>1
    <3>2. CASE q # r
      BY <1>1, <2>4, <3>2 DEF Decided
    <3> QED BY <3>1, <3>2
  <2> QED BY <1>1, <2>3, <2>4 DEF Decided
<1> QED BY <1>2, <1>3, <1>4, <1>5, <1>7, <1>8

LEMMA PMInvDetach ==
  ASSUME PMInv, NEW i \in Caller, Detach(i)
  PROVE  PMInv'
<1> USE DEF PMInv, PMTypes
<1> DEFINE gone == {r \in Req : owner[r] = i /\ at[r] # None}
<1>1. /\ cutOff' = [cutOff EXCEPT ![i] = TRUE]
      /\ at' = [r \in Req |-> IF r \in gone THEN None ELSE at[r]]
      /\ perms_set' = perms_set \ {at[r] : r \in gone}
      /\ released' = [r \in Req |-> released[r] + IF r \in gone THEN 1 ELSE 0]
      /\ UNCHANGED <<owner, queue, frame, calls, fails>>
      /\ i # None
  BY NoneAssumption DEF Detach
<1>2. PMTypes'
  BY <1>1
<1>3. SetExact'
  <2>1. \A r \in Req : at'[r] # None => at'[r] = at[r] /\ owner[r] # i
    BY <1>1
  <2>2. perms_set' = {at'[r] : r \in Req} \ {None}
    BY <1>1 DEF SetExact
  <2>3. \A r \in Req : at'[r] # None => owner[r] \in Caller
    BY <2>1 DEF NotMade
  <2> QED BY <1>1, <2>1, <2>2, <2>3 DEF SetExact
<1>4. ArgsReleasedOnce'
  BY <1>1 DEF ArgsReleasedOnce
<1>5. NotMade'
  BY <1>1 DEF NotMade
<1>6. FrameOf'
  BY <1>1, FrameIsOfCall DEF FrameOf
<1>7. Decided'
  BY <1>1 DEF Decided, SettledOnce
<1> QED BY <1>2, <1>3, <1>4, <1>5, <1>6, <1>7

(* The tasks that only move decisions on. *)
LEMMA PMInvDecisions ==
  ASSUME PMInv,
         Ask \/ DropDecision \/ (\E h \in handles : \E v \in {"grant", "reject"} :
                                   Decide(h, v))
  PROVE  PMInv'
<1> USE DEF PMInv, PMTypes
<1>1. UNCHANGED <<cutOff, owner, at, perms_set, frame, calls, fails, released>>
  BY DEF Ask, DropDecision, Decide
<1>2. \/ frame = NoFrame /\ queue # <<>> /\ queue' = Tail(queue)
      \/ queue' = queue
      \/ \E v \in {"grant", "reject"}, a \in perms_set, s \in Seq(Task) :
           queue' = Append(s, [kind |-> v, addr |-> a,
                               inst |-> owner[Occupant(a)]])
  <2>1. queue # <<>> => Tail(queue) \in Seq(Task)
    OBVIOUS
  <2>2. CASE Ask
    BY <2>1, <2>2, Zenon DEF Ask, Running
  <2>3. CASE DropDecision
    BY <2>3 DEF DropDecision, Running
  <2>4. CASE \E h \in handles : \E v \in {"grant", "reject"} : Decide(h, v)
    BY <2>4, Zenon DEF Decide, Post
  <2> QED BY <2>2, <2>3, <2>4
<1>3. \A v \in {"grant", "reject"}, a \in perms_set :
        [kind |-> v, addr |-> a, inst |-> owner[Occupant(a)]] \in Task
  BY OccupantOf DEF Task
<1>4. /\ queue' \in Seq(Task)
      /\ frame = NoFrame \/ queue' = queue \/ queue' # <<>>
  <2>1. \A s \in Seq(Task), t \in Task :
          Append(s, t) \in Seq(Task) /\ Append(s, t) # <<>>
    BY AppendProperties
  <2>2. queue # <<>> => Tail(queue) \in Seq(Task)
    OBVIOUS
  <2>3. queue \in Seq(Task)
    OBVIOUS
  <2> QED BY <1>2, <1>3, <2>1, <2>2, <2>3, Zenon
<1>5. FrameOf'
  BY <1>1, <1>4 DEF FrameOf
<1> QED
  BY <1>1, <1>4, <1>5
  DEF SetExact, ArgsReleasedOnce, NotMade, Decided, SettledOnce

LEMMA PMInvBegin ==
  ASSUME PMInv, BeginGrant \/ BeginReject
  PROVE  PMInv'
<1> USE DEF PMInv, PMTypes
<1> DEFINE a == Head(queue).addr
           r == Occupant(a)
<1>1. /\ a \in perms_set /\ frame = NoFrame /\ queue # <<>>
      /\ UNCHANGED <<cutOff, owner, at, perms_set, queue, released>>
      /\ \/ /\ calls' = [calls EXCEPT ![r] = @ + 1] /\ fails' = fails
         \/ /\ fails' = [fails EXCEPT ![r] = @ + 1] /\ calls' = calls
  BY DEF BeginGrant, BeginReject, Running
<1>2. PICK kind \in {"grant", "fail", "complete"} :
        frame' = [kind |-> kind, addr |-> a, req |-> r]
  BY DEF BeginGrant, BeginReject, Enter
<1>3. /\ a \in Addr /\ a # None /\ r \in Req /\ at[r] = a
      /\ owner[r] \in Caller
  BY <1>1, OccupantOf
<1> HIDE DEF a, r
<1>4. calls[r] = 0 /\ fails[r] = 0 /\ calls[r] \in Nat /\ fails[r] \in Nat
  <2>1. frame.req # r
    BY <1>1, <1>3, FrameIsOfCall
  <2>2. calls[r] \in Nat /\ fails[r] \in Nat
    BY <1>3
  <2>3. calls[r] + fails[r] = 0
    BY <1>3, <2>1 DEF Decided
  <2> QED BY <2>2, <2>3
<1>5. frame'.req = r /\ frame'.addr = a /\ frame' \in Frame
  BY <1>2, <1>3 DEF Frame
<1>6. PMTypes'
  <2>1. [calls EXCEPT ![r] = @ + 1] \in [Req -> Nat]
    BY <1>3
  <2>2. [fails EXCEPT ![r] = @ + 1] \in [Req -> Nat]
    BY <1>3
  <2>3. calls' \in [Req -> Nat] /\ fails' \in [Req -> Nat]
    BY <1>1, <2>1, <2>2, Zenon
  <2> QED BY <1>1, <1>5, <2>3
<1>7. SetExact' /\ ArgsReleasedOnce'
  BY <1>1 DEF SetExact, ArgsReleasedOnce
<1>8. NotMade'
  BY <1>1, <1>3, NoneAssumption DEF NotMade
<1>9. FrameOf'
  BY <1>1, <1>3, <1>5, NoneAssumption DEF FrameOf
<1>10. Decided'
  <2>1. calls'[r] + fails'[r] = 1
    BY <1>1, <1>3, <1>4
  <2>2. \A q \in Req \ {r} : calls'[q] = calls[q] /\ fails'[q] = fails[q]
    BY <1>1, <1>3
  <2>3. \A q \in Req : frame.req # q
    BY <1>1, FrameIsOfCall
  <2>4. SettledOnce'
    <3>1. \A q \in Req : calls[q] + fails[q] <= 1
      BY DEF Decided, SettledOnce
    <3>2. ASSUME NEW q \in Req PROVE (calls'[q] + fails'[q]) <= 1
      <4>1. CASE q = r
        BY <2>1, <4>1
      <4>2. CASE q # r
        BY <2>2, <3>1, <4>2
      <4> QED BY <4>1, <4>2
    <3> QED BY <3>2 DEF SettledOnce
  <2>5. ASSUME NEW q \in Req, at[q] # None
        PROVE  calls'[q] + fails'[q] = IF r = q THEN 1 ELSE 0
    <3>1. CASE q = r
      BY <2>1, <3>1
    <3>2. CASE q # r
      BY <2>2, <2>3, <2>5, <3>2 DEF Decided
    <3> QED BY <3>1, <3>2
  <2> QED BY <1>1, <1>5, <2>4, <2>5 DEF Decided
<1> QED BY <1>6, <1>7, <1>8, <1>9, <1>10

LEMMA PMInvFailReturned ==
  ASSUME PMInv, FailReturned
  PROVE  PMInv'
<1> USE DEF PMInv, PMTypes
<1>1. /\ frame # NoFrame /\ frame \in Frame
      /\ frame' = [frame EXCEPT !.kind = "complete"]
      /\ UNCHANGED <<cutOff, owner, at, perms_set, queue, calls, fails,
                     released>>
  BY DEF FailReturned, NoFrame, history
<1>2. /\ frame' \in Frame /\ frame'.req = frame.req
      /\ frame'.addr = frame.addr
  BY <1>1 DEF Frame
<1>3. PMTypes' /\ SetExact' /\ ArgsReleasedOnce' /\ NotMade'
  BY <1>1, <1>2 DEF SetExact, ArgsReleasedOnce, NotMade
<1>4. FrameOf' /\ Decided'
  BY <1>1, <1>2 DEF FrameOf, Decided, SettledOnce
<1> QED BY <1>3, <1>4

(* The info at the address of the frame is deleted, whosever it is by now; *)
(* the call on the stack has none then.                                    *)
LEMMA PMInvReturned ==
  ASSUME PMInv, CallbackReturned
  PROVE  PMInv'
<1> USE DEF PMInv, PMTypes
<1> DEFINE a == frame.addr
           r == Occupant(a)
<1>1. /\ frame # NoFrame /\ frame' = NoFrame
      /\ queue # <<>> /\ queue' = Tail(queue)
      /\ UNCHANGED <<cutOff, owner, calls, fails>>
  BY DEF CallbackReturned, FrameOf
<1>2. a \in Addr /\ a # None /\ frame.req \in Req /\ None \notin Req
  BY <1>1, FrameIsOfCall, NoneAssumption
<1>3. CASE Occupied(a)
  <2>1. r \in Req /\ at[r] = a
    BY <1>3 DEF Occupied, Occupant
  <2>2. /\ at' = [at EXCEPT ![r] = None] /\ perms_set' = perms_set \ {a}
        /\ released' = [released EXCEPT ![r] = @ + 1]
    BY <1>3 DEF CallbackReturned
  <2> HIDE DEF a, r
  <2>3. \A q \in Req : at[q] = a => q = r
    BY <1>2, <2>1 DEF SetExact
  <2>4. owner[r] # None
    BY <1>2, <2>1 DEF NotMade
  <2>5. SetExact'
    BY <1>1, <1>2, <2>1, <2>2, <2>3 DEF SetExact
  <2>6. ArgsReleasedOnce'
    BY <1>1, <1>2, <2>1, <2>2, <2>4 DEF ArgsReleasedOnce
  <2>7. at'[frame.req] = None
    BY <1>1, <1>2, <2>1, <2>2, <2>3 DEF FrameOf, a
  <2>8. NotMade' /\ FrameOf'
    BY <1>1, <2>1, <2>2 DEF NotMade, FrameOf
  <2>9. Decided'
    BY <1>1, <1>2, <2>1, <2>2, <2>7 DEF Decided, SettledOnce, NoFrame
  <2>10. PMTypes'
    <3>1. queue' \in Seq(Task)
      BY <1>1 DEF CallbackReturned
    <3> QED BY <1>1, <2>1, <2>2, <3>1
  <2> QED BY <2>5, <2>6, <2>8, <2>9, <2>10
<1>4. CASE ~Occupied(a)
  <2>1. UNCHANGED <<at, perms_set, released>>
    BY <1>4 DEF CallbackReturned
  <2>2. at[frame.req] = None
    BY <1>1, <1>2, <1>4 DEF FrameOf, Occupied
  <2>3. SetExact' /\ ArgsReleasedOnce' /\ NotMade' /\ FrameOf'
    BY <1>1, <2>1 DEF SetExact, ArgsReleasedOnce, NotMade, FrameOf
  <2>4. Decided'
    BY <1>1, <1>2, <2>1, <2>2 DEF Decided, SettledOnce, NoFrame
  <2>5. PMTypes'
    BY <1>1, <2>1
  <2> QED BY <2>3, <2>4, <2>5
<1> QED BY <1>3, <1>4

LEMMA PMInvStep == PMInv /\ [Next]_vars => PMInv'
<1> SUFFICES ASSUME PMInv, [Next]_vars PROVE PMInv'
  OBVIOUS
<1>1. CASE UNCHANGED vars
  BY <1>1 DEF vars, PMInv, PMTypes, SetExact, ArgsReleasedOnce, NotMade,
              FrameOf, Decided, SettledOnce
<1>2. CASE \E i \in Caller, r \in Req, a \in Addr : Request(i, r, a)
  BY <1>2, PMInvRequest
<1>3. CASE \E i \in Caller : Detach(i)
  BY <1>3, PMInvDetach
<1>4. CASE \E h \in handles, v \in {"grant", "reject"} : Decide(h, v)
  BY <1>4, PMInvDecisions
<1>5. CASE Serve
  BY <1>5, PMInvDecisions, PMInvBegin, PMInvFailReturned, PMInvReturned
  DEF Serve
<1>6. CASE Finished
  BY <1>1, <1>6 DEF Finished
<1> QED BY <1>1, <1>2, <1>3, <1>4, <1>5, <1>6 DEF Next

LEMMA PMInvariant == Spec => []PMInv
BY PMInvInit, PMInvStep, PTL DEF Spec

(* What the host was shown is the address of a call. *)
LEMMA HandlesTyped ==
  ASSUME PMInv, handles \subseteq Handle, freed \in BOOLEAN, [Next]_vars
  PROVE  handles' \subseteq Handle /\ freed' \in BOOLEAN
<1>1. CASE handles' = handles /\ freed' = freed
  BY <1>1
<1>2. CASE Ask
  <2>1. handles' = handles \/
          /\ LateDecisions # 0 /\ Head(queue).addr \in perms_set
          /\ handles' = handles \cup
               {[addr |-> Head(queue).addr, req |-> Occupant(Head(queue).addr),
                 left |-> LateDecisions]}
    BY <1>2, Zenon DEF Ask
  <2>2. Head(queue).addr \in perms_set =>
          Head(queue).addr \in Addr /\ Occupant(Head(queue).addr) \in Req
    BY OccupantOf
  <2>3. LateDecisions # 0 => LateDecisions \in 1..LateDecisions
    BY ModeAssumption
  <2>4. freed' = freed
    BY <1>2 DEF Ask
  <2> QED BY <2>1, <2>2, <2>3, <2>4 DEF Handle
<1>3. ASSUME NEW h \in handles, NEW v, Decide(h, v)
      PROVE  handles' \subseteq Handle /\ freed' \in BOOLEAN
  <2>1. /\ freed' = freed
        /\ handles' = (handles \ {h}) \cup
             (IF h.left > 1 THEN {[h EXCEPT !.left = @ - 1]} ELSE {})
    BY <1>3 DEF Decide
  <2>2. /\ h.addr \in Addr /\ h.req \in Req /\ h.left \in 1..LateDecisions
        /\ h = [addr |-> h.addr, req |-> h.req, left |-> h.left]
    BY DEF Handle
  <2>3. h.left > 1 =>
          [h EXCEPT !.left = @ - 1] =
            [addr |-> h.addr, req |-> h.req, left |-> h.left - 1]
    BY <2>2
  <2>4. h.left > 1 => h.left - 1 \in 1..LateDecisions
    BY <2>2, ModeAssumption
  <2> QED BY <2>1, <2>2, <2>3, <2>4 DEF Handle
<1>4. CASE DropDecision
  BY <1>4 DEF DropDecision
<1>5. CASE CallbackReturned
  BY <1>5 DEF CallbackReturned
<1> QED
  BY <1>1, <1>2, <1>3, <1>4, <1>5
  DEF Next, Serve, vars, history, Request, Detach, BeginGrant, BeginReject,
      FailReturned, Finished

(* Every task names an instance and every handle a call, for each number   *)
(* of decisions.                                                           *)
THEOREM PermissionsTypesHold == Spec => []TypeOK
<1> DEFINE I == PMInv /\ handles \subseteq Handle /\ freed \in BOOLEAN
<1>1. Init => I
  BY PMInvInit DEF Init
<1>2. I /\ [Next]_vars => I'
  BY PMInvStep, HandlesTyped
<1>3. I => TypeOK
  BY DEF PMInv, PMTypes, TypeOK
<1> HIDE DEF I
<1> QED BY <1>1, <1>2, <1>3, PTL DEF Spec

(* perms_set_ holds exactly the addresses of the infos that are alive,     *)
(* none of them of a detached instance, whatever RemovePermissions deletes *)
(* by an address that was taken again.                                     *)
THEOREM PermissionsSetIsExact == Spec => []SetExact
<1>1. PMInv => SetExact
  BY DEF PMInv
<1> QED BY <1>1, PMInvariant, PTL

(* GrantPermissions and RejectPermissions settle a call at most once,      *)
(* however often and however late the host decides.                        *)
THEOREM PermissionsSettleOnce == Spec => []SettledOnce
<1>1. PMInv => SettledOnce
  BY DEF PMInv, Decided
<1> QED BY <1>1, PMInvariant, PTL

(* releaseArgs gives the arguments of a call back once.                    *)
THEOREM PermissionsReleaseOnce == Spec => []ArgsReleasedOnce
<1>1. PMInv => ArgsReleasedOnce
  BY DEF PMInv
<1> QED BY <1>1, PMInvariant, PTL

-----------------------------------------------------------------------------
(* The task at n will be run.                                              *)
Runs(n) == ~cutOff[queue[n].inst]

InfoOf(t) == \E r \in Req : at[r] = t.addr /\ owner[r] = t.inst

(* With a host that decides inside its callback a task that will be run    *)
(* has its info, and no other task has.                                    *)
TaskOfInfo ==
  \A n \in 1..Len(queue) : Runs(n) =>
    /\ InfoOf(queue[n])
    /\ \A m \in 1..Len(queue) : Runs(m) /\ queue[m].addr = queue[n].addr => m = n

(* The callback on the stack is that of the task at the head.              *)
FrameAlive ==
  frame # NoFrame =>
    /\ at[frame.req] = frame.addr /\ ~cutOff[owner[frame.req]]
    /\ queue[1].addr = frame.addr /\ queue[1].inst = owner[frame.req]

AliveInv == PMInv /\ handles = {} /\ ~freed /\ TaskOfInfo /\ FrameAlive

(* The rest of the queue, with the infos of its tasks.                     *)
LEMMA TailOfTasks ==
  ASSUME queue \in Seq(Task), queue # <<>>
  PROVE  /\ Tail(queue) \in Seq(Task) /\ Len(Tail(queue)) = Len(queue) - 1
         /\ \A n \in 1..Len(Tail(queue)) :
              n + 1 \in 1..Len(queue) /\ Tail(queue)[n] = queue[n + 1]
         /\ Head(queue) = queue[1] /\ 1 \in 1..Len(queue) /\ Len(queue) \in Nat
         /\ queue[1] \in Task
<1>1. Len(queue) \in Nat \ {0}
  BY EmptySeq, LenProperties
<1>2. /\ Tail(queue) \in Seq(Task) /\ Len(Tail(queue)) = Len(queue) - 1
      /\ \A n \in 1..Len(Tail(queue)) : Tail(queue)[n] = queue[n + 1]
      /\ Head(queue) = queue[1]
  BY HeadTailProperties
<1>3. \A n \in 1..Len(Tail(queue)) : n + 1 \in 1..Len(queue)
  BY <1>1, <1>2
<1>4. 1 \in 1..Len(queue) /\ queue[1] \in Task
  BY <1>1, ElementOfSeq
<1> QED BY <1>1, <1>2, <1>3, <1>4

LEMMA TailKeepsTasks ==
  ASSUME queue \in Seq(Task), queue # <<>>, queue' = Tail(queue),
         cutOff' = cutOff, TaskOfInfo,
         \A t \in Task : \A n \in 1..Len(queue) :
           n # 1 /\ Runs(n) /\ queue[n] = t /\ InfoOf(t) => InfoOf(t)'
  PROVE  TaskOfInfo'
<1>1. /\ Len(queue') = Len(queue) - 1 /\ Len(queue) \in Nat
      /\ \A n \in 1..Len(queue') :
           n + 1 \in 1..Len(queue) /\ queue'[n] = queue[n + 1]
  BY TailOfTasks
<1> SUFFICES ASSUME NEW n \in 1..Len(queue'), ~cutOff[queue'[n].inst]
             PROVE  /\ InfoOf(queue[n])'
                    /\ \A m \in 1..Len(queue') :
                         ~cutOff[queue'[m].inst]
                           /\ queue'[m].addr = queue'[n].addr => m = n
  BY DEF TaskOfInfo, Runs
<1>2. /\ n + 1 \in 1..Len(queue) /\ queue'[n] = queue[n + 1] /\ n + 1 # 1
      /\ Runs(n + 1)
  BY <1>1 DEF Runs
<1>3. PICK k \in 1..Len(queue) : k = n + 1 /\ queue'[n] = queue[k] /\ k # 1
        /\ Runs(k)
  BY <1>2
<1>4. PICK t \in Task : queue[k] = t
  BY ElementOfSeq
<1>5. InfoOf(queue[n])'
  <2>1. InfoOf(t)
    BY <1>3, <1>4 DEF TaskOfInfo
  <2>2. InfoOf(t)'
    BY <1>3, <1>4, <2>1
  <2> QED BY <1>3, <1>4, <2>2 DEF InfoOf
<1>6. ASSUME NEW m \in 1..Len(queue'), ~cutOff[queue'[m].inst],
             queue'[m].addr = queue'[n].addr
      PROVE  m = n
  <2>1. m + 1 \in 1..Len(queue) /\ queue'[m] = queue[m + 1]
    BY <1>1
  <2>2. m + 1 = k
    BY <1>3, <1>6, <2>1 DEF TaskOfInfo, Runs
  <2> QED BY <1>3, <2>2
<1> QED BY <1>5, <1>6

LEMMA AliveRequest ==
  ASSUME AliveInv, NEW i \in Caller, NEW r \in Req, NEW a \in Addr,
         Request(i, r, a)
  PROVE  AliveInv'
<1> DEFINE task == [kind |-> "ask", addr |-> a, inst |-> i]
<1>1. /\ ~cutOff[i] /\ owner[r] = None /\ ~Occupied(a)
      /\ owner' = [owner EXCEPT ![r] = i] /\ at' = [at EXCEPT ![r] = a]
      /\ queue' = Append(queue, task)
      /\ UNCHANGED <<cutOff, handles, frame, freed>>
  BY DEF Request, history
<1>2. PMInv' /\ PMInv
  BY PMInvRequest DEF AliveInv
<1>3. /\ task \in Task /\ task.addr = a /\ task.inst = i
      /\ queue \in Seq(Task)
  BY <1>2 DEF Task, PMInv, PMTypes
<1> HIDE DEF task
<1>4. /\ Len(queue') = Len(queue) + 1 /\ Len(queue) \in Nat
      /\ \A n \in 1..Len(queue) : queue'[n] = queue[n]
      /\ queue'[Len(queue) + 1] = task
  BY <1>1, <1>3, AppendProperties, LenProperties
<1>5. /\ at[r] = None /\ \A q \in Req : at[q] # a
      /\ \A q \in Req : q # r => at'[q] = at[q] /\ owner'[q] = owner[q]
      /\ at'[r] = a /\ owner'[r] = i
  BY <1>1, <1>2 DEF Occupied, PMInv, PMTypes, NotMade
<1>6. \A t \in Task : InfoOf(t) => InfoOf(t)' /\ t.addr # a
  BY <1>5, NoneAssumption DEF InfoOf, Task
<1>7. ASSUME NEW n \in 1..Len(queue), Runs(n)
      PROVE  queue[n] \in Task /\ InfoOf(queue[n]) /\ queue[n].addr # a
  <2>1. queue[n] \in Task
    BY <1>3, ElementOfSeq
  <2> QED BY <1>6, <1>7, <2>1 DEF AliveInv, TaskOfInfo
<1>8. TaskOfInfo'
  <2> SUFFICES ASSUME NEW n \in 1..Len(queue'), ~cutOff[queue'[n].inst]
               PROVE  /\ InfoOf(queue[n])'
                      /\ \A m \in 1..Len(queue') :
                           ~cutOff[queue'[m].inst]
                             /\ queue'[m].addr = queue'[n].addr => m = n
    BY <1>1 DEF TaskOfInfo, Runs
  <2>1. CASE n \in 1..Len(queue)
    <3>1. queue'[n] = queue[n] /\ Runs(n)
      BY <1>4, <2>1 DEF Runs
    <3>2. PICK t \in Task : queue[n] = t /\ InfoOf(t) /\ t.addr # a
      BY <1>7, <2>1, <3>1
    <3>3. InfoOf(t)'
      BY <1>6, <3>2
    <3>4. InfoOf(queue[n])'
      BY <3>1, <3>2, <3>3 DEF InfoOf
    <3>5. \A m \in 1..Len(queue) :
            Runs(m) /\ queue[m].addr = queue[n].addr => m = n
      BY <2>1, <3>1 DEF AliveInv, TaskOfInfo
    <3>6. \A m \in 1..Len(queue') : m \in 1..Len(queue) \/ m = Len(queue) + 1
      BY <1>4
    <3> QED BY <1>3, <1>4, <3>1, <3>2, <3>4, <3>5, <3>6 DEF Runs
  <2>2. CASE n = Len(queue) + 1
    <3>1. queue'[n] = task
      BY <1>4, <2>2
    <3>2. InfoOf(queue[n])'
      BY <1>3, <1>5, <3>1 DEF InfoOf
    <3>3. \A m \in 1..Len(queue') : m \in 1..Len(queue) \/ m = n
      BY <1>4, <2>2
    <3> QED BY <1>3, <1>4, <1>7, <3>1, <3>2, <3>3 DEF Runs
  <2> QED BY <1>4, <2>1, <2>2
<1>9. FrameAlive'
  <2> SUFFICES ASSUME frame # NoFrame
               PROVE  /\ at'[frame.req] = frame.addr
                      /\ ~cutOff[owner'[frame.req]]
                      /\ queue'[1].addr = frame.addr
                      /\ queue'[1].inst = owner'[frame.req]
    BY <1>1 DEF FrameAlive
  <2>1. frame.req \in Req /\ frame.addr # None /\ at[frame.req] = frame.addr
        /\ queue # <<>>
    BY <1>2, FrameIsOfCall DEF AliveInv, FrameAlive, PMInv, FrameOf
  <2>2. frame.req # r /\ queue'[1] = queue[1]
    BY <1>3, <1>4, <1>5, <2>1, TailOfTasks
  <2> QED BY <1>5, <2>1, <2>2 DEF AliveInv, FrameAlive
<1> QED BY <1>1, <1>2, <1>8, <1>9 DEF AliveInv

(* No callback of the instance is on the stack, and its tasks will not run.*)
LEMMA AliveDetach ==
  ASSUME AliveInv, ~DetachInCallback, NEW i \in Caller, Detach(i)
  PROVE  AliveInv'
<1>1. /\ ~InCallback(i) /\ cutOff' = [cutOff EXCEPT ![i] = TRUE]
      /\ at' = [r \in Req |-> IF owner[r] = i /\ at[r] # None THEN None
                              ELSE at[r]]
      /\ UNCHANGED <<owner, queue, handles, frame, freed>>
  BY DEF Detach
<1>2. PMInv' /\ PMInv
  BY PMInvDetach DEF AliveInv
<1>3. queue \in Seq(Task) /\ cutOff \in [Caller -> BOOLEAN]
  BY <1>2 DEF PMInv, PMTypes
<1>4. ASSUME NEW n \in 1..Len(queue), ~cutOff'[queue[n].inst]
      PROVE  Runs(n) /\ queue[n].inst # i /\ queue[n] \in Task
  <2>1. queue[n] \in Task /\ queue[n].inst \in Caller
    <3>1. queue[n] \in Task
      BY <1>3, ElementOfSeq
    <3> QED BY <3>1 DEF Task
  <2> QED BY <1>1, <1>3, <1>4, <2>1 DEF Runs
<1>5. \A t \in Task : InfoOf(t) /\ t.inst # i => InfoOf(t)'
  BY <1>1 DEF InfoOf
<1>6. TaskOfInfo'
  <2> SUFFICES ASSUME NEW n \in 1..Len(queue), ~cutOff'[queue[n].inst]
               PROVE  /\ InfoOf(queue[n])'
                      /\ \A m \in 1..Len(queue) :
                           ~cutOff'[queue[m].inst]
                             /\ queue[m].addr = queue[n].addr => m = n
    BY <1>1 DEF TaskOfInfo, Runs
  <2>1. PICK t \in Task : queue[n] = t /\ t.inst # i /\ Runs(n)
    BY <1>4
  <2>2. InfoOf(t)'
    BY <1>5, <2>1 DEF AliveInv, TaskOfInfo
  <2>3. InfoOf(queue[n])'
    BY <1>1, <2>1, <2>2 DEF InfoOf
  <2> QED BY <1>4, <2>1, <2>3 DEF AliveInv, TaskOfInfo
<1>7. FrameAlive'
  <2> SUFFICES ASSUME frame # NoFrame
               PROVE  at'[frame.req] = frame.addr /\ ~cutOff'[owner[frame.req]]
    BY <1>1 DEF FrameAlive, AliveInv
  <2>1. frame.req \in Req /\ owner[frame.req] # i
    BY <1>1, <1>2, FrameIsOfCall DEF InCallback
  <2>2. owner[frame.req] \in Caller
    BY <1>2, <2>1 DEF PMInv, PMTypes, FrameOf
  <2> QED BY <1>1, <1>3, <2>1, <2>2 DEF AliveInv, FrameAlive
<1> QED BY <1>1, <1>2, <1>6, <1>7 DEF AliveInv

(* The task at the head is run, and its info is at the address it names.   *)
LEMMA HeadOfTasks ==
  ASSUME AliveInv, queue # <<>>, ~Skipped
  PROVE  /\ Head(queue) = queue[1] /\ queue[1] \in Task /\ Runs(1)
         /\ 1 \in 1..Len(queue) /\ Occupied(queue[1].addr)
         /\ Occupant(queue[1].addr) \in Req
         /\ at[Occupant(queue[1].addr)] = queue[1].addr
         /\ owner[Occupant(queue[1].addr)] = queue[1].inst
         /\ \A n \in 1..Len(queue) :
              n # 1 /\ Runs(n) => queue[n].addr # queue[1].addr
<1>1. PMInv /\ queue \in Seq(Task)
  BY DEF AliveInv, PMInv, PMTypes
<1>2. /\ Head(queue) = queue[1] /\ queue[1] \in Task /\ 1 \in 1..Len(queue)
  BY <1>1, TailOfTasks
<1>3. Runs(1)
  BY <1>2 DEF Runs, Skipped
<1>4. /\ InfoOf(queue[1])
      /\ \A n \in 1..Len(queue) :
           n # 1 /\ Runs(n) => queue[n].addr # queue[1].addr
  BY <1>2, <1>3 DEF AliveInv, TaskOfInfo
<1>5. PICK r \in Req : at[r] = queue[1].addr /\ owner[r] = queue[1].inst
  BY <1>4 DEF InfoOf
<1>6. queue[1].addr # None
  BY <1>2, NoneAssumption DEF Task
<1>7. Occupant(queue[1].addr) = r
  <2>1. \A q \in Req : at[q] = queue[1].addr => q = r
    BY <1>1, <1>5, <1>6 DEF PMInv, SetExact
  <2> QED BY <1>5, <2>1 DEF Occupant
<1> QED BY <1>2, <1>3, <1>4, <1>5, <1>7 DEF Occupied

(* The task that asks hands its info on to the task of the decision.       *)
LEMMA AliveAsk ==
  ASSUME AliveInv, LateDecisions = 0, Ask PROVE AliveInv'
<1>1. /\ queue # <<>> /\ frame = NoFrame
      /\ UNCHANGED <<cutOff, owner, at, perms_set, frame, freed>>
  BY DEF Ask, Running
<1>2. PMInv' /\ PMInv /\ queue \in Seq(Task)
  BY PMInvDecisions DEF AliveInv, PMInv, PMTypes
<1>3. handles' = handles
  BY Zenon DEF Ask
<1>4. FrameAlive'
  BY <1>1 DEF FrameAlive
<1>5. \A t \in Task : InfoOf(t)' <=> InfoOf(t)
  BY <1>1 DEF InfoOf
<1>6. \/ queue' = Tail(queue)
      \/ /\ ~Skipped
         /\ \E v \in {"grant", "reject"} :
              queue' = Append(Tail(queue),
                [kind |-> v, addr |-> Head(queue).addr,
                 inst |-> owner[Occupant(Head(queue).addr)]])
  BY Zenon DEF Ask
<1>7. CASE queue' = Tail(queue)
  <2>1. TaskOfInfo'
    BY <1>1, <1>2, <1>5, <1>7, TailKeepsTasks DEF AliveInv
  <2> QED BY <1>1, <1>2, <1>3, <1>4, <2>1 DEF AliveInv
<1>8. ASSUME ~Skipped, NEW v \in {"grant", "reject"},
             queue' = Append(Tail(queue),
               [kind |-> v, addr |-> Head(queue).addr,
                inst |-> owner[Occupant(Head(queue).addr)]])
      PROVE  TaskOfInfo'
  <2> DEFINE t == [kind |-> v, addr |-> queue[1].addr, inst |-> queue[1].inst]
             s == Tail(queue)
  <2>1. /\ Head(queue) = queue[1] /\ queue[1] \in Task /\ Runs(1)
        /\ 1 \in 1..Len(queue)
        /\ owner[Occupant(queue[1].addr)] = queue[1].inst
        /\ \A n \in 1..Len(queue) :
             n # 1 /\ Runs(n) => queue[n].addr # queue[1].addr
    BY <1>1, <1>8, HeadOfTasks
  <2>2. queue' = Append(s, t)
    BY <1>8, <2>1
  <2>3. /\ t \in Task /\ t.addr = queue[1].addr /\ t.inst = queue[1].inst
    BY <2>1 DEF Task
  <2>4. /\ s \in Seq(Task) /\ Len(s) = Len(queue) - 1 /\ Len(queue) \in Nat
        /\ \A n \in 1..Len(s) : n + 1 \in 1..Len(queue) /\ s[n] = queue[n + 1]
    BY <1>1, <1>2, TailOfTasks
  <2> HIDE DEF s, t
  <2>5. /\ Len(queue') = Len(queue)
        /\ \A n \in 1..Len(s) : queue'[n] = s[n]
        /\ queue'[Len(queue)] = t
    <3>1. /\ Len(queue') = Len(s) + 1 /\ queue'[Len(s) + 1] = t
          /\ \A n \in 1..Len(s) : queue'[n] = s[n]
      BY <2>2, <2>3, <2>4, AppendProperties
    <3>2. Len(s) + 1 = Len(queue)
      BY <2>4
    <3> QED BY <3>1, <3>2
  <2>6. InfoOf(t)
    <3>1. InfoOf(queue[1])
      BY <2>1 DEF AliveInv, TaskOfInfo
    <3> QED BY <2>3, <3>1 DEF InfoOf
  <2> SUFFICES ASSUME NEW n \in 1..Len(queue'), ~cutOff[queue'[n].inst]
               PROVE  /\ InfoOf(queue[n])'
                      /\ \A m \in 1..Len(queue') :
                           ~cutOff[queue'[m].inst]
                             /\ queue'[m].addr = queue'[n].addr => m = n
    BY <1>1 DEF TaskOfInfo, Runs
  <2>7. ASSUME NEW m \in 1..Len(queue'), ~cutOff[queue'[m].inst]
        PROVE  \E k \in 1..Len(queue) :
                 /\ Runs(k) /\ queue'[m].addr = queue[k].addr
                 /\ queue'[m].inst = queue[k].inst
                 /\ k = IF m = Len(queue) THEN 1 ELSE m + 1
    <3>1. CASE m = Len(queue)
      BY <2>1, <2>3, <2>5, <3>1
    <3>2. CASE m # Len(queue)
      <4>1. m \in 1..Len(s)
        BY <2>4, <2>5, <3>2
      <4>2. m + 1 \in 1..Len(queue) /\ queue'[m] = queue[m + 1]
        BY <2>4, <2>5, <4>1
      <4> QED BY <2>7, <3>2, <4>2 DEF Runs
    <3> QED BY <3>1, <3>2
  <2>8. PICK k \in 1..Len(queue) :
          /\ Runs(k) /\ queue'[n].addr = queue[k].addr
          /\ queue'[n].inst = queue[k].inst
          /\ k = IF n = Len(queue) THEN 1 ELSE n + 1
    BY <2>7
  <2>9. InfoOf(queue[n])'
    <3>1. InfoOf(queue[k])
      BY <2>8 DEF AliveInv, TaskOfInfo
    <3> QED BY <1>1, <2>8, <3>1 DEF InfoOf
  <2>10. ASSUME NEW m \in 1..Len(queue'), ~cutOff[queue'[m].inst],
                queue'[m].addr = queue'[n].addr
         PROVE  m = n
    <3>1. PICK j \in 1..Len(queue) :
            /\ Runs(j) /\ queue'[m].addr = queue[j].addr
            /\ j = IF m = Len(queue) THEN 1 ELSE m + 1
      BY <2>7, <2>10
    <3>2. j = k
      BY <2>8, <2>10, <3>1 DEF AliveInv, TaskOfInfo
    <3>3. m \in 1..Len(queue) /\ n \in 1..Len(queue)
      BY <2>5
    <3> QED BY <2>4, <2>8, <3>1, <3>2, <3>3
  <2> QED BY <2>9, <2>10
<1> QED BY <1>1, <1>2, <1>3, <1>4, <1>6, <1>7, <1>8 DEF AliveInv

(* A decision that is dropped is one of a detached instance.               *)
LEMMA AliveDrop ==
  ASSUME AliveInv, DropDecision PROVE AliveInv'
<1>1. /\ queue # <<>> /\ frame = NoFrame /\ queue' = Tail(queue)
      /\ UNCHANGED <<cutOff, owner, at, handles, frame>>
      /\ freed' = (freed \/ (~Skipped /\ ~Occupied(Head(queue).addr)))
  BY DEF DropDecision, Running
<1>2. PMInv' /\ PMInv /\ queue \in Seq(Task)
  BY PMInvDecisions DEF AliveInv, PMInv, PMTypes
<1>3. \A t \in Task : InfoOf(t)' <=> InfoOf(t)
  BY <1>1 DEF InfoOf
<1>4. TaskOfInfo'
  BY <1>1, <1>2, <1>3, TailKeepsTasks DEF AliveInv
<1>5. ~Skipped => Occupied(Head(queue).addr)
  BY <1>1, HeadOfTasks
<1> QED BY <1>1, <1>2, <1>4, <1>5 DEF AliveInv, FrameAlive

LEMMA AliveBegin ==
  ASSUME AliveInv, BeginGrant \/ BeginReject PROVE AliveInv'
<1>1. /\ queue # <<>> /\ ~Skipped /\ Head(queue).addr \in perms_set
      /\ UNCHANGED <<cutOff, owner, at, queue, handles, freed>>
      /\ \E kind \in {"grant", "fail", "complete"} : Enter(kind, Head(queue).addr)
  BY DEF BeginGrant, BeginReject, Running
<1>2. PMInv' /\ PMInv
  BY PMInvBegin DEF AliveInv
<1> DEFINE r == Occupant(queue[1].addr)
<1>3. /\ Head(queue) = queue[1] /\ r \in Req /\ at[r] = queue[1].addr
      /\ owner[r] = queue[1].inst /\ Runs(1)
  BY <1>1, HeadOfTasks
<1>4. frame'.req = r /\ frame'.addr = queue[1].addr
  BY <1>1, <1>3 DEF Enter
<1> HIDE DEF r
<1>5. FrameAlive'
  BY <1>1, <1>3, <1>4 DEF FrameAlive, Runs
<1>6. TaskOfInfo'
  BY <1>1 DEF AliveInv, TaskOfInfo, Runs, InfoOf
<1> QED BY <1>1, <1>2, <1>5, <1>6 DEF AliveInv

LEMMA AliveFailReturned ==
  ASSUME AliveInv, FailReturned PROVE AliveInv'
<1>1. /\ UNCHANGED <<cutOff, owner, at, queue, handles, freed>>
      /\ frame # NoFrame /\ frame' = [frame EXCEPT !.kind = "complete"]
  BY DEF FailReturned, NoFrame, history
<1>2. PMInv' /\ PMInv /\ frame \in Frame
  BY <1>1, PMInvFailReturned DEF AliveInv, PMInv, PMTypes
<1>3. frame'.req = frame.req /\ frame'.addr = frame.addr
  BY <1>1, <1>2 DEF Frame
<1>4. FrameAlive'
  BY <1>1, <1>3 DEF AliveInv, FrameAlive
<1>5. TaskOfInfo'
  BY <1>1 DEF AliveInv, TaskOfInfo, Runs, InfoOf
<1> QED BY <1>1, <1>2, <1>4, <1>5 DEF AliveInv

(* The info that goes is that of the task that ends, and of no other.      *)
LEMMA AliveReturned ==
  ASSUME AliveInv, CallbackReturned PROVE AliveInv'
<1>1. /\ frame # NoFrame /\ frame' = NoFrame /\ queue' = Tail(queue)
      /\ freed' = (freed \/ at[frame.req] # frame.addr)
      /\ UNCHANGED <<cutOff, owner, handles>>
  BY DEF CallbackReturned
<1>2. PMInv' /\ PMInv /\ queue \in Seq(Task) /\ queue # <<>>
  BY <1>1, PMInvReturned DEF AliveInv, PMInv, PMTypes, FrameOf
<1>3. /\ at[frame.req] = frame.addr /\ queue[1].addr = frame.addr
      /\ queue[1].inst = owner[frame.req] /\ ~cutOff[owner[frame.req]]
  BY <1>1 DEF AliveInv, FrameAlive
<1>4. Head(queue) = queue[1]
  BY <1>2, TailOfTasks
<1>5. ~Skipped
  BY <1>3, <1>4 DEF Skipped
<1>6. /\ Occupied(frame.addr) /\ Occupant(frame.addr) \in Req
      /\ at[Occupant(frame.addr)] = frame.addr
      /\ \A n \in 1..Len(queue) :
           n # 1 /\ Runs(n) => queue[n].addr # frame.addr
  BY <1>2, <1>3, <1>5, HeadOfTasks
<1>7. at' = [at EXCEPT ![Occupant(frame.addr)] = None]
  BY <1>6 DEF CallbackReturned
<1>8. \A q \in Req : at[q] # frame.addr => at'[q] = at[q]
  BY <1>2, <1>6, <1>7 DEF PMInv, PMTypes
<1>9. ASSUME NEW t \in Task, NEW n \in 1..Len(queue), n # 1, Runs(n),
             queue[n] = t, InfoOf(t)
      PROVE  InfoOf(t)'
  BY <1>1, <1>6, <1>8, <1>9 DEF InfoOf
<1>10. TaskOfInfo'
  BY <1>1, <1>2, <1>9, TailKeepsTasks DEF AliveInv
<1> QED BY <1>1, <1>2, <1>3, <1>10 DEF AliveInv, FrameAlive

LEMMA AliveStep ==
  ASSUME LateDecisions = 0, ~DetachInCallback
  PROVE  AliveInv /\ [Next]_vars => AliveInv'
<1> SUFFICES ASSUME AliveInv, [Next]_vars PROVE AliveInv'
  OBVIOUS
<1>1. CASE UNCHANGED vars
  <2>1. PMInv'
    BY <1>1, PMInvStep DEF AliveInv
  <2> QED BY <1>1, <2>1 DEF vars, AliveInv, TaskOfInfo, FrameAlive, Runs, InfoOf
<1>2. CASE \E i \in Caller, r \in Req, a \in Addr : Request(i, r, a)
  BY <1>2, AliveRequest
<1>3. CASE \E i \in Caller : Detach(i)
  BY <1>3, AliveDetach
<1>4. CASE \E h \in handles, v \in {"grant", "reject"} : Decide(h, v)
  BY <1>4 DEF AliveInv
<1>5. CASE Serve
  BY <1>5, AliveAsk, AliveDrop, AliveBegin, AliveFailReturned, AliveReturned
  DEF Serve
<1>6. CASE Finished
  BY <1>1, <1>6 DEF Finished
<1> QED BY <1>1, <1>2, <1>3, <1>4, <1>5, <1>6 DEF Next

(* No task of the permissions and no callback that returns touches an info *)
(* that was deleted, although tasks know infos by address and addresses    *)
(* are used again: as long as the host decides inside its callback, and    *)
(* callbacks do not detach their own instance (PermissionsInfo,            *)
(* RemoveInstancePermissions).                                             *)
THEOREM PermissionsStayAlive ==
  ASSUME LateDecisions = 0, ~DetachInCallback
  PROVE  Spec => []NoUseAfterDelete
<1>1. Init => AliveInv
  BY PMInvInit DEF Init, AliveInv, TaskOfInfo, FrameAlive
<1>2. AliveInv => NoUseAfterDelete
  BY DEF AliveInv, NoUseAfterDelete
<1> QED BY <1>1, <1>2, AliveStep, PTL DEF Spec

-----------------------------------------------------------------------------
(***************************************************************************)
(* Requests to other applications: AnsweredOnce and RequestsCutOff for any *)
(* set of them.  Neither property is inductive.  RequestsInv says where    *)
(* each request stands by the board and the done flag of its task:         *)
(*   - not on the board of a live channel: nothing exists for it but, at   *)
(*     most, a rejection by sendMessage;                                   *)
(*   - waiting (on the board, not done): its timer is armed and, if the    *)
(*     serving process holds it, nothing answered it;                      *)
(*   - done: its timer can no longer expire.                               *)
(***************************************************************************)

(* The answers a promise can have got. *)
Unanswered == {<<>>, <<"failed">>}
Histories ==
  Unanswered \cup {<<"reply">>, <<"timeout">>, <<"failed", "timeout">>}

(* Requests the channel knows nothing of. *)
NewRequest ==
  attached => \A r \in Msg \ board :
    /\ r \notin done /\ r \notin held /\ r \notin linked
    /\ timer[r] = "none"
    /\ answers[r] \in Unanswered

(* Requests that wait for a reply or their timer. *)
WaitingRequest ==
  \A r \in board \ done :
    /\ timer[r] = "armed"
    /\ answers[r] \in Unanswered
    /\ r \in held => answers[r] = <<>>

(* A task that is done has no timer that can still expire. *)
DoneRequest == \A r \in done : timer[r] # "armed"

CutOffRequest ==
  /\ linked \subseteq board
  /\ ~attached => board = {} /\ \A r \in Msg : timer[r] = "none"

RequestsInv ==
  /\ RequestsTypeOK
  /\ \A r \in Msg : answers[r] \in Histories
  /\ NewRequest
  /\ WaitingRequest
  /\ DoneRequest
  /\ CutOffRequest

-----------------------------------------------------------------------------
(* What a settling call makes of a history. *)
LEMMA Settling ==
  /\ Append(<<>>, "failed") = <<"failed">>
  /\ Append(<<>>, "reply") = <<"reply">>
  /\ Append(<<>>, "timeout") = <<"timeout">>
  /\ Append(<<"failed">>, "timeout") = <<"failed", "timeout">>
<1> DEFINE s == Append(<<"failed">>, "timeout")
           t == <<"failed", "timeout">>
           A == {"failed", "timeout"}
<1>1. s \in Seq(A) /\ t \in Seq(A) /\ Len(s) = 2 /\ Len(t) = 2
  OBVIOUS
<1>2. \A k \in 1..2 : s[k] = t[k]
  OBVIOUS
<1>3. s = t
  <2> HIDE DEF s, t
  <2> QED BY <1>1, <1>2
<1>4. /\ Append(<<>>, "failed") = <<"failed">>
      /\ Append(<<>>, "reply") = <<"reply">>
      /\ Append(<<>>, "timeout") = <<"timeout">>
  OBVIOUS
<1> QED BY <1>3, <1>4

(* Every history is a sequence of answers, and only one has two of them. *)
LEMMA HistoryShape ==
  ASSUME NEW h \in Histories
  PROVE  /\ h \in Seq({"reply", "timeout", "failed"})
         /\ Len(h) > 1 => h = <<"failed", "timeout">>
<1> DEFINE A == {"reply", "timeout", "failed"}
<1>1. CASE h = <<>>
  <2>1. <<>> \in Seq(A) /\ Len(<<>>) = 0
    OBVIOUS
  <2> QED BY <1>1, <2>1
<1>2. CASE h = <<"failed">>
  <2>1. <<"failed">> \in Seq(A) /\ Len(<<"failed">>) = 1
    OBVIOUS
  <2> QED BY <1>2, <2>1
<1>3. CASE h = <<"reply">>
  <2>1. <<"reply">> \in Seq(A) /\ Len(<<"reply">>) = 1
    OBVIOUS
  <2> QED BY <1>3, <2>1
<1>4. CASE h = <<"timeout">>
  <2>1. <<"timeout">> \in Seq(A) /\ Len(<<"timeout">>) = 1
    OBVIOUS
  <2> QED BY <1>4, <2>1
<1>5. CASE h = <<"failed", "timeout">>
  <2>1. <<"failed", "timeout">> \in Seq(A)
    OBVIOUS
  <2> QED BY <1>5, <2>1
<1> QED BY <1>1, <1>2, <1>3, <1>4, <1>5 DEF Histories, Unanswered

(* The initial states satisfy the invariant. *)
LEMMA RequestsInvInit == RequestsInit => RequestsInv
BY DEF RequestsInit, RequestsInv, RequestsTypeOK, Histories, Unanswered,
       NewRequest, WaitingRequest, DoneRequest, CutOffRequest

(* sendMessage, in its three outcomes. *)
LEMMA RequestsInvSend ==
  ASSUME RequestsInv, NEW r \in Msg,
         SendNowhere(r) \/ Send(r) \/ SendRefused(r)
  PROVE  RequestsInv'
<1> USE DEF RequestsInv, RequestsTypeOK, New
<1>1. CASE SendNowhere(r)
  <2>1. answers' = [answers EXCEPT ![r] = <<"failed">>]
    BY <1>1, Settling DEF SendNowhere, Answer
  <2>2. r \in Msg \ board /\ attached
    BY <1>1 DEF SendNowhere
  <2>3. \A s \in Msg : answers'[s] \in Histories
    BY <2>1 DEF Histories, Unanswered
  <2>4. NewRequest' /\ WaitingRequest' /\ DoneRequest' /\ CutOffRequest'
    BY <1>1, <2>1, <2>2 DEF SendNowhere, NewRequest, WaitingRequest,
       DoneRequest, CutOffRequest, Unanswered
  <2>5. RequestsTypeOK'
    BY <1>1, <2>1 DEF SendNowhere
  <2> QED BY <2>3, <2>4, <2>5
<1>2. CASE Send(r)
  <2>1. /\ attached /\ r \in Msg \ board /\ attached' = attached
        /\ board' = board \cup {r} /\ linked' = linked \cup {r}
        /\ timer' = [timer EXCEPT ![r] = "armed"]
        /\ held' = held \cup {r} /\ done' = done /\ answers' = answers
        /\ answers[r] = <<>>
    BY <1>2 DEF Send, CommitTask
  <2>2. r \notin done
    BY <2>1 DEF NewRequest
  <2>3. NewRequest' /\ DoneRequest' /\ CutOffRequest'
    BY <2>1, <2>2 DEF NewRequest, DoneRequest, CutOffRequest
  <2>4. WaitingRequest'
    BY <2>1, <2>2 DEF WaitingRequest, Unanswered
  <2> QED BY <2>1, <2>3, <2>4
<1>3. CASE SendRefused(r)
  <2>1. /\ attached /\ r \in Msg \ board /\ attached' = attached
        /\ board' = board \cup {r} /\ linked' = linked \cup {r}
        /\ timer' = [timer EXCEPT ![r] = "armed"]
        /\ held' = held /\ done' = done
        /\ answers' = [answers EXCEPT ![r] = <<"failed">>]
    BY <1>3, Settling DEF SendRefused, CommitTask, Answer
  <2>2. r \notin done /\ r \notin held
    BY <2>1 DEF NewRequest
  <2>3. NewRequest' /\ DoneRequest' /\ CutOffRequest'
    BY <2>1, <2>2 DEF NewRequest, DoneRequest, CutOffRequest
  <2>4. WaitingRequest'
    BY <2>1, <2>2 DEF WaitingRequest, Unanswered
  <2>5. \A s \in Msg : answers'[s] \in Histories
    BY <2>1 DEF Histories, Unanswered
  <2>6. RequestsTypeOK'
    BY <2>1
  <2> QED BY <2>3, <2>4, <2>5, <2>6
<1> QED BY <1>1, <1>2, <1>3

(* A reply, for a request that waits, is done, or has lost its channel. *)
LEMMA RequestsInvReply ==
  ASSUME RequestsInv, NEW r \in Msg, OnReply(r)
  PROVE  RequestsInv'
<1> USE DEF RequestsInv, RequestsTypeOK
<1>0. /\ r \in held /\ held' = held \ {r}
      /\ attached' = attached /\ board' = board /\ linked' = linked
  BY DEF OnReply
<1>1. CASE r \notin linked
  <2>1. done' = done /\ timer' = timer /\ answers' = answers
    BY <1>1 DEF OnReply
  <2> QED
    BY <1>0, <2>1
    DEF NewRequest, WaitingRequest, DoneRequest, CutOffRequest
<1>2. CASE r \in linked
  <2> DEFINE stopped == board \cap (done \cup {r})
  <2>1. r \in board /\ attached
    BY <1>2 DEF CutOffRequest
  <2>2. /\ timer' = [t \in Msg |-> IF t \in stopped THEN "none" ELSE timer[t]]
        /\ done' = done \cup {r}
    BY <1>2, <2>1 DEF OnReply, ExecuteTask
  <2>3. CutOffRequest'
    BY <1>0, <2>2 DEF CutOffRequest
  <2>4. DoneRequest'
    BY <1>0, <2>1, <2>2 DEF DoneRequest
  <2>5. CASE r \in done
    <3>1. answers' = answers
      BY <1>2, <2>5 DEF OnReply, ExecuteTask
    <3>2. NewRequest' /\ WaitingRequest'
      BY <1>0, <2>1, <2>2, <3>1 DEF NewRequest, WaitingRequest
    <3> QED BY <1>0, <2>2, <2>3, <2>4, <3>1, <3>2
  <2>6. CASE r \notin done
    <3>1. answers[r] = <<>>
      BY <1>0, <2>1, <2>6 DEF WaitingRequest
    <3>2. answers' = [answers EXCEPT ![r] = <<"reply">>]
      BY <1>2, <2>1, <2>6, <3>1, Settling DEF OnReply, ExecuteTask, Answer
    <3>3. NewRequest' /\ WaitingRequest'
      BY <1>0, <2>1, <2>2, <3>2 DEF NewRequest, WaitingRequest
    <3>4. \A s \in Msg : answers'[s] \in Histories
      BY <3>2 DEF Histories
    <3>5. RequestsTypeOK'
      BY <1>0, <2>2, <3>2
    <3> QED BY <2>3, <2>4, <3>3, <3>4, <3>5
  <2> QED BY <2>5, <2>6
<1> QED BY <1>1, <1>2

(* A timer that expires belongs to a request that still waits. *)
LEMMA RequestsInvTimeout ==
  ASSUME RequestsInv, NEW r \in Msg, OnTimeout(r)
  PROVE  RequestsInv'
<1> USE DEF RequestsInv, RequestsTypeOK
<1>1. r \in board \ done /\ attached
  BY DEF OnTimeout, NewRequest, DoneRequest, CutOffRequest
<1>2. /\ timer' = [timer EXCEPT ![r] = "expired"] /\ done' = done \cup {r}
      /\ answers' = [answers EXCEPT ![r] = Append(@, "timeout")]
      /\ attached' = attached /\ board' = board
      /\ linked' = linked /\ held' = held
  BY <1>1 DEF OnTimeout, Answer
<1>3. Append(answers[r], "timeout") \in Histories
  <2>1. answers[r] = <<>> \/ answers[r] = <<"failed">>
    BY <1>1 DEF WaitingRequest, Unanswered
  <2> QED BY <2>1, Settling DEF Histories
<1>4. \A s \in Msg : answers'[s] \in Histories
  BY <1>2, <1>3
<1>5. NewRequest' /\ WaitingRequest'
  BY <1>1, <1>2 DEF NewRequest, WaitingRequest
<1>6. DoneRequest' /\ CutOffRequest'
  BY <1>1, <1>2 DEF DoneRequest, CutOffRequest
<1>7. RequestsTypeOK'
  BY <1>2, <1>3, HistoryShape
<1> QED BY <1>4, <1>5, <1>6, <1>7

(* onDetached clears every task, and every timer belongs to a task. *)
LEMMA RequestsInvDetach ==
  ASSUME RequestsInv, RequestsDetach
  PROVE  RequestsInv'
<1> USE DEF RequestsInv, RequestsTypeOK
<1>1. /\ attached /\ attached' = FALSE /\ board' = {} /\ linked' = linked \ board
      /\ timer' = [t \in Msg |-> IF t \in board THEN "none" ELSE timer[t]]
      /\ done' = done /\ held' = held /\ answers' = answers
  BY DEF RequestsDetach, ClearTimer
<1>2. \A t \in Msg : timer'[t] = "none"
  BY <1>1 DEF NewRequest
<1>3. linked \subseteq board
  BY DEF CutOffRequest
<1>4. NewRequest' /\ WaitingRequest' /\ DoneRequest'
  BY <1>1, <1>2 DEF NewRequest, WaitingRequest, DoneRequest
<1>5. CutOffRequest'
  BY <1>1, <1>2, <1>3 DEF CutOffRequest
<1>6. RequestsTypeOK'
  <2>1. timer' \in [Msg -> {"none", "armed", "expired"}]
    BY <1>1
  <2>2. linked' \subseteq Msg
    BY <1>1
  <2> QED BY <1>1, <2>1, <2>2
<1> QED BY <1>1, <1>4, <1>5, <1>6

LEMMA RequestsInvStep ==
  RequestsInv /\ [RequestsNext]_mrVars => RequestsInv'
<1> SUFFICES ASSUME RequestsInv, [RequestsNext]_mrVars PROVE RequestsInv'
  OBVIOUS
<1>1. CASE UNCHANGED mrVars
  BY <1>1 DEF mrVars, RequestsInv, RequestsTypeOK, NewRequest,
     WaitingRequest, DoneRequest, CutOffRequest
<1>2. ASSUME NEW r \in Msg, SendNowhere(r) \/ Send(r) \/ SendRefused(r)
      PROVE  RequestsInv'
  BY <1>2, RequestsInvSend
<1>3. ASSUME NEW r \in Msg, OnReply(r) PROVE RequestsInv'
  BY <1>3, RequestsInvReply
<1>4. ASSUME NEW r \in Msg, OnTimeout(r) PROVE RequestsInv'
  BY <1>4, RequestsInvTimeout
<1>5. CASE RequestsDetach
  BY <1>5, RequestsInvDetach
<1> QED BY <1>1, <1>2, <1>3, <1>4, <1>5 DEF RequestsNext, RequestsFinished

-----------------------------------------------------------------------------
LEMMA RequestsInvariant == RequestsSpec => []RequestsInv
BY RequestsInvInit, RequestsInvStep, PTL DEF RequestsSpec

(* The state of the channel has its types: task board, timers, reply       *)
(* objects and answers (message_transport.cpp).                            *)
THEOREM RequestsTypesHold == RequestsSpec => []RequestsTypeOK
<1>1. RequestsInv => RequestsTypeOK
  BY DEF RequestsInv
<1> QED BY <1>1, RequestsInvariant, PTL

(* However replies, timers and the end of the channel fall, a promise of   *)
(* sendMessage is settled once, or rejected by sendMessage and then by its *)
(* timer (MessageReply::onReply, TaskBoard::executeTask and the timer).    *)
THEOREM RequestsAnsweredOnce == RequestsSpec => []AnsweredOnce
<1>1. RequestsInv => AnsweredOnce
  BY HistoryShape DEF RequestsInv, AnsweredOnce
<1> QED BY <1>1, RequestsInvariant, PTL

(* After onDetached no timer and no reply object of any request leads to   *)
(* the deleted channel (TaskBoard::clearTimer).                            *)
THEOREM RequestsAreCutOff == RequestsSpec => []RequestsCutOff
<1>1. RequestsInv => RequestsCutOff
  BY DEF RequestsInv, RequestsCutOff, CutOffRequest
<1> QED BY <1>1, RequestsInvariant, PTL

-----------------------------------------------------------------------------
(***************************************************************************)
(* For any messages and diagnoses: OneWayToSettle.  It is nearly inductive *)
(* as it stands; what it lacks is that the diagnosis that waits was not    *)
(* settled yet, so that ending it settles it for the first time.           *)
(***************************************************************************)

(* What a promise can have been settled with. *)
Reasons == Status \cup {"rejected", "sent", "timeout"}
Outcomes == {<<>>} \cup {<<x>> : x \in Reasons}

ICTypes ==
  /\ context \in {"live", "destroyed"} /\ opening \in BOOLEAN
  /\ status \in Status
  /\ sends \subseteq Message /\ sending \subseteq Message
  /\ sendTimer \in [Message -> {"none", "armed", "endless"}]
  /\ diagnosing \in Diagnosis \cup {NoCall} /\ diagTimer \in BOOLEAN
  /\ settled \in [Call -> Outcomes]

SendsOpen ==
  /\ \A m \in sends : settled[m] = <<>> /\ (m \in sending <=> sendTimer[m] = "none")
  /\ \A m \in Message \ sends : sendTimer[m] = "none"
  /\ context = "destroyed" => sends = {}

DiagnosisOpen ==
  /\ diagTimer <=> diagnosing # NoCall
  /\ diagnosing # NoCall => settled[diagnosing] = <<>>

ICInv == ICTypes /\ SendsOpen /\ DiagnosisOpen

-----------------------------------------------------------------------------
(* A promise that was not settled is settled by one call. *)
LEMMA SettleOnce ==
  ASSUME settled \in [Call -> Outcomes], NEW c \in Call, settled[c] = <<>>,
         NEW x \in Reasons, Settle(c, x)
  PROVE  /\ settled' \in [Call -> Outcomes]
         /\ settled' = [settled EXCEPT ![c] = <<x>>]
<1>1. Append(<<>>, x) = <<x>>
  OBVIOUS
<1>2. settled' = [settled EXCEPT ![c] = <<x>>]
  BY <1>1 DEF Settle
<1> QED BY <1>2 DEF Outcomes

LEMMA ICInvInit == InterconnectInit => ICInv
BY InterconnectAssumption
DEF InterconnectInit, ICInv, ICTypes, SendsOpen, DiagnosisOpen, Outcomes, Status

(* The three things send can do. *)
LEMMA ICInvSend ==
  ASSUME ICInv, NEW m \in Message, InterconnectSend(m)
  PROVE  ICInv'
<1> USE DEF ICInv, ICTypes
<1>1. /\ settled[m] = <<>> /\ m # diagnosing /\ m \notin sends /\ m \notin sending
      /\ m \in Call /\ context = "live"
      /\ UNCHANGED <<context, opening, status, diagnosing, diagTimer, reports>>
  BY DEF InterconnectSend, Unused, Call
<1>2. CASE SendNow(m)
  BY <1>1, <1>2 DEF SendNow, SendsOpen, DiagnosisOpen
<1>3. CASE PendingSendTask(m)
  <2>1. PICK t \in {"armed", "endless"} : sendTimer' = [sendTimer EXCEPT ![m] = t]
    BY <1>3 DEF PendingSendTask
  <2> QED BY <1>1, <1>3, <2>1 DEF PendingSendTask, SendsOpen, DiagnosisOpen
<1>4. CASE SendRejected(m)
  <2>0. Settle(m, "rejected") /\ "rejected" \in Reasons
    BY <1>4 DEF SendRejected, Reasons
  <2>1. /\ settled' \in [Call -> Outcomes]
        /\ settled' = [settled EXCEPT ![m] = <<"rejected">>]
    BY <1>1, <2>0, SettleOnce
  <2>2. UNCHANGED <<sends, sendTimer, sending>>
    BY <1>4 DEF SendRejected
  <2>3. SendsOpen'
    BY <1>1, <2>1, <2>2 DEF SendsOpen, Call
  <2>4. DiagnosisOpen'
    BY <1>1, <2>1 DEF DiagnosisOpen, Call
  <2> QED BY <1>1, <2>1, <2>2, <2>3, <2>4
<1> QED BY <1>2, <1>3, <1>4 DEF InterconnectSend

(* diagnosis: it waits, or is settled at once. *)
LEMMA ICInvDiagnose ==
  ASSUME ICInv, NEW d \in Diagnosis, Diagnose(d)
  PROVE  ICInv'
<1> USE DEF ICInv, ICTypes
<1>1. /\ settled[d] = <<>> /\ d # diagnosing /\ d \notin sends
      /\ d \in Call /\ d # NoCall
      /\ UNCHANGED <<context, opening, status, sends, sendTimer, sending, reports>>
  BY InterconnectAssumption DEF Diagnose, Unused, Call
<1>2. CASE diagnosing' = d /\ diagTimer' = TRUE /\ UNCHANGED settled
  BY <1>1, <1>2 DEF SendsOpen, DiagnosisOpen
<1>3. CASE (\E x \in Reasons : Settle(d, x)) /\ UNCHANGED <<diagnosing, diagTimer>>
  <2>1. PICK x \in Reasons : Settle(d, x)
    BY <1>3
  <2>2. /\ settled' \in [Call -> Outcomes]
        /\ settled' = [settled EXCEPT ![d] = <<x>>]
    BY <1>1, <2>1, SettleOnce
  <2>3. SendsOpen'
    BY <1>1, <2>2 DEF SendsOpen, Call
  <2>4. DiagnosisOpen'
    BY <1>1, <1>3, <2>2 DEF DiagnosisOpen, Call
  <2> QED BY <1>1, <1>3, <2>2, <2>3, <2>4
<1>4. status \in Reasons /\ "rejected" \in Reasons
  BY DEF Reasons
<1> QED BY <1>2, <1>3, <1>4 DEF Diagnose

(* The end of the diagnosis that waits, with whatever ends it. *)
LEMMA DiagnosisEnds ==
  ASSUME ICInv, NEW x \in Reasons, ProcessPendingDiagnosis(x)
  PROVE  /\ settled' \in [Call -> Outcomes]
         /\ \A m \in Message : settled'[m] = settled[m]
         /\ diagnosing' = NoCall /\ diagTimer' = FALSE
<1> USE DEF ICInv, ICTypes
<1>1. diagnosing' = NoCall /\ diagTimer' = FALSE
  BY DEF ProcessPendingDiagnosis
<1>2. CASE diagnosing = NoCall
  BY <1>1, <1>2 DEF ProcessPendingDiagnosis
<1>3. CASE diagnosing # NoCall
  <2>1. diagnosing \in Diagnosis /\ diagnosing \in Call /\ settled[diagnosing] = <<>>
    BY <1>3 DEF DiagnosisOpen, Call
  <2>2. Settle(diagnosing, x)
    BY <1>3 DEF ProcessPendingDiagnosis
  <2>3. /\ settled' \in [Call -> Outcomes]
        /\ settled' = [settled EXCEPT ![diagnosing] = <<x>>]
    BY <2>1, <2>2, SettleOnce
  <2> QED BY <1>1, <2>1, <2>3, InterconnectAssumption DEF Call
<1> QED BY <1>2, <1>3

(* miwear's report of a status, and its broken pipe. *)
LEMMA ICInvReport ==
  ASSUME ICInv, NEW st \in Status \ {"init"},
         MiwearConnectCallback(st)
  PROVE  ICInv'
<1> USE DEF ICInv, ICTypes
<1>1. /\ status' \in Status /\ sends' = sends
      /\ UNCHANGED <<context, opening>>
      /\ st \in Reasons
  BY DEF MiwearConnectCallback, Reasons
<1>2. /\ settled' \in [Call -> Outcomes]
      /\ \A m \in Message : settled'[m] = settled[m]
      /\ diagnosing' \in Diagnosis \cup {NoCall} /\ diagTimer' \in BOOLEAN
      /\ DiagnosisOpen'
  <2>1. CASE st \in {"id_sent", "closed"}
    BY <2>1 DEF MiwearConnectCallback, DiagnosisOpen
  <2>2. CASE st \notin {"id_sent", "closed"}
    BY <1>1, <2>2, DiagnosisEnds DEF MiwearConnectCallback, DiagnosisOpen
  <2> QED BY <2>1, <2>2
<1>3. /\ sending' \subseteq Message
      /\ sendTimer' \in [Message -> {"none", "armed", "endless"}]
      /\ SendsOpen'
  <2>1. CASE st = "connected"
    <3>1. /\ sending' = sending \cup {m \in sends : sendTimer[m] # "none"}
          /\ sendTimer' = [m \in Message |->
                             IF m \in sends THEN "none" ELSE sendTimer[m]]
      BY <2>1 DEF MiwearConnectCallback, ProcessPendingSendTasks
    <3> QED BY <1>1, <1>2, <3>1 DEF SendsOpen
  <2>2. CASE st # "connected"
    BY <1>1, <1>2, <2>2 DEF MiwearConnectCallback, SendsOpen
  <2> QED BY <2>1, <2>2
<1> QED BY <1>1, <1>2, <1>3

(* The pipe fails, or the timer of the diagnosis expires. *)
LEMMA ICInvDiagnosisEnds ==
  ASSUME ICInv, MiwearPipeFails \/ TimerDiagnosisCallback
  PROVE  ICInv'
<1> USE DEF ICInv, ICTypes
<1>1. UNCHANGED <<context, opening, status, sends, sendTimer, sending>>
  BY DEF MiwearPipeFails, TimerDiagnosisCallback
<1>2. \E x \in Reasons : ProcessPendingDiagnosis(x)
  <2>1. status \in Reasons /\ "timeout" \in Reasons
    BY DEF Reasons
  <2> QED BY <2>1 DEF MiwearPipeFails, TimerDiagnosisCallback
<1>3. /\ settled' \in [Call -> Outcomes]
      /\ \A m \in Message : settled'[m] = settled[m]
      /\ diagnosing' = NoCall /\ diagTimer' = FALSE
  BY <1>2, DiagnosisEnds
<1> QED BY <1>1, <1>3 DEF SendsOpen, DiagnosisOpen

(* The end of a task, if it is still there. *)
LEMMA SendEnds ==
  ASSUME ICInv, NEW m \in Message, NEW x \in Reasons, ProcessSendResult(m, x),
         diagnosing' = diagnosing, diagTimer' = diagTimer
  PROVE  /\ settled' \in [Call -> Outcomes]
         /\ sends' = sends \ {m}
         /\ \A k \in sends' : settled'[k] = settled[k]
         /\ DiagnosisOpen'
<1> USE DEF ICInv, ICTypes
<1>1. sends' = sends \ {m}
  BY DEF ProcessSendResult
<1>2. CASE m \in sends
  <2>1. m \in Call /\ settled[m] = <<>> /\ Settle(m, x)
    BY <1>2 DEF ProcessSendResult, SendsOpen, Call
  <2>2. /\ settled' \in [Call -> Outcomes]
        /\ settled' = [settled EXCEPT ![m] = <<x>>]
    BY <2>1, SettleOnce
  <2> QED BY <1>1, <2>2, InterconnectAssumption DEF DiagnosisOpen, Call
<1>3. CASE m \notin sends
  BY <1>1, <1>3 DEF ProcessSendResult, DiagnosisOpen
<1> QED BY <1>2, <1>3

(* miwear's answer and the timer of a message. *)
LEMMA ICInvResult ==
  ASSUME ICInv, NEW m \in Message, MiwearSendCallback(m) \/ TimerSendCallback(m)
  PROVE  ICInv'
<1> USE DEF ICInv, ICTypes
<1>1. CASE MiwearSendCallback(m)
  <2>1. /\ m \in sending /\ sending' = sending \ {m}
        /\ UNCHANGED <<context, opening, status, sendTimer, diagnosing, diagTimer>>
    BY <1>1 DEF MiwearSendCallback
  <2>2. CASE context = "live"
    <3>1. PICK x \in {"sent", "failed"} : ProcessSendResult(m, x)
      BY <1>1, <2>2 DEF MiwearSendCallback
    <3>2. /\ settled' \in [Call -> Outcomes] /\ sends' = sends \ {m}
          /\ \A k \in sends' : settled'[k] = settled[k]
          /\ DiagnosisOpen'
      <4>1. x \in Reasons
        BY <3>1 DEF Reasons, Status
      <4> QED BY <2>1, <3>1, <4>1, SendEnds
    <3> QED BY <2>1, <3>2 DEF SendsOpen
  <2>3. CASE context # "live"
    <3>1. UNCHANGED <<sends, settled>>
      BY <1>1, <2>3 DEF MiwearSendCallback
    <3>2. sends = {}
      BY <2>3 DEF SendsOpen
    <3> QED BY <2>1, <3>1, <3>2 DEF SendsOpen, DiagnosisOpen
  <2> QED BY <2>2, <2>3
<1>2. CASE TimerSendCallback(m)
  <2>1. /\ sendTimer[m] = "armed" /\ sendTimer' = [sendTimer EXCEPT ![m] = "none"]
        /\ UNCHANGED <<context, opening, status, sending, diagnosing, diagTimer>>
        /\ ProcessSendResult(m, "timeout")
    BY <1>2 DEF TimerSendCallback
  <2>2. /\ settled' \in [Call -> Outcomes] /\ sends' = sends \ {m}
        /\ \A k \in sends' : settled'[k] = settled[k]
        /\ DiagnosisOpen'
    <3>1. "timeout" \in Reasons
      BY DEF Reasons
    <3> QED BY <2>1, <3>1, SendEnds
  <2>3. SendsOpen'
    BY <2>1, <2>2 DEF SendsOpen
  <2> QED BY <2>1, <2>2, <2>3
<1> QED BY <1>1, <1>2

(* Shutdown, and connect, settle nothing. *)
LEMMA ICInvContext ==
  ASSUME ICInv, Connect \/ Shutdown
  PROVE  ICInv'
<1> USE DEF ICInv, ICTypes
<1>1. CASE Connect
  BY <1>1 DEF Connect, SendsOpen, DiagnosisOpen
<1>2. CASE Shutdown
  BY <1>2 DEF Shutdown, SendsOpen, DiagnosisOpen
<1> QED BY <1>1, <1>2

LEMMA ICInvStep == ICInv /\ [InterconnectNext]_icVars => ICInv'
<1> SUFFICES ASSUME ICInv, [InterconnectNext]_icVars PROVE ICInv'
  OBVIOUS
<1>1. CASE UNCHANGED icVars
  BY <1>1 DEF icVars, ICInv, ICTypes, SendsOpen, DiagnosisOpen
<1>2. CASE Connect \/ Shutdown
  BY <1>2, ICInvContext
<1>3. ASSUME NEW m \in Message, InterconnectSend(m) PROVE ICInv'
  BY <1>3, ICInvSend
<1>4. ASSUME NEW m \in Message, MiwearSendCallback(m) \/ TimerSendCallback(m)
      PROVE  ICInv'
  BY <1>4, ICInvResult
<1>5. ASSUME NEW d \in Diagnosis, Diagnose(d) PROVE ICInv'
  BY <1>5, ICInvDiagnose
<1>6. ASSUME NEW st \in Status \ {"init"}, MiwearConnectCallback(st) PROVE ICInv'
  BY <1>6, ICInvReport
<1>7. CASE MiwearPipeFails \/ TimerDiagnosisCallback
  BY <1>7, ICInvDiagnosisEnds
<1> QED
  BY <1>1, <1>2, <1>3, <1>4, <1>5, <1>6, <1>7
  DEF InterconnectNext, InterconnectFinished

-----------------------------------------------------------------------------
(* However connection reports, answers of miwear and timers fall, a        *)
(* message or diagnosis that waits has exactly one thing that can settle   *)
(* it, and no promise is settled twice (ProcessPendingSendTasks,           *)
(* ProcessSendResult, ProcessPendingDiagnosis, shutdown).                  *)
THEOREM InterconnectSettlesOnce == InterconnectSpec => []OneWayToSettle
<1>1. ICInv => OneWayToSettle
  <2> SUFFICES ASSUME ICInv PROVE \A c \in Call : Len(settled[c]) <= 1
    BY DEF ICInv, ICTypes, SendsOpen, DiagnosisOpen, OneWayToSettle
  <2> TAKE c \in Call
  <2>1. settled[c] = <<>> \/ \E x \in Reasons : settled[c] = <<x>>
    BY DEF ICInv, ICTypes, Outcomes
  <2>2. CASE settled[c] = <<>>
    <3>1. Len(<<>>) = 0
      OBVIOUS
    <3> QED BY <2>2, <3>1
  <2>3. ASSUME NEW x \in Reasons, settled[c] = <<x>>
        PROVE  Len(settled[c]) <= 1
    <3>1. Len(<<x>>) = 1
      OBVIOUS
    <3> QED BY <2>3, <3>1
  <2> QED BY <2>1, <2>2, <2>3
<1> QED BY <1>1, ICInvInit, ICInvStep, PTL DEF InterconnectSpec

(* Promises are settled with texts, and timers, tasks and the diagnosis    *)
(* are what the code makes of them.                                        *)
THEOREM InterconnectTypesHold == InterconnectSpec => []InterconnectTypeOK
<1>1. ICInv => InterconnectTypeOK
  <2> SUFFICES ASSUME ICInv PROVE settled \in [Call -> Seq(Reasons)]
    BY DEF ICInv, ICTypes, InterconnectTypeOK, Reasons
  <2>1. \A x \in Reasons : <<x>> \in Seq(Reasons)
    OBVIOUS
  <2>2. <<>> \in Seq(Reasons)
    OBVIOUS
  <2>3. Outcomes \subseteq Seq(Reasons)
    BY <2>1, <2>2 DEF Outcomes
  <2> QED BY <2>3 DEF ICInv, ICTypes
<1> QED BY <1>1, ICInvInit, ICInvStep, PTL DEF InterconnectSpec

-----------------------------------------------------------------------------
(***************************************************************************)
(* While a call waits or an instance is subscribed, a topic is open.       *)
(***************************************************************************)

(* At the destruction of the prototype all topics are closed and the       *)
(* subscriptions are not looked at: none can be left, as an instance       *)
(* subscribes once and its detach erases that.                             *)
SubsInv ==
  /\ subList \in Seq(Client)
  /\ \A n \in DOMAIN subList : subList[n] \in present
  /\ \A m, n \in DOMAIN subList : subList[m] = subList[n] => m = n

LocationsInv ==
  /\ SubsInv
  /\ topic_list \in Seq(GnssTopic)
  /\ TopicForActive

-----------------------------------------------------------------------------
(* Topics *)

(* Whoever closes a topic has ended the last activity. *)
LEMMA CloseKeepsForActive ==
  ASSUME topic_list \in Seq(GnssTopic), CloseIfIdle
  PROVE  /\ topic_list' \in Seq(GnssTopic)
         /\ Active' => topic_list' = topic_list
  BY DEF CloseIfIdle, MustClose, CloseTopic, Active

(* Whoever begins an activity finds a topic or opens one. *)
LEMMA TopicIsAtHand ==
  ASSUME topic_list \in Seq(GnssTopic), TopicForActive, TopicAtHand
  PROVE  topic_list' \in Seq(GnssTopic) /\ topic_list' # <<>>
<1>1. CASE Active  BY <1>1 DEF TopicAtHand, TopicForActive
<1>2. CASE ~Active
  <2>1. PICK t \in GnssTopic : topic_list' = Append(topic_list, t)
    BY <1>2 DEF TopicAtHand, OpenTopic
  <2> QED BY <2>1
<1> QED BY <1>1, <1>2

-----------------------------------------------------------------------------
(* Subscriptions *)

LEMMA SubscribeKeepsSubs ==
  ASSUME SubsInv, NEW c \in Client, SubscribeLocation(c)
  PROVE  SubsInv'
<1>1. /\ subList \in Seq(Client) /\ c \in present /\ present' = present
      /\ subList' = Append(subList, c)
  BY DEF SubsInv, SubscribeLocation
<1>2. \A n \in DOMAIN subList : subList[n] # c
  BY <1>1 DEF SubscribeLocation, Contains
<1>3. /\ subList' \in Seq(Client) /\ Len(subList') = Len(subList) + 1
      /\ \A n \in 1..Len(subList) : subList'[n] = subList[n]
      /\ subList'[Len(subList) + 1] = c
  BY <1>1
<1>4. \A n \in 1..Len(subList) : subList[n] \in present /\ subList[n] # c
  BY <1>1, <1>2 DEF SubsInv
<1>5. \A m, n \in 1..Len(subList) : subList[m] = subList[n] => m = n
  BY <1>1 DEF SubsInv
<1>6. Len(subList) \in Nat /\ DOMAIN subList' = 1..Len(subList) + 1
  BY <1>1, <1>3
<1>7. \A n \in DOMAIN subList' : subList'[n] \in present'
  BY <1>1, <1>3, <1>4, <1>6
<1>8. \A m, n \in DOMAIN subList' : subList'[m] = subList'[n] => m = n
  BY <1>3, <1>4, <1>5, <1>6
<1> QED BY <1>3, <1>7, <1>8 DEF SubsInv

(* What is erased was the only one of the instance. *)
LEMMA EndKeepsSubs ==
  ASSUME SubsInv, NEW c \in Client, EndSubscription(c)
  PROVE  /\ subList' \in Seq(Client)
         /\ \A n \in DOMAIN subList' : subList'[n] \in present \ {c}
         /\ \A m, n \in DOMAIN subList' : subList'[m] = subList'[n] => m = n
<1>1. CASE ~Contains(subList, c)
  BY <1>1 DEF EndSubscription, Contains, SubsInv
<1>2. CASE Contains(subList, c)
  <2>1. PICK n \in DOMAIN subList :
          subList[n] = c /\ subList' = RemoveAt(subList, n)
    BY <1>2 DEF EndSubscription
  <2>2. subList \in Seq(Client) /\ Len(subList) \in Nat /\ n \in 1..Len(subList)
    BY <2>1 DEF SubsInv
  <2>3. /\ subList' \in Seq(Client) /\ Len(subList') = Len(subList) - 1
        /\ \A k \in 1..Len(subList) - 1 :
             subList'[k] = IF k < n THEN subList[k] ELSE subList[k + 1]
    BY <2>1, <2>2, ErasedAt
  <2>4. \A m, k \in 1..Len(subList) : subList[m] = subList[k] => m = k
    BY <2>2 DEF SubsInv
  <2>5. \A k \in 1..Len(subList) : subList[k] \in present
    BY <2>2 DEF SubsInv
  <2>6. DOMAIN subList' = 1..Len(subList) - 1  BY <2>3
  <2>7. ASSUME NEW k \in 1..Len(subList) - 1
        PROVE  subList'[k] \in present \ {c}
    <3>1. CASE k < n  BY <3>1, <2>1, <2>2, <2>3, <2>4, <2>5
    <3>2. CASE ~(k < n)  BY <3>2, <2>1, <2>2, <2>3, <2>4, <2>5
    <3> QED BY <3>1, <3>2
  <2>8. ASSUME NEW m \in 1..Len(subList) - 1, NEW k \in 1..Len(subList) - 1,
               subList'[m] = subList'[k]
        PROVE  m = k
    <3>1. PICK i \in 1..Len(subList) :
            /\ subList'[m] = subList[i] /\ i = IF m < n THEN m ELSE m + 1
      BY <2>2, <2>3
    <3>2. PICK j \in 1..Len(subList) :
            /\ subList'[k] = subList[j] /\ j = IF k < n THEN k ELSE k + 1
      BY <2>2, <2>3
    <3>3. i = j
      BY <2>4, <2>8, <3>1, <3>2
    <3> QED BY <2>2, <3>1, <3>2, <3>3
  <2> QED BY <2>3, <2>6, <2>7, <2>8
<1> QED BY <1>1, <1>2

-----------------------------------------------------------------------------
(* The steps *)

LEMMA InitLocations == LocationsInit => LocationsInv
  BY DEF LocationsInit, LocationsInv, SubsInv, TopicForActive, Active

(* Steps that leave the subscriptions alone, begin no activity and close   *)
(* no topic somebody needs.                                                *)
LEMMA QuietStep ==
  ASSUME LocationsInv, UNCHANGED <<present, subList>>,
         topic_list' \in Seq(GnssTopic),
         Active' => Active /\ topic_list' = topic_list
  PROVE  LocationsInv'
  BY DEF LocationsInv, SubsInv, TopicForActive, Active

LEMMA MethodsKeepTopics ==
  ASSUME LocationsInv, NEW c \in Client,
         \/ \E r \in GetCall : GetLocation(r, c)
         \/ SubscribeLocation(c) \/ UnsubscribeLocation(c)
         \/ LocationsDetach(c)
  PROVE  LocationsInv'
<1>1. ASSUME NEW r \in GetCall, GetLocation(r, c) PROVE LocationsInv'
  <2>1. topic_list' \in Seq(GnssTopic) /\ topic_list' # <<>>
    BY <1>1, TopicIsAtHand DEF GetLocation, LocationsInv
  <2>2. SubsInv'  BY <1>1 DEF GetLocation, LocationsInv, SubsInv
  <2> QED BY <2>1, <2>2 DEF LocationsInv, TopicForActive
<1>2. ASSUME SubscribeLocation(c) PROVE LocationsInv'
  <2>1. topic_list' \in Seq(GnssTopic) /\ topic_list' # <<>>
    BY <1>2, TopicIsAtHand DEF SubscribeLocation, LocationsInv
  <2>2. SubsInv'  BY <1>2, SubscribeKeepsSubs DEF LocationsInv
  <2> QED BY <2>1, <2>2 DEF LocationsInv, TopicForActive
<1>3. ASSUME EndSubscription(c), getList # <<>> \/ getList' = getList
      PROVE  TopicForActive' /\ topic_list' \in Seq(GnssTopic)
  <2>1. CASE Contains(subList, c)
    <3>1. CloseIfIdle  BY <1>3, <2>1 DEF EndSubscription
    <3>2. Active  BY <2>1 DEF Active, Contains
    <3> QED BY <3>1, <3>2, CloseKeepsForActive
            DEF LocationsInv, TopicForActive
  <2>2. CASE ~Contains(subList, c)
    BY <1>3, <2>2 DEF EndSubscription, LocationsInv, TopicForActive, Active
  <2> QED BY <2>1, <2>2
<1>4. ASSUME UnsubscribeLocation(c) PROVE LocationsInv'
  <2>1. EndSubscription(c) /\ getList' = getList /\ present' = present
    BY <1>4 DEF UnsubscribeLocation
  <2>2. SubsInv'  BY <2>1, EndKeepsSubs DEF LocationsInv, SubsInv
  <2> QED BY <1>3, <2>1, <2>2 DEF LocationsInv
<1>5. ASSUME LocationsDetach(c) PROVE LocationsInv'
  <2>1. EndSubscription(c) /\ present' = present \ {c}
    BY <1>5 DEF LocationsDetach
  <2>2. getList # <<>> \/ getList' = getList
    BY <1>5 DEF LocationsDetach, DropCalls, Calls
  <2>3. SubsInv'  BY <2>1, EndKeepsSubs DEF LocationsInv, SubsInv
  <2> QED BY <1>3, <2>1, <2>2, <2>3 DEF LocationsInv
<1> QED BY <1>1, <1>2, <1>4, <1>5

(* The steps of gnss_topic_cb, and those of the timer.                     *)
SampleSteps == BadSample \/ Sample \/ SampleAnswered \/ SampleReturns
TimerSteps == TimerHandler \/ TimerAnswered

LEMMA CallbacksAre ==
  ASSUME SampleSteps \/ TimerSteps
  PROVE  /\ UNCHANGED <<present, subList, ticker, ref_count, location>>
         /\ getList' = getList \/ (getList # <<>> /\ getList' = Tail(getList))
         /\ CloseIfIdle \/ UNCHANGED <<topic_list, closing>>
<1>1. CASE BadSample \/ SampleReturns
  BY <1>1 DEF BadSample, SampleReturns, EndSample
<1>2. CASE Sample
  BY <1>2 DEF Sample, CallSubscribers, EndSample
<1>3. CASE SampleAnswered
  BY <1>3 DEF SampleAnswered, FrontReturns, CallSubscribers, EndSample
<1>4. CASE TimerSteps
  BY <1>4 DEF TimerSteps, TimerHandler, TimerAnswered, FrontReturns, RejectLate
<1> QED BY <1>1, <1>2, <1>3, <1>4 DEF SampleSteps

LEMMA CallbacksKeepTopics ==
  ASSUME LocationsInv, SampleSteps \/ TimerSteps
  PROVE  LocationsInv'
<1>1. topic_list \in Seq(GnssTopic)  BY DEF LocationsInv
<1>2. UNCHANGED <<present, subList>> /\ (getList # <<>> \/ getList' = getList)
  BY CallbacksAre
<1>3. CloseIfIdle \/ UNCHANGED topic_list
  BY CallbacksAre
<1>4. topic_list' \in Seq(GnssTopic) /\ (Active' => topic_list' = topic_list)
  BY <1>1, <1>3, CloseKeepsForActive
<1>5. Active' => Active  BY <1>2 DEF Active
<1> QED BY <1>2, <1>4, <1>5, QuietStep

LEMMA DestroyKeepsTopics ==
  ASSUME LocationsInv, LocationsDestroy
  PROVE  LocationsInv'
<1>1. subList \in Seq(Client) /\ DOMAIN subList = {}
  BY DEF LocationsDestroy, LocationsInv, SubsInv
<1>2. subList = <<>>  BY <1>1
<1>3. /\ UNCHANGED <<present, subList>>
      /\ getList' = <<>> /\ topic_list' = <<>>
  BY DEF LocationsDestroy
<1> QED BY <1>2, <1>3, QuietStep DEF Active

LEMMA StepLocations == LocationsInv /\ [LocationsNext]_loVars => LocationsInv'
<1> SUFFICES ASSUME LocationsInv, [LocationsNext]_loVars PROVE LocationsInv'
  OBVIOUS
<1>1. topic_list \in Seq(GnssTopic)  BY DEF LocationsInv
<1>2. ASSUME UNCHANGED <<present, getList, subList, topic_list>>
      PROVE  LocationsInv'
  BY <1>1, <1>2, QuietStep DEF Active
<1>3. ASSUME NEW t \in GnssTopic, GnssTopicClosed(t) \/ GnssBatch(t)
      PROVE  LocationsInv'
  BY <1>2, <1>3 DEF GnssTopicClosed, GnssBatch
<1>4. ASSUME NEW r \in GetCall, NEW c \in Client, GetLocation(r, c)
      PROVE  LocationsInv'
  BY <1>4, MethodsKeepTopics
<1>5. ASSUME NEW c \in Client,
             \/ SubscribeLocation(c) \/ UnsubscribeLocation(c)
             \/ LocationsDetach(c)
      PROVE  LocationsInv'
  BY <1>5, MethodsKeepTopics
<1>6. ASSUME NEW r \in GetCall, TimePasses(r) PROVE LocationsInv'
  <2>1. UNCHANGED <<present, subList, topic_list>> /\ getList # <<>>
    BY <1>6 DEF TimePasses
  <2> QED BY <1>1, <2>1, QuietStep DEF Active
<1>7. CASE SampleSteps \/ TimerSteps
  BY <1>7, CallbacksKeepTopics
<1>9. CASE LocationsDestroy  BY <1>9, DestroyKeepsTopics
<1>10. CASE TimerClosed \/ UNCHANGED loVars
  BY <1>2, <1>10 DEF TimerClosed, loVars
<1> QED BY <1>3, <1>4, <1>5, <1>6, <1>7, <1>9, <1>10
        DEF LocationsNext, SampleSteps, TimerSteps

(* Whoever waits for a position, or subscribed, has a topic that brings    *)
(* samples: no method, sample, timeout or detach of another instance takes *)
(* the last one away, for every number of instances, calls and topics.     *)
THEOREM LocationsHaveTopic == LocationsSpec => []TopicForActive
<1>1. LocationsInit => LocationsInv  BY InitLocations
<1>2. LocationsInv /\ [LocationsNext]_loVars => LocationsInv'
  BY StepLocations
<1>3. LocationsInv => TopicForActive  BY DEF LocationsInv
<1> QED BY <1>1, <1>2, <1>3, PTL DEF LocationsSpec

-----------------------------------------------------------------------------
(***************************************************************************)
(* Each reference to the location_context has its holder: the timer, or a  *)
(* topic that is open or whose close callback is to come.                  *)
(***************************************************************************)

(* A topic is open or closing, and open once.                              *)
TopicsApart ==
  /\ topic_list \in Seq(GnssTopic) /\ IsInjective(topic_list)
  /\ closing \subseteq GnssTopic /\ IsFiniteSet(closing)
  /\ Range(topic_list) \cap closing = {}

Holders == Len(topic_list) + Cardinality(closing)

(* The location_context has a reference for its timer and for each topic,  *)
(* until their close callbacks; it is deleted with the last.               *)
ContextCounted ==
  /\ ref_count = Holders + (IF ticker = "closed" THEN 0 ELSE 1)
  /\ location = "deleted" <=> ref_count = 0

LocationsCountInv ==
  /\ LocationsTypeOK /\ TopicsApart /\ ContextCounted
  /\ gnss.at # NoClient => gnss.left > 0
  /\ ticker # "running" => present = {}

LEMMA TopicsCounted ==
  ASSUME TopicsApart
  PROVE  Holders \in Nat /\ Len(topic_list) \in Nat /\ Cardinality(closing) \in Nat
BY FS_CardinalityType, LenProperties DEF TopicsApart, Holders

LEMMA OpenCounts ==
  ASSUME TopicsApart, OpenTopic, closing' = closing
  PROVE  TopicsApart' /\ Holders' = Holders + 1 /\ ref_count' = ref_count + 1
<1>1. PICK t \in GnssTopic \ (ToSet(topic_list) \cup closing) :
        topic_list' = Append(topic_list, t)
  BY DEF OpenTopic
<1>2. ToSet(topic_list) = Range(topic_list)
  BY DEF ToSet, Range
<1>3. topic_list \in Seq(GnssTopic) /\ IsInjective(topic_list)
      /\ t \notin Range(topic_list)
  BY <1>1, <1>2 DEF TopicsApart
<1>4. /\ topic_list' \in Seq(GnssTopic) /\ Len(topic_list') = Len(topic_list) + 1
      /\ IsInjective(topic_list') /\ Range(topic_list') = Range(topic_list) \cup {t}
  BY <1>1, <1>3, AppendProperties, InjectiveAppend
<1>5. TopicsApart'
  BY <1>1, <1>4 DEF TopicsApart
<1>6. Holders' = Holders + 1
  BY <1>4, TopicsCounted DEF Holders
<1> QED BY <1>5, <1>6 DEF OpenTopic

LEMMA AtHandCounts ==
  ASSUME TopicsApart, TopicAtHand, closing' = closing,
         ref_count \in Nat
  PROVE  /\ TopicsApart' /\ Holders' - Holders = ref_count' - ref_count
         /\ Holders' \in Nat /\ ref_count' \in {ref_count, ref_count + 1}
<1>1. Holders \in Nat
  BY TopicsCounted
<1>2. CASE Active
  <2>1. UNCHANGED <<topic_list, ref_count>>
    BY <1>2 DEF TopicAtHand
  <2> QED BY <1>1, <2>1 DEF TopicsApart, Holders
<1>3. CASE ~Active
  BY <1>1, <1>3, OpenCounts DEF TopicAtHand
<1> QED BY <1>2, <1>3

(* A topic that is closed moves from one holder to the other.              *)
LEMMA CloseCounts ==
  ASSUME TopicsApart, CloseIfIdle
  PROVE  TopicsApart' /\ Holders' = Holders
<1>1. CASE MustClose
  <2> DEFINE t == Head(topic_list)
  <2>1. /\ topic_list # <<>> /\ topic_list' = Tail(topic_list)
        /\ closing' = closing \cup {t}
    BY <1>1 DEF CloseIfIdle, MustClose, CloseTopic
  <2>2. topic_list \in Seq(GnssTopic) /\ IsInjective(topic_list)
    BY DEF TopicsApart
  <2>3. /\ topic_list' \in Seq(GnssTopic) /\ IsInjective(topic_list')
        /\ Range(topic_list) = Range(topic_list') \cup {t}
        /\ t \notin Range(topic_list') /\ t \in GnssTopic
        /\ Len(topic_list') = Len(topic_list) - 1
    BY <2>1, <2>2, RangeTail, InjectiveTail, HeadTailProperties
  <2> HIDE DEF t
  <2>4. IsFiniteSet(closing) /\ t \notin closing
    BY <2>3 DEF TopicsApart
  <2>5. IsFiniteSet(closing') /\ Cardinality(closing') = Cardinality(closing) + 1
    BY <2>1, <2>4, FS_AddElement
  <2>6. TopicsApart'
    BY <2>1, <2>3, <2>5 DEF TopicsApart
  <2>7. Holders' = Holders
    BY <2>3, <2>5, TopicsCounted DEF Holders
  <2> QED BY <2>6, <2>7
<1>2. CASE ~MustClose
  BY <1>2 DEF CloseIfIdle, TopicsApart, Holders
<1> QED BY <1>1, <1>2

(* Of the waiting calls some are dropped, or one is added or grows late.   *)
LEMMA GetsTyped ==
  ASSUME LocationsTypeOK, LocationsNext
  PROVE  getList' \in Seq(GetMeta)
<1>1. getList \in Seq(GetMeta) /\ Len(getList) \in Nat
      /\ DOMAIN getList = 1..Len(getList)
  BY DEF LocationsTypeOK
<1>2. ASSUME getList' = getList PROVE getList' \in Seq(GetMeta)
  BY <1>1, <1>2
<1>3. ASSUME NEW r \in GetCall, NEW c \in Client, GetLocation(r, c)
      PROVE  getList' \in Seq(GetMeta)
  <2>1. [pid |-> r, instance |-> c, late |-> FALSE] \in GetMeta
    BY DEF GetMeta
  <2> QED BY <1>1, <1>3, <2>1, AppendProperties DEF GetLocation
<1>4. ASSUME NEW c \in Client, LocationsDetach(c)
      PROVE  getList' \in Seq(GetMeta)
  <2>1. CASE Calls(c) = {}
    BY <1>1, <1>4, <2>1 DEF LocationsDetach, DropCalls
  <2>2. CASE Calls(c) # {}
    <3> DEFINE left == Len(getList) - Cardinality(Calls(c))
    <3>1. Calls(c) \subseteq 1..Len(getList)
      BY <1>1 DEF Calls
    <3>2. /\ IsFiniteSet(1..Len(getList))
          /\ Cardinality(1..Len(getList)) = Len(getList)
      BY <1>1, UpToCounted
    <3>3. IsFiniteSet(Calls(c)) /\ Cardinality(Calls(c)) <= Len(getList)
      BY <3>1, <3>2, FS_Subset
    <3>4. left \in Nat
      BY <1>1, <3>3, FS_CardinalityType
    <3>5. PICK kept \in [1..left -> DOMAIN getList \ Calls(c)] :
            getList' = [i \in DOMAIN kept |-> getList[kept[i]]]
      BY <1>4, <2>2 DEF LocationsDetach, DropCalls
    <3> HIDE DEF left
    <3>6. \A i \in 1..left : getList[kept[i]] \in GetMeta
      BY <1>1, <3>5
    <3>7. getList' \in [1..left -> GetMeta]
      BY <3>5, <3>6
    <3> QED BY <3>4, <3>7, SeqDef
  <2> QED BY <2>1, <2>2
<1>5. CASE SampleSteps \/ TimerSteps
  BY <1>1, <1>5, CallbacksAre, HeadTailProperties
<1>6. ASSUME NEW r \in GetCall, TimePasses(r)
      PROVE  getList' \in Seq(GetMeta)
  <2>1. PICK n \in DOMAIN getList :
          getList' = [getList EXCEPT ![n].late = TRUE]
    BY <1>6 DEF TimePasses
  <2>2. [getList[n] EXCEPT !.late = TRUE] \in GetMeta
    <3>1. getList[n] \in GetMeta
      BY <1>1, <2>1
    <3> QED BY <3>1 DEF GetMeta
  <2>3. getList' = [getList EXCEPT ![n] = [getList[n] EXCEPT !.late = TRUE]]
    BY <2>1
  <2> QED BY <1>1, <2>2, <2>3, ExceptSeq
<1>8. CASE LocationsDestroy
  BY <1>8 DEF LocationsDestroy
<1>9. ASSUME NEW t \in GnssTopic, GnssTopicClosed(t) \/ GnssBatch(t)
      PROVE  getList' = getList
  BY <1>9 DEF GnssTopicClosed, GnssBatch
<1>10. ASSUME NEW c \in Client, SubscribeLocation(c) \/ UnsubscribeLocation(c)
       PROVE  getList' = getList
  BY <1>10 DEF SubscribeLocation, UnsubscribeLocation
<1>11. ASSUME TimerClosed
       PROVE  getList' = getList
  BY <1>11 DEF TimerClosed
<1> QED BY <1>2, <1>3, <1>4, <1>5, <1>6, <1>8, <1>9, <1>10, <1>11
        DEF LocationsNext, SampleSteps, TimerSteps

LEMMA BatchTyped ==
  ASSUME LocationsTypeOK, SubsInv, gnss.at # NoClient => gnss.left > 0,
         LocationsNext
  PROVE  /\ gnss' \in [left : 0..MaxBatch, at : Client \cup {NoClient}]
         /\ gnss'.at # NoClient => gnss'.left > 0
<1>1. gnss \in [left : 0..MaxBatch, at : Client \cup {NoClient}]
      /\ MaxBatch \in Nat /\ gnss.left \in Nat
  BY LocationsAssumption DEF LocationsTypeOK
<1>2. subList \in Seq(Client)
  BY DEF LocationsTypeOK
<1>3. ASSUME EndSample, gnss.left > 0
      PROVE  /\ gnss' \in [left : 0..MaxBatch, at : Client \cup {NoClient}]
             /\ gnss'.at = NoClient
  <2>1. CASE MustClose \/ gnss.left = 1
    BY <1>1, <1>3, <2>1 DEF EndSample, NoBatch
  <2>2. CASE ~(MustClose \/ gnss.left = 1)
    <3>1. gnss' = [left |-> gnss.left - 1, at |-> NoClient]
      BY <1>3, <2>2 DEF EndSample
    <3>2. gnss.left - 1 \in 0..MaxBatch
      BY <1>1, <1>3
    <3> QED BY <3>1, <3>2
  <2> QED BY <2>1, <2>2
<1>4. ASSUME NEW t \in GnssTopic, GnssBatch(t)
      PROVE  /\ gnss' \in [left : 0..MaxBatch, at : Client \cup {NoClient}]
             /\ gnss'.at = NoClient
  BY <1>1, <1>4 DEF GnssBatch, NoBatch
<1>5. CASE BadSample
  BY <1>3, <1>5 DEF BadSample, NewSample
<1>6. ASSUME CallSubscribers, gnss.left > 0
      PROVE  /\ gnss' \in [left : 0..MaxBatch, at : Client \cup {NoClient}]
             /\ gnss'.at # NoClient => gnss'.left > 0
  <2>1. CASE subList = <<>>
    BY <1>3, <1>6, <2>1 DEF CallSubscribers
  <2>2. CASE subList # <<>>
    <3>1. gnss' = [gnss EXCEPT !.at = Head(subList)] /\ gnss.left > 0
      BY <1>6, <2>2 DEF CallSubscribers
    <3>2. Head(subList) \in Client
      BY <1>2, <2>2, HeadTailProperties
    <3> QED BY <1>1, <3>1, <3>2
  <2> QED BY <2>1, <2>2
<1>14. CASE SampleAnswered
  BY <1>6, <1>14 DEF SampleAnswered
<1>15. CASE Sample
  <2>1. CASE gnss' = gnss
    BY <1>1, <1>15, <2>1
  <2>2. CASE CallSubscribers
    BY <1>6, <1>15, <2>2 DEF Sample, NewSample
  <2> QED BY <1>15, <2>1, <2>2 DEF Sample
<1>7. CASE SampleReturns
  <2>1. PICK n \in DOMAIN subList :
          IF n = Len(subList) THEN EndSample
          ELSE gnss' = [gnss EXCEPT !.at = subList[n + 1]]
    BY <1>7 DEF SampleReturns
  <2>2. gnss.left > 0
    BY <1>7 DEF SampleReturns
  <2>3. CASE n = Len(subList)
    BY <1>3, <2>1, <2>2, <2>3
  <2>4. CASE n # Len(subList)
    <3>1. subList[n + 1] \in Client
      BY <1>2, <2>1, <2>4
    <3> QED BY <1>1, <2>1, <2>2, <2>4, <3>1
  <2> QED BY <2>3, <2>4
<1>8. ASSUME gnss' = gnss
      PROVE  /\ gnss' \in [left : 0..MaxBatch, at : Client \cup {NoClient}]
             /\ gnss'.at # NoClient => gnss'.left > 0
  BY <1>1, <1>8
<1>9. ASSUME NEW t \in GnssTopic, GnssTopicClosed(t) PROVE gnss' = gnss
  BY <1>9 DEF GnssTopicClosed
<1>10. ASSUME NEW r \in GetCall, NEW c \in Client, GetLocation(r, c)
       PROVE  gnss' = gnss
  BY <1>10 DEF GetLocation
<1>11. ASSUME NEW c \in Client,
              \/ SubscribeLocation(c) \/ UnsubscribeLocation(c)
              \/ LocationsDetach(c)
       PROVE  gnss' = gnss
  BY <1>11 DEF SubscribeLocation, UnsubscribeLocation, LocationsDetach
<1>12. ASSUME NEW r \in GetCall, TimePasses(r) PROVE gnss' = gnss
  BY <1>12 DEF TimePasses
<1>13. ASSUME TimerSteps \/ LocationsDestroy \/ TimerClosed
       PROVE  gnss' = gnss
  BY <1>13 DEF TimerSteps, TimerHandler, TimerAnswered, LocationsDestroy,
               TimerClosed
<1> QED BY <1>3, <1>4, <1>5, <1>7, <1>8, <1>9, <1>10, <1>11, <1>12, <1>13,
           <1>14, <1>15 DEF LocationsNext, TimerSteps

(* Whoever is answered has the instance of a call that waits.              *)
LEMMA AnsweringTyped ==
  ASSUME LocationsTypeOK, LocationsNext
  PROVE  answering' \in Client \cup {NoClient}
<1>1. getList' \in Seq(GetMeta) /\ getList \in Seq(GetMeta)
      /\ answering \in Client \cup {NoClient}
  BY GetsTyped DEF LocationsTypeOK
<1>2. \A l \in Seq(GetMeta) : l # <<>> => Head(l).instance \in Client
  <2>1. ASSUME NEW l \in Seq(GetMeta), l # <<>> PROVE Head(l) \in GetMeta
    BY <2>1, HeadTailProperties
  <2> QED BY <2>1 DEF GetMeta
<1>3. ASSUME Sample PROVE answering' \in Client \cup {NoClient}
  BY <1>1, <1>2, <1>3 DEF Sample
<1>4. ASSUME RejectLate PROVE answering' \in Client \cup {NoClient}
  BY <1>1, <1>2, <1>4 DEF RejectLate, FrontLate
<1>5. ASSUME SampleAnswered \/ answering' = answering
      PROVE  answering' \in Client \cup {NoClient}
  BY <1>1, <1>5 DEF SampleAnswered
<1>6. ASSUME NEW c \in Client,
             \/ SubscribeLocation(c) \/ UnsubscribeLocation(c)
             \/ LocationsDetach(c) \/ \E r \in GetCall : GetLocation(r, c)
      PROVE  answering' = answering
  BY <1>6 DEF SubscribeLocation, UnsubscribeLocation, LocationsDetach,
              GetLocation
<1>7. ASSUME \/ \E t \in GnssTopic : GnssTopicClosed(t) \/ GnssBatch(t)
             \/ \E r \in GetCall : TimePasses(r)
             \/ BadSample \/ SampleReturns \/ LocationsDestroy \/ TimerClosed
      PROVE  answering' = answering
  BY <1>7 DEF GnssTopicClosed, GnssBatch, TimePasses, BadSample,
              SampleReturns, LocationsDestroy, TimerClosed
<1>8. ASSUME TimerSteps PROVE RejectLate
  BY <1>8 DEF TimerSteps, TimerHandler, TimerAnswered
<1> QED BY <1>3, <1>4, <1>5, <1>6, <1>7, <1>8 DEF LocationsNext, TimerSteps

-----------------------------------------------------------------------------
(* The count at each step.  What is common: the topics stay, are opened or *)
(* closed while the timer runs, or one that is closing has closed.         *)

LEMMA SameCount ==
  ASSUME LocationsCountInv, TopicsApart', Holders' = Holders,
         UNCHANGED <<ticker, ref_count, location>>
  PROVE  ContextCounted'
BY DEF LocationsCountInv, ContextCounted

LEMMA TopicsStayCounted ==
  ASSUME LocationsCountInv, UNCHANGED <<topic_list, closing>>,
         UNCHANGED <<ticker, ref_count, location>>
  PROVE  TopicsApart' /\ ContextCounted'
<1>1. TopicsApart' /\ Holders' = Holders
  BY DEF LocationsCountInv, TopicsApart, Holders
<1> QED BY <1>1, SameCount

LEMMA CloseStaysCounted ==
  ASSUME LocationsCountInv, CloseIfIdle,
         UNCHANGED <<ticker, ref_count, location>>
  PROVE  TopicsApart' /\ ContextCounted'
BY CloseCounts, SameCount DEF LocationsCountInv

(* Only an instance that is present begins an activity, so that the timer  *)
(* runs and its reference keeps the context.                               *)
LEMMA CountedTogether ==
  ASSUME NEW h \in Nat, NEW k \in Nat, NEW r \in Nat, NEW s \in {r, r + 1},
         k - h = s - r, r = h + 1
  PROVE  s = k + 1 /\ s \in Nat /\ s # 0
OBVIOUS

LEMMA OpenStaysCounted ==
  ASSUME LocationsCountInv, TopicAtHand, ticker = "running",
         closing' = closing, ticker' = ticker, location' = location
  PROVE  TopicsApart' /\ ContextCounted' /\ ref_count' \in Nat
<1>1. TopicsApart /\ ref_count \in Nat
  BY DEF LocationsCountInv, LocationsTypeOK
<1>2. Holders \in Nat
  BY <1>1, TopicsCounted
<1>3. ref_count = Holders + 1 /\ location # "deleted"
  BY <1>2 DEF LocationsCountInv, ContextCounted
<1>4. /\ TopicsApart' /\ Holders' - Holders = ref_count' - ref_count
      /\ Holders' \in Nat /\ ref_count' \in {ref_count, ref_count + 1}
  BY <1>1, AtHandCounts
<1>5. ref_count' = Holders' + 1 /\ ref_count' \in Nat /\ ref_count' # 0
  <2>1. PICK h, k, r, s : h = Holders /\ k = Holders' /\ r = ref_count
                           /\ s = ref_count'
    OBVIOUS
  <2>2. h \in Nat /\ k \in Nat /\ r \in Nat /\ s \in {r, r + 1}
    BY <1>1, <1>2, <1>4, <2>1
  <2>3. k - h = s - r
    BY <1>4, <2>1
  <2>4. r = h + 1
    BY <1>3, <2>1
  <2>5. s = k + 1 /\ s \in Nat /\ s # 0
    BY <2>2, <2>3, <2>4, CountedTogether
  <2> QED BY <2>1, <2>5
<1> QED BY <1>3, <1>4, <1>5 DEF ContextCounted

LEMMA ClosedCounts ==
  ASSUME LocationsCountInv, NEW t \in GnssTopic, GnssTopicClosed(t)
  PROVE  TopicsApart' /\ ContextCounted' /\ ref_count' \in Nat
<1>1. /\ t \in closing /\ closing' = closing \ {t}
      /\ UNCHANGED <<topic_list, ticker>>
      /\ ref_count' = ref_count - 1
      /\ location' = IF ref_count = 1 THEN "deleted" ELSE location
  BY DEF GnssTopicClosed, Release
<1>2. TopicsApart /\ IsFiniteSet(closing)
  BY DEF LocationsCountInv, TopicsApart
<1>3. /\ IsFiniteSet(closing')
      /\ Cardinality(closing') = Cardinality(closing) - 1
  BY <1>1, <1>2, FS_RemoveElement
<1>4. TopicsApart'
  BY <1>1, <1>2, <1>3 DEF TopicsApart
<1>5. Holders' = Holders - 1 /\ Holders' \in Nat /\ Holders \in Nat
  <2>1. Holders \in Nat /\ Len(topic_list) \in Nat
        /\ Cardinality(closing) \in Nat
    BY <1>2, TopicsCounted
  <2>2. Cardinality(closing') \in Nat
    BY <1>3, FS_CardinalityType
  <2> QED BY <1>1, <1>3, <2>1, <2>2 DEF Holders
<1>6. ref_count = Holders + (IF ticker = "closed" THEN 0 ELSE 1)
      /\ (location = "deleted" <=> ref_count = 0)
  BY DEF LocationsCountInv, ContextCounted
<1>7. /\ ref_count' = Holders' + (IF ticker' = "closed" THEN 0 ELSE 1)
      /\ ref_count' \in Nat
  BY <1>1, <1>5, <1>6
<1>8. location' = "deleted" <=> ref_count' = 0
  BY <1>1, <1>5, <1>6
<1> QED BY <1>4, <1>7, <1>8 DEF ContextCounted

LEMMA TimerClosedCounts ==
  ASSUME LocationsCountInv, TimerClosed
  PROVE  TopicsApart' /\ ContextCounted' /\ ref_count' \in Nat
<1>1. /\ ticker = "closing" /\ ticker' = "closed"
      /\ UNCHANGED <<topic_list, closing>>
      /\ ref_count' = ref_count - 1
      /\ location' = IF ref_count = 1 THEN "deleted" ELSE location
  BY DEF TimerClosed, Release
<1>2. TopicsApart' /\ Holders' = Holders /\ TopicsApart
  BY <1>1 DEF LocationsCountInv, TopicsApart, Holders
<1>3. Holders \in Nat
  BY <1>2, TopicsCounted
<1>4. ref_count = Holders + 1 /\ (location = "deleted" <=> ref_count = 0)
  BY <1>1 DEF LocationsCountInv, ContextCounted
<1>5. /\ ref_count' = Holders' + 0 /\ ref_count' \in Nat
      /\ location' = "deleted" <=> ref_count' = 0
  BY <1>1, <1>2, <1>3, <1>4
<1> QED BY <1>1, <1>2, <1>5 DEF ContextCounted

(* At the end every open topic is closed.                                  *)
LEMMA DestroyCounts ==
  ASSUME LocationsCountInv, LocationsDestroy
  PROVE  TopicsApart' /\ ContextCounted'
<1>1. /\ ticker = "running" /\ ticker' = "closing"
      /\ topic_list' = <<>> /\ closing' = closing \cup Range(topic_list)
      /\ UNCHANGED <<ref_count, location>>
  BY DEF LocationsDestroy, ToSet, Range
<1>2. TopicsApart /\ topic_list \in Seq(GnssTopic) /\ IsInjective(topic_list)
      /\ closing \subseteq GnssTopic /\ IsFiniteSet(closing)
      /\ Range(topic_list) \cap closing = {}
  BY DEF LocationsCountInv, TopicsApart
<1>3. /\ IsFiniteSet(Range(topic_list))
      /\ Cardinality(Range(topic_list)) = Len(topic_list)
  BY <1>2, RangeCounted
<1>4. IsFiniteSet(closing') /\ Cardinality(closing') = Holders
  <2>1. /\ IsFiniteSet(closing')
        /\ Cardinality(closing')
             = Cardinality(closing) + Cardinality(Range(topic_list))
               - Cardinality(closing \cap Range(topic_list))
    BY <1>1, <1>2, <1>3, FS_Union
  <2>2. closing \cap Range(topic_list) = {}
    BY <1>2
  <2>3. Cardinality(closing \cap Range(topic_list)) = 0
    BY <2>2, FS_EmptySet
  <2>4. Cardinality(closing) \in Nat /\ Len(topic_list) \in Nat
    BY <1>2, TopicsCounted
  <2> QED BY <1>3, <2>1, <2>3, <2>4 DEF Holders
<1>5. Range(topic_list) \subseteq GnssTopic
  BY <1>2, RangeOf
<1>6. topic_list' \in Seq(GnssTopic) /\ Len(topic_list') = 0
      /\ Range(topic_list') = {} /\ IsInjective(topic_list')
  BY <1>1 DEF Range, IsInjective
<1>7. TopicsApart'
  BY <1>1, <1>2, <1>4, <1>5, <1>6 DEF TopicsApart
<1>8. Holders' = Holders
  <2>1. Holders \in Nat
    BY <1>2, TopicsCounted
  <2> QED BY <1>4, <1>6, <2>1 DEF Holders
<1> QED BY <1>1, <1>7, <1>8 DEF LocationsCountInv, ContextCounted

LEMMA CountAtEachStep ==
  ASSUME LocationsCountInv, LocationsNext
  PROVE  /\ TopicsApart' /\ ContextCounted' /\ ref_count' \in Nat
         /\ ticker' # "running" => present' = {}
         /\ present' \subseteq Client
         /\ ticker' \in {"running", "closing", "closed"}
         /\ location' \in {"live", "deleted"}
<1> DEFINE Rest == /\ ticker' # "running" => present' = {}
                   /\ present' \subseteq Client
                   /\ ticker' \in {"running", "closing", "closed"}
                   /\ location' \in {"live", "deleted"}
<1> USE DEF Rest
<1>1. /\ present \subseteq Client /\ ref_count \in Nat
      /\ ticker \in {"running", "closing", "closed"}
      /\ location \in {"live", "deleted"}
      /\ ticker # "running" => present = {}
  BY DEF LocationsCountInv, LocationsTypeOK
<1>2. ASSUME NEW t \in GnssTopic, GnssTopicClosed(t)
      PROVE  TopicsApart' /\ ContextCounted' /\ ref_count' \in Nat /\ Rest
  <2>1. Rest
    BY <1>1, <1>2 DEF GnssTopicClosed, Release
  <2> QED BY <1>2, <2>1, ClosedCounts
<1>3. CASE TimerClosed
  <2>1. Rest
    BY <1>1, <1>3 DEF TimerClosed, Release
  <2> QED BY <1>3, <2>1, TimerClosedCounts
<1>4. CASE LocationsDestroy
  <2>1. Rest /\ ref_count' \in Nat
    BY <1>1, <1>4 DEF LocationsDestroy
  <2> QED BY <1>4, <2>1, DestroyCounts
<1>5. ASSUME NEW c \in Client,
             SubscribeLocation(c) \/ \E r \in GetCall : GetLocation(r, c)
      PROVE  TopicsApart' /\ ContextCounted' /\ ref_count' \in Nat /\ Rest
  <2>1. /\ c \in present /\ TopicAtHand /\ closing' = closing
        /\ UNCHANGED <<present, ticker, location>>
    BY <1>5 DEF SubscribeLocation, GetLocation
  <2>2. ticker = "running"
    BY <1>1, <2>1
  <2> QED BY <1>1, <2>1, <2>2, OpenStaysCounted
<1>6. ASSUME UNCHANGED <<ticker, ref_count, location>>,
             present' \subseteq present
      PROVE  Rest /\ ref_count' \in Nat
  BY <1>1, <1>6
<1>7. ASSUME NEW c \in Client, UnsubscribeLocation(c) \/ LocationsDetach(c)
      PROVE  TopicsApart' /\ ContextCounted' /\ ref_count' \in Nat /\ Rest
  <2>1. /\ EndSubscription(c) /\ UNCHANGED <<ticker, ref_count, location>>
        /\ present' \subseteq present
    BY <1>7 DEF UnsubscribeLocation, LocationsDetach
  <2>2. CloseIfIdle \/ UNCHANGED <<topic_list, closing>>
    BY <2>1 DEF EndSubscription
  <2> QED BY <1>6, <2>1, <2>2, CloseStaysCounted, TopicsStayCounted
<1>8. ASSUME SampleSteps \/ TimerSteps
      PROVE  TopicsApart' /\ ContextCounted' /\ ref_count' \in Nat /\ Rest
  <2>1. /\ UNCHANGED <<ticker, ref_count, location>>
        /\ present' \subseteq present
    BY <1>8, CallbacksAre
  <2>2. CloseIfIdle \/ UNCHANGED <<topic_list, closing>>
    BY <1>8, CallbacksAre
  <2> QED BY <1>6, <2>1, <2>2, CloseStaysCounted, TopicsStayCounted
<1>9. ASSUME \/ \E t \in GnssTopic : GnssBatch(t)
             \/ \E r \in GetCall : TimePasses(r)
      PROVE  TopicsApart' /\ ContextCounted' /\ ref_count' \in Nat /\ Rest
  <2>1. UNCHANGED <<present, topic_list, closing, ticker, ref_count, location>>
    BY <1>9 DEF GnssBatch, TimePasses
  <2> QED BY <1>6, <2>1, TopicsStayCounted
<1> QED BY <1>2, <1>3, <1>4, <1>5, <1>7, <1>8, <1>9
        DEF LocationsNext, SampleSteps, TimerSteps

LEMMA LocationsCountInit == LocationsInit => LocationsCountInv
<1> SUFFICES ASSUME LocationsInit PROVE LocationsCountInv
  OBVIOUS
<1>1. /\ present = Client /\ getList = <<>> /\ subList = <<>>
      /\ topic_list = <<>> /\ closing = {} /\ gnss = NoBatch
      /\ answering = NoClient
      /\ ticker = "running" /\ ref_count = 1 /\ location = "live"
  BY DEF LocationsInit
<1>2. /\ <<>> \in Seq(GetMeta) /\ <<>> \in Seq(Client)
      /\ <<>> \in Seq(GnssTopic)
  OBVIOUS
<1>3. NoBatch \in [left : 0..MaxBatch, at : Client \cup {NoClient}]
  BY LocationsAssumption DEF NoBatch
<1>4. IsFiniteSet({}) /\ Cardinality({}) = 0
  BY FS_EmptySet
<1>5. LocationsTypeOK
  BY <1>1, <1>2, <1>3 DEF LocationsTypeOK
<1>6. TopicsApart
  BY <1>1, <1>2, <1>4 DEF TopicsApart, Range, IsInjective
<1>7. Holders = 0
  BY <1>1, <1>4 DEF Holders
<1> QED BY <1>1, <1>5, <1>6, <1>7
        DEF LocationsCountInv, ContextCounted, NoBatch

LEMMA LocationsCountStep ==
  LocationsInv /\ LocationsInv' /\ LocationsCountInv
    /\ [LocationsNext]_loVars => LocationsCountInv'
<1> SUFFICES ASSUME LocationsInv, LocationsInv', LocationsCountInv,
                    [LocationsNext]_loVars
             PROVE  LocationsCountInv'
  OBVIOUS
<1>1. CASE UNCHANGED loVars
  BY <1>1 DEF loVars, LocationsCountInv, LocationsTypeOK, TopicsApart, Holders,
              ContextCounted
<1>2. CASE LocationsNext
  <2>1. LocationsTypeOK /\ (gnss.at # NoClient => gnss.left > 0) /\ SubsInv
    BY DEF LocationsCountInv, LocationsInv
  <2>2. getList' \in Seq(GetMeta)
    BY <1>2, <2>1, GetsTyped
  <2>3. /\ gnss' \in [left : 0..MaxBatch, at : Client \cup {NoClient}]
        /\ gnss'.at # NoClient => gnss'.left > 0
        /\ answering' \in Client \cup {NoClient}
    BY <1>2, <2>1, BatchTyped, AnsweringTyped
  <2>4. subList' \in Seq(Client)
    BY DEF LocationsInv, SubsInv
  <2>5. /\ TopicsApart' /\ ContextCounted' /\ ref_count' \in Nat
        /\ ticker' # "running" => present' = {}
        /\ present' \subseteq Client
        /\ ticker' \in {"running", "closing", "closed"}
        /\ location' \in {"live", "deleted"}
    BY <1>2, CountAtEachStep
  <2>6. topic_list' \in Seq(GnssTopic) /\ closing' \subseteq GnssTopic
    BY <2>5 DEF TopicsApart
  <2>7. LocationsTypeOK'
    BY <2>2, <2>3, <2>4, <2>5, <2>6 DEF LocationsTypeOK
  <2> QED BY <2>3, <2>5, <2>7 DEF LocationsCountInv
<1> QED BY <1>1, <1>2

LEMMA LocationsCountHolds == LocationsSpec => [](LocationsInv /\ LocationsCountInv)
<1>1. LocationsInit => LocationsInv /\ LocationsCountInv
  BY InitLocations, LocationsCountInit
<1>2. LocationsInv /\ LocationsCountInv /\ [LocationsNext]_loVars
        => (LocationsInv /\ LocationsCountInv)'
  BY StepLocations, LocationsCountStep
<1> QED BY <1>1, <1>2, PTL DEF LocationsSpec

(* The context, its lists, topics and counter stay what they are declared  *)
(* to be, whatever the order of calls, samples, timeouts and closings.     *)
THEOREM LocationsTypesHold == LocationsSpec => []LocationsTypeOK
<1>1. LocationsCountInv => LocationsTypeOK
  BY DEF LocationsCountInv
<1> QED BY <1>1, LocationsCountHolds, PTL

(* The references to the location_context are those of its timer and of    *)
(* the topics not yet closed: it is deleted by the last close callback,    *)
(* neither before it, which the others would notice, nor never.            *)
THEOREM LocationsContextCounted == LocationsSpec => []ContextCounted
<1>1. LocationsCountInv => ContextCounted
  BY DEF LocationsCountInv
<1> QED BY <1>1, LocationsCountHolds, PTL

-----------------------------------------------------------------------------
(***************************************************************************)
(* Dialogs.  What is on its way to the functions of a dialog, in tasks and *)
(* events, is the rest of an orderly run: an outcome, then complete.       *)
(***************************************************************************)

(* What the user interface has sent and the application has not handled.   *)
Pending == posted \o outgoing.events

(* Nothing has happened to a dialog but that it was asked for: nothing is  *)
(* on its way to its functions, and they are still kept.                   *)
Fresh(d) ==
  /\ called[d] = <<>> /\ answered[d] = "none"
  /\ \A e \in Range(posted) \cup Range(outgoing.events) : e.dialog # d

(* A dialog is asked for once, and is in one place: a task, the queue of   *)
(* dialogs or the screen.                                                  *)
QueuedOnce ==
  /\ IsInjective(dialogs)
  /\ \A d \in Range(dialogs) : Fresh(d) /\ d \in shown \ drawn

TaskedOnce(n) ==
  tasks[n].do = "show" =>
    /\ tasks[n].dialog \in shown \ drawn
    /\ Fresh(tasks[n].dialog)
    /\ tasks[n].dialog \notin Range(dialogs)
    /\ \A m \in 1..Len(tasks) :
         tasks[m].do = "show" /\ tasks[m].dialog = tasks[n].dialog => m = n

OnePlace ==
  /\ \A d \in Dialog \ shown : Fresh(d)
  /\ drawn \subseteq shown /\ \A d \in drawn : Fresh(d)
  /\ QueuedOnce
  /\ \A n \in 1..Len(tasks) : TaskedOnce(n)

(* The n-th event of q has its info, and what comes before it was called   *)
(* or stands before it.                                                    *)
EventInOrder(q, n) ==
  LET d == q[n].dialog
  IN  /\ d \in infos
      /\ \A m \in 1..Len(q) :
           m > n /\ q[m].dialog = d =>
             q[n].id # "complete" /\ q[m].id = "complete"
      /\ q[n].id = "complete" =>
           \/ answered[d] = "none" /\ called[d] = <<>>
           \/ answered[d] # "none" /\ called[d] = <<answered[d]>>
           \/ /\ called[d] = <<>>
              /\ \E m \in 1..Len(q) : m < n /\ q[m].dialog = d
      /\ q[n].id # "complete" => called[d] = <<>> /\ q[n].id = answered[d]

(* A function that runs is a complete function, with no event behind it;   *)
(* so an info that goes is missed by nobody.                               *)
InfosKept ==
  /\ running # NoDialog =>
       called[running] # <<>> /\ \A e \in Range(Pending) : e.dialog # running
  /\ \A d \in shown : called[d] = <<>> => d \in infos

(* What was called for a dialog. *)
CalledSoFar ==
  \A d \in Dialog :
    IF answered[d] = "none" THEN called[d] \in {<<>>, <<"complete">>}
    ELSE called[d] \in {<<>>, <<answered[d]>>, <<answered[d], "complete">>}

DialogsInv ==
  /\ PromptsTypeOK /\ OnePlace /\ CalledSoFar
  /\ manager = "live" =>
       /\ \A n \in 1..Len(Pending) : EventInOrder(Pending, n)
       /\ InfosKept

LEMMA AppendShort ==
  ASSUME NEW a, NEW b
  PROVE  Append(<<>>, a) = <<a>> /\ Append(<<a>>, b) = <<a, b>>
<1> DEFINE T == {a, b}
           two == Append(<<a>>, b)
<1>1. <<>> \in Seq(T) /\ <<a>> \in Seq(T) /\ <<a, b>> \in Seq(T)
  OBVIOUS
<1>2. Append(<<>>, a) = <<a>>
  OBVIOUS
<1>3. two \in Seq(T) /\ Len(two) = 2 /\ two[1] = a /\ two[2] = b
  BY <1>1, AppendProperties
<1>4. /\ Len(<<a, b>>) = 2 /\ <<a, b>>[1] = a /\ <<a, b>>[2] = b
  OBVIOUS
<1>5. two = <<a, b>>
  <2> HIDE DEF two, T
  <2>1. \A i \in 1..Len(two) : two[i] = <<a, b>>[i]
    BY <1>3, <1>4
  <2> QED BY <1>1, <1>3, <1>4, <2>1, SeqEqual
<1> QED BY <1>2, <1>5

(* CalledSoFar says what OutcomeThenComplete says. *)
LEMMA PrefixOfOne ==
  ASSUME NEW a
  PROVE  IsPrefix(<<>>, <<a>>) /\ IsPrefix(<<a>>, <<a>>)
BY DEF IsPrefix

LEMMA PrefixOfTwo ==
  ASSUME NEW a, NEW b
  PROVE  /\ IsPrefix(<<>>, <<a, b>>) /\ IsPrefix(<<a>>, <<a, b>>)
         /\ IsPrefix(<<a, b>>, <<a, b>>)
BY DEF IsPrefix

LEMMA CalledEnough == CalledSoFar => OutcomeThenComplete
<1> SUFFICES ASSUME CalledSoFar, NEW d \in Dialog
             PROVE  IsPrefix(called[d],
                             IF answered[d] = "none" THEN <<"complete">>
                             ELSE <<answered[d], "complete">>)
  BY DEF OutcomeThenComplete
<1> QED BY PrefixOfOne, PrefixOfTwo DEF CalledSoFar

LEMMA DialogsInvInit == PromptsInit => DialogsInv
<1> SUFFICES ASSUME PromptsInit PROVE DialogsInv
  OBVIOUS
<1>1. /\ <<>> \in Seq(Dialog) /\ <<>> \in Seq(DialogEvent)
      /\ <<>> \in Seq(Choice \cup {"complete"})
      /\ <<[do |-> "init", dialog |-> NoDialog]>> \in Seq(UITask)
  BY DEF UITask
<1>2. PromptsTypeOK
  BY <1>1 DEF PromptsInit, PromptsTypeOK, Quiet
<1>3. Range(<<>>) = {} /\ Pending = <<>>
  BY DEF Range, Pending, PromptsInit, Quiet
<1>4. OnePlace
  BY <1>3
  DEF PromptsInit, OnePlace, QueuedOnce, TaskedOnce, Fresh, Quiet, IsInjective
<1>5. CalledSoFar
  BY DEF PromptsInit, CalledSoFar
<1> QED BY <1>2, <1>3, <1>4, <1>5 DEF PromptsInit, DialogsInv, InfosKept

LEMMA PendingEvents ==
  ASSUME PromptsTypeOK
  PROVE  /\ posted \in Seq(DialogEvent) /\ outgoing.events \in Seq(DialogEvent)
         /\ Pending \in Seq(DialogEvent)
         /\ Range(Pending) = Range(posted) \cup Range(outgoing.events)
         /\ \A e \in Range(Pending) : e.dialog \in Dialog
         /\ \A n \in 1..Len(Pending) : /\ Pending[n] \in Range(Pending)
                                       /\ Pending[n] \in DialogEvent
<1>1. posted \in Seq(DialogEvent) /\ outgoing.events \in Seq(DialogEvent)
  BY DEF PromptsTypeOK
<1>2. Pending \in Seq(DialogEvent)
      /\ Range(Pending) = Range(posted) \cup Range(outgoing.events)
  BY <1>1, ConcatProperties, RangeConcatenation DEF Pending
<1>3. \A e \in Range(Pending) : e \in DialogEvent
  BY <1>2, RangeOfSeq
<1>4. \A n \in 1..Len(Pending) : Pending[n] \in Range(Pending)
  BY <1>2, RangeOf
<1> QED BY <1>1, <1>2, <1>3, <1>4 DEF DialogEvent

(* The first event that was posted is the first of all. *)
LEMMA PostedFirst ==
  ASSUME PromptsTypeOK, posted # <<>>
  PROVE  /\ Head(posted) = Pending[1] /\ Len(Pending) \in Nat \ {0}
         /\ Head(posted) \in DialogEvent /\ Head(posted) \in Range(posted)
         /\ Tail(posted) \in Seq(DialogEvent)
         /\ Range(Tail(posted)) \subseteq Range(posted)
         /\ Tail(posted) \o outgoing.events \in Seq(DialogEvent)
         /\ Len(Tail(posted) \o outgoing.events) = Len(Pending) - 1
         /\ \A n \in 1..(Len(Pending) - 1) :
              (Tail(posted) \o outgoing.events)[n] = Pending[n + 1]
<1>1. /\ posted \in Seq(DialogEvent) /\ outgoing.events \in Seq(DialogEvent)
      /\ Pending \in Seq(DialogEvent)
  BY PendingEvents
<1> DEFINE p == posted
           t == Tail(posted)
           o == outgoing.events
           c == Tail(posted) \o outgoing.events
<1>2. /\ t \in Seq(DialogEvent) /\ Head(p) = p[1] /\ Len(t) = Len(p) - 1
      /\ \A n \in 1..Len(t) : t[n] = p[n + 1]
      /\ Head(p) \in DialogEvent /\ Range(p) = Range(t) \cup {Head(p)}
  BY <1>1, HeadTailProperties, RangeTail
<1>3. Len(p) \in Nat \ {0} /\ Len(o) \in Nat
  BY <1>1, EmptySeq, LenProperties
<1>4. /\ Len(Pending) = Len(p) + Len(o)
      /\ \A n \in 1..Len(Pending) :
           Pending[n] = IF n <= Len(p) THEN p[n] ELSE o[n - Len(p)]
  BY <1>1, ConcatProperties DEF Pending
<1>5. /\ c \in Seq(DialogEvent) /\ Len(c) = Len(t) + Len(o)
      /\ \A n \in 1..Len(c) :
           c[n] = IF n <= Len(t) THEN t[n] ELSE o[n - Len(t)]
  BY <1>1, <1>2, ConcatProperties
<1> HIDE DEF p, t, o, c
<1>6. ASSUME NEW n \in 1..Len(c) PROVE c[n] = Pending[n + 1]
  <2>1. n + 1 \in 1..Len(Pending) /\ (n + 1) - Len(p) = n - Len(t)
    BY <1>2, <1>3, <1>4, <1>5
  <2>2. CASE n <= Len(t)
    <3>1. n + 1 <= Len(p) /\ n \in 1..Len(t)
      BY <1>2, <1>3, <2>2
    <3> QED BY <1>2, <1>4, <1>5, <2>1, <2>2, <3>1
  <2>3. CASE ~(n <= Len(t))
    <3>1. ~(n + 1 <= Len(p))
      BY <1>2, <1>3, <2>3
    <3> QED BY <1>4, <1>5, <2>1, <2>3, <3>1
  <2> QED BY <2>2, <2>3
<1>7. 1 \in 1..Len(Pending) /\ 1 <= Len(p) /\ Len(c) = Len(Pending) - 1
      /\ Len(Pending) \in Nat \ {0}
  BY <1>2, <1>3, <1>4, <1>5
<1>8. Head(p) = Pending[1]
  BY <1>2, <1>4, <1>7
<1> QED BY <1>2, <1>5, <1>6, <1>7, <1>8 DEF p, t, o, c

(* A step that leaves where dialogs are, and nothing new of a fresh one.   *)
LEMMA PlacesStay ==
  ASSUME OnePlace, UNCHANGED <<shown, drawn, dialogs, tasks>>,
         \A d \in Dialog : Fresh(d) => Fresh(d)',
         PromptsTypeOK
  PROVE  OnePlace'
<1>1. shown \subseteq Dialog
  BY DEF PromptsTypeOK
<1>2. QueuedOnce => QueuedOnce'
  BY <1>1 DEF QueuedOnce
<1>3. \A n \in 1..Len(tasks) : TaskedOnce(n) => TaskedOnce(n)'
  BY <1>1 DEF TaskedOnce
<1> QED BY <1>1, <1>2, <1>3 DEF OnePlace

(* What is pending may lose events, but none is new.                       *)
LEMMA FreshStays ==
  ASSUME UNCHANGED <<called, answered>>, PromptsTypeOK, PromptsTypeOK',
         Range(Pending)' \subseteq Range(Pending)
  PROVE  \A d \in Dialog : Fresh(d) => Fresh(d)'
<1>1. Range(Pending) = Range(posted) \cup Range(outgoing.events)
  BY PendingEvents
<1>2. Range(Pending)' = (Range(posted) \cup Range(outgoing.events))'
  BY RangeConcatenation DEF Pending, PromptsTypeOK
<1> QED BY <1>1, <1>2 DEF Fresh

(* The same is pending, and the infos, answers and calls stay.             *)
LEMMA OrderStays ==
  ASSUME DialogsInv, PromptsTypeOK', Pending' = Pending,
         manager' = manager,
         UNCHANGED <<shown, drawn, dialogs, tasks, infos, called, answered,
                     running>>
  PROVE  DialogsInv'
<1>1. Range(Pending)' \subseteq Range(Pending)
  OBVIOUS
<1>2. \A d \in Dialog : Fresh(d) => Fresh(d)'
  BY <1>1, FreshStays DEF DialogsInv
<1>3. OnePlace'
  BY <1>2, PlacesStay DEF DialogsInv
<1>4. CalledSoFar'
  BY DEF DialogsInv, CalledSoFar
<1>5. manager' = "live" => (\A n \in 1..Len(Pending) : EventInOrder(Pending, n))'
  BY DEF DialogsInv, EventInOrder
<1>6. manager' = "live" => InfosKept'
  BY DEF DialogsInv, InfosKept
<1> QED BY <1>3, <1>4, <1>5, <1>6 DEF DialogsInv

(* Once the manager is gone nothing is called any more. *)
LEMMA GoneStays ==
  ASSUME DialogsInv, PromptsTypeOK', manager' = "gone",
         UNCHANGED <<shown, drawn, dialogs, tasks, called, answered>>,
         Range(Pending)' \subseteq Range(Pending)
  PROVE  DialogsInv'
<1>1. \A d \in Dialog : Fresh(d) => Fresh(d)'
  BY FreshStays DEF DialogsInv
<1>2. OnePlace'
  BY <1>1, PlacesStay DEF DialogsInv
<1>3. CalledSoFar'
  BY DEF DialogsInv, CalledSoFar
<1> QED BY <1>2, <1>3 DEF DialogsInv

-----------------------------------------------------------------------------
(* The application's thread *)

LEMMA ShowKeepsOrder ==
  ASSUME DialogsInv, NEW d \in Dialog, ShowDialog(d) PROVE DialogsInv'
<1> DEFINE task == [do |-> "show", dialog |-> d]
<1>1. /\ d \notin shown /\ shown' = shown \cup {d} /\ infos' = infos \cup {d}
      /\ tasks' = Append(tasks, task)
      /\ UNCHANGED <<manager, running, called, server, dialogs, drawn, answered,
                     outgoing, posted>>
  BY DEF ShowDialog, uiVars
<1>2. /\ task \in UITask /\ tasks \in Seq(UITask)
      /\ task.do = "show" /\ task.dialog = d
  BY DEF UITask, DialogsInv, PromptsTypeOK
<1> HIDE DEF task
<1>3. /\ tasks' \in Seq(UITask) /\ Len(tasks') = Len(tasks) + 1
      /\ \A n \in 1..Len(tasks) : tasks'[n] = tasks[n]
      /\ tasks'[Len(tasks) + 1] = task /\ Len(tasks) \in Nat
  BY <1>1, <1>2, AppendProperties, LenProperties
<1>4. PromptsTypeOK'
  BY <1>1, <1>3 DEF DialogsInv, PromptsTypeOK
<1>5. Pending' = Pending
  BY <1>1 DEF Pending
<1>6. \A e : Fresh(e)' <=> Fresh(e)
  BY <1>1 DEF Fresh
<1>8. d \notin Range(dialogs) /\ d \notin drawn /\ Fresh(d)
  BY <1>1 DEF DialogsInv, OnePlace, QueuedOnce
<1>9. OnePlace'
  <2>1. (\A e \in Dialog \ shown : Fresh(e))'
    BY <1>1, <1>6 DEF DialogsInv, OnePlace
  <2>2. (drawn \subseteq shown /\ \A e \in drawn : Fresh(e))'
    BY <1>1, <1>6 DEF DialogsInv, OnePlace
  <2>3. QueuedOnce'
    BY <1>1, <1>6 DEF DialogsInv, OnePlace, QueuedOnce
  <2>4. ASSUME NEW n \in 1..Len(tasks) PROVE TaskedOnce(n)'
    <3>1. tasks'[n] = tasks[n] /\ TaskedOnce(n)
      BY <1>3 DEF DialogsInv, OnePlace
    <3>2. tasks[n].do = "show" =>
            /\ tasks[n].dialog # d
            /\ \A m \in 1..Len(tasks') :
                 tasks'[m].do = "show" /\ tasks'[m].dialog = tasks[n].dialog
                   => m = n
      BY <1>1, <1>2, <1>3, <3>1 DEF TaskedOnce
    <3> QED BY <1>1, <1>6, <3>1, <3>2 DEF TaskedOnce
  <2>5. ASSUME NEW n \in 1..Len(tasks), tasks[n].do = "show"
        PROVE  tasks[n].dialog # d
    BY <1>1, <2>5 DEF DialogsInv, OnePlace, TaskedOnce
  <2>6. ASSUME NEW n \in Nat, n = Len(tasks) + 1 PROVE TaskedOnce(n)'
    <3>1. \A m \in 1..Len(tasks') :
            tasks'[m].do = "show" /\ tasks'[m].dialog = d => m = n
      BY <1>3, <2>5, <2>6
    <3>2. tasks'[n] = task
      BY <1>3, <2>6
    <3> QED BY <1>1, <1>2, <1>6, <1>8, <3>1, <3>2 DEF TaskedOnce
  <2>7. \A n \in 1..Len(tasks') : TaskedOnce(n)'
    <3>1. \A n \in 1..Len(tasks') :
            n \in 1..Len(tasks) \/ (n \in Nat /\ n = Len(tasks) + 1)
      BY <1>3
    <3> QED BY <2>4, <2>6, <3>1
  <2> QED BY <2>1, <2>2, <2>3, <2>7 DEF OnePlace
<1>10. CalledSoFar'
  BY <1>1 DEF DialogsInv, CalledSoFar
<1>11. manager' = "live" =>
         (\A n \in 1..Len(Pending) : EventInOrder(Pending, n))' /\ InfosKept'
  <2>1. /\ running' = running /\ called' = called /\ answered' = answered
        /\ manager' = manager /\ infos \subseteq infos'
        /\ shown' = shown \cup {d} /\ d \in infos'
    BY <1>1
  <2>2. ASSUME manager = "live", NEW n \in 1..Len(Pending)
        PROVE  EventInOrder(Pending, n)'
    <3>1. EventInOrder(Pending, n)
      BY <2>2 DEF DialogsInv
    <3> QED BY <1>5, <2>1, <3>1 DEF EventInOrder
  <2>3. manager = "live" => InfosKept
    BY DEF DialogsInv
  <2>4. manager = "live" => InfosKept'
    BY <1>5, <2>1, <2>3 DEF InfosKept
  <2> QED BY <1>5, <2>1, <2>2, <2>4
<1> QED BY <1>4, <1>9, <1>10, <1>11 DEF DialogsInv

(* Only what nobody can hear is dropped: while the manager is there the    *)
(* info of an event is.                                                    *)
LEMMA DropKeepsOrder ==
  ASSUME DialogsInv, DropDialogEvent PROVE DialogsInv'
<1>1. /\ posted # <<>> /\ posted' = Tail(posted)
      /\ UNCHANGED <<manager, shown, infos, running, called, server, dialogs,
                     drawn, answered, outgoing, tasks>>
      /\ manager = "gone" \/ Head(posted).dialog \notin infos
  BY DEF DropDialogEvent, appVars, uiVars
<1>2. PromptsTypeOK
  BY DEF DialogsInv
<1>3. Head(posted) = Pending[1] /\ 1 \in 1..Len(Pending)
  BY <1>1, <1>2, PostedFirst
<1>4. manager = "gone"
  <2>1. CASE manager = "live"
    BY <1>1, <1>3, <2>1 DEF DialogsInv, EventInOrder
  <2> QED BY <1>2, <2>1 DEF PromptsTypeOK
<1>5. PromptsTypeOK'
  BY <1>1, <1>2, PostedFirst DEF PromptsTypeOK
<1>6. Range(Pending)' \subseteq Range(Pending)
  <2>1. Range(posted') \subseteq Range(posted)
    BY <1>1, <1>2, PostedFirst
  <2>2. Range(Pending)' = Range(posted') \cup Range(outgoing'.events)
    BY <1>5, RangeConcatenation DEF Pending, PromptsTypeOK
  <2> QED BY <1>1, <1>2, <2>1, <2>2, PendingEvents
<1> QED BY <1>1, <1>4, <1>5, <1>6, GoneStays

LEMMA HandleKeepsOrder ==
  ASSUME DialogsInv, HandleDialogEvent PROVE DialogsInv'
<1> DEFINE e == Head(posted)
           d == e.dialog
           p == Pending
           q == Tail(posted) \o outgoing.events
<1>1. /\ posted # <<>> /\ manager = "live" /\ running = NoDialog
      /\ posted' = Tail(posted) /\ d \in infos
      /\ called' = [called EXCEPT ![d] = Append(@, e.id)]
      /\ running' = IF e.id = "complete" THEN d ELSE NoDialog
      /\ UNCHANGED <<manager, shown, infos, server, dialogs, drawn, answered,
                     outgoing, tasks>>
  BY DEF HandleDialogEvent, uiVars
<1>2. PromptsTypeOK
  BY DEF DialogsInv
<1>3. /\ e = p[1] /\ Len(p) \in Nat \ {0} /\ 1 \in 1..Len(p)
      /\ e \in DialogEvent /\ e \in Range(posted)
      /\ Tail(posted) \in Seq(DialogEvent)
      /\ Range(Tail(posted)) \subseteq Range(posted)
      /\ q \in Seq(DialogEvent) /\ Len(q) = Len(p) - 1
      /\ \A n \in 1..(Len(p) - 1) : q[n] = p[n + 1]
  <2>1. /\ e = p[1] /\ Len(p) \in Nat \ {0}
        /\ e \in DialogEvent /\ e \in Range(posted)
        /\ Tail(posted) \in Seq(DialogEvent)
        /\ Range(Tail(posted)) \subseteq Range(posted)
    BY <1>1, <1>2, PostedFirst
  <2>2. /\ q \in Seq(DialogEvent) /\ Len(q) = Len(p) - 1
        /\ \A n \in 1..(Len(p) - 1) : q[n] = p[n + 1]
    BY <1>1, <1>2, PostedFirst
  <2> HIDE DEF e, p, q
  <2> QED BY <2>1, <2>2
<1>4. /\ p \in Seq(DialogEvent)
      /\ Range(p) = Range(posted) \cup Range(outgoing.events)
      /\ \A n \in 1..Len(p) : p[n].dialog \in Dialog
                              /\ p[n] \in Range(posted) \cup Range(outgoing.events)
  BY <1>2, PendingEvents DEF DialogEvent
<1>5. Pending' = q
  BY <1>1 DEF Pending
<1>6. /\ EventInOrder(p, 1)
      /\ \A n \in 1..Len(p) : EventInOrder(p, n)
      /\ InfosKept
  BY <1>1, <1>3 DEF DialogsInv
<1> HIDE DEF p, q
<1>7. /\ e.id = "complete" =>
           /\ \A m \in 2..Len(p) : p[m].dialog # d
           /\ \/ answered[d] = "none" /\ called[d] = <<>>
              \/ answered[d] # "none" /\ called[d] = <<answered[d]>>
      /\ e.id # "complete" =>
           /\ called[d] = <<>> /\ e.id = answered[d]
           /\ \A m \in 2..Len(p) : p[m].dialog = d => p[m].id = "complete"
  BY <1>3, <1>6 DEF EventInOrder
<1>8. d \in Dialog /\ e.id \in Choice \cup {"complete"}
  BY <1>3 DEF DialogEvent
<1> HIDE DEF e, d
<1>9. /\ called'[d] = Append(called[d], e.id)
      /\ \A c \in Dialog : c # d => called'[c] = called[c]
      /\ called' \in [Dialog -> Seq(Choice \cup {"complete"})]
      /\ called[d] \in Seq(Choice \cup {"complete"})
  <2>1. called[d] \in Seq(Choice \cup {"complete"})
    BY <1>2, <1>8 DEF PromptsTypeOK
  <2>2. Append(called[d], e.id) \in Seq(Choice \cup {"complete"})
    BY <1>8, <2>1, AppendProperties
  <2> QED BY <1>1, <1>2, <1>8, <2>1, <2>2 DEF PromptsTypeOK
<1>10. /\ e.id = "complete" =>
            called'[d] = IF answered[d] = "none" THEN <<"complete">>
                         ELSE <<answered[d], "complete">>
       /\ e.id # "complete" =>
            called'[d] = <<answered[d]>> /\ answered[d] # "none"
  <2>1. ASSUME e.id = "complete", answered[d] = "none"
        PROVE  called'[d] = <<"complete">>
    BY <1>7, <1>9, <2>1, AppendShort
  <2>2. ASSUME e.id = "complete", answered[d] # "none"
        PROVE  called'[d] = <<answered[d], "complete">>
    BY <1>7, <1>9, <2>2, AppendShort
  <2>3. ASSUME e.id # "complete"
        PROVE  called'[d] = <<answered[d]>> /\ answered[d] # "none"
    BY <1>7, <1>8, <1>9, <2>3, AppendShort DEF Choice
  <2> QED BY <2>1, <2>2, <2>3
<1>11. called'[d] # <<>>
  BY <1>9, AppendProperties, <1>8
<1>12. PromptsTypeOK'
  BY <1>1, <1>2, <1>3, <1>8, <1>9 DEF PromptsTypeOK
<1>13. ASSUME NEW c \in Dialog, Fresh(c) PROVE Fresh(c)'
  <2>1. c # d
    BY <1>3, <1>13 DEF Fresh, d
  <2> QED BY <1>1, <1>3, <1>9, <1>13, <2>1 DEF Fresh
<1>14. OnePlace'
  BY <1>1, <1>2, <1>13, PlacesStay DEF DialogsInv
<1>15. CalledSoFar'
  <2> SUFFICES ASSUME NEW c \in Dialog
               PROVE  IF answered[c] = "none"
                        THEN called'[c] \in {<<>>, <<"complete">>}
                        ELSE called'[c] \in {<<>>, <<answered[c]>>,
                                             <<answered[c], "complete">>}
    BY <1>1 DEF CalledSoFar
  <2>1. CASE c # d  BY <1>9, <2>1 DEF DialogsInv, CalledSoFar
  <2>2. CASE c = d  BY <1>10, <2>2
  <2> QED BY <2>1, <2>2
<1>16. ASSUME NEW n \in 1..Len(q) PROVE EventInOrder(Pending, n)'
  <2> DEFINE k == n + 1
  <2>1. k \in 1..Len(p) /\ k \in 2..Len(p) /\ q[n] = p[k] /\ p[k].dialog \in Dialog
    BY <1>3, <1>4
  <2>2. EventInOrder(p, k)
    BY <1>6, <2>1
  <2>3. \A m \in 1..Len(q) : q[m] = p[m + 1] /\ m + 1 \in 2..Len(p)
                              /\ (m > n <=> m + 1 > k) /\ (m < n <=> m + 1 < k)
    BY <1>3
  <2> HIDE DEF k
  <2>4. \A m \in 1..Len(q) :
          m > n /\ q[m].dialog = p[k].dialog =>
            p[k].id # "complete" /\ q[m].id = "complete"
    <3>1. 2..Len(p) \subseteq 1..Len(p)
      BY <1>3
    <3> QED BY <2>2, <2>3, <3>1 DEF EventInOrder
  <2>5. CASE p[k].dialog # d
    <3>1. called'[p[k].dialog] = called[p[k].dialog]
      BY <1>9, <2>1, <2>5
    <3>2. ASSUME NEW m \in 1..Len(p), m < k, p[m].dialog = p[k].dialog
          PROVE  \E i \in 1..Len(q) : i < n /\ q[i].dialog = p[k].dialog
      <4>1. m # 1
        BY <1>3, <2>5, <3>2 DEF d
      <4>2. m - 1 \in 1..Len(q) /\ (m - 1) + 1 = m
        BY <1>3, <4>1
      <4> QED BY <2>3, <3>2, <4>2
    <3> QED BY <1>1, <1>5, <2>1, <2>2, <2>4, <3>1, <3>2 DEF EventInOrder
  <2>6. CASE p[k].dialog = d
    <3>1. e.id # "complete" /\ p[k].id = "complete"
      BY <1>7, <2>1, <2>6
    <3>2. answered[d] # "none" /\ called'[d] = <<answered[d]>>
      BY <1>10, <3>1
    <3> QED BY <1>1, <1>5, <2>1, <2>2, <2>4, <2>6, <3>1, <3>2 DEF EventInOrder
  <2> QED BY <2>5, <2>6
<1>17. InfosKept'
  <2>1. ASSUME e.id = "complete", NEW x \in Range(q) PROVE x.dialog # d
    <3>1. PICK n \in 1..Len(q) : q[n] = x
      BY <1>3, <2>1, RangeOf
    <3>2. n + 1 \in 2..Len(p) /\ x = p[n + 1]
      BY <1>3, <3>1
    <3> QED BY <1>7, <2>1, <3>2
  <2>2. running' # NoDialog =>
          /\ called'[running'] # <<>>
          /\ \A x \in Range(Pending') : x.dialog # running'
    BY <1>1, <1>5, <1>11, <2>1
  <2>3. \A c \in shown' : called'[c] = <<>> => c \in infos'
    <3>1. shown \subseteq Dialog
      BY <1>2 DEF PromptsTypeOK
    <3> QED BY <1>1, <1>6, <1>9, <1>11, <3>1 DEF InfosKept
  <2> QED BY <2>2, <2>3 DEF InfosKept
<1>18. (\A n \in 1..Len(Pending) : EventInOrder(Pending, n))'
  BY <1>5, <1>16
<1> QED BY <1>12, <1>14, <1>15, <1>17, <1>18 DEF DialogsInv

LEMMA CompleteKeepsOrder ==
  ASSUME DialogsInv, CompleteReturns PROVE DialogsInv'
<1>1. /\ running # NoDialog /\ running' = NoDialog /\ infos' = infos \ {running}
      /\ UNCHANGED <<manager, shown, called, server, dialogs, drawn, answered,
                     outgoing, tasks, posted>>
  BY DEF CompleteReturns, uiVars
<1>2. PromptsTypeOK /\ PromptsTypeOK'
  BY <1>1 DEF DialogsInv, PromptsTypeOK
<1>3. Pending' = Pending
  BY <1>1 DEF Pending
<1>4. \A d \in Dialog : Fresh(d) => Fresh(d)'
  BY <1>1, <1>2, <1>3, FreshStays
<1>5. OnePlace' /\ CalledSoFar'
  BY <1>1, <1>2, <1>4, PlacesStay DEF DialogsInv, CalledSoFar
<1>6. ASSUME manager = "live"
      PROVE  (\A n \in 1..Len(Pending) : EventInOrder(Pending, n))' /\ InfosKept'
  <2>1. ASSUME NEW n \in 1..Len(Pending)
        PROVE  EventInOrder(Pending, n) /\ Pending[n].dialog # running
    BY <1>1, <1>2, <1>6, PendingEvents DEF DialogsInv, InfosKept
  <2>2. \A n \in 1..Len(Pending) : EventInOrder(Pending, n)'
    BY <1>1, <1>3, <2>1 DEF EventInOrder
  <2>3. InfosKept'
    BY <1>1, <1>6 DEF DialogsInv, InfosKept
  <2> QED BY <1>3, <2>2, <2>3
<1> QED BY <1>1, <1>2, <1>5, <1>6 DEF DialogsInv

LEMMA DetachKeepsOrder ==
  ASSUME DialogsInv, PromptsDetach PROVE DialogsInv'
<1> DEFINE task == [do |-> "destroy", dialog |-> NoDialog]
<1>1. /\ manager' = "gone" /\ infos' = {} /\ tasks' = Append(tasks, task)
      /\ UNCHANGED <<shown, running, called, server, dialogs, drawn, answered,
                     outgoing, posted>>
  BY DEF PromptsDetach, uiVars
<1>2. task \in UITask /\ tasks \in Seq(UITask) /\ task.do # "show"
  BY DEF UITask, DialogsInv, PromptsTypeOK
<1> HIDE DEF task
<1>3. /\ tasks' \in Seq(UITask) /\ Len(tasks') = Len(tasks) + 1
      /\ \A n \in 1..Len(tasks) : tasks'[n] = tasks[n]
      /\ tasks'[Len(tasks) + 1] = task /\ Len(tasks) \in Nat
  BY <1>1, <1>2, AppendProperties, LenProperties
<1>4. PromptsTypeOK'
  BY <1>1, <1>3 DEF DialogsInv, PromptsTypeOK
<1>5. \A e : Fresh(e)' <=> Fresh(e)
  BY <1>1 DEF Fresh
<1>6. (\A e \in Dialog \ shown : Fresh(e))'
      /\ (drawn \subseteq shown /\ \A e \in drawn : Fresh(e))'
  BY <1>1, <1>5 DEF DialogsInv, OnePlace
<1>7. QueuedOnce'
  BY <1>1, <1>5 DEF DialogsInv, OnePlace, QueuedOnce
<1>8. ASSUME NEW n \in 1..Len(tasks'), tasks'[n].do = "show"
      PROVE  n \in 1..Len(tasks) /\ tasks'[n] = tasks[n]
  BY <1>2, <1>3, <1>8
<1>9. \A n \in 1..Len(tasks') : TaskedOnce(n)'
  BY <1>1, <1>5, <1>8 DEF DialogsInv, OnePlace, TaskedOnce
<1>10. OnePlace' /\ CalledSoFar'
  BY <1>1, <1>6, <1>7, <1>9 DEF OnePlace, DialogsInv, CalledSoFar
<1> QED BY <1>1, <1>4, <1>10 DEF DialogsInv

-----------------------------------------------------------------------------
(* The thread of the user interface *)

(* The task that is taken is the first. *)
LEMMA TaskTaken ==
  ASSUME PromptsTypeOK, NEW do, NextTask(do)
  PROVE  /\ 1 \in 1..Len(tasks) /\ tasks[1].do = do /\ Head(tasks) = tasks[1]
         /\ tasks[1] \in UITask
         /\ tasks' \in Seq(UITask) /\ outgoing = Quiet
         /\ \A n \in 1..Len(tasks') :
              n + 1 \in 1..Len(tasks) /\ n + 1 # 1 /\ tasks'[n] = tasks[n + 1]
<1>1. tasks \in Seq(UITask) /\ tasks # <<>> /\ tasks' = Tail(tasks)
      /\ Head(tasks).do = do /\ outgoing = Quiet
  BY DEF NextTask, PromptsTypeOK
<1>2. /\ tasks' \in Seq(UITask) /\ Len(tasks') = Len(tasks) - 1
      /\ Head(tasks) = tasks[1] /\ Head(tasks) \in UITask
      /\ \A n \in 1..Len(tasks') : tasks'[n] = tasks[n + 1]
  BY <1>1, HeadTailProperties
<1>3. Len(tasks) \in Nat \ {0}
  BY <1>1, EmptySeq
<1> QED BY <1>1, <1>2, <1>3

(* The dialogs of the tasks behind the first one are where they were, when *)
(* none of them comes into the queue.                                      *)
LEMMA TasksBehind ==
  ASSUME DialogsInv, NEW do, NextTask(do), UNCHANGED <<shown, drawn>>,
         \A d \in Dialog : Fresh(d) => Fresh(d)',
         \A n \in 1..Len(tasks) : n # 1 /\ tasks[n].do = "show" =>
           tasks[n].dialog \notin Range(dialogs')
  PROVE  \A n \in 1..Len(tasks') : TaskedOnce(n)'
<1> SUFFICES ASSUME NEW n \in 1..Len(tasks') PROVE TaskedOnce(n)'
  OBVIOUS
<1>1. \A m \in 1..Len(tasks') :
        m + 1 \in 1..Len(tasks) /\ m + 1 # 1 /\ tasks'[m] = tasks[m + 1]
  BY TaskTaken DEF DialogsInv
<1>2. TaskedOnce(n + 1)
  BY <1>1 DEF DialogsInv, OnePlace
<1>3. shown \subseteq Dialog
  BY DEF DialogsInv, PromptsTypeOK
<1>4. ASSUME NEW m \in 1..Len(tasks'), tasks'[n].do = "show",
             tasks'[m].do = "show", tasks'[m].dialog = tasks'[n].dialog
      PROVE  m = n
  <2>1. m + 1 = n + 1
    BY <1>1, <1>2, <1>4 DEF TaskedOnce
  <2> QED BY <2>1
<1> QED BY <1>1, <1>2, <1>3, <1>4 DEF TaskedOnce

(* Tasks and the timer call nothing and send nothing.                      *)
LEMMA NothingSentStep ==
  ASSUME DialogsInv, PromptsTypeOK', OnePlace',
         UNCHANGED <<appVars, answered, outgoing, posted>>
  PROVE  DialogsInv'
<1>1. Pending' = Pending
  BY DEF Pending
<1>2. CalledSoFar'
  BY DEF DialogsInv, CalledSoFar, appVars
<1>3. manager' = "live" =>
        (\A n \in 1..Len(Pending) : EventInOrder(Pending, n))' /\ InfosKept'
  BY <1>1 DEF DialogsInv, EventInOrder, InfosKept, appVars
<1> QED BY <1>2, <1>3 DEF DialogsInv

LEMMA ServerTasksKeepOrder ==
  ASSUME DialogsInv, InitServerTask \/ DestroyServerTask PROVE DialogsInv'
<1>1. UNCHANGED <<appVars, drawn, answered, outgoing, posted>>
      /\ UNCHANGED <<shown, called>>
  BY DEF InitServerTask, DestroyServerTask, appVars
<1>2. PICK do \in {"init", "destroy"} : NextTask(do)
  BY DEF InitServerTask, DestroyServerTask
<1>3. dialogs' = dialogs \/ dialogs' = <<>>
  BY DEF InitServerTask, DestroyServerTask
<1>4. dialogs' \in Seq(Dialog) /\ Range(dialogs') \subseteq Range(dialogs)
      /\ IsInjective(dialogs')
  <2>1. CASE dialogs' = dialogs
    BY <2>1 DEF DialogsInv, PromptsTypeOK, OnePlace, QueuedOnce
  <2>2. CASE dialogs' = <<>>
    <3>1. Range(<<>>) = {} /\ IsInjective(<<>>) /\ <<>> \in Seq(Dialog)
      BY DEF Range, IsInjective
    <3> QED BY <2>2, <3>1
  <2> QED BY <1>3, <2>1, <2>2
<1>5. PromptsTypeOK'
  <2>1. tasks' \in Seq(UITask) /\ server' \in {"created", "running", "destroyed"}
    BY <1>2, TaskTaken DEF DialogsInv, InitServerTask, DestroyServerTask
  <2> QED BY <1>1, <1>4, <2>1 DEF DialogsInv, PromptsTypeOK, appVars
<1>6. \A d : Fresh(d)' <=> Fresh(d)
  BY <1>1 DEF Fresh
<1>7. \A n \in 1..Len(tasks') : TaskedOnce(n)'
  <2>1. \A n \in 1..Len(tasks) : tasks[n].do = "show" =>
          tasks[n].dialog \notin Range(dialogs')
    BY <1>4 DEF DialogsInv, OnePlace, TaskedOnce
  <2> QED BY <1>1, <1>2, <1>6, <2>1, TasksBehind
<1>8. QueuedOnce'
  BY <1>1, <1>4, <1>6 DEF DialogsInv, OnePlace, QueuedOnce
<1>9. OnePlace'
  BY <1>1, <1>6, <1>7, <1>8 DEF DialogsInv, OnePlace
<1> QED BY <1>1, <1>5, <1>9, NothingSentStep

LEMMA ShowTaskKeepsOrder ==
  ASSUME DialogsInv, ShowDialogTask PROVE DialogsInv'
<1> DEFINE d == tasks[1].dialog
           longer == Append(dialogs, d)
<1>1. UNCHANGED <<appVars, server, drawn, answered, outgoing, posted>>
      /\ UNCHANGED <<shown, called>> /\ NextTask("show")
      /\ dialogs' = Pushed(Head(tasks).dialog)
  BY DEF ShowDialogTask, appVars
<1>2. /\ 1 \in 1..Len(tasks) /\ tasks[1].do = "show" /\ Head(tasks) = tasks[1]
      /\ tasks' \in Seq(UITask) /\ tasks[1] \in UITask
  BY <1>1, TaskTaken DEF DialogsInv
<1>3. /\ d \in shown \ drawn /\ Fresh(d) /\ d \notin Range(dialogs)
      /\ d \in Dialog
      /\ \A n \in 1..Len(tasks) : n # 1 /\ tasks[n].do = "show" =>
           tasks[n].dialog # d
  BY <1>2 DEF DialogsInv, OnePlace, TaskedOnce, PromptsTypeOK
<1> HIDE DEF d
<1>4. dialogs \in Seq(Dialog) /\ IsInjective(dialogs)
  BY DEF DialogsInv, PromptsTypeOK, OnePlace, QueuedOnce
<1>5. /\ longer \in Seq(Dialog) /\ IsInjective(longer) /\ longer # <<>>
      /\ Range(longer) = Range(dialogs) \cup {d}
  BY <1>3, <1>4, AppendProperties, InjectiveAppend
<1>6. dialogs' = longer \/ dialogs' = Tail(longer)
  BY <1>1, <1>2 DEF Pushed, d
<1> HIDE DEF longer
<1>7. /\ dialogs' \in Seq(Dialog) /\ IsInjective(dialogs')
      /\ Range(dialogs') \subseteq Range(dialogs) \cup {d}
  <2>1. /\ Tail(longer) \in Seq(Dialog) /\ IsInjective(Tail(longer))
        /\ Range(Tail(longer)) \subseteq Range(longer)
    BY <1>5, InjectiveTail, RangeTail
  <2> QED BY <1>5, <1>6, <2>1
<1>8. PromptsTypeOK'
  BY <1>1, <1>2, <1>7 DEF DialogsInv, PromptsTypeOK, appVars
<1>9. \A e : Fresh(e)' <=> Fresh(e)
  BY <1>1 DEF Fresh
<1>10. \A n \in 1..Len(tasks') : TaskedOnce(n)'
  <2>1. \A n \in 1..Len(tasks) : n # 1 /\ tasks[n].do = "show" =>
          tasks[n].dialog \notin Range(dialogs')
    BY <1>3, <1>7 DEF DialogsInv, OnePlace, TaskedOnce
  <2> QED BY <1>1, <1>9, <2>1, TasksBehind
<1>11. QueuedOnce'
  BY <1>1, <1>3, <1>7, <1>9 DEF DialogsInv, OnePlace, QueuedOnce
<1>12. OnePlace'
  BY <1>1, <1>9, <1>10, <1>11 DEF DialogsInv, OnePlace
<1> QED BY <1>1, <1>8, <1>12, NothingSentStep

LEMMA DrawKeepsOrder ==
  ASSUME DialogsInv, DrawDialog PROVE DialogsInv'
<1> DEFINE d == Head(dialogs)
<1>1. UNCHANGED <<appVars, server, answered, outgoing, tasks, posted>>
      /\ UNCHANGED <<shown, called>> /\ dialogs # <<>>
      /\ dialogs' = Tail(dialogs) /\ drawn' = drawn \cup {d}
  BY DEF DrawDialog, appVars
<1>2. dialogs \in Seq(Dialog) /\ IsInjective(dialogs)
  BY DEF DialogsInv, PromptsTypeOK, OnePlace, QueuedOnce
<1>3. /\ dialogs' \in Seq(Dialog) /\ IsInjective(dialogs')
      /\ Range(dialogs) = Range(dialogs') \cup {d} /\ d \notin Range(dialogs')
      /\ d \in Dialog
  BY <1>1, <1>2, RangeTail, InjectiveTail
<1> HIDE DEF d
<1>4. PromptsTypeOK'
  BY <1>1, <1>3 DEF DialogsInv, PromptsTypeOK, appVars
<1>5. \A e : Fresh(e)' <=> Fresh(e)
  BY <1>1 DEF Fresh
<1>6. Fresh(d) /\ d \in shown
  BY <1>3 DEF DialogsInv, OnePlace, QueuedOnce
<1>7. QueuedOnce'
  BY <1>1, <1>3, <1>5 DEF DialogsInv, OnePlace, QueuedOnce
<1>8. \A n \in 1..Len(tasks') : TaskedOnce(n)'
  BY <1>1, <1>3, <1>5 DEF DialogsInv, OnePlace, TaskedOnce
<1>9. OnePlace'
  BY <1>1, <1>5, <1>6, <1>7, <1>8 DEF DialogsInv, OnePlace
<1> QED BY <1>1, <1>4, <1>9, NothingSentStep

OutgoingOf(d) == \A e \in Range(outgoing.events) : e.dialog = d

(* What is sent stands behind all that is pending. *)
LEMMA SentBehind ==
  ASSUME PromptsTypeOK, outgoing = Quiet, posted' = posted,
         NEW d \in Dialog, NEW k \in {1, 2},
         NEW ids \in [1..k -> Choice \cup {"complete"}], Sends(d, ids)
  PROVE  /\ outgoing' \in [events : Seq(DialogEvent), found : BOOLEAN]
         /\ Len(Pending') = Len(Pending) + k /\ Len(Pending) \in Nat
         /\ \A n \in 1..Len(Pending) : Pending'[n] = Pending[n]
         /\ \A n \in 1..k :
              Pending'[Len(Pending) + n] = [dialog |-> d, id |-> ids[n]]
         /\ OutgoingOf(d)'
<1> DEFINE o == [n \in 1..k |-> [dialog |-> d, id |-> ids[n]]]
<1>1. DOMAIN ids = 1..k
  OBVIOUS
<1>2. outgoing' = [events |-> o, found |-> FALSE]
  BY <1>1 DEF Sends, Quiet
<1>3. o \in [1..k -> DialogEvent]
  BY DEF DialogEvent
<1>4. o \in Seq(DialogEvent) /\ Len(o) = k
  BY <1>3
<1>5. posted \in Seq(DialogEvent) /\ outgoing.events = <<>>
  BY DEF PromptsTypeOK, Quiet
<1>6. Pending = posted
  BY <1>5, ConcatEmptySeq DEF Pending
<1>7. Pending' = posted \o o
  BY <1>2 DEF Pending
<1>8. Range(o) = {[dialog |-> d, id |-> ids[n]] : n \in 1..k}
  BY DEF Range
<1>9. \A n \in 1..k : o[n] = [dialog |-> d, id |-> ids[n]]
  OBVIOUS
<1> HIDE DEF o
<1>10. /\ Len(posted \o o) = Len(posted) + k
       /\ \A n \in 1..(Len(posted) + k) :
            (posted \o o)[n] = IF n <= Len(posted) THEN posted[n]
                               ELSE o[n - Len(posted)]
  BY <1>4, <1>5, ConcatProperties
<1>11. Len(posted) \in Nat
  BY <1>5, LenProperties
<1>12. ASSUME NEW n \in 1..Len(posted) PROVE Pending'[n] = posted[n]
  <2>1. n \in 1..(Len(posted) + k) /\ n <= Len(posted)
    BY <1>11
  <2> QED BY <1>7, <1>10, <2>1
<1>13. ASSUME NEW n \in 1..k PROVE Pending'[Len(posted) + n] = o[n]
  <2>1. Len(posted) + n \in 1..(Len(posted) + k)
        /\ ~(Len(posted) + n <= Len(posted)) /\ Len(posted) + n - Len(posted) = n
    BY <1>11
  <2> QED BY <1>7, <1>10, <2>1
<1>14. OutgoingOf(d)'
  <2>1. outgoing'.events = o
    BY <1>2
  <2>2. \A e \in Range(o) : e.dialog = d
    BY <1>8
  <2> QED BY <2>1, <2>2 DEF OutgoingOf
<1> QED BY <1>2, <1>4, <1>6, <1>7, <1>9, <1>10, <1>11, <1>12, <1>13, <1>14

(* A dialog that is drawn ends: its outcome, if the user chose one, and    *)
(* complete are sent.                                                      *)
LEMMA EndKeepsOrder ==
  ASSUME DialogsInv, NEW d \in drawn, NEW a \in Choice \cup {"none"},
         drawn' = drawn \ {d}, answered' = [answered EXCEPT ![d] = a],
         outgoing = Quiet,
         Sends(d, IF a = "none" THEN <<"complete">> ELSE <<a, "complete">>),
         UNCHANGED <<appVars, server, dialogs, tasks, posted>>
  PROVE  DialogsInv'
<1> DEFINE N == Len(Pending)
<1>1. PromptsTypeOK /\ d \in Dialog /\ d \in shown /\ Fresh(d)
      /\ UNCHANGED <<manager, shown, infos, running, called>>
  BY DEF DialogsInv, PromptsTypeOK, OnePlace, appVars
<1>3. PICK k \in {1, 2} : k = IF a = "none" THEN 1 ELSE 2
  OBVIOUS
<1>2. PICK ids \in [1..k -> Choice \cup {"complete"}] :
        /\ ids[k] = "complete" /\ a # "none" => ids[1] = a /\ ids[2] = "complete"
        /\ ids = IF a = "none" THEN <<"complete">> ELSE <<a, "complete">>
  <2> DEFINE i == IF a = "none" THEN <<"complete">> ELSE <<a, "complete">>
  <2>1. /\ i \in [1..k -> Choice \cup {"complete"}]
        /\ i[k] = "complete" /\ a # "none" => i[1] = a /\ i[2] = "complete"
    BY <1>3
  <2> QED BY <2>1
<1>4. Sends(d, ids) /\ posted' = posted
  BY <1>2
<1>5. /\ outgoing' \in [events : Seq(DialogEvent), found : BOOLEAN]
      /\ Len(Pending') = N + k /\ N \in Nat
      /\ \A n \in 1..N : Pending'[n] = Pending[n]
      /\ \A n \in 1..k : Pending'[N + n] = [dialog |-> d, id |-> ids[n]]
      /\ OutgoingOf(d)'
  <2>1. outgoing = Quiet /\ posted' = posted
    BY <1>4
  <2> HIDE DEF N
  <2>2. /\ outgoing' \in [events : Seq(DialogEvent), found : BOOLEAN]
        /\ Len(Pending') = Len(Pending) + k /\ Len(Pending) \in Nat
        /\ \A n \in 1..Len(Pending) : Pending'[n] = Pending[n]
        /\ \A n \in 1..k :
             Pending'[Len(Pending) + n] = [dialog |-> d, id |-> ids[n]]
        /\ OutgoingOf(d)'
    <3>1. ids \in [1..k -> Choice \cup {"complete"}] /\ k \in Nat
      BY <1>2
    <3>2. PromptsTypeOK /\ Sends(d, ids) /\ d \in Dialog
      BY <1>1, <1>4
    <3> HIDE DEF N
    <3> QED BY <2>1, <3>1, <3>2, SentBehind
  <2> QED BY <2>2 DEF N
<1>6. /\ answered'[d] = a /\ \A c \in Dialog : c # d => answered'[c] = answered[c]
      /\ answered' \in [Dialog -> Choice \cup {"none"}]
  BY <1>1 DEF PromptsTypeOK
<1>7. PromptsTypeOK'
  BY <1>1, <1>5, <1>6 DEF PromptsTypeOK
<1>8. /\ called[d] = <<>> /\ answered[d] = "none"
      /\ \A e \in Range(Pending) : e.dialog # d
      /\ \A n \in 1..N : Pending[n].dialog # d /\ Pending[n].dialog \in Dialog
  <2>1. \A e \in Range(Pending) : e.dialog # d
    BY <1>1, PendingEvents DEF Fresh
  <2>2. \A n \in 1..N : Pending[n] \in Range(Pending) /\ Pending[n].dialog \in Dialog
    BY <1>1, PendingEvents
  <2> QED BY <1>1, <2>1, <2>2 DEF Fresh
<1>9. \A n \in 1..N : Pending[n] \in Range(Pending) /\ Pending[n].dialog \in Dialog
  BY <1>1, PendingEvents
<1> HIDE DEF N
<1>10. ASSUME NEW c \in Dialog, c # d, Fresh(c) PROVE Fresh(c)'
  BY <1>1, <1>4, <1>5, <1>6, <1>10 DEF Fresh, OutgoingOf
<1>11. OnePlace'
  <2>1. d \notin Range(dialogs)
        /\ \A n \in 1..Len(tasks) : tasks[n].do = "show" => tasks[n].dialog # d
    BY DEF DialogsInv, OnePlace, QueuedOnce, TaskedOnce
  <2>2. shown \subseteq Dialog
    BY <1>1 DEF PromptsTypeOK
  <2>3. QueuedOnce'
    BY <1>1, <1>10, <2>1, <2>2 DEF DialogsInv, OnePlace, QueuedOnce
  <2>4. ASSUME NEW n \in 1..Len(tasks) PROVE TaskedOnce(n)'
    BY <1>1, <1>10, <2>1, <2>2 DEF DialogsInv, OnePlace, TaskedOnce
  <2>5. (\A c \in Dialog \ shown : Fresh(c))'
    BY <1>1, <1>10 DEF DialogsInv, OnePlace
  <2>6. (drawn \subseteq shown /\ \A c \in drawn : Fresh(c))'
    BY <1>1, <1>10, <2>2 DEF DialogsInv, OnePlace
  <2> QED BY <2>3, <2>4, <2>5, <2>6 DEF OnePlace
<1>12. CalledSoFar'
  <2> SUFFICES ASSUME NEW c \in Dialog
               PROVE  IF answered'[c] = "none"
                        THEN called[c] \in {<<>>, <<"complete">>}
                        ELSE called[c] \in {<<>>, <<answered'[c]>>,
                                            <<answered'[c], "complete">>}
    BY <1>1 DEF CalledSoFar
  <2>1. CASE c = d  BY <1>8, <2>1
  <2>2. CASE c # d  BY <1>6, <2>2 DEF DialogsInv, CalledSoFar
  <2> QED BY <2>1, <2>2
<1>13. ASSUME manager = "live" PROVE InfosKept'
  <2>1. running # d
    BY <1>1, <1>8, <1>13, PromptsAssumption DEF DialogsInv, InfosKept
  <2>2. Range(Pending)' = Range(posted) \cup Range(outgoing'.events)
    BY <1>4, <1>7, RangeConcatenation DEF Pending, PromptsTypeOK
  <2>3. Range(posted) \subseteq Range(Pending)
    BY <1>1, PendingEvents
  <2>4. ASSUME NEW e \in Range(Pending)' PROVE e \in Range(Pending) \/ e.dialog = d
    BY <1>5, <2>2, <2>3 DEF OutgoingOf
  <2>5. InfosKept
    BY <1>13 DEF DialogsInv
  <2> QED BY <1>1, <2>1, <2>4, <2>5 DEF InfosKept
<1>14. ASSUME manager = "live", NEW n \in 1..N PROVE EventInOrder(Pending, n)'
  <2>1. EventInOrder(Pending, n)
    BY <1>14 DEF DialogsInv, N
  <2>2. /\ Pending'[n] = Pending[n] /\ Pending[n].dialog # d
        /\ answered'[Pending[n].dialog] = answered[Pending[n].dialog]
    BY <1>5, <1>6, <1>8
  <2>3. ASSUME NEW m \in 1..Len(Pending'), Pending'[m].dialog # d
        PROVE  m \in 1..N /\ Pending'[m] = Pending[m]
    <3>1. CASE m \in 1..N
      BY <1>5, <3>1
    <3>2. CASE m \notin 1..N
      <4>1. PICK i \in 1..k : m = N + i
        <5>1. m - N \in 1..k /\ m = N + (m - N)
          BY <1>2, <1>5, <3>2
        <5> QED BY <5>1
      <4>2. Pending'[N + i] = [dialog |-> d, id |-> ids[i]]
        BY <1>5
      <4>3. Pending'[m].dialog = d
        BY <4>1, <4>2
      <4> QED BY <2>3, <4>3
    <3> QED BY <3>1, <3>2
  <2>4. \A m \in 1..N : m \in 1..Len(Pending') /\ Pending'[m] = Pending[m]
    BY <1>2, <1>5
  <2> QED BY <1>1, <2>1, <2>2, <2>3, <2>4 DEF EventInOrder, N
<1>15. ASSUME manager = "live", NEW i \in 1..k
       PROVE  \A n : n = N + i => EventInOrder(Pending, n)'
  <2> SUFFICES ASSUME NEW n, n = N + i PROVE EventInOrder(Pending, n)'
    OBVIOUS
  <2>1. Pending'[n] = [dialog |-> d, id |-> ids[i]]
    BY <1>5
  <2>2. d \in infos
    BY <1>1, <1>8, <1>15 DEF DialogsInv, InfosKept
  <2>3. \A m \in 1..Len(Pending') : m > n =>
          k = 2 /\ i = 1 /\ m = N + 2
    BY <1>2, <1>5
  <2>4. CASE a = "none"
    <3>1. i = 1 /\ k = 1 /\ ids[i] = "complete"
      BY <1>2, <1>3, <2>4
    <3> QED BY <1>1, <1>6, <1>8, <2>1, <2>2, <2>3, <2>4, <3>1 DEF EventInOrder
  <2>5. CASE a # "none"
    <3>1. k = 2 /\ ids[1] = a /\ ids[2] = "complete" /\ a # "complete"
      BY <1>2, <1>3, <2>5 DEF Choice
    <3>2. CASE i = 1
      <4>1. Pending'[N + 2] = [dialog |-> d, id |-> "complete"]
        BY <1>5, <3>1
      <4> QED BY <1>1, <1>6, <1>8, <2>1, <2>2, <2>3, <3>1, <3>2, <4>1
              DEF EventInOrder
    <3>3. CASE i = 2
      <4>1. N + 1 \in 1..Len(Pending') /\ N + 1 < n
            /\ Pending'[N + 1] = [dialog |-> d, id |-> a]
        BY <1>5, <3>1, <3>3
      <4>2. ~\E m \in 1..Len(Pending') : m > n
        BY <2>3, <3>3
      <4> QED BY <1>1, <1>6, <1>8, <2>1, <2>2, <3>1, <3>3, <4>1, <4>2
              DEF EventInOrder
    <3> QED BY <3>1, <3>2, <3>3
  <2> QED BY <2>4, <2>5
<1>16. ASSUME manager = "live"
       PROVE  (\A n \in 1..Len(Pending) : EventInOrder(Pending, n))'
  <2> SUFFICES ASSUME NEW n \in 1..Len(Pending') PROVE EventInOrder(Pending, n)'
    OBVIOUS
  <2>1. CASE n \in 1..N
    BY <1>14, <1>16, <2>1
  <2>2. CASE n \notin 1..N
    <3>1. n - N \in 1..k /\ n = N + (n - N)
      BY <1>2, <1>5, <2>2
    <3> QED BY <1>15, <1>16, <3>1
  <2> QED BY <2>1, <2>2
<1> QED BY <1>1, <1>7, <1>11, <1>12, <1>13, <1>16 DEF DialogsInv

(* The head of a queue that holds an event. *)
LEMMA HeadSent ==
  ASSUME NEW p \in Seq(DialogEvent), NEW o \in Seq(DialogEvent), o # <<>>
  PROVE  /\ Head(o) \in DialogEvent /\ Tail(o) \in Seq(DialogEvent)
         /\ Append(p, Head(o)) \in Seq(DialogEvent)
         /\ Append(p, Head(o)) \o Tail(o) = p \o o
<1> DEFINE q == Append(p, Head(o))
           t == Tail(o)
<1>1. /\ Head(o) \in DialogEvent /\ t \in Seq(DialogEvent)
      /\ Head(o) = o[1] /\ Len(t) = Len(o) - 1
      /\ \A n \in 1..Len(t) : t[n] = o[n + 1]
  BY HeadTailProperties
<1>2. /\ q \in Seq(DialogEvent) /\ Len(q) = Len(p) + 1
      /\ \A n \in 1..Len(p) : q[n] = p[n]
      /\ q[Len(p) + 1] = o[1]
  BY <1>1, AppendProperties
<1>3. Len(p) \in Nat /\ Len(o) \in Nat \ {0} /\ Len(t) \in Nat
  BY <1>1, EmptySeq, LenProperties
<1> DEFINE a == q \o t
           b == p \o o
<1>4. /\ a \in Seq(DialogEvent) /\ Len(a) = Len(q) + Len(t)
      /\ \A n \in 1..Len(a) : a[n] = IF n <= Len(q) THEN q[n] ELSE t[n - Len(q)]
  BY <1>1, <1>2, ConcatProperties
<1>5. /\ b \in Seq(DialogEvent) /\ Len(b) = Len(p) + Len(o)
      /\ \A n \in 1..Len(b) : b[n] = IF n <= Len(p) THEN p[n] ELSE o[n - Len(p)]
  BY ConcatProperties
<1> HIDE DEF q, t, a, b
<1>6. Len(a) = Len(b)
  BY <1>1, <1>2, <1>3, <1>4, <1>5
<1>7. ASSUME NEW n \in 1..Len(a) PROVE a[n] = b[n]
  <2>1. CASE n <= Len(p)
    <3>1. n \in 1..Len(p) /\ n <= Len(q) /\ n \in 1..Len(b)
      BY <1>2, <1>3, <1>4, <1>6, <2>1
    <3>2. a[n] = q[n]
      BY <1>4, <3>1
    <3>3. b[n] = p[n]
      BY <1>5, <2>1, <3>1
    <3> QED BY <1>2, <3>1, <3>2, <3>3
  <2>2. CASE n = Len(p) + 1
    <3>1. n - Len(p) = 1 /\ n <= Len(q) /\ ~(n <= Len(p))
      BY <1>2, <1>3, <2>2
    <3> QED BY <1>2, <1>4, <1>5, <1>6, <2>2, <3>1
  <2>3. CASE n > Len(p) + 1
    <3> DEFINE m == n - Len(q)
    <3>1. m \in 1..Len(t) /\ n - Len(p) = m + 1 /\ ~(n <= Len(q)) /\ ~(n <= Len(p))
      BY <1>1, <1>2, <1>3, <1>4, <2>3
    <3>2. a[n] = t[m] /\ b[n] = o[m + 1]
      BY <1>4, <1>5, <1>6, <3>1
    <3> QED BY <1>1, <3>1, <3>2
  <2> QED BY <1>2, <1>3, <1>4, <2>1, <2>2, <2>3
<1>8. a = b
  BY <1>4, <1>5, <1>6, <1>7, SeqEqual
<1> QED BY <1>1, <1>2, <1>8 DEF q, t, a, b

LEMMA PressKeepsOrder ==
  ASSUME DialogsInv, NEW d \in Dialog, NEW answer \in Choice, Press(d, answer)
  PROVE  DialogsInv'
<1>1. answer # "none"
  BY DEF Choice
<1>2. /\ d \in drawn /\ drawn' = drawn \ {d} /\ outgoing = Quiet
      /\ answered' = [answered EXCEPT ![d] = answer]
      /\ Sends(d, <<answer, "complete">>)
      /\ UNCHANGED <<appVars, server, dialogs, tasks, posted>>
  BY DEF Press
<1> QED BY <1>1, <1>2, EndKeepsOrder

LEMMA ViewDeletedKeepsOrder ==
  ASSUME DialogsInv, NEW d \in Dialog, ViewDeleted(d) PROVE DialogsInv'
<1>1. /\ d \in drawn /\ drawn' = drawn \ {d} /\ outgoing = Quiet
      /\ answered' = answered /\ Sends(d, <<"complete">>)
      /\ UNCHANGED <<appVars, server, dialogs, tasks, posted>>
  BY DEF ViewDeleted
<1>2. answered' = [answered EXCEPT ![d] = "none"]
  BY <1>1 DEF DialogsInv, OnePlace, Fresh, PromptsTypeOK
<1> QED BY <1>1, <1>2, EndKeepsOrder

LEMMA FindKeepsOrder ==
  ASSUME DialogsInv, FindManager PROVE DialogsInv'
<1>1. /\ outgoing.events # <<>>
      /\ outgoing' = IF manager = "live" THEN [outgoing EXCEPT !.found = TRUE]
                     ELSE [outgoing EXCEPT !.events = Tail(@)]
      /\ UNCHANGED <<manager, shown, infos, running, called, server, dialogs,
                     drawn, answered, tasks, posted>>
  BY DEF FindManager, appVars
<1>2. /\ PromptsTypeOK /\ outgoing \in [events : Seq(DialogEvent), found : BOOLEAN]
      /\ posted \in Seq(DialogEvent) /\ outgoing.events \in Seq(DialogEvent)
  BY DEF DialogsInv, PromptsTypeOK
<1>3. CASE manager = "live"
  <2>1. /\ outgoing'.events = outgoing.events
        /\ outgoing' \in [events : Seq(DialogEvent), found : BOOLEAN]
    BY <1>1, <1>2, <1>3
  <2>2. PromptsTypeOK'
    BY <1>1, <1>2, <2>1 DEF PromptsTypeOK
  <2>3. Pending' = Pending
    BY <1>1, <2>1 DEF Pending
  <2> QED BY <1>1, <2>2, <2>3, OrderStays
<1>4. CASE manager # "live"
  <2>1. /\ Tail(outgoing.events) \in Seq(DialogEvent)
        /\ Range(Tail(outgoing.events)) \subseteq Range(outgoing.events)
    BY <1>1, <1>2, RangeTail
  <2>2. /\ outgoing'.events = Tail(outgoing.events)
        /\ outgoing' \in [events : Seq(DialogEvent), found : BOOLEAN]
    BY <1>1, <1>2, <1>4, <2>1
  <2>3. PromptsTypeOK'
    BY <1>1, <1>2, <2>2 DEF PromptsTypeOK
  <2>4. Range(Pending)' = Range(posted) \cup Range(outgoing'.events)
    <3>1. Pending' = posted \o outgoing'.events
      BY <1>1 DEF Pending
    <3>2. outgoing'.events \in Seq(DialogEvent)
      BY <2>1, <2>2
    <3> QED BY <1>2, <3>1, <3>2, RangeConcatenation
  <2>5. Range(Pending)' \subseteq Range(Pending)
    BY <1>2, <2>1, <2>2, <2>4, PendingEvents
  <2>6. manager' = "gone"
    BY <1>1, <1>2, <1>4 DEF PromptsTypeOK
  <2> QED BY <1>1, <2>3, <2>5, <2>6, GoneStays
<1> QED BY <1>3, <1>4

(* An event is posted only when there is one: the manager was found for it.*)
FoundForOne == outgoing.found => outgoing.events # <<>>

LEMMA PostKeepsOrder ==
  ASSUME DialogsInv, FoundForOne, PostDialogEvent PROVE DialogsInv'
<1>1. /\ outgoing.found /\ posted' = Append(posted, Head(outgoing.events))
      /\ outgoing' = [events |-> Tail(outgoing.events), found |-> FALSE]
      /\ UNCHANGED <<manager, shown, infos, running, called, server, dialogs,
                     drawn, answered, tasks>>
  BY DEF PostDialogEvent, appVars
<1>2. /\ PromptsTypeOK
      /\ posted \in Seq(DialogEvent) /\ outgoing.events \in Seq(DialogEvent)
      /\ outgoing.events # <<>>
  BY <1>1 DEF DialogsInv, PromptsTypeOK, FoundForOne
<1>3. /\ posted' \in Seq(DialogEvent)
      /\ Tail(outgoing.events) \in Seq(DialogEvent)
      /\ posted' \o Tail(outgoing.events) = posted \o outgoing.events
  BY <1>1, <1>2, HeadSent
<1>4. PromptsTypeOK'
  BY <1>1, <1>2, <1>3 DEF PromptsTypeOK
<1>5. Pending' = Pending
  BY <1>1, <1>3 DEF Pending
<1> QED BY <1>1, <1>4, <1>5, OrderStays

LEMMA FoundForOneStays ==
  ASSUME DialogsInv, FoundForOne, [PromptsNext]_prVars PROVE FoundForOne'
<1>1. outgoing \in [events : Seq(DialogEvent), found : BOOLEAN]
  BY DEF DialogsInv, PromptsTypeOK
<1>2. CASE outgoing' = outgoing
  BY <1>2 DEF FoundForOne
<1>3. CASE \E d \in Dialog : ViewDeleted(d) \/ \E a \in Choice : Press(d, a)
  <2>1. outgoing'.found = FALSE
    BY <1>3 DEF ViewDeleted, Press, Sends, Quiet
  <2> QED BY <2>1 DEF FoundForOne
<1>4. CASE FindManager
  BY <1>1, <1>4 DEF FindManager, FoundForOne
<1>5. CASE PostDialogEvent
  <2>1. outgoing'.found = FALSE
    BY <1>5 DEF PostDialogEvent
  <2> QED BY <2>1 DEF FoundForOne
<1> QED
  BY <1>2, <1>3, <1>4, <1>5
  DEF PromptsNext, prVars, uiVars, AppSteps, UISteps, DropDialogEvent,
      HandleDialogEvent, CompleteReturns, InitServerTask, ShowDialogTask,
      DestroyServerTask, DrawDialog, PromptsDetach, ShowDialog

LEMMA DialogsStep ==
  ASSUME DialogsInv, FoundForOne, [PromptsNext]_prVars PROVE DialogsInv'
<1>1. CASE AppSteps
  BY <1>1, DropKeepsOrder, HandleKeepsOrder, CompleteKeepsOrder DEF AppSteps
<1>2. CASE UISteps
  BY <1>2, ServerTasksKeepOrder, ShowTaskKeepsOrder, FindKeepsOrder,
     PostKeepsOrder DEF UISteps
<1>3. CASE DrawDialog
  BY <1>3, DrawKeepsOrder
<1>4. CASE PromptsDetach
  BY <1>4, DetachKeepsOrder
<1>5. ASSUME NEW d \in Dialog,
             ShowDialog(d) \/ ViewDeleted(d) \/ \E a \in Choice : Press(d, a)
      PROVE  DialogsInv'
  BY <1>5, ShowKeepsOrder, ViewDeletedKeepsOrder, PressKeepsOrder
<1>6. CASE UNCHANGED prVars
  <2>1. UNCHANGED <<manager, shown, infos, running, called, server, dialogs,
                    drawn, answered, outgoing, tasks, posted>>
    BY <1>6 DEF prVars, appVars, uiVars
  <2>2. PromptsTypeOK' /\ Pending' = Pending
    BY <2>1 DEF DialogsInv, PromptsTypeOK, Pending
  <2> QED BY <2>1, <2>2, OrderStays
<1> QED BY <1>1, <1>2, <1>3, <1>4, <1>5, <1>6 DEF PromptsNext

LEMMA DialogsInvHolds == PromptsSpec => [](DialogsInv /\ FoundForOne)
<1>1. PromptsInit => DialogsInv /\ FoundForOne
  BY DialogsInvInit DEF PromptsInit, FoundForOne, Quiet
<1>2. DialogsInv /\ FoundForOne /\ [PromptsNext]_prVars
        => (DialogsInv /\ FoundForOne)'
  BY DialogsStep, FoundForOneStays
<1> QED BY <1>1, <1>2, PTL DEF PromptsSpec

(* Dialogs, tasks and events are what the code makes of them.              *)
THEOREM PromptsTypesHold == PromptsSpec => []PromptsTypeOK
BY DialogsInvHolds, PTL DEF DialogsInv

(* The functions of a dialog are called in order and once, the one of the  *)
(* button that was pressed and then complete, whatever the threads do and  *)
(* whenever the instance is detached (DialogEventCallback,                 *)
(* HandleDialogEventOnAppThread).                                          *)
THEOREM PromptsOutcomeThenComplete == PromptsSpec => []OutcomeThenComplete
BY DialogsInvHolds, CalledEnough, PTL DEF DialogsInv

-----------------------------------------------------------------------------
(***************************************************************************)
(* Requests to the net: a call is on the list while its request runs, and  *)
(* is settled and freed when it leaves.                                    *)
(***************************************************************************)

(* What the promise, the list and the memory of a call say of its step.    *)
FetchInStep(c) ==
  /\ fetching[c].step = "running" <=> c \in linklist
  /\ fetching[c].step \in {"idle", "running"} => promise[c] = <<>>
  /\ Len(promise[c]) <= 1
  /\ fetching[c].step = "running" => owns[c] = All
  /\ fetching[c].step = "ended" => owns[c] = {}
  /\ fetching[c].step = "ended" /\ promise[c] = <<>> =>
       fetching[c].page \in detached
  /\ sent[c].body = "json" => sent[c].type = "application/json"
  /\ sent[c].body = "pairs" => sent[c].type # "application/json"

FetchesInv ==
  /\ FetchesTypeOK
  /\ promise \in [FetchCall -> Seq({"resolve", "reject"})]
  /\ DOMAIN sent = FetchCall /\ sent = [c \in FetchCall |-> sent[c]]
  /\ \A c \in FetchCall : FetchInStep(c)
  /\ destroyed => detached = FetchPage /\ linklist = {}

(* A body of JSON goes under its Content-Type only, and pairs under others.*)
LEMMA CarriedTyped ==
  ASSUME NEW method, NEW header \in Headers, NEW data
  PROVE  LET m == Carried(method, header, data)
         IN  /\ m.body = "json" => m.type = "application/json"
             /\ m.body = "pairs" => m.type # "application/json"
<1> DEFINE type == GetContentType(header)
<1>1. type = "application/json" <=> header = "application/json"
  BY DEF GetContentType
<1>2. PostData(data, type) = "json" => type = "application/json"
  BY Zenon DEF PostData
<1>3. PostData(data, type) = "pairs" => type # "application/json"
  BY Zenon DEF PostData
<1> HIDE DEF type
<1>4. CASE HasBody(method, data)
  BY <1>1, <1>2, <1>3, <1>4 DEF Carried, type, Headers
<1>5. CASE ~HasBody(method, data)
  BY <1>5 DEF Carried
<1> QED BY <1>4, <1>5

LEMMA SettledOnceMore ==
  ASSUME NEW q \in Seq({"resolve", "reject"}), q = <<>>,
         NEW o \in {"resolve", "reject"}
  PROVE  /\ Append(q, o) \in Seq({"resolve", "reject"})
         /\ Len(Append(q, o)) = 1 /\ Append(q, o) # <<>>
OBVIOUS

LEMMA FetchesInvInit == FetchesInit => FetchesInv
<1> SUFFICES ASSUME FetchesInit PROVE FetchesInv
  OBVIOUS
<1>1. (CHOOSE p \in FetchPage : TRUE) \in FetchPage
  BY FetchesAssumption
<1>2. FetchesTypeOK
  BY <1>1 DEF FetchesInit, FetchesTypeOK, FetchSteps
<1> QED BY <1>2 DEF FetchesInit, FetchesInv, FetchInStep, NothingSent

(* A call is refused: its promise is rejected at once.                     *)
LEMMA RefusedInStep ==
  ASSUME FetchesInv, NEW c \in FetchCall, NEW p \in FetchPage,
         WrapFetchRefused(c, p)
  PROVE  FetchesInv'
<1>1. /\ fetching[c].step = "idle" /\ p \notin detached
      /\ fetching' = [fetching EXCEPT ![c] = [page |-> p, step |-> "refused"]]
      /\ promise' = [promise EXCEPT ![c] = Append(@, "reject")]
      /\ UNCHANGED <<sent, linklist, detached, destroyed>>
  BY DEF WrapFetchRefused, Settles
<1>2. PICK left \in SUBSET All : owns' = [owns EXCEPT ![c] = left]
  BY DEF WrapFetchRefused, All
<1>3. promise[c] = <<>> /\ promise[c] \in Seq({"resolve", "reject"})
  BY <1>1 DEF FetchesInv, FetchInStep
<1>4. /\ Append(promise[c], "reject") \in Seq({"resolve", "reject"})
      /\ Len(Append(promise[c], "reject")) = 1
      /\ Append(promise[c], "reject") # <<>>
  BY <1>3, SettledOnceMore
<1>5. FetchesTypeOK'
  BY <1>1, <1>2 DEF FetchesInv, FetchesTypeOK, FetchSteps
<1>6. FetchInStep(c)'
  <2>1. fetching'[c].step = "refused" /\ promise'[c] = Append(promise[c], "reject")
    BY <1>1 DEF FetchesInv, FetchesTypeOK
  <2>2. c \notin linklist
    BY <1>1 DEF FetchesInv, FetchInStep
  <2> QED BY <1>1, <1>4, <2>1, <2>2 DEF FetchesInv, FetchInStep
<1>7. ASSUME NEW b \in FetchCall, b # c PROVE FetchInStep(b)'
  BY <1>1, <1>2, <1>7 DEF FetchesInv, FetchesTypeOK, FetchInStep
<1> QED BY <1>1, <1>4, <1>5, <1>6, <1>7 DEF FetchesInv

LEMMA FetchInStepKept ==
  ASSUME FetchesInv, NEW c \in FetchCall, NEW p \in FetchPage, WrapFetch(c, p)
  PROVE  FetchesInv'
<1>1. /\ fetching[c].step = "idle" /\ p \notin detached
      /\ fetching' = [fetching EXCEPT ![c] = [page |-> p, step |-> "running"]]
      /\ owns' = [owns EXCEPT ![c] = All]
      /\ linklist' = linklist \cup {c}
      /\ UNCHANGED <<promise, detached, destroyed>>
  BY DEF WrapFetch
<1>2. PICK method \in Methods, header \in Headers, data \in Data :
        sent' = [sent EXCEPT ![c] = Carried(method, header, data)]
  BY DEF WrapFetch
<1> DEFINE m == Carried(method, header, data)
<1>3. /\ m.body = "json" => m.type = "application/json"
      /\ m.body = "pairs" => m.type # "application/json"
  BY CarriedTyped
<1> HIDE DEF m
<1>4. FetchesTypeOK'
  BY <1>1 DEF FetchesInv, FetchesTypeOK, FetchSteps, All
<1>5. FetchInStep(c)'
  <2>1. fetching'[c].step = "running" /\ owns'[c] = All /\ sent'[c] = m
    BY <1>1, <1>2 DEF FetchesInv, FetchesTypeOK, m
  <2> QED BY <1>1, <1>3, <2>1 DEF FetchesInv, FetchInStep
<1>6. ASSUME NEW b \in FetchCall, b # c PROVE FetchInStep(b)'
  BY <1>1, <1>2, <1>6 DEF FetchesInv, FetchesTypeOK, FetchInStep
<1>7. ~destroyed
  BY <1>1 DEF FetchesInv
<1> QED BY <1>1, <1>2, <1>4, <1>5, <1>6, <1>7 DEF FetchesInv

(* What is freed is out of the list, and carries nothing.                  *)
LEMMA FreesInStep ==
  ASSUME FetchesInv, NEW cs \in SUBSET FetchCall, Frees(cs)
  PROVE  /\ linklist' = linklist \ cs
         /\ DOMAIN sent' = FetchCall /\ sent' = [c \in FetchCall |-> sent'[c]]
         /\ fetching' \in [FetchCall -> [page : FetchPage, step : FetchSteps]]
         /\ owns' \in [FetchCall -> SUBSET All]
         /\ \A c \in FetchCall \ cs :
              /\ fetching'[c] = fetching[c] /\ owns'[c] = owns[c]
              /\ sent'[c] = sent[c]
         /\ \A c \in cs :
              /\ fetching'[c].step = "ended" /\ owns'[c] = {}
              /\ fetching'[c].page = fetching[c].page
              /\ sent'[c] = NothingSent
<1>1. fetching \in [FetchCall -> [page : FetchPage, step : FetchSteps]]
      /\ owns \in [FetchCall -> SUBSET All]
  BY DEF FetchesInv, FetchesTypeOK
<1>2. /\ linklist' = linklist \ cs
      /\ fetching' = [c \in FetchCall |-> IF c \in cs
                       THEN [fetching[c] EXCEPT !.step = "ended"]
                       ELSE fetching[c]]
      /\ sent' = [c \in FetchCall |-> IF c \in cs THEN NothingSent ELSE sent[c]]
      /\ owns' = [c \in FetchCall |-> IF c \in cs THEN {} ELSE owns[c]]
  BY DEF Frees
<1>3. ASSUME NEW c \in cs
      PROVE  /\ [fetching[c] EXCEPT !.step = "ended"] \in
                   [page : FetchPage, step : FetchSteps]
             /\ fetching'[c].step = "ended"
             /\ fetching'[c].page = fetching[c].page
  <2>1. fetching[c] \in [page : FetchPage, step : FetchSteps]
    BY <1>1
  <2>2. fetching'[c] = [fetching[c] EXCEPT !.step = "ended"]
    BY <1>2
  <2> QED BY <2>1, <2>2 DEF FetchSteps
<1>4. fetching' \in [FetchCall -> [page : FetchPage, step : FetchSteps]]
  BY <1>1, <1>2, <1>3
<1>5. DOMAIN sent' = FetchCall /\ sent' = [c \in FetchCall |-> sent'[c]]
  BY <1>2
<1>6. owns' \in [FetchCall -> SUBSET All]
  BY <1>1, <1>2
<1> QED BY <1>2, <1>3, <1>4, <1>5, <1>6

LEMMA CallbackInStep ==
  ASSUME FetchesInv, NEW c \in FetchCall, FetchRequestCb(c) PROVE FetchesInv'
<1>1. /\ fetching[c].step = "running" /\ Frees({c})
      /\ UNCHANGED <<detached, destroyed>>
      /\ IF fetching[c].page \in detached THEN UNCHANGED promise
         ELSE \E outcome \in {"resolve", "reject"} : Settles(c, outcome)
  BY DEF FetchRequestCb
<1>2. promise[c] = <<>> /\ promise[c] \in Seq({"resolve", "reject"})
      /\ c \in linklist
  BY <1>1 DEF FetchesInv, FetchInStep
<1>3. /\ promise' \in [FetchCall -> Seq({"resolve", "reject"})]
      /\ \A b \in FetchCall : b # c => promise'[b] = promise[b]
      /\ Len(promise'[c]) <= 1
      /\ promise'[c] = <<>> => fetching[c].page \in detached
  <2>1. CASE fetching[c].page \in detached
    BY <1>1, <1>2, <2>1 DEF FetchesInv
  <2>2. CASE fetching[c].page \notin detached
    <3>1. PICK o \in {"resolve", "reject"} :
            promise' = [promise EXCEPT ![c] = Append(@, o)]
      BY <1>1, <2>2 DEF Settles
    <3>2. /\ Append(promise[c], o) \in Seq({"resolve", "reject"})
          /\ Len(Append(promise[c], o)) = 1 /\ Append(promise[c], o) # <<>>
      BY <1>2, SettledOnceMore
    <3> QED BY <3>1, <3>2 DEF FetchesInv
  <2> QED BY <2>1, <2>2
<1>4. /\ linklist' = linklist \ {c}
      /\ DOMAIN sent' = FetchCall /\ sent' = [b \in FetchCall |-> sent'[b]]
      /\ fetching' \in [FetchCall -> [page : FetchPage, step : FetchSteps]]
      /\ owns' \in [FetchCall -> SUBSET All]
      /\ \A b \in FetchCall \ {c} :
           /\ fetching'[b] = fetching[b] /\ owns'[b] = owns[b]
           /\ sent'[b] = sent[b]
      /\ fetching'[c].step = "ended" /\ owns'[c] = {}
      /\ fetching'[c].page = fetching[c].page /\ sent'[c] = NothingSent
  BY <1>1, FreesInStep
<1>5. FetchesTypeOK'
  BY <1>1, <1>4 DEF FetchesInv, FetchesTypeOK
<1>6. FetchInStep(c)'
  BY <1>1, <1>3, <1>4 DEF FetchesInv, FetchInStep, NothingSent
<1>7. ASSUME NEW b \in FetchCall, b # c PROVE FetchInStep(b)'
  <2>1. /\ fetching'[b] = fetching[b] /\ owns'[b] = owns[b] /\ sent'[b] = sent[b]
        /\ promise'[b] = promise[b] /\ detached' = detached
        /\ b \in linklist' <=> b \in linklist
    BY <1>1, <1>3, <1>4, <1>7
  <2>2. FetchInStep(b)
    BY DEF FetchesInv
  <2> QED BY <2>1, <2>2 DEF FetchInStep
<1> QED BY <1>1, <1>2, <1>3, <1>4, <1>5, <1>6, <1>7 DEF FetchesInv

LEMMA DetachedInStep ==
  ASSUME FetchesInv, NEW p \in FetchPage, FetchDetached(p) PROVE FetchesInv'
<1>1. /\ p \notin detached /\ detached' = detached \cup {p}
      /\ UNCHANGED <<fetching, linklist, promise, owns, sent, destroyed>>
  BY DEF FetchDetached
<1>2. FetchesTypeOK'
  BY <1>1 DEF FetchesInv, FetchesTypeOK
<1>3. \A c \in FetchCall : FetchInStep(c)'
  BY <1>1 DEF FetchesInv, FetchInStep
<1> QED BY <1>1, <1>2, <1>3 DEF FetchesInv

(* onDestroy ends exactly the calls that run, and all pages are gone.      *)
LEMMA DestroyedInStep ==
  ASSUME FetchesInv, FetchDestroyed PROVE FetchesInv'
<1>1. /\ detached = FetchPage /\ destroyed' = TRUE /\ Frees(linklist)
      /\ UNCHANGED <<promise, detached>>
  BY DEF FetchDestroyed
<1>2. linklist \in SUBSET FetchCall
  BY DEF FetchesInv, FetchesTypeOK
<1>3. /\ linklist' = {}
      /\ DOMAIN sent' = FetchCall /\ sent' = [b \in FetchCall |-> sent'[b]]
      /\ fetching' \in [FetchCall -> [page : FetchPage, step : FetchSteps]]
      /\ owns' \in [FetchCall -> SUBSET All]
      /\ \A b \in FetchCall \ linklist :
           /\ fetching'[b] = fetching[b] /\ owns'[b] = owns[b]
           /\ sent'[b] = sent[b]
      /\ \A b \in linklist :
           /\ fetching'[b].step = "ended" /\ owns'[b] = {}
           /\ fetching'[b].page = fetching[b].page /\ sent'[b] = NothingSent
  BY <1>1, <1>2, FreesInStep
<1>4. FetchesTypeOK'
  BY <1>1, <1>3 DEF FetchesInv, FetchesTypeOK
<1>5. ASSUME NEW b \in linklist PROVE FetchInStep(b)'
  <2>1. /\ b \in FetchCall /\ promise[b] = <<>> /\ fetching[b].page \in detached
        /\ Len(promise[b]) <= 1
    BY <1>1, <1>2 DEF FetchesInv, FetchesTypeOK, FetchInStep
  <2> QED BY <1>1, <1>3, <2>1 DEF FetchInStep, NothingSent
<1>6. ASSUME NEW b \in FetchCall \ linklist PROVE FetchInStep(b)'
  <2>1. /\ fetching'[b] = fetching[b] /\ owns'[b] = owns[b] /\ sent'[b] = sent[b]
        /\ promise'[b] = promise[b] /\ detached' = detached
        /\ b \notin linklist' /\ b \notin linklist
    BY <1>1, <1>3
  <2>2. FetchInStep(b)
    BY DEF FetchesInv
  <2> QED BY <2>1, <2>2 DEF FetchInStep
<1> QED BY <1>1, <1>3, <1>4, <1>5, <1>6 DEF FetchesInv

(* Fairness plays no part. *)
LEMMA FetchesInvHolds ==
  FetchesInit /\ [][FetchesNext]_fhVars => []FetchesInv
<1>1. FetchesInv /\ [FetchesNext]_fhVars => FetchesInv'
  <2> SUFFICES ASSUME FetchesInv, [FetchesNext]_fhVars PROVE FetchesInv'
    OBVIOUS
  <2>1. CASE UNCHANGED fhVars
    BY <2>1 DEF FetchesInv, FetchesTypeOK, FetchInStep, fhVars
  <2>2. CASE FetchesNext
    BY <2>2, RefusedInStep, FetchInStepKept, CallbackInStep, DetachedInStep,
       DestroyedInStep
    DEF FetchesNext
  <2> QED BY <2>1, <2>2
<1> QED BY <1>1, FetchesInvInit, PTL

(* The list of the waiting calls and what is kept of each call stay what   *)
(* they are declared to be.                                                *)
THEOREM FetchesTypesHold == FetchesSpec => []FetchesTypeOK
<1>1. FetchesInv => FetchesTypeOK
  BY DEF FetchesInv
<1> QED BY <1>1, FetchesInvHolds, PTL DEF FetchesSpec

LEMMA FetchInvSettles == FetchesInv => FetchedOnce
  BY DEF FetchesInv, FetchInStep, FetchedOnce

(* A fetch is resolved or rejected at most once, and its data goes after   *)
(* that: the answer of the net, the detach of its page and the end of the  *)
(* prototype settle and free it in any order.                              *)
THEOREM FetchesSettleOnce == FetchesSpec => []FetchedOnce
BY FetchInvSettles, FetchesInvHolds, PTL DEF FetchesSpec

-----------------------------------------------------------------------------
(* The components loaded together: a step is one of a component, or leaves *)
(* its variables alone.                                                    *)
LEMMA FeaturesStep ==
  [FeaturesNext]_mcVars =>
    /\ [Next]_vars /\ [RequestsNext]_mrVars /\ [InterconnectNext]_icVars
    /\ [LocationsNext]_loVars /\ [PromptsNext]_prVars /\ [FetchesNext]_fhVars
<1> SUFFICES ASSUME [FeaturesNext]_mcVars
             PROVE  /\ [Next]_vars /\ [RequestsNext]_mrVars
                    /\ [InterconnectNext]_icVars /\ [LocationsNext]_loVars
                    /\ [PromptsNext]_prVars /\ [FetchesNext]_fhVars
  OBVIOUS
<1>1. CASE UNCHANGED mcVars
  BY <1>1 DEF mcVars
<1>2. CASE Next /\ OnlyPermissions
  BY <1>2 DEF OnlyPermissions
<1>3. CASE RequestsNext /\ OnlyRequests
  BY <1>3 DEF OnlyRequests
<1>4. CASE InterconnectNext /\ OnlyInterconnect
  BY <1>4 DEF OnlyInterconnect
<1>5. CASE LocationsNext /\ OnlyLocations
  BY <1>5 DEF OnlyLocations
<1>6. CASE PromptsNext /\ OnlyPrompts
  BY <1>6 DEF OnlyPrompts
<1>7. CASE FetchesNext /\ OnlyFetches
  BY <1>7 DEF OnlyFetches
<1> QED BY <1>1, <1>2, <1>3, <1>4, <1>5, <1>6, <1>7 DEF FeaturesNext

LEMMA FeaturesLoaded ==
  FeaturesSpec =>
    /\ Spec /\ RequestsSpec /\ InterconnectSpec
    /\ LocationsSpec /\ PromptsSpec
    /\ FetchesInit /\ [][FetchesNext]_fhVars
<1>1. FeaturesInit =>
        /\ Init /\ RequestsInit /\ InterconnectInit
        /\ LocationsInit /\ PromptsInit /\ FetchesInit
  BY DEF FeaturesInit
<1>2. FeaturesSpec => FeaturesInit /\ [][FeaturesNext]_mcVars
  BY PTL DEF FeaturesSpec
<1> QED BY <1>1, <1>2, FeaturesStep, PTL
        DEF Spec, RequestsSpec, InterconnectSpec, LocationsSpec, PromptsSpec

(* A dialog hears one outcome and then complete, a fetch one outcome,      *)
(* however the pages, the loop and the net take their turns.               *)
THEOREM FeaturesAnswerOnce == FeaturesSpec => []AnswersOnce
<1>1. OutcomeThenComplete /\ FetchedOnce => AnswersOnce
  BY DEF AnswersOnce
<1> QED BY <1>1, FeaturesLoaded, PromptsOutcomeThenComplete,
           FetchesInvHolds, FetchInvSettles, PTL

(* All components stay within their types, and no task of the permissions  *)
(* reads an info that was deleted, when the host decides before the page   *)
(* ends and no function detaches the instance it is called for.            *)
THEOREM FeaturesTypedAndAlive ==
  ASSUME LateDecisions = 0, ~DetachInCallback
  PROVE  FeaturesSpec => []TypedAndAlive
<1>1. TypeOK /\ RequestsTypeOK /\ InterconnectTypeOK
        /\ LocationsTypeOK /\ PromptsTypeOK /\ FetchesTypeOK
        /\ NoUseAfterDelete => TypedAndAlive
  BY DEF TypedAndAlive
<1>2. Spec => []NoUseAfterDelete
  BY PermissionsStayAlive
<1>3. FetchesInv => FetchesTypeOK
  BY DEF FetchesInv
<1> QED BY <1>1, <1>2, <1>3, FeaturesLoaded, PermissionsTypesHold,
           RequestsTypesHold, InterconnectTypesHold, LocationsTypesHold,
           PromptsTypesHold, FetchesInvHolds, PTL
=============================================================================
