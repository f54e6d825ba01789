---------------------------- MODULE TaskMailbox -----------------------------
(***************************************************************************)
(* What posting a task promises: a task that is accepted gets the next     *)
(* number and is called exactly once, in the order of acceptance, on one   *)
(* thread; the mailbox is only closed once it is empty, and a closed       *)
(* mailbox accepts nothing.                                                *)
(***************************************************************************)
EXTENDS Naturals, Sequences

CONSTANT Sender

VARIABLES
  box,     (* accepted and not yet called, oldest first *)
  log,     (* numbers of the tasks called               *)
  count,   (* number of tasks accepted                  *)
  closed

mailboxVars == <<box, log, count, closed>>

Message == [id : Nat \ {0}, inst : Sender]

Init ==
  /\ box = <<>> /\ log = <<>>
  /\ count = 0 /\ closed = FALSE

Post(s) ==
  /\ ~closed
  /\ count' = count + 1
  /\ box' = Append(box, [id |-> count + 1, inst |-> s])
  /\ UNCHANGED <<log, closed>>

Call ==
  /\ ~closed /\ box # <<>>
  /\ log' = Append(log, Head(box).id)
  /\ box' = Tail(box)
  /\ UNCHANGED <<count, closed>>

Close ==
  /\ ~closed /\ box = <<>>
  /\ closed' = TRUE
  /\ UNCHANGED <<box, log, count>>

Next == (\E s \in Sender : Post(s)) \/ Call \/ Close

Spec == Init /\ [][Next]_mailboxVars

=============================================================================
