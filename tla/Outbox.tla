------------------------------- MODULE Outbox -------------------------------
(***************************************************************************)
(* What the message queue of the scheduler promises: a numbered outbox     *)
(* from which only the oldest waiting entry may be delivered, and each     *)
(* event at most once.  The other deliveries (number 0) bypass it.         *)
(***************************************************************************)
EXTENDS Naturals, Sequences

CONSTANT Events

VARIABLES
  box,     \* the waiting entries, oldest first
  log,     \* what has been delivered, in order
  nextNo   \* number of the next entry

vars == <<box, log, nextNo>>

Item == [event : Events, no : Nat]

Delivered(e) == \E k \in DOMAIN log : log[k].event = e

Init == box = <<>> /\ log = <<>> /\ nextNo = 1

Put(e) ==
  /\ box' = Append(box, [event |-> e, no |-> nextNo])
  /\ nextNo' = nextNo + 1
  /\ UNCHANGED log

Deliver ==
  /\ box # <<>>
  /\ ~Delivered(box[1].event)
  /\ log' = Append(log, box[1])
  /\ UNCHANGED <<box, nextNo>>

Bypass(e) ==
  /\ ~Delivered(e)
  /\ log' = Append(log, [event |-> e, no |-> 0])
  /\ UNCHANGED <<box, nextNo>>

\* An entry leaves: delivered, given up or cancelled.
Take(at) ==
  /\ box' = [i \in 1..(Len(box) - 1) |-> IF i < at THEN box[i] ELSE box[i + 1]]
  /\ UNCHANGED <<log, nextNo>>

\* The client is reloaded.
Clear == box' = <<>> /\ UNCHANGED <<log, nextNo>>

Next ==
  \/ \E e \in Events : Put(e) \/ Bypass(e)
  \/ Deliver
  \/ \E at \in DOMAIN box : Take(at)
  \/ Clear

Spec == Init /\ [][Next]_vars

\* Deliveries from the box happen in the order of Put.
InOrder ==
  \A i, j \in DOMAIN log :
    (i < j /\ log[i].no > 0 /\ log[j].no > 0) => log[i].no < log[j].no

\* No event is delivered twice.
AtMostOnce ==
  \A i, j \in DOMAIN log : log[i].event = log[j].event => i = j
=============================================================================
