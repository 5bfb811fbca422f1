---------------------------- MODULE OutboxProofs ----------------------------
(* The outbox keeps its promises, for any set of events.                    *)
EXTENDS Outbox, TLAPS

TypeOK == box \in Seq(Item) /\ log \in Seq(Item) /\ nextNo \in Nat \ {0}

\* The numbers in the box increase and lie below nextNo.
BoxSorted ==
  /\ \A i \in DOMAIN box : box[i].no > 0 /\ box[i].no < nextNo
  /\ \A i, j \in DOMAIN box : i < j => box[i].no < box[j].no

\* Nothing waiting is older than a delivery, and a delivery that shares its
\* number with a waiting entry is that entry's own.
LogBehindBox ==
  /\ \A k \in DOMAIN log : log[k].no < nextNo
  /\ \A k \in DOMAIN log : \A i \in DOMAIN box :
       /\ log[k].no <= box[i].no
       /\ log[k].no = box[i].no => log[k].event = box[i].event

Inv == TypeOK /\ BoxSorted /\ LogBehindBox /\ InOrder /\ AtMostOnce

\* What the elements of the box and of the log are.
LEMMA Elements ==
  ASSUME TypeOK
  PROVE  /\ \A i \in DOMAIN box : box[i] \in Item /\ box[i].no \in Nat
         /\ \A k \in DOMAIN log : log[k] \in Item /\ log[k].no \in Nat
         /\ DOMAIN box = 1..Len(box) /\ DOMAIN log = 1..Len(log)
         /\ Len(box) \in Nat /\ Len(log) \in Nat /\ nextNo \in Nat /\ nextNo > 0
<1>1. /\ \A i \in DOMAIN box : box[i] \in Item
      /\ \A k \in DOMAIN log : log[k] \in Item
  BY DEF TypeOK
<1>2. \A x \in Item : x.no \in Nat
  BY DEF Item
<1> QED BY <1>1, <1>2 DEF TypeOK

\* The empty outbox satisfies the invariant.
LEMMA InitInv == Init => Inv
  BY DEF Init, Inv, TypeOK, BoxSorted, LogBehindBox, InOrder, AtMostOnce

\* Putting an entry at the end: its number is above all others.
LEMMA PutInv == ASSUME Inv, NEW e \in Events, Put(e) PROVE Inv'
<1> USE Elements
<1>1. TypeOK'
  BY DEF Inv, TypeOK, Put, Item
<1>2. /\ DOMAIN box' = 1..(Len(box) + 1)
      /\ \A i \in DOMAIN box : box'[i] = box[i]
      /\ box'[Len(box) + 1] = [event |-> e, no |-> nextNo]
  BY DEF Inv, TypeOK, Put, Item
<1>3. DOMAIN box = 1..Len(box) /\ nextNo' = nextNo + 1 /\ log' = log
  BY DEF Inv, TypeOK, Put
<1>4. BoxSorted'
  <2>1. \A i \in DOMAIN box' : box'[i].no > 0 /\ box'[i].no < nextNo'
    BY <1>2, <1>3 DEF Inv, BoxSorted
  <2>2. \A i, j \in DOMAIN box' : i < j => box'[i].no < box'[j].no
    <3> SUFFICES ASSUME NEW i \in DOMAIN box', NEW j \in DOMAIN box', i < j
                 PROVE  box'[i].no < box'[j].no
      OBVIOUS
    <3>1. i \in DOMAIN box
      BY <1>2, <1>3 DEF Inv
    <3>2. CASE j \in DOMAIN box
      BY <1>2, <3>1, <3>2 DEF Inv, BoxSorted
    <3>3. CASE j = Len(box) + 1
      BY <1>2, <3>1, <3>3 DEF Inv, BoxSorted
    <3> QED BY <1>2, <1>3, <3>2, <3>3 DEF Inv
  <2> QED BY <2>1, <2>2 DEF BoxSorted
<1>5. LogBehindBox'
  <2>1. ASSUME NEW k \in DOMAIN log, NEW i \in DOMAIN box'
        PROVE  /\ log[k].no <= box'[i].no
               /\ log[k].no = box'[i].no => log[k].event = box'[i].event
    <3>1. log[k].no \in Nat /\ log[k].no < nextNo
      BY DEF Inv, TypeOK, LogBehindBox, Item
    <3>2. CASE i \in DOMAIN box
      BY <3>2, <1>2 DEF Inv, LogBehindBox
    <3>3. CASE i = Len(box) + 1
      BY <3>1, <3>3, <1>2 DEF Inv, TypeOK
    <3> QED BY <1>2, <1>3, <3>2, <3>3
  <2>2. \A k \in DOMAIN log : log[k].no < nextNo'
    BY <1>3 DEF Inv, TypeOK, LogBehindBox, Item
  <2> QED BY <1>3, <2>1, <2>2 DEF LogBehindBox
<1>6. InOrder' /\ AtMostOnce'
  BY <1>3 DEF Inv, InOrder, AtMostOnce
<1> QED BY <1>1, <1>4, <1>5, <1>6 DEF Inv

\* Appending an undelivered item whose number is 0, or above all deliveries
\* and not above the box, keeps the log in order.
LEMMA LogGrows ==
  ASSUME Inv, NEW item \in Item, UNCHANGED <<box, nextNo>>,
         log' = Append(log, item), ~Delivered(item.event), item.no < nextNo,
         item.no > 0 => \A k \in DOMAIN log : log[k].no < item.no,
         \A i \in DOMAIN box : /\ item.no <= box[i].no
                               /\ item.no = box[i].no => item.event = box[i].event
  PROVE  Inv'
<1> USE Elements
<1>1. TypeOK'
  BY DEF Inv, TypeOK
<1>2. /\ DOMAIN log' = 1..(Len(log) + 1)
      /\ \A k \in DOMAIN log : log'[k] = log[k]
      /\ log'[Len(log) + 1] = item
      /\ DOMAIN log = 1..Len(log)
  BY DEF Inv, TypeOK
<1>3. BoxSorted'
  BY DEF Inv, BoxSorted
<1>4. LogBehindBox'
  BY <1>2 DEF Inv, LogBehindBox
<1>5. InOrder'
  BY <1>2 DEF Inv, InOrder, TypeOK, Item
<1>6. AtMostOnce'
  BY <1>2 DEF Inv, AtMostOnce, TypeOK, Delivered
<1> QED BY <1>1, <1>3, <1>4, <1>5, <1>6 DEF Inv

\* Delivering the oldest entry.
LEMMA DeliverInv == ASSUME Inv, Deliver PROVE Inv'
<1> USE Elements
<1>1. 1 \in DOMAIN box /\ box[1] \in Item /\ DOMAIN box = 1..Len(box)
  BY DEF Inv, TypeOK, Deliver
<1>2. \A k \in DOMAIN log : log[k].no < box[1].no
  <2> SUFFICES ASSUME NEW k \in DOMAIN log PROVE log[k].no < box[1].no
    OBVIOUS
  <2>1. log[k] \in Item
    BY DEF Inv, TypeOK
  <2>2. log[k].no <= box[1].no /\ (log[k].no = box[1].no => log[k].event = box[1].event)
    BY <1>1 DEF Inv, LogBehindBox
  <2>3. log[k].event # box[1].event
    BY DEF Deliver, Delivered
  <2> QED BY <1>1, <2>1, <2>2, <2>3 DEF Item
<1>3. \A i \in DOMAIN box : /\ box[1].no <= box[i].no
                            /\ box[1].no = box[i].no => box[1].event = box[i].event
  <2> SUFFICES ASSUME NEW i \in DOMAIN box
               PROVE  /\ box[1].no <= box[i].no
                      /\ box[1].no = box[i].no => box[1].event = box[i].event
    OBVIOUS
  <2>1. CASE i = 1
    BY <1>1, <2>1 DEF Inv
  <2>2. CASE 1 < i
    <3>1. box[1].no < box[i].no
      BY <1>1, <2>2 DEF Inv, BoxSorted
    <3> QED BY <1>1, <3>1 DEF Inv
  <2> QED BY <1>1, <2>1, <2>2 DEF Inv
<1>4. box[1].no < nextNo
  BY <1>1 DEF Inv, BoxSorted
<1> QED BY <1>1, <1>2, <1>3, <1>4, LogGrows DEF Deliver

\* Delivering past the box.
LEMMA BypassInv == ASSUME Inv, NEW e \in Events, Bypass(e) PROVE Inv'
<1> USE Elements
<1> DEFINE item == [event |-> e, no |-> 0]
<1>1. item \in Item /\ item.no = 0 /\ item.event = e
  BY DEF Item
<1>2. 0 < nextNo
  BY DEF Inv, TypeOK
<1>3. \A i \in DOMAIN box : /\ 0 <= box[i].no /\ 0 # box[i].no
  BY DEF Inv, TypeOK, BoxSorted, Item
<1> HIDE DEF item
<1> QED BY <1>1, <1>2, <1>3, LogGrows DEF Bypass, item

\* Entries that leave do not disturb the order of the others.
LEMMA TakeInv == ASSUME Inv, NEW at \in DOMAIN box, Take(at) PROVE Inv'
<1> USE Elements
<1>1. DOMAIN box = 1..Len(box) /\ Len(box) \in Nat /\ at \in 1..Len(box)
  BY DEF Inv, TypeOK
<1>2. /\ DOMAIN box' = 1..(Len(box) - 1)
      /\ \A i \in DOMAIN box' : box'[i] = IF i < at THEN box[i] ELSE box[i + 1]
      /\ log' = log /\ nextNo' = nextNo
  BY DEF Take
<1>3. \A i \in DOMAIN box' : \E n \in DOMAIN box :
        box'[i] = box[n] /\ n = IF i < at THEN i ELSE i + 1
  BY <1>1, <1>2
<1>4. TypeOK'
  <2>1. \A i \in DOMAIN box' : box'[i] \in Item
    BY <1>3 DEF Inv, TypeOK
  <2>2. Len(box) - 1 \in Nat
    BY <1>1
  <2>3. box' \in Seq(Item)
    BY <2>1, <2>2 DEF Take
  <2> QED BY <1>2, <2>3 DEF Inv, TypeOK
<1>5. BoxSorted'
  <2>1. \A i \in DOMAIN box' : box'[i].no > 0 /\ box'[i].no < nextNo'
    BY <1>2, <1>3 DEF Inv, BoxSorted
  <2>2. \A i, j \in DOMAIN box' : i < j => box'[i].no < box'[j].no
    <3> SUFFICES ASSUME NEW i \in DOMAIN box', NEW j \in DOMAIN box', i < j
                 PROVE  box'[i].no < box'[j].no
      OBVIOUS
    <3>1. PICK n \in DOMAIN box : box'[i] = box[n] /\ n = IF i < at THEN i ELSE i + 1
      BY <1>3
    <3>2. PICK m \in DOMAIN box : box'[j] = box[m] /\ m = IF j < at THEN j ELSE j + 1
      BY <1>3
    <3>3. n < m
      BY <1>1, <1>2, <3>1, <3>2
    <3> QED BY <3>1, <3>2, <3>3 DEF Inv, BoxSorted
  <2> QED BY <2>1, <2>2 DEF BoxSorted
<1>6. LogBehindBox'
  BY <1>2, <1>3 DEF Inv, LogBehindBox
<1>7. InOrder' /\ AtMostOnce'
  BY <1>2 DEF Inv, InOrder, AtMostOnce
<1> QED BY <1>4, <1>5, <1>6, <1>7 DEF Inv

\* Emptying the box.
LEMMA ClearInv == ASSUME Inv, Clear PROVE Inv'
  BY DEF Inv, TypeOK, BoxSorted, LogBehindBox, InOrder, AtMostOnce, Clear

\* The outbox delivers in order, each event once (the promise SendPipeline's
\* message queue is shown to keep).
THEOREM OutboxInOrder == Spec => [](InOrder /\ AtMostOnce)
<1>1. Inv /\ [Next]_vars => Inv'
  <2> SUFFICES ASSUME Inv, [Next]_vars PROVE Inv'
    OBVIOUS
  <2>1. CASE UNCHANGED vars
    BY <2>1 DEF vars, Inv, TypeOK, BoxSorted, LogBehindBox, InOrder, AtMostOnce
  <2>2. CASE Next
    BY <2>2, PutInv, BypassInv, DeliverInv, TakeInv, ClearInv DEF Next
  <2> QED BY <2>1, <2>2
<1>2. Inv => InOrder /\ AtMostOnce
  BY DEF Inv
<1> QED BY InitInv, <1>1, <1>2, PTL DEF Spec
=============================================================================
