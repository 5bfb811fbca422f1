------------------------- MODULE SendPipelineProofs -------------------------
(***************************************************************************)
(* Proofs about SendPipeline for every set of events, every queueing and   *)
(* relation structure and every value of the bounds: the queue's head is   *)
(* the entry in flight, the queue implements Outbox, local echoes resolve  *)
(* and relations follow their targets.                                     *)
(***************************************************************************)
EXTENDS SendPipeline, TLAPS

USE DEF removePendingEvent, addPendingEvent, handleRemoteEcho

\* The outbox as the refinement mapping of SendPipeline shows it.
Box == [i \in DOMAIN queue |-> [event |-> queue[i].event, no |-> queue[i].no]]

OBP == INSTANCE OutboxProofs WITH
         box <- [i \in DOMAIN queue |-> [event |-> queue[i].event, no |-> queue[i].no]],
         log <- server

-----------------------------------------------------------------------------
(* What the building blocks preserve.                                      *)

\* savePendingEvents stores a part of the list it is given.
LEMMA SaveType ==
  ASSUME NEW list \in SUBSET Events, NEW enc, NEW named \in SUBSET Relations,
         savePendingEvents(list, enc, named)
  PROVE  saved' \subseteq Events /\ savedLinked' \subseteq Relations
  BY DEF savePendingEvents

\* ReplaceEventId only moves relations from listening to linked.
LEMMA ReplaceType ==
  ASSUME NEW x \in Events, ReplaceEventId(x), TypeOK
  PROVE  /\ remoteId' \subseteq Events
         /\ linked' \subseteq Relations /\ listening' \subseteq Relations
  BY DEF ReplaceEventId, TypeOK

\* The variables that no scheduling step touches.
SideType ==
  /\ encd \subseteq Events /\ remoteId \subseteq Events /\ gaveUp \subseteq Events
  /\ txn \subseteq Events /\ pending \subseteq Events /\ restoring \subseteq Events
  /\ saved \subseteq Events /\ tlLocal \subseteq Events /\ tlRemote \subseteq Events
  /\ linked \subseteq Relations /\ listening \subseteq Relations
  /\ savedLinked \subseteq Relations
  /\ used \in [resends : Nat, rateLimits : Nat, resets : Nat, restarts : Nat]

\* The variables the queue's invariants are about.
QueueType ==
  /\ status \in [Events -> Status]
  /\ queue \in Seq(Entry)
  /\ cur \in Entry \cup {NoEntry}
  /\ sched \in {"idle", "start", "http", "timer"}
  /\ req \in [Events -> {"none", "sent", "accepted"}]
  /\ nextNo \in Nat

NetType ==
  /\ server \in Seq([event : Events, no : Nat])
  /\ synced \in 0..Len(server)

LEMMA TypeSplit == TypeOK <=> SideType /\ QueueType /\ NetType
  BY DEF TypeOK, SideType, QueueType, NetType

QueueInv == /\ QueueType /\ HeadIsInFlight /\ QueueWellFormed
            /\ CurrentNotCancellable /\ OneQueuedRequest

LEMMA InvSplit ==
  IInv <=> SideType /\ NetType /\ QueueInv /\ RestoringIsIdle /\ PendingIsLive
  BY TypeSplit DEF IInv, QueueInv

\* The elements of a sequence over S are in S.
LEMMA SeqElements ==
  ASSUME NEW S, NEW s \in Seq(S)
  PROVE  /\ DOMAIN s = 1..Len(s) /\ Len(s) \in Nat
         /\ \A i \in DOMAIN s : s[i] \in S
  OBVIOUS

\* The elements of the queue are entries.
LEMMA QueueElements ==
  ASSUME queue \in Seq(Entry)
  PROVE  /\ DOMAIN queue = 1..Len(queue) /\ Len(queue) \in Nat
         /\ \A i \in DOMAIN queue : /\ queue[i] \in Entry
                                    /\ queue[i].event \in Events
                                    /\ queue[i].no \in Nat
                                    /\ queue[i].attempts \in Nat
<1>1. DOMAIN queue = 1..Len(queue) /\ Len(queue) \in Nat
  OBVIOUS
<1>2. \A i \in DOMAIN queue : queue[i] \in Entry
  OBVIOUS
<1>3. \A x \in Entry : x.event \in Events /\ x.no \in Nat /\ x.attempts \in Nat
  BY DEF Entry
<1> QED BY <1>1, <1>2, <1>3

\* The head and the tail of a queue that is not empty.
LEMMA QueueHead ==
  ASSUME queue \in Seq(Entry), queue # <<>>
  PROVE  /\ Len(queue) > 0 /\ 1 \in DOMAIN queue /\ Head(queue) = queue[1]
         /\ Head(queue) \in Entry /\ Head(queue).event \in Events
         /\ Tail(queue) \in Seq(Entry) /\ Len(Tail(queue)) = Len(queue) - 1
         /\ DOMAIN Tail(queue) = 1..(Len(queue) - 1)
         /\ \A i \in 1..(Len(queue) - 1) : Tail(queue)[i] = queue[i + 1]
<1>1. Len(queue) \in Nat /\ Len(queue) > 0 /\ 1 \in DOMAIN queue
  OBVIOUS
<1>2. Head(queue) = queue[1]
  OBVIOUS
<1>3. Head(queue) \in Entry /\ Head(queue).event \in Events
  BY <1>1, <1>2, QueueElements
<1>4. Tail(queue) \in Seq(Entry) /\ Len(Tail(queue)) = Len(queue) - 1
  OBVIOUS
<1>5. \A i \in 1..(Len(queue) - 1) : Tail(queue)[i] = queue[i + 1]
  OBVIOUS
<1> QED BY <1>1, <1>2, <1>3, <1>4, <1>5

\* With one entry per event, removeEventFromQueue drops exactly the position
\* at of that event.
LEMMA RemoveAt ==
  ASSUME queue \in Seq(Entry), QueueWellFormed,
         NEW e, NEW at \in DOMAIN queue, queue[at].event = e
  PROVE  removeEventFromQueue(e) =
           [i \in 1..(Len(queue) - 1) |-> IF i < at THEN queue[i] ELSE queue[i + 1]]
<1>1. DOMAIN queue = 1..Len(queue) /\ Len(queue) \in Nat
  BY QueueElements
<1>2. /\ queue[at].event = e
      /\ \A j \in 1..(at - 1) : queue[j].event # e
  BY <1>1 DEF QueueWellFormed
<1>3. \A i \in DOMAIN queue : queue[i].event = e => i = at
  BY DEF QueueWellFormed
<1>4. (CHOOSE i \in DOMAIN queue :
         /\ queue[i].event = e
         /\ \A j \in 1..(i - 1) : queue[j].event # e) = at
  BY <1>2, <1>3
<1> QED BY <1>2, <1>4 DEF removeEventFromQueue

-----------------------------------------------------------------------------
(* The sets of events keep their type.                                     *)

\* Every action of the application or the network keeps SideType.
LEMMA SideStep ==
  ASSUME SideType, NetType, QueueInv, Next, SendAssumption
  PROVE  SideType'
<1> USE DEF SideType
<1>0. QueueType /\ HeadIsInFlight
  BY DEF QueueInv
<1>c. sched = "http" => cur.event \in Events
  BY <1>0, QueueHead DEF HeadIsInFlight, QueueType
<1>h. queue # <<>> => Head(queue).event \in Events
  BY <1>0, QueueHead DEF QueueType
<1>r. ASSUME NEW obj, NEW kind, retryOrGiveUp(obj, kind), obj.event \in Events
      PROVE  gaveUp' \subseteq Events /\ saved' \subseteq Events /\ savedLinked' \subseteq Relations
  BY <1>r, SaveType DEF retryOrGiveUp, markNotSent, storeVars
<1>u. ASSUME NEW x \in Events, updateSent(x)
      PROVE  /\ remoteId' \subseteq Events /\ linked' \subseteq Relations
             /\ listening' \subseteq Relations /\ tlLocal' \subseteq Events
             /\ tlRemote' \subseteq Events
             /\ saved' \subseteq Events /\ savedLinked' \subseteq Relations
  <2>1. CASE AlreadySynced(x)
    BY <1>u, <2>1 DEF updateSent, storeVars
  <2>2. CASE ~AlreadySynced(x)
    <3>1. /\ remoteId' \subseteq Events /\ linked' \subseteq Relations
          /\ listening' \subseteq Relations
      BY <1>u, <2>2, <1>0, TypeSplit, ReplaceType DEF updateSent
    <3>2. tlLocal' \subseteq Events /\ tlRemote' \subseteq Events
      BY <1>u, <2>2 DEF updateSent
    <3>3. saved' \subseteq Events /\ savedLinked' \subseteq Relations
      BY <1>u, <2>2, <3>1, SaveType DEF updateSent
    <3> QED BY <3>1, <3>2, <3>3
  <2> QED BY <2>1, <2>2
<1>1. ASSUME NEW e \in Events, sendEvent(e) PROVE SideType'
  <2>1. linked' \subseteq Relations /\ listening' \subseteq Relations
    BY <1>1 DEF sendEvent, LinkToTarget
  <2>2. pending' \subseteq Events /\ gaveUp' \subseteq Events
    BY <1>1 DEF sendEvent
  <2>3. saved' \subseteq Events /\ savedLinked' \subseteq Relations
    BY <1>1, <2>1, <2>2, SaveType DEF sendEvent
  <2> QED BY <1>1, <2>1, <2>2, <2>3 DEF sendEvent
<1>2. ASSUME NEW e \in Events, encrypted(e) PROVE SideType'
  <2>1. saved' \subseteq Events /\ savedLinked' \subseteq Relations
    BY <1>2, SaveType DEF encrypted
  <2> QED BY <1>2, <2>1 DEF encrypted
<1>3. ASSUME NEW e \in Events, resendEvent(e) PROVE SideType'
  <2>1. saved' \subseteq Events /\ savedLinked' \subseteq Relations
    BY <1>3, SaveType DEF resendEvent
  <2> QED BY <1>3, <2>1 DEF resendEvent, Spend, idVars
<1>4. ASSUME NEW e \in Events, cancelPendingEvent(e) PROVE SideType'
  <2>1. pending' \subseteq Events
    BY <1>4 DEF cancelPendingEvent
  <2>2. saved' \subseteq Events /\ savedLinked' \subseteq Relations
    BY <1>4, <2>1, SaveType DEF cancelPendingEvent
  <2> QED BY <1>4, <2>1, <2>2 DEF cancelPendingEvent, idVars
<1>5. ASSUME NEW e \in Events, ServerAccepts(e) PROVE SideType'
  BY <1>5 DEF ServerAccepts, idVars, roomVars, storeVars
<1>6. ASSUME NEW e \in Events, DirectAnswer(e) PROVE SideType'
  <2>1. /\ remoteId' \subseteq Events /\ linked' \subseteq Relations
        /\ listening' \subseteq Relations /\ tlLocal' \subseteq Events
        /\ tlRemote' \subseteq Events /\ gaveUp' \subseteq Events
        /\ saved' \subseteq Events /\ savedLinked' \subseteq Relations
    BY <1>6, <1>u, SaveType DEF DirectAnswer, markNotSent, storeVars
  <2> QED BY <1>6, <2>1 DEF DirectAnswer
<1>7. ASSUME NEW e \in Events, restorePending(e) PROVE SideType'
  <2>1. pending' \subseteq Events
    BY <1>7 DEF restorePending
  <2>2. saved' \subseteq Events /\ savedLinked' \subseteq Relations
    BY <1>7, <2>1, SaveType DEF restorePending
  <2> QED BY <1>7, <2>1, <2>2 DEF restorePending, idVars
<1>8. ASSUME ProcessQueue PROVE SideType'
  <2>1. gaveUp' \subseteq Events /\ saved' \subseteq Events /\ savedLinked' \subseteq Relations
    BY <1>8, <1>h, <1>r, SaveType DEF ProcessQueue, storeVars
  <2> QED BY <1>8, <2>1 DEF ProcessQueue, idVars
<1>9. ASSUME TimerFires PROVE SideType'
  BY <1>9 DEF TimerFires, idVars, roomVars, storeVars
<1>10. ASSUME QueuedAnswer PROVE SideType'
  <2>1. CASE SentThrows(cur.event)
    <3>1. gaveUp' \subseteq Events /\ saved' \subseteq Events /\ savedLinked' \subseteq Relations
      BY <1>10, <2>1, <1>c, <1>r DEF QueuedAnswer
    <3> QED BY <1>10, <2>1, <3>1 DEF QueuedAnswer
  <2>2. CASE ~SentThrows(cur.event)
    <3>1. updateSent(cur.event) /\ cur.event \in Events
      BY <1>10, <2>2, <1>c DEF QueuedAnswer
    <3> QED BY <1>10, <2>2, <3>1, <1>u DEF QueuedAnswer
  <2> QED BY <2>1, <2>2
<1>11. ASSUME QueuedError PROVE SideType'
  <2>1. gaveUp' \subseteq Events /\ saved' \subseteq Events /\ savedLinked' \subseteq Relations
    BY <1>11, <1>c, <1>r DEF QueuedError
  <2> QED BY <1>11, <2>1 DEF QueuedError, idVars, Spend
<1>12. ASSUME addLiveEvent PROVE SideType'
  <2> DEFINE e == server[synced + 1].event
  <2>1. e \in Events
    <3>1. synced + 1 \in DOMAIN server
      BY <1>0, <1>12 DEF addLiveEvent, NetType
    <3>2. server[synced + 1] \in [event : Events, no : Nat]
      BY <1>0, <3>1, SeqElements DEF NetType
    <3> QED BY <3>2
  <2>2. /\ pending' \subseteq Events /\ remoteId' \subseteq Events
        /\ linked' \subseteq Relations /\ listening' \subseteq Relations
    BY <1>12, <2>1, <1>0, TypeSplit, ReplaceType DEF addLiveEvent
  <2>3. saved' \subseteq Events /\ savedLinked' \subseteq Relations
    BY <1>12, <2>2, SaveType DEF addLiveEvent, storeVars
  <2> QED BY <1>12, <2>1, <2>2, <2>3 DEF addLiveEvent
<1>13. ASSUME resetLiveTimeline PROVE SideType'
  BY <1>13 DEF resetLiveTimeline, idVars, storeVars, Spend
<1>14. ASSUME restart PROVE SideType'
  BY <1>14 DEF restart, storeVars, Spend
<1> QED
  BY <1>1, <1>2, <1>3, <1>4, <1>5, <1>6, <1>7, <1>8, <1>9, <1>10, <1>11,
     <1>12, <1>13, <1>14 DEF Next

-----------------------------------------------------------------------------
(* The queue.                                                              *)

\* An event that is neither waiting, being sent nor confirmed, or that has no
\* queue, has no entry and is not the one being processed.
LEMMA NotQueued ==
  ASSUME QueueInv, NEW e,
         e \notin Queueable \/ status[e] \notin {"queued", "sending", "none"}
  PROVE  /\ \A i \in DOMAIN queue : queue[i].event # e
         /\ sched \in {"http", "timer"} => cur.event # e
<1>1. \A i \in DOMAIN queue : queue[i].event # e
  BY DEF QueueInv, QueueWellFormed
<1>2. sched \in {"http", "timer"} => cur.event # e
  BY <1>1, QueueHead DEF QueueInv, QueueType, HeadIsInFlight
<1> QED BY <1>1, <1>2

\* queueEvent keeps the queue well formed.
LEMMA QueueEventInv ==
  ASSUME QueueInv, NEW e \in Events, e \in Queueable,
         status[e] \notin {"queued", "sending", "none"}, queueEvent(e)
  PROVE  QueueInv'
<1> DEFINE x == [event |-> e, attempts |-> 0, no |-> nextNo]
<1> USE DEF queueEvent
<1>1. QueueType /\ x \in Entry /\ x.event = e
  BY DEF QueueInv, QueueType, Entry
<1>2. /\ queue' = Append(queue, x) /\ queue' \in Seq(Entry)
      /\ Len(queue') = Len(queue) + 1 /\ Len(queue) \in Nat
      /\ DOMAIN queue' = 1..(Len(queue) + 1) /\ DOMAIN queue = 1..Len(queue)
      /\ \A i \in 1..Len(queue) : queue'[i] = queue[i]
      /\ queue'[Len(queue) + 1] = x
  BY <1>1 DEF QueueType
<1>3. QueueType'
  BY <1>1, <1>2 DEF QueueType, Status
<1>4. \A i \in DOMAIN queue : queue[i].event # e
  BY NotQueued
<1>5. sched \in {"http", "timer"} => cur.event # e
  BY NotQueued
<1>6. HeadIsInFlight'
  <2> SUFFICES ASSUME sched' \in {"http", "timer"}
               PROVE  queue' # <<>> /\ Head(queue') = cur'
    BY DEF HeadIsInFlight
  <2>1. sched = sched' /\ queue # <<>> /\ Head(queue) = cur
    BY DEF QueueInv, HeadIsInFlight
  <2>2. Head(queue') = queue'[1] /\ Head(queue) = queue[1] /\ Len(queue) > 0
    BY <2>1, <1>2, <1>1, QueueHead DEF QueueType
  <2> QED BY <2>1, <2>2, <1>2
<1>7. QueueWellFormed'
  <2>1. \A i \in DOMAIN queue' : queue'[i].event \in Queueable
    BY <1>1, <1>2 DEF QueueInv, QueueWellFormed
  <2>2. \A i \in DOMAIN queue' : status'[queue'[i].event] \in {"queued", "sending", "none"}
    <3> SUFFICES ASSUME NEW i \in DOMAIN queue'
                 PROVE  status'[queue'[i].event] \in {"queued", "sending", "none"}
      OBVIOUS
    <3>1. CASE i \in DOMAIN queue
      <4>1. queue'[i].event = queue[i].event /\ queue[i].event # e /\ queue[i].event \in Events
        BY <3>1, <1>1, <1>2, <1>4, QueueElements DEF QueueType
      <4>2. status[queue[i].event] \in {"queued", "sending", "none"}
        BY <3>1 DEF QueueInv, QueueWellFormed
      <4>3. status'[queue[i].event] = status[queue[i].event]
        BY <4>1, <1>1 DEF QueueType
      <4> QED BY <4>1, <4>2, <4>3
    <3>2. CASE i = Len(queue) + 1
      BY <3>2, <1>1, <1>2 DEF QueueType
    <3> QED BY <3>1, <3>2, <1>2
  <2>3. \A i, j \in DOMAIN queue' : queue'[i].event = queue'[j].event => i = j
    <3>1. \A i, j \in DOMAIN queue : queue[i].event = queue[j].event => i = j
      BY DEF QueueInv, QueueWellFormed
    <3> QED BY <3>1, <1>1, <1>2, <1>4
  <2> QED BY <2>1, <2>2, <2>3 DEF QueueWellFormed
<1>8. CurrentNotCancellable'
  BY <1>1, <1>5 DEF QueueInv, CurrentNotCancellable, QueueType
<1>9. OneQueuedRequest'
  BY DEF QueueInv, OneQueuedRequest
<1> QED BY <1>3, <1>6, <1>7, <1>8, <1>9 DEF QueueInv

\* The status of an event outside the queue, and the request of one without a
\* queue, are free.
LEMMA OutsideInv ==
  ASSUME QueueInv, NEW e \in Events, NEW st \in Status,
         \A i \in DOMAIN queue : queue[i].event # e,
         status' = [status EXCEPT ![e] = st],
         req' \in [Events -> {"none", "sent", "accepted"}],
         \A x \in Queueable : req'[x] = req[x],
         UNCHANGED <<queue, cur, sched, nextNo>>
  PROVE  QueueInv'
<1>1. QueueType'
  BY DEF QueueInv, QueueType
<1>2. \A i \in DOMAIN queue : queue[i].event # e /\ queue[i].event \in Events
  BY QueueElements DEF QueueInv, QueueType
<1>3. HeadIsInFlight'
  BY DEF QueueInv, HeadIsInFlight
<1>4. QueueWellFormed'
  <2>1. \A i \in DOMAIN queue : status'[queue[i].event] = status[queue[i].event]
    BY <1>2 DEF QueueInv, QueueType
  <2> QED BY <2>1 DEF QueueInv, QueueWellFormed
<1>5. CurrentNotCancellable'
  <2>1. sched \in {"http", "timer"} => cur.event # e
    BY QueueHead DEF QueueInv, QueueType, HeadIsInFlight
  <2> QED BY <2>1 DEF QueueInv, QueueType, CurrentNotCancellable
<1>6. OneQueuedRequest'
  BY DEF QueueInv, QueueType, OneQueuedRequest
<1> QED BY <1>1, <1>3, <1>4, <1>5, <1>6 DEF QueueInv
\* The head leaves the queue, with any new status, and processing goes on.
LEMMA ShiftInv ==
  ASSUME QueueInv, queue # <<>>, queue' = Tail(queue),
         sched' = "start", cur' = NoEntry, nextNo' = nextNo,
         NEW st \in Status,
         status' = status \/ status' = [status EXCEPT ![Head(queue).event] = st],
         req' \in [Events -> {"none", "sent", "accepted"}],
         \A e \in Queueable : req'[e] = "none"
  PROVE  QueueInv'
<1>1. QueueType /\ QueueWellFormed
  BY DEF QueueInv
<1>2. /\ Tail(queue) \in Seq(Entry) /\ DOMAIN Tail(queue) = 1..(Len(queue) - 1)
      /\ \A i \in 1..(Len(queue) - 1) : Tail(queue)[i] = queue[i + 1]
      /\ Head(queue) = queue[1] /\ Len(queue) > 0
  BY <1>1, QueueHead DEF QueueType
<1>3. /\ DOMAIN queue = 1..Len(queue) /\ Len(queue) \in Nat
      /\ \A i \in DOMAIN queue : queue[i].event \in Events
  BY <1>1, QueueElements DEF QueueType
<1>4. QueueType'
  BY <1>1, <1>2 DEF QueueType
<1>5. \A i \in 1..(Len(queue) - 1) :
        status'[queue[i + 1].event] = status[queue[i + 1].event]
  <2> SUFFICES ASSUME NEW i \in 1..(Len(queue) - 1)
               PROVE  status'[queue[i + 1].event] = status[queue[i + 1].event]
    OBVIOUS
  <2>1. i + 1 \in DOMAIN queue /\ 1 \in DOMAIN queue /\ i + 1 # 1
    BY <1>3, <1>2
  <2>2. queue[i + 1].event # queue[1].event
    BY <2>1, <1>1 DEF QueueWellFormed
  <2> QED BY <2>1, <2>2, <1>1, <1>2, <1>3 DEF QueueType
<1>6. QueueWellFormed'
  <2>1. \A i \in DOMAIN queue' : i + 1 \in DOMAIN queue /\ queue'[i] = queue[i + 1]
    BY <1>2, <1>3
  <2>2. \A i \in DOMAIN queue' :
          /\ queue'[i].event \in Queueable
          /\ status'[queue'[i].event] \in {"queued", "sending", "none"}
    BY <2>1, <1>1, <1>2, <1>5 DEF QueueWellFormed
  <2>3. \A i, j \in DOMAIN queue' : queue'[i].event = queue'[j].event => i = j
    <3> SUFFICES ASSUME NEW i \in DOMAIN queue', NEW j \in DOMAIN queue',
                        queue'[i].event = queue'[j].event
                 PROVE  i = j
      OBVIOUS
    <3>1. i + 1 = j + 1
      BY <2>1, <1>1 DEF QueueWellFormed
    <3>2. i \in Nat /\ j \in Nat
      BY <1>2, <1>3
    <3> QED BY <3>1, <3>2
  <2> QED BY <2>2, <2>3 DEF QueueWellFormed
<1> QED BY <1>4, <1>6
        DEF QueueInv, HeadIsInFlight, CurrentNotCancellable, OneQueuedRequest

\* Bump changes one number of attempts and nothing else.
LEMMA BumpQueue ==
  ASSUME queue \in Seq(Entry), NEW obj
  PROVE  /\ Bump(queue, obj) \in Seq(Entry)
         /\ Len(Bump(queue, obj)) = Len(queue)
         /\ DOMAIN Bump(queue, obj) = DOMAIN queue
         /\ \A i \in DOMAIN queue : /\ Bump(queue, obj)[i].event = queue[i].event
                                    /\ Bump(queue, obj)[i].no = queue[i].no
<1>1. /\ DOMAIN queue = 1..Len(queue) /\ Len(queue) \in Nat
      /\ \A i \in DOMAIN queue : queue[i] \in Entry
  BY QueueElements
<1>2. \A x \in Entry : /\ [x EXCEPT !.attempts = @ + 1] \in Entry
                       /\ [x EXCEPT !.attempts = @ + 1].event = x.event
                       /\ [x EXCEPT !.attempts = @ + 1].no = x.no
  BY DEF Entry
<1>3. \A i \in DOMAIN queue : Bump(queue, obj)[i] \in Entry
  BY <1>1, <1>2 DEF Bump
<1>4. DOMAIN Bump(queue, obj) = 1..Len(queue)
  BY <1>1 DEF Bump
<1>5. Bump(queue, obj) \in Seq(Entry) /\ Len(Bump(queue, obj)) = Len(queue)
  <2>1. Bump(queue, obj) = [i \in 1..Len(queue) |-> Bump(queue, obj)[i]]
    BY <1>1 DEF Bump
  <2>2. \A i \in 1..Len(queue) : Bump(queue, obj)[i] \in Entry
    BY <1>1, <1>3
  <2>3. Bump(queue, obj) \in [1..Len(queue) -> Entry]
    BY <2>1, <2>2
  <2> QED BY <1>1, <2>3
<1>6. \A i \in DOMAIN queue : /\ Bump(queue, obj)[i].event = queue[i].event
                              /\ Bump(queue, obj)[i].no = queue[i].no
  BY <1>1, <1>2 DEF Bump
<1> QED BY <1>1, <1>4, <1>5, <1>6

\* The head stays and a timer is set.
LEMMA RetryInv ==
  ASSUME QueueInv, queue # <<>>, queue' = Bump(queue, Head(queue)),
         sched' = "timer", cur' = [Head(queue) EXCEPT !.attempts = @ + 1],
         nextNo' = nextNo, status' = status,
         status[Head(queue).event] \in {"sending", "none"},
         req' \in [Events -> {"none", "sent", "accepted"}],
         \A e \in Queueable : req'[e] = "none"
  PROVE  QueueInv'
<1>1. QueueType /\ QueueWellFormed
  BY DEF QueueInv
<1>2. /\ queue' \in Seq(Entry) /\ Len(queue') = Len(queue) /\ DOMAIN queue' = DOMAIN queue
      /\ \A i \in DOMAIN queue : queue'[i].event = queue[i].event
  BY <1>1, BumpQueue DEF QueueType
<1>3. /\ Head(queue) = queue[1] /\ 1 \in DOMAIN queue /\ Head(queue) \in Entry
      /\ Len(queue) > 0
  BY <1>1, QueueHead DEF QueueType
<1>4. cur' \in Entry /\ cur'.event = Head(queue).event
  BY <1>3 DEF Entry
<1>5. QueueType'
  BY <1>1, <1>2, <1>4 DEF QueueType
<1>6. HeadIsInFlight'
  <2>1. queue'[1] = cur'
    BY <1>3 DEF Bump
  <2>2. queue' # <<>> /\ Head(queue') = queue'[1]
    BY <1>2, <1>3
  <2> QED BY <2>1, <2>2 DEF HeadIsInFlight
<1>7. QueueWellFormed'
  BY <1>1, <1>2 DEF QueueWellFormed
<1>8. CurrentNotCancellable'
  BY <1>4 DEF CurrentNotCancellable
<1>9. OneQueuedRequest'
  BY DEF OneQueuedRequest
<1> QED BY <1>5, <1>6, <1>7, <1>8, <1>9 DEF QueueInv

\* The reject handler, for the head of the queue.
LEMMA RetryOrGiveUpInv ==
  ASSUME QueueInv, queue # <<>>, NEW kind, retryOrGiveUp(Head(queue), kind),
         nextNo' = nextNo,
         status[Head(queue).event] \in {"sending", "none"},
         req' \in [Events -> {"none", "sent", "accepted"}],
         \A e \in Queueable : req'[e] = "none"
  PROVE  QueueInv'
<1>1. CASE GiveUp(kind, Head(queue).attempts + 1)
  <2>1. /\ queue' = Tail(queue) /\ sched' = "start" /\ cur' = NoEntry
        /\ status' = status \/ status' = [status EXCEPT ![Head(queue).event] = "not_sent"]
    BY <1>1 DEF retryOrGiveUp, markNotSent
  <2>2. "not_sent" \in Status
    BY DEF Status
  <2> QED BY <2>1, <2>2, ShiftInv
<1>2. CASE ~GiveUp(kind, Head(queue).attempts + 1)
  <2>1. /\ queue' = Bump(queue, Head(queue)) /\ sched' = "timer" /\ status' = status
        /\ cur' = [Head(queue) EXCEPT !.attempts = @ + 1]
    BY <1>2 DEF retryOrGiveUp
  <2> QED BY <2>1, RetryInv
<1> QED BY <1>1, <1>2
\* Cancelling an event that is not the one being processed.
LEMMA CancelInv ==
  ASSUME QueueInv, NEW e \in Events, status[e] \in {"queued", "not_sent"},
         queue' = removeEventFromQueue(e),
         status' = [status EXCEPT ![e] = "cancelled"],
         UNCHANGED <<cur, sched, nextNo, req>>
  PROVE  QueueInv'
<1>0. QueueType /\ QueueWellFormed /\ HeadIsInFlight
  BY DEF QueueInv
<1>1. CASE \A i \in DOMAIN queue : queue[i].event # e
  <2>1. queue' = queue
    BY <1>1 DEF removeEventFromQueue
  <2>2. "cancelled" \in Status
    BY DEF Status
  <2>3. /\ UNCHANGED <<queue, cur, sched, nextNo>> /\ req' = req
        /\ req' \in [Events -> {"none", "sent", "accepted"}]
    BY <2>1, <1>0 DEF QueueType
  <2> QED BY <1>1, <2>2, <2>3, OutsideInv
<1>2. ASSUME NEW at \in DOMAIN queue, queue[at].event = e
      PROVE  QueueInv'
  <2>1. queue' = [i \in 1..(Len(queue) - 1) |-> IF i < at THEN queue[i] ELSE queue[i + 1]]
    BY <1>2, <1>0, RemoveAt DEF QueueType
  <2>2. /\ DOMAIN queue = 1..Len(queue) /\ Len(queue) \in Nat
        /\ \A i \in DOMAIN queue : queue[i] \in Entry /\ queue[i].event \in Events
    BY <1>0, QueueElements DEF QueueType
  <2> DEFINE old(i) == IF i < at THEN i ELSE i + 1
  <2>3. \A i \in 1..(Len(queue) - 1) :
          old(i) \in DOMAIN queue /\ old(i) # at /\ queue'[i] = queue[old(i)]
    BY <2>1, <2>2
  <2>4. DOMAIN queue' = 1..(Len(queue) - 1) /\ Len(queue) - 1 \in Nat
    BY <2>1, <2>2
  <2>5. queue' \in Seq(Entry) /\ Len(queue') = Len(queue) - 1
    <3>1. queue' \in [1..(Len(queue) - 1) -> Entry]
      BY <2>1, <2>2, <2>3
    <3> QED BY <3>1, <2>4
  <2>6. QueueType'
    BY <1>0, <2>5 DEF QueueType, Status
  <2>7. \A i \in 1..(Len(queue) - 1) : queue'[i].event # e
    BY <1>0, <1>2, <2>3 DEF QueueWellFormed
  <2>8. QueueWellFormed'
    <3>1. \A i \in DOMAIN queue' :
            /\ queue'[i].event \in Queueable
            /\ status'[queue'[i].event] \in {"queued", "sending", "none"}
      <4> SUFFICES ASSUME NEW i \in DOMAIN queue'
                   PROVE  /\ queue'[i].event \in Queueable
                          /\ status'[queue'[i].event] \in {"queued", "sending", "none"}
        OBVIOUS
      <4>1. queue'[i] = queue[old(i)] /\ old(i) \in DOMAIN queue /\ queue'[i].event # e
        BY <2>3, <2>4, <2>7
      <4>2. status'[queue'[i].event] = status[queue[old(i)].event]
        BY <4>1, <2>2, <1>0 DEF QueueType
      <4> QED BY <4>1, <4>2, <1>0 DEF QueueWellFormed
    <3>2. \A i, j \in DOMAIN queue' : queue'[i].event = queue'[j].event => i = j
      <4> SUFFICES ASSUME NEW i \in DOMAIN queue', NEW j \in DOMAIN queue',
                          queue'[i].event = queue'[j].event
                   PROVE  i = j
        OBVIOUS
      <4>1. old(i) = old(j)
        BY <2>3, <2>4, <1>0 DEF QueueWellFormed
      <4>2. i \in Nat /\ j \in Nat /\ at \in Nat
        BY <2>2, <2>4
      <4> QED BY <4>1, <4>2
    <3> QED BY <3>1, <3>2 DEF QueueWellFormed
  <2>9. sched \in {"http", "timer"} => /\ cur.event # e /\ cur.event \in Events
                                       /\ queue # <<>> /\ cur = queue[1]
    BY <1>0, QueueHead DEF QueueInv, CurrentNotCancellable, HeadIsInFlight, QueueType
  <2>10. HeadIsInFlight'
    <3> SUFFICES ASSUME sched \in {"http", "timer"}
                 PROVE  queue' # <<>> /\ Head(queue') = cur
      BY DEF HeadIsInFlight
    <3>1. at # 1 /\ at \in 1..Len(queue)
      BY <2>9, <2>2, <1>2
    <3>2. Len(queue) - 1 > 0 /\ queue'[1] = queue[1]
      BY <3>1, <2>1, <2>2
    <3>3. queue' # <<>> /\ Head(queue') = queue'[1]
      BY <3>2, <2>5
    <3> QED BY <3>2, <3>3, <2>9
  <2>11. CurrentNotCancellable'
    BY <2>9, <1>0 DEF QueueInv, CurrentNotCancellable, QueueType
  <2>12. OneQueuedRequest'
    BY DEF QueueInv, OneQueuedRequest
  <2> QED BY <2>6, <2>8, <2>10, <2>11, <2>12 DEF QueueInv
<1> QED BY <1>1, <1>2

\* processQueue works on the entry it found at the head.
LEMMA ProcessQueueInv ==
  ASSUME QueueInv, ProcessQueue
  PROVE  QueueInv'
<1>0. QueueType /\ QueueWellFormed /\ OneQueuedRequest /\ sched = "start" /\ nextNo' = nextNo
  BY DEF QueueInv, ProcessQueue
<1>1. CASE queue = <<>>
  BY <1>1, <1>0 DEF ProcessQueue, QueueInv, QueueType, HeadIsInFlight, QueueWellFormed,
                    CurrentNotCancellable, OneQueuedRequest
<1> DEFINE obj == Head(queue)
<1> DEFINE free == \/ status[obj.event] = "sending"
                   \/ "sending" \in ALLOWED_TRANSITIONS(status[obj.event])
<1>2. CASE queue # <<>> /\ free
  <2>1. /\ status' = [status EXCEPT ![obj.event] = "sending"]
        /\ req' = [req EXCEPT ![obj.event] = "sent"]
        /\ sched' = "http" /\ cur' = obj /\ queue' = queue
    BY <1>2 DEF ProcessQueue
  <2>2. obj \in Entry /\ obj.event \in Events
    BY <1>2, <1>0, QueueHead DEF QueueType
  <2>3. QueueType'
    BY <2>1, <2>2, <1>0 DEF QueueType, Status
  <2>4. QueueWellFormed'
    <3>1. \A i \in DOMAIN queue : queue[i].event \in Events
      BY <1>0, QueueElements DEF QueueType
    <3> QED BY <3>1, <2>1, <1>0 DEF QueueWellFormed, QueueType
  <2>5. CurrentNotCancellable'
    BY <2>1, <2>2, <1>0 DEF CurrentNotCancellable, QueueType
  <2>6. OneQueuedRequest'
    BY <2>1, <2>2, <1>0 DEF OneQueuedRequest, QueueType
  <2>7. HeadIsInFlight'
    BY <1>2, <2>1 DEF HeadIsInFlight
  <2> QED BY <2>3, <2>4, <2>5, <2>6, <2>7 DEF QueueInv
<1>3. CASE queue # <<>> /\ ~free
  <2>1. retryOrGiveUp(Head(queue), "other") /\ req' = req
    BY <1>3 DEF ProcessQueue
  <2>2. status[Head(queue).event] \in {"sending", "none"}
    <3>1. status[Head(queue).event] \in {"queued", "sending", "none"}
      BY <1>3, <1>0, QueueHead DEF QueueWellFormed, QueueType
    <3> QED BY <1>3, <3>1 DEF ALLOWED_TRANSITIONS
  <2>3. \A e \in Queueable : req'[e] = "none"
    BY <2>1, <1>0 DEF OneQueuedRequest
  <2>4. req' \in [Events -> {"none", "sent", "accepted"}]
    BY <2>1, <1>0 DEF QueueType
  <2> QED BY <1>3, <1>0, <2>1, <2>2, <2>3, <2>4, RetryOrGiveUpInv
<1> QED BY <1>1, <1>2, <1>3
\* Handing over an event, encrypted first where it has to be.
LEMMA HandOverInv ==
  ASSUME QueueInv, SendAssumption, NEW e \in Events,
         status[e] \notin {"queued", "sending", "none"},
         encryptAndSendEvent(e)
           \/ (IF e \in Queueable THEN queueEvent(e) ELSE sendDirectly(e))
  PROVE  QueueInv'
<1>0. \A i \in DOMAIN queue : queue[i].event # e
  BY NotQueued
<1>1. CASE queueEvent(e) /\ e \in Queueable
  BY <1>1, QueueEventInv
<1>2. CASE sendDirectly(e) /\ e \notin Queueable
  <2>1. /\ req' \in [Events -> {"none", "sent", "accepted"}]
        /\ \A x \in Queueable : req'[x] = req[x]
    BY <1>2 DEF sendDirectly, QueueInv, QueueType, SendAssumption
  <2>2. "sending" \in Status /\ status' = [status EXCEPT ![e] = "sending"]
    BY <1>2 DEF Status, sendDirectly
  <2>3. UNCHANGED <<queue, cur, sched, nextNo>>
    BY <1>2 DEF sendDirectly, schedVars
  <2> QED BY <1>0, <2>1, <2>2, <2>3, OutsideInv
<1>3. CASE status' = [status EXCEPT ![e] = "encrypting"] /\ UNCHANGED <<schedVars, req>>
  <2>1. /\ req' \in [Events -> {"none", "sent", "accepted"}]
        /\ \A x \in Queueable : req'[x] = req[x]
    BY <1>3 DEF QueueInv, QueueType
  <2>2. "encrypting" \in Status
    BY DEF Status
  <2>3. UNCHANGED <<queue, cur, sched, nextNo>>
    BY <1>3 DEF schedVars
  <2> QED BY <1>0, <1>3, <2>1, <2>2, <2>3, OutsideInv
<1> QED BY <1>1, <1>2, <1>3 DEF encryptAndSendEvent

\* Every action keeps the queue's invariants.
LEMMA QueueStep ==
  ASSUME SideType, NetType, QueueInv, RestoringIsIdle, Next, SendAssumption
  PROVE  QueueInv'
<1>0. QueueType /\ HeadIsInFlight /\ QueueWellFormed /\ CurrentNotCancellable
      /\ OneQueuedRequest
  BY DEF QueueInv
<1>t. \A st \in {"not_sent", "sent", "encrypting", "none", "cancelled"} : st \in Status
  BY DEF Status
<1>c. sched = "http" => /\ queue # <<>> /\ cur = Head(queue)
                        /\ cur.event \in Events
                        /\ status[cur.event] \in {"sending", "none"}
  BY <1>0, QueueHead DEF HeadIsInFlight, CurrentNotCancellable, QueueType
<1>o. ASSUME NEW e \in Events, NEW st \in Status,
             status[e] \notin {"queued", "sending", "none"} \/ e \notin Queueable,
             status' = [status EXCEPT ![e] = st], UNCHANGED <<schedVars, req>>
      PROVE  QueueInv'
  <2>1. \A i \in DOMAIN queue : queue[i].event # e
    BY <1>o, NotQueued
  <2>2. /\ req' \in [Events -> {"none", "sent", "accepted"}]
        /\ \A x \in Queueable : req'[x] = req[x]
        /\ UNCHANGED <<queue, cur, sched, nextNo>>
    BY <1>o, <1>0 DEF QueueType, schedVars
  <2> QED BY <1>o, <2>1, <2>2, OutsideInv
<1>1. ASSUME NEW e \in Events, sendEvent(e) PROVE QueueInv'
  <2>1. CASE encryptAndSendEvent(e)
    BY <1>1, <2>1, HandOverInv DEF sendEvent
  <2>2. CASE status' = [status EXCEPT ![e] = "not_sent"] /\ UNCHANGED <<schedVars, req>>
    BY <1>1, <2>2, <1>o, <1>t DEF sendEvent
  <2> QED BY <1>1, <2>1, <2>2 DEF sendEvent
<1>2. ASSUME NEW e \in Events, encrypted(e) PROVE QueueInv'
  <2>1. CASE IF e \in Queueable THEN queueEvent(e) ELSE sendDirectly(e)
    BY <1>2, <2>1, HandOverInv DEF encrypted
  <2>2. CASE status' = [status EXCEPT ![e] = "not_sent"] /\ UNCHANGED <<schedVars, req>>
    BY <1>2, <2>2, <1>o, <1>t DEF encrypted
  <2> QED BY <1>2, <2>1, <2>2 DEF encrypted
<1>3. ASSUME NEW e \in Events, resendEvent(e) PROVE QueueInv'
  BY <1>3, HandOverInv DEF resendEvent
<1>4. ASSUME NEW e \in Events, cancelPendingEvent(e) PROVE QueueInv'
  BY <1>4, CancelInv DEF cancelPendingEvent, netVars
<1>5. ASSUME NEW e \in Events, ServerAccepts(e) PROVE QueueInv'
  <2>1. /\ UNCHANGED <<status, queue, cur, sched, nextNo>>
        /\ req[e] = "sent" /\ req' = [req EXCEPT ![e] = "accepted"]
    BY <1>5 DEF ServerAccepts, schedVars
  <2>2. QueueType'
    BY <2>1, <1>0 DEF QueueType
  <2>3. OneQueuedRequest'
    BY <2>1, <1>0 DEF OneQueuedRequest, QueueType
  <2> QED BY <1>0, <2>1, <2>2, <2>3
          DEF QueueInv, HeadIsInFlight, QueueWellFormed, CurrentNotCancellable
<1>6. ASSUME NEW e \in Events, DirectAnswer(e) PROVE QueueInv'
  <2>1. /\ e \notin Queueable /\ UNCHANGED <<queue, cur, sched, nextNo>>
        /\ req' = [req EXCEPT ![e] = "none"]
        /\ \E st \in Status : status' = [status EXCEPT ![e] = st]
    <3>1. status' = status => status' = [status EXCEPT ![e] = status[e]] /\ status[e] \in Status
      BY <1>0 DEF QueueType
    <3> QED BY <1>6, <1>t, <3>1 DEF DirectAnswer, markNotSent, updateSent, schedVars
  <2>2. /\ \A i \in DOMAIN queue : queue[i].event # e
        /\ req' \in [Events -> {"none", "sent", "accepted"}]
        /\ \A x \in Queueable : req'[x] = req[x]
    BY <2>1, <1>0, NotQueued DEF QueueType, SendAssumption
  <2> QED BY <2>1, <2>2, OutsideInv
<1>7. ASSUME NEW e \in Events, restorePending(e) PROVE QueueInv'
  <2>1. status[e] = "lost"
    BY <1>7 DEF restorePending, RestoringIsIdle
  <2> QED BY <1>7, <2>1, <1>o, <1>t DEF restorePending, netVars
<1>8. ASSUME ProcessQueue PROVE QueueInv'
  BY <1>8, ProcessQueueInv
<1>9. ASSUME TimerFires PROVE QueueInv'
  <2>1. /\ sched = "timer" /\ sched' = "start" /\ cur' = NoEntry
        /\ UNCHANGED <<status, queue, nextNo, req>>
    BY <1>9 DEF TimerFires, netVars
  <2> QED BY <2>1, <1>0 DEF QueueInv, QueueType, HeadIsInFlight, QueueWellFormed,
                            CurrentNotCancellable, OneQueuedRequest
<1>a. (sched = "http" /\ req' = [req EXCEPT ![cur.event] = "none"])
        => /\ req' \in [Events -> {"none", "sent", "accepted"}]
           /\ \A x \in Queueable : req'[x] = "none"
  BY <1>0, <1>c DEF QueueType, OneQueuedRequest, SendAssumption
<1>10. ASSUME QueuedAnswer PROVE QueueInv'
  <2>1. CASE SentThrows(cur.event)
    <3>1. retryOrGiveUp(Head(queue), "other") /\ nextNo' = nextNo
      BY <1>10, <2>1, <1>c DEF QueuedAnswer
    <3> QED BY <1>10, <3>1, <1>a, <1>c, RetryOrGiveUpInv DEF QueuedAnswer
  <2>2. CASE ~SentThrows(cur.event)
    <3>1. /\ queue' = Tail(queue) /\ sched' = "start" /\ cur' = NoEntry
          /\ nextNo' = nextNo /\ updateSent(cur.event)
      BY <1>10, <2>2 DEF QueuedAnswer
    <3>2. \/ status' = status
          \/ status' = [status EXCEPT ![Head(queue).event] = "sent"]
      BY <1>10, <1>c, <3>1 DEF updateSent, QueuedAnswer
    <3>3. /\ queue # <<>> /\ req' \in [Events -> {"none", "sent", "accepted"}]
          /\ \A x \in Queueable : req'[x] = "none"
      BY <1>10, <1>a, <1>c DEF QueuedAnswer
    <3> QED BY <3>1, <3>2, <3>3, <1>t, ShiftInv
  <2> QED BY <2>1, <2>2
<1>11. ASSUME QueuedError PROVE QueueInv'
  <2>1. /\ nextNo' = nextNo /\ sched = "http"
        /\ \E kind \in {"fatal", "ratelimit", "other"} : retryOrGiveUp(Head(queue), kind)
    BY <1>11, <1>c DEF QueuedError
  <2> QED BY <1>11, <2>1, <1>a, <1>c, RetryOrGiveUpInv DEF QueuedError
<1>12. ASSUME addLiveEvent PROVE QueueInv'
  <2> DEFINE e == server[synced + 1].event
  <2>1. UNCHANGED <<queue, cur, sched, nextNo, req>>
    BY <1>12 DEF addLiveEvent, schedVars
  <2>2. status' = status \/ status' = [status EXCEPT ![e] = "none"]
    BY <1>12 DEF addLiveEvent
  <2>3. QueueType'
    BY <1>0, <2>1, <2>2, <1>t DEF QueueType
  <2>4. \A i \in DOMAIN queue :
          status'[queue[i].event] \in {status[queue[i].event], "none"}
    BY <1>0, <2>2, QueueElements DEF QueueType
  <2>5. QueueWellFormed'
    BY <1>0, <2>1, <2>4 DEF QueueWellFormed
  <2>6. CurrentNotCancellable'
    <3>1. sched \in {"http", "timer"} => cur.event \in Events
      BY <1>0, QueueHead DEF HeadIsInFlight, QueueType
    <3> QED BY <1>0, <2>1, <2>2, <3>1 DEF CurrentNotCancellable, QueueType
  <2> QED BY <1>0, <2>1, <2>3, <2>5, <2>6 DEF QueueInv, HeadIsInFlight, OneQueuedRequest
<1>13. ASSUME resetLiveTimeline PROVE QueueInv'
  <2>1. UNCHANGED <<status, queue, cur, sched, nextNo, req>>
    BY <1>13 DEF resetLiveTimeline, schedVars
  <2> QED BY <2>1, <1>0 DEF QueueInv, QueueType, HeadIsInFlight, QueueWellFormed,
                            CurrentNotCancellable, OneQueuedRequest
<1>14. ASSUME restart PROVE QueueInv'
  <2>1. /\ queue' = <<>> /\ cur' = NoEntry /\ sched' = "idle" /\ nextNo' = nextNo
        /\ req' = [e \in Events |-> "none"]
        /\ status' \in [Events -> Status]
    BY <1>14 DEF restart, Status
  <2> QED BY <2>1, <1>0 DEF QueueInv, QueueType, HeadIsInFlight, QueueWellFormed,
                            CurrentNotCancellable, OneQueuedRequest, SendAssumption
<1> QED
  BY <1>1, <1>2, <1>3, <1>4, <1>5, <1>6, <1>7, <1>8, <1>9, <1>10, <1>11,
     <1>12, <1>13, <1>14 DEF Next
\* The server's log only grows, by entries.
LEMMA NetStep ==
  ASSUME NetType, QueueInv, Next
  PROVE  NetType'
<1>1. ASSUME NEW e \in Events, ServerAccepts(e) PROVE NetType'
  <2> DEFINE x == [event |-> e, no |-> IF e \in Queueable THEN cur.no ELSE 0]
  <2>1. cur.no \in Nat
    <3>1. cur \in Entry \/ cur = NoEntry
      BY DEF QueueInv, QueueType
    <3>2. NoEntry.no \in Nat
      BY DEF NoEntry
    <3>3. \A y \in Entry : y.no \in Nat
      BY DEF Entry
    <3> QED BY <3>1, <3>2, <3>3
  <2>2. x \in [event : Events, no : Nat]
    BY <2>1
  <2>3. (server' = server \/ server' = Append(server, x)) /\ synced' = synced
    BY <1>1 DEF ServerAccepts
  <2>4. server' \in Seq([event : Events, no : Nat]) /\ Len(server') >= Len(server)
    <3> DEFINE S == [event : Events, no : Nat]
    <3> HIDE DEF S, x
    <3>1. server \in Seq(S) /\ x \in S
      BY <2>2 DEF NetType, S
    <3>2. server' \in Seq(S) /\ Len(server') >= Len(server)
      BY <2>3, <3>1
    <3> QED BY <3>2 DEF S
  <2> QED BY <2>3, <2>4 DEF NetType
<1>2. ASSUME addLiveEvent PROVE NetType'
  BY <1>2 DEF NetType, addLiveEvent
<1>3. ASSUME resetLiveTimeline PROVE NetType'
  BY <1>3 DEF NetType, resetLiveTimeline
<1>4. ASSUME restart PROVE NetType'
  BY <1>4 DEF NetType, restart
<1>5. ASSUME UNCHANGED <<server, synced>> PROVE NetType'
  BY <1>5 DEF NetType
<1> QED BY <1>1, <1>2, <1>3, <1>4, <1>5
        DEF Next, sendEvent, encrypted, resendEvent, cancelPendingEvent, DirectAnswer,
            restorePending, ProcessQueue, TimerFires, QueuedAnswer, QueuedError, netVars

\* An event awaiting restoration is touched by nothing but its restoration.
LEMMA RestoringStep ==
  ASSUME SideType, NetType, QueueInv, RestoringIsIdle, PendingIsLive, Next
  PROVE  RestoringIsIdle'
<1>0. /\ QueueType /\ HeadIsInFlight /\ QueueWellFormed /\ CurrentNotCancellable
      /\ \A i \in restoring : i \in Events
  BY DEF QueueInv, SideType
<1>q. \A e \in restoring : \A i \in DOMAIN queue : queue[i].event # e
  BY <1>0 DEF RestoringIsIdle, QueueWellFormed
<1>h. queue # <<>> => Head(queue).event \notin restoring
  BY <1>0, <1>q, QueueHead DEF QueueType
<1>c. sched = "http" => cur.event \notin restoring
  BY <1>0, <1>h DEF HeadIsInFlight
<1>o. ASSUME NEW e, e \notin restoring, NEW st,
             status' = status \/ status' = [status EXCEPT ![e] = st],
             restoring' = restoring, txn' \subseteq txn \cup {e}
      PROVE  RestoringIsIdle'
  BY <1>o, <1>0 DEF RestoringIsIdle, QueueType
<1>1. ASSUME NEW e \in Events, sendEvent(e) PROVE RestoringIsIdle'
  <2>1. e \notin restoring
    BY <1>1 DEF sendEvent, RestoringIsIdle
  <2>2. \E st : status' = [status EXCEPT ![e] = st]
    BY <1>1 DEF sendEvent, encryptAndSendEvent, queueEvent, sendDirectly
  <2>3. restoring' = restoring /\ txn' \subseteq txn \cup {e}
    BY <1>1 DEF sendEvent
  <2> QED BY <2>1, <2>2, <2>3, <1>o
<1>2. ASSUME NEW e \in Events, encrypted(e) PROVE RestoringIsIdle'
  <2>1. e \notin restoring
    BY <1>2 DEF encrypted, RestoringIsIdle
  <2>2. \E st : status' = [status EXCEPT ![e] = st]
    BY <1>2 DEF encrypted, queueEvent, sendDirectly
  <2>3. restoring' = restoring /\ txn' \subseteq txn \cup {e}
    BY <1>2 DEF encrypted
  <2> QED BY <2>1, <2>2, <2>3, <1>o
<1>3. ASSUME NEW e \in Events, resendEvent(e) PROVE RestoringIsIdle'
  <2>1. e \notin restoring
    BY <1>3 DEF resendEvent, RestoringIsIdle
  <2>2. \E st : status' = [status EXCEPT ![e] = st]
    BY <1>3 DEF resendEvent, encryptAndSendEvent, queueEvent, sendDirectly
  <2>3. restoring' = restoring /\ txn' \subseteq txn \cup {e}
    BY <1>3 DEF resendEvent
  <2> QED BY <2>1, <2>2, <2>3, <1>o
<1>4. ASSUME NEW e \in Events, cancelPendingEvent(e) PROVE RestoringIsIdle'
  <2>1. e \notin restoring
    BY <1>4 DEF cancelPendingEvent, RestoringIsIdle
  <2> QED BY <1>4, <2>1, <1>o DEF cancelPendingEvent
<1>5. ASSUME NEW e \in Events, ServerAccepts(e) PROVE RestoringIsIdle'
  BY <1>5 DEF ServerAccepts, roomVars, RestoringIsIdle
<1>6. ASSUME NEW e \in Events, DirectAnswer(e) PROVE RestoringIsIdle'
  <2>1. restoring' = restoring /\ txn' = txn
    BY <1>6 DEF DirectAnswer
  <2>2. CASE status' = status
    BY <2>1, <2>2 DEF RestoringIsIdle
  <2>3. CASE status' # status
    <3>1. /\ status[e] \in {"encrypting", "sending"}
          /\ \E st : status' = [status EXCEPT ![e] = st]
      BY <1>6, <2>3 DEF DirectAnswer, updateSent, markNotSent, SentThrows, ALLOWED_TRANSITIONS
    <3>2. e \notin restoring
      BY <3>1 DEF RestoringIsIdle
    <3> QED BY <2>1, <3>1, <3>2, <1>o
  <2> QED BY <2>2, <2>3
<1>7. ASSUME NEW e \in Events, restorePending(e) PROVE RestoringIsIdle'
  BY <1>7, <1>0 DEF restorePending, RestoringIsIdle, QueueType
<1>r. ASSUME NEW obj, NEW kind, retryOrGiveUp(obj, kind), obj.event \notin restoring,
             restoring' = restoring, txn' = txn
      PROVE  RestoringIsIdle'
  <2>1. status' = status \/ status' = [status EXCEPT ![obj.event] = "not_sent"]
    BY <1>r DEF retryOrGiveUp, markNotSent
  <2> QED BY <1>r, <2>1, <1>o
<1>8. ASSUME ProcessQueue PROVE RestoringIsIdle'
  <2>1. restoring' = restoring /\ txn' = txn
    BY <1>8 DEF ProcessQueue
  <2>2. CASE queue = <<>>
    BY <1>8, <2>1, <2>2 DEF ProcessQueue, RestoringIsIdle
  <2>3. CASE queue # <<>> /\ retryOrGiveUp(Head(queue), "other")
    BY <2>1, <2>3, <1>h, <1>r
  <2>4. CASE queue # <<>> /\ status' = [status EXCEPT ![Head(queue).event] = "sending"]
    BY <2>1, <2>4, <1>h, <1>o
  <2> QED BY <1>8, <2>2, <2>3, <2>4 DEF ProcessQueue
<1>9. ASSUME TimerFires PROVE RestoringIsIdle'
  BY <1>9 DEF TimerFires, roomVars, RestoringIsIdle
<1>10. ASSUME QueuedAnswer PROVE RestoringIsIdle'
  <2>1. restoring' = restoring /\ txn' = txn /\ cur.event \notin restoring
    BY <1>10, <1>c DEF QueuedAnswer
  <2>2. CASE SentThrows(cur.event)
    BY <1>10, <2>1, <2>2, <1>r DEF QueuedAnswer
  <2>3. CASE ~SentThrows(cur.event)
    <3>1. status' = status \/ status' = [status EXCEPT ![cur.event] = "sent"]
      BY <1>10, <2>3 DEF QueuedAnswer, updateSent
    <3> QED BY <2>1, <3>1, <1>o
  <2> QED BY <2>2, <2>3
<1>11. ASSUME QueuedError PROVE RestoringIsIdle'
  BY <1>11, <1>c, <1>r DEF QueuedError
<1>12. ASSUME addLiveEvent PROVE RestoringIsIdle'
  <2> DEFINE e == server[synced + 1].event
  <2>1. restoring' = restoring /\ txn' \subseteq txn
    BY <1>12 DEF addLiveEvent
  <2>2. CASE e \notin txn
    BY <1>12, <2>1, <2>2 DEF addLiveEvent, RestoringIsIdle
  <2>3. CASE e \in txn
    <3>1. e \notin restoring
      BY <2>3 DEF RestoringIsIdle
    <3>2. status' = [status EXCEPT ![e] = "none"]
      BY <1>12, <2>3 DEF addLiveEvent
    <3> QED BY <2>1, <3>1, <3>2, <1>o
  <2> QED BY <2>2, <2>3
<1>13. ASSUME resetLiveTimeline PROVE RestoringIsIdle'
  BY <1>13 DEF resetLiveTimeline, RestoringIsIdle
<1>14. ASSUME restart PROVE RestoringIsIdle'
  <2>1. \A e \in restoring' : /\ e \in saved /\ e \in Events
                              /\ e \notin pending' /\ e \notin txn'
    BY <1>14 DEF restart, SideType
  <2>2. \A e \in restoring' : status'[e] = "lost"
    BY <1>14, <2>1 DEF restart, PendingIsLive
  <2> QED BY <2>1, <2>2 DEF RestoringIsIdle
<1> QED
  BY <1>1, <1>2, <1>3, <1>4, <1>5, <1>6, <1>7, <1>8, <1>9, <1>10, <1>11,
     <1>12, <1>13, <1>14 DEF Next
\* What is pending or stored is neither confirmed nor cancelled.
LEMMA PendingStep ==
  ASSUME SideType, NetType, QueueInv, PendingIsLive, Next
  PROVE  PendingIsLive'
<1> DEFINE Dead == {"new", "none", "cancelled"}
<1>0. QueueType
  BY DEF QueueInv
<1>s. ASSUME NEW list, NEW enc, NEW named, savePendingEvents(list, enc, named)
      PROVE  saved' \subseteq list
  BY <1>s DEF savePendingEvents
<1>l. \A e \in saved \cup pending : e \in Events /\ status[e] \notin Dead
  BY DEF SideType, PendingIsLive
<1>o. ASSUME NEW x, NEW st, st \notin Dead,
             status' = status \/ status' = [status EXCEPT ![x] = st],
             \/ pending' = pending
             \/ pending' \subseteq pending \cup {x} /\ status'[x] \notin Dead /\ Detached,
             saved' = saved \/ saved' \subseteq pending',
             restoring' \subseteq restoring
      PROVE  PendingIsLive'
  <2>1. \A e \in Events : status[e] \notin Dead => status'[e] \notin Dead
    BY <1>o, <1>0 DEF QueueType
  <2>2. \A e \in saved' \cup pending' : status'[e] \notin Dead
    BY <2>1, <1>l, <1>o
  <2>3. ~Detached => saved' \cup pending' \cup restoring' = {}
    BY <1>o DEF PendingIsLive
  <2> QED BY <2>2, <2>3 DEF PendingIsLive
<1>p. ASSUME NEW x, NEW st, status' = [status EXCEPT ![x] = st],
             pending' = pending \ {x}, saved' \subseteq pending',
             restoring' = restoring
      PROVE  PendingIsLive'
  <2>1. \A e \in saved' \cup pending' : status'[e] \notin Dead
    BY <1>l, <1>p, <1>0 DEF QueueType
  <2>2. ~Detached => saved' \cup pending' \cup restoring' = {}
    BY <1>p DEF PendingIsLive
  <2> QED BY <2>1, <2>2 DEF PendingIsLive
<1>1. ASSUME NEW e \in Events, sendEvent(e) PROVE PendingIsLive'
  <2>1. \E st : st \notin Dead /\ status' = [status EXCEPT ![e] = st]
    BY <1>1 DEF sendEvent, encryptAndSendEvent, queueEvent, sendDirectly
  <2>2. saved' \subseteq pending'
    BY <1>1, <1>s DEF sendEvent
  <2>3. /\ restoring' = restoring
        /\ \/ pending' = pending
           \/ pending' \subseteq pending \cup {e} /\ status'[e] \notin Dead /\ Detached
    BY <1>1, <2>1, <1>0 DEF sendEvent, QueueType
  <2> QED BY <2>1, <2>2, <2>3, <1>o
<1>2. ASSUME NEW e \in Events, encrypted(e) PROVE PendingIsLive'
  <2>1. \E st : st \notin Dead /\ status' = [status EXCEPT ![e] = st]
    BY <1>2 DEF encrypted, queueEvent, sendDirectly
  <2>2. saved' \subseteq pending' /\ pending' = pending /\ restoring' = restoring
    BY <1>2, <1>s DEF encrypted
  <2> QED BY <2>1, <2>2, <1>o
<1>3. ASSUME NEW e \in Events, resendEvent(e) PROVE PendingIsLive'
  <2>1. \E st : st \notin Dead /\ status' = [status EXCEPT ![e] = st]
    BY <1>3 DEF resendEvent, encryptAndSendEvent, queueEvent, sendDirectly
  <2>2. saved' \subseteq pending' /\ pending' = pending /\ restoring' = restoring
    BY <1>3, <1>s DEF resendEvent
  <2> QED BY <2>1, <2>2, <1>o
<1>4. ASSUME NEW e \in Events, cancelPendingEvent(e) PROVE PendingIsLive'
  <2>1. saved' \subseteq pending' /\ pending' = pending \ {e}
    BY <1>4, <1>s DEF cancelPendingEvent
  <2> QED BY <1>4, <2>1, <1>p DEF cancelPendingEvent
<1>5. ASSUME NEW e \in Events, ServerAccepts(e) PROVE PendingIsLive'
  BY <1>5 DEF ServerAccepts, roomVars, storeVars, PendingIsLive
<1>6. ASSUME NEW e \in Events, DirectAnswer(e) PROVE PendingIsLive'
  <2>1. \E st \in {"sent", "not_sent"} : status' = status \/ status' = [status EXCEPT ![e] = st]
    BY <1>6 DEF DirectAnswer, updateSent, markNotSent
  <2>2. /\ pending' = pending /\ restoring' = restoring
        /\ saved' = saved \/ saved' \subseteq pending'
    BY <1>6, <1>s DEF DirectAnswer, updateSent, markNotSent, storeVars
  <2> QED BY <2>1, <2>2, <1>o
<1>7. ASSUME NEW e \in Events, restorePending(e) PROVE PendingIsLive'
  <2>1. saved' \subseteq pending'
    BY <1>7, <1>s DEF restorePending
  <2>2. status'[e] \notin Dead /\ Detached
    BY <1>7, <1>0 DEF restorePending, QueueType, PendingIsLive
  <2> QED BY <1>7, <2>1, <2>2, <1>o DEF restorePending
<1>r. ASSUME NEW obj, NEW kind, retryOrGiveUp(obj, kind), pending' = pending,
             restoring' = restoring
      PROVE  PendingIsLive'
  <2>1. status' = status \/ status' = [status EXCEPT ![obj.event] = "not_sent"]
    BY <1>r DEF retryOrGiveUp, markNotSent
  <2>2. saved' = saved \/ saved' \subseteq pending'
    BY <1>r, <1>s DEF retryOrGiveUp, markNotSent, storeVars
  <2> QED BY <1>r, <2>1, <2>2, <1>o
<1>8. ASSUME ProcessQueue PROVE PendingIsLive'
  <2>1. pending' = pending /\ restoring' = restoring
    BY <1>8 DEF ProcessQueue
  <2>2. CASE retryOrGiveUp(Head(queue), "other")
    BY <2>1, <2>2, <1>r
  <2>3. CASE ~retryOrGiveUp(Head(queue), "other")
    <3>1. status' = status \/ status' = [status EXCEPT ![Head(queue).event] = "sending"]
      BY <1>8, <2>3 DEF ProcessQueue
    <3>2. saved' = saved \/ saved' \subseteq pending'
      BY <1>8, <2>1, <2>3, <1>s DEF ProcessQueue, storeVars
    <3> QED BY <2>1, <3>1, <3>2, <1>o
  <2> QED BY <2>2, <2>3
<1>9. ASSUME TimerFires PROVE PendingIsLive'
  BY <1>9 DEF TimerFires, roomVars, storeVars, PendingIsLive
<1>10. ASSUME QueuedAnswer PROVE PendingIsLive'
  <2>1. pending' = pending /\ restoring' = restoring
    BY <1>10 DEF QueuedAnswer
  <2>2. CASE SentThrows(cur.event)
    BY <1>10, <2>1, <2>2, <1>r DEF QueuedAnswer
  <2>3. CASE ~SentThrows(cur.event)
    <3>1. status' = status \/ status' = [status EXCEPT ![cur.event] = "sent"]
      BY <1>10, <2>3 DEF QueuedAnswer, updateSent
    <3>2. saved' = saved \/ saved' \subseteq pending'
      BY <1>10, <2>1, <2>3, <1>s DEF QueuedAnswer, updateSent, storeVars
    <3> QED BY <2>1, <3>1, <3>2, <1>o
  <2> QED BY <2>2, <2>3
<1>11. ASSUME QueuedError PROVE PendingIsLive'
  BY <1>11, <1>r DEF QueuedError
<1>12. ASSUME addLiveEvent PROVE PendingIsLive'
  <2> DEFINE e == server[synced + 1].event
  <2>1. CASE e \in txn
    <3>1. /\ pending' = pending \ {e} /\ saved' \subseteq pending' /\ restoring' = restoring
          /\ status' = [status EXCEPT ![e] = "none"]
      BY <1>12, <2>1, <1>s DEF addLiveEvent
    <3> QED BY <3>1, <1>p
  <2>2. CASE e \notin txn
    BY <1>12, <2>2 DEF addLiveEvent, storeVars, PendingIsLive
  <2> QED BY <2>1, <2>2
<1>13. ASSUME resetLiveTimeline PROVE PendingIsLive'
  BY <1>13 DEF resetLiveTimeline, storeVars, PendingIsLive
<1>14. ASSUME restart PROVE PendingIsLive'
  <2>1. /\ saved' = saved /\ pending' \subseteq saved /\ restoring' \subseteq saved
        /\ \A e \in Events : e \in pending' => status'[e] = "not_sent"
        /\ \A e \in Events : e \notin pending' => status'[e] = "lost" \/ status[e] = "new"
    BY <1>14 DEF restart, storeVars
  <2>2. \A e \in saved' \cup pending' : status'[e] \notin Dead
    BY <2>1, <1>l
  <2>3. ~Detached => saved' \cup pending' \cup restoring' = {}
    BY <2>1 DEF PendingIsLive
  <2> QED BY <2>2, <2>3 DEF PendingIsLive
<1> QED
  BY <1>1, <1>2, <1>3, <1>4, <1>5, <1>6, <1>7, <1>8, <1>9, <1>10, <1>11,
     <1>12, <1>13, <1>14 DEF Next

-----------------------------------------------------------------------------
(* The theorems.                                                           *)

\* In every reachable state the state is well typed, the entry in flight is
\* the head of the queue, and what is queued is queued once (models/room.ts
\* and scheduler.ts agree on who may be cancelled and who may be shifted).
THEOREM SendInvariant == Spec => []IInv
<1>1. Init => IInv
  BY SendAssumption
     DEF Init, IInv, TypeOK, Status, Entry, HeadIsInFlight, QueueWellFormed,
         CurrentNotCancellable, OneQueuedRequest, RestoringIsIdle, PendingIsLive
<1>2. IInv /\ [Next]_vars => IInv'
  <2> SUFFICES ASSUME IInv, [Next]_vars PROVE IInv'
    OBVIOUS
  <2>1. CASE Next
    <3>1. SideType /\ NetType /\ QueueInv /\ RestoringIsIdle /\ PendingIsLive
      BY InvSplit
    <3>2. SideType' /\ NetType' /\ QueueInv' /\ RestoringIsIdle' /\ PendingIsLive'
      BY <2>1, <3>1, SideStep, NetStep, QueueStep, RestoringStep, PendingStep, SendAssumption
    <3>3. TypeOK'
      BY <3>2 DEF TypeOK, SideType, QueueType, NetType, QueueInv
    <3> QED BY <3>2, <3>3 DEF IInv, QueueInv
  <2>2. CASE UNCHANGED vars
    BY <2>2 DEF vars, idVars, schedVars, netVars, roomVars, storeVars, IInv, TypeOK,
                HeadIsInFlight, QueueWellFormed, CurrentNotCancellable,
                OneQueuedRequest, RestoringIsIdle, PendingIsLive
  <2> QED BY <2>1, <2>2
<1> QED BY <1>1, <1>2, PTL DEF Spec

\* The blind queue.shift() of processQueue always drops the entry whose
\* request just finished.
THEOREM HeadIsAlwaysInFlight == Spec => []HeadIsInFlight
<1>1. IInv => HeadIsInFlight
  BY DEF IInv
<1> QED BY <1>1, SendInvariant, PTL
-----------------------------------------------------------------------------
(* The queue implements the outbox.                                        *)

\* Putting an entry at the end of the queue is Put.
LEMMA PutStep ==
  ASSUME queue \in Seq(Entry), NEW e \in Events, queueEvent(e), UNCHANGED server
  PROVE  OB!Next
<1> DEFINE x == [event |-> e, attempts |-> 0, no |-> nextNo]
<1>1. /\ queue' = Append(queue, x) /\ DOMAIN queue = 1..Len(queue) /\ Len(queue) \in Nat
      /\ DOMAIN queue' = 1..(Len(queue) + 1)
      /\ \A i \in 1..Len(queue) : queue'[i] = queue[i]
      /\ queue'[Len(queue) + 1] = x
  <2> HIDE DEF x
  <2>1. queue' = Append(queue, x)
    BY DEF queueEvent, x
  <2> QED BY <2>1
<1>2. /\ DOMAIN Box = 1..Len(queue) /\ Len(Box) = Len(queue)
      /\ \A i \in 1..Len(queue) : Box[i] = [event |-> queue[i].event, no |-> queue[i].no]
  BY <1>1 DEF Box
<1>3. Box' = Append(Box, [event |-> e, no |-> nextNo])
  <2>1. Box' = [i \in 1..(Len(queue) + 1) |-> [event |-> queue'[i].event, no |-> queue'[i].no]]
    BY <1>1 DEF Box
  <2>2. Append(Box, [event |-> e, no |-> nextNo]) =
          [i \in 1..(Len(queue) + 1) |->
             IF i = Len(queue) + 1 THEN [event |-> e, no |-> nextNo] ELSE Box[i]]
    BY <1>2, <1>1
  <2>3. \A i \in 1..(Len(queue) + 1) :
          [event |-> queue'[i].event, no |-> queue'[i].no] =
             IF i = Len(queue) + 1 THEN [event |-> e, no |-> nextNo] ELSE Box[i]
    BY <1>1, <1>2
  <2> QED BY <2>1, <2>2, <2>3
<1>4. OB!Put(e)
  BY <1>3 DEF OB!Put, Box, queueEvent
<1> QED BY <1>4 DEF OB!Next

\* Dropping position at is Take(at).
LEMMA TakeStep ==
  ASSUME queue \in Seq(Entry), NEW at \in DOMAIN queue, UNCHANGED <<server, nextNo>>,
         queue' = [i \in 1..(Len(queue) - 1) |-> IF i < at THEN queue[i] ELSE queue[i + 1]]
  PROVE  OB!Next
<1>1. DOMAIN queue = 1..Len(queue) /\ Len(queue) \in Nat /\ Len(queue) > 0
  OBVIOUS
<1>2. /\ DOMAIN Box = 1..Len(queue) /\ Len(Box) = Len(queue)
      /\ \A i \in 1..Len(queue) : Box[i] = [event |-> queue[i].event, no |-> queue[i].no]
  BY <1>1 DEF Box
<1>3. Box' = [i \in 1..(Len(Box) - 1) |-> IF i < at THEN Box[i] ELSE Box[i + 1]]
  <2>1. Box' = [i \in 1..(Len(queue) - 1) |-> [event |-> queue'[i].event, no |-> queue'[i].no]]
    BY <1>1 DEF Box
  <2>2. \A i \in 1..(Len(queue) - 1) :
          [event |-> queue'[i].event, no |-> queue'[i].no] =
             IF i < at THEN Box[i] ELSE Box[i + 1]
    BY <1>1, <1>2
  <2> QED BY <1>2, <2>1, <2>2
<1>4. OB!Take(at)
  BY <1>3 DEF OB!Take, Box
<1>5. at \in DOMAIN Box
  BY <1>1, <1>2
<1> QED BY <1>4, <1>5 DEF OB!Next, Box

\* So is shifting the head, and a retry leaves the outbox alone.
LEMMA RejectStep ==
  ASSUME queue \in Seq(Entry), queue # <<>>, UNCHANGED <<server, nextNo>>, NEW obj,
         queue' = Tail(queue) \/ queue' = Bump(queue, obj)
  PROVE  [OB!Next]_(OB!vars)
<1>1. DOMAIN queue = 1..Len(queue) /\ Len(queue) \in Nat /\ Len(queue) > 0
  OBVIOUS
<1>2. CASE queue' = Tail(queue)
  <2>1. Tail(queue) = [i \in 1..(Len(queue) - 1) |-> queue[i + 1]]
    <3>1. /\ Tail(queue) \in Seq(Entry) /\ Len(Tail(queue)) = Len(queue) - 1
          /\ \A i \in 1..(Len(queue) - 1) : Tail(queue)[i] = queue[i + 1]
      BY QueueHead
    <3>2. Tail(queue) = [i \in 1..Len(Tail(queue)) |-> Tail(queue)[i]]
      <4> DEFINE t == Tail(queue)
      <4> HIDE DEF t
      <4>1. t \in Seq(Entry)
        BY <3>1 DEF t
      <4>2. t = [i \in 1..Len(t) |-> t[i]]
        BY <4>1
      <4> QED BY <4>2 DEF t
    <3> QED BY <3>1, <3>2
  <2>2. queue' = [i \in 1..(Len(queue) - 1) |-> IF i < 1 THEN queue[i] ELSE queue[i + 1]]
    BY <1>1, <1>2, <2>1
  <2>3. 1 \in DOMAIN queue
    BY <1>1
  <2> QED BY <2>2, <2>3, TakeStep
<1>3. CASE queue' = Bump(queue, obj)
  <2>1. /\ DOMAIN queue' = DOMAIN queue
        /\ \A i \in DOMAIN queue : queue'[i].event = queue[i].event /\ queue'[i].no = queue[i].no
    BY <1>3, BumpQueue
  <2>2. Box' = Box
    BY <2>1 DEF Box
  <2> QED BY <2>2 DEF OB!vars, Box
<1> QED BY <1>2, <1>3

\* Accepting the request in flight is Deliver.
LEMMA DeliverStep ==
  ASSUME IInv, NEW e \in Events, ServerAccepts(e)
  PROVE  [OB!Next]_(OB!vars)
<1>0. queue \in Seq(Entry) /\ UNCHANGED <<queue, nextNo>>
  BY DEF IInv, TypeOK, ServerAccepts, schedVars
<1>1. CASE InServer(e)
  BY <1>0, <1>1 DEF ServerAccepts, OB!vars
<1>2. CASE ~InServer(e) /\ e \notin Queueable
  <2>1. OB!Bypass(e)
    BY <1>0, <1>2 DEF ServerAccepts, OB!Bypass, OB!Delivered, InServer
  <2> QED BY <2>1 DEF OB!Next
<1>3. CASE ~InServer(e) /\ e \in Queueable
  <2>1. cur.event = e /\ queue # <<>> /\ Head(queue) = cur
    BY <1>3 DEF ServerAccepts, IInv, OneQueuedRequest, HeadIsInFlight
  <2>2. 1 \in DOMAIN queue /\ queue[1] = cur
    BY <1>0, <2>1, QueueHead
  <2>3. Box[1] = [event |-> e, no |-> cur.no] /\ Box # <<>>
    BY <2>1, <2>2 DEF Box
  <2>4. server' = Append(server, Box[1])
    BY <1>3, <2>3 DEF ServerAccepts
  <2>5. Box[1].event = e
    BY <2>3
  <2>6. OB!Deliver
    BY <1>0, <1>3, <2>3, <2>4, <2>5 DEF OB!Deliver, OB!Delivered, InServer, Box
  <2> QED BY <2>6 DEF OB!Next
<1> QED BY <1>1, <1>2, <1>3

\* Every step of the client is a step of the outbox, or changes nothing in it.
LEMMA OutboxStep ==
  ASSUME IInv, Next, SendAssumption
  PROVE  [OB!Next]_(OB!vars)
<1>0. /\ queue \in Seq(Entry) /\ HeadIsInFlight /\ QueueWellFormed
  BY DEF IInv, TypeOK
<1>u. ASSUME UNCHANGED <<queue, server, nextNo>> PROVE [OB!Next]_(OB!vars)
  BY <1>u DEF OB!vars
<1>c. sched = "http" => queue # <<>>
  BY <1>0 DEF HeadIsInFlight
<1>1. ASSUME NEW e \in Events, sendEvent(e) \/ encrypted(e) \/ resendEvent(e)
      PROVE  [OB!Next]_(OB!vars)
  <2>1. /\ UNCHANGED server
        /\ queueEvent(e) \/ UNCHANGED <<queue, nextNo>>
    BY <1>1 DEF sendEvent, encrypted, resendEvent, encryptAndSendEvent, sendDirectly, schedVars
  <2> QED BY <2>1, <1>0, <1>u, PutStep
<1>2. ASSUME NEW e \in Events, cancelPendingEvent(e) PROVE [OB!Next]_(OB!vars)
  <2>1. UNCHANGED <<server, nextNo>> /\ queue' = removeEventFromQueue(e)
    BY <1>2 DEF cancelPendingEvent, netVars
  <2>2. CASE \A i \in DOMAIN queue : queue[i].event # e
    <3>1. queue' = queue
      BY <2>1, <2>2 DEF removeEventFromQueue
    <3> QED BY <2>1, <3>1, <1>u
  <2>3. ASSUME NEW at \in DOMAIN queue, queue[at].event = e PROVE [OB!Next]_(OB!vars)
    <3>1. queue' = [i \in 1..(Len(queue) - 1) |-> IF i < at THEN queue[i] ELSE queue[i + 1]]
      BY <2>1, <2>3, <1>0, RemoveAt
    <3> QED BY <2>1, <3>1, <1>0, TakeStep
  <2> QED BY <2>2, <2>3
<1>3. ASSUME NEW e \in Events, ServerAccepts(e) PROVE [OB!Next]_(OB!vars)
  BY <1>3, DeliverStep
<1>4. ASSUME NEW e \in Events, DirectAnswer(e) \/ restorePending(e)
      PROVE  [OB!Next]_(OB!vars)
  BY <1>4, <1>u DEF DirectAnswer, restorePending, schedVars, netVars
<1>5. ASSUME ProcessQueue PROVE [OB!Next]_(OB!vars)
  <2>1. UNCHANGED <<server, nextNo>>
    BY <1>5 DEF ProcessQueue
  <2>2. \/ UNCHANGED queue
        \/ queue # <<>> /\ \E obj : queue' = Tail(queue) \/ queue' = Bump(queue, obj)
    BY <1>5 DEF ProcessQueue, retryOrGiveUp
  <2> QED BY <2>1, <2>2, <1>0, <1>u, RejectStep
<1>6. ASSUME QueuedAnswer \/ QueuedError PROVE [OB!Next]_(OB!vars)
  <2>1. /\ UNCHANGED <<server, nextNo>> /\ queue # <<>>
        /\ \E obj : queue' = Tail(queue) \/ queue' = Bump(queue, obj)
    BY <1>6, <1>c DEF QueuedAnswer, QueuedError, retryOrGiveUp
  <2> QED BY <2>1, <1>0, RejectStep
<1>7. ASSUME TimerFires \/ addLiveEvent \/ resetLiveTimeline PROVE [OB!Next]_(OB!vars)
  BY <1>7, <1>u DEF TimerFires, addLiveEvent, resetLiveTimeline, schedVars, netVars
<1>8. ASSUME restart PROVE [OB!Next]_(OB!vars)
  <2>1. Box' = <<>> /\ UNCHANGED <<server, nextNo>>
    BY <1>8 DEF restart, Box
  <2>2. OB!Clear
    BY <2>1 DEF OB!Clear, Box
  <2> QED BY <2>2 DEF OB!Next
<1> QED BY <1>1, <1>2, <1>3, <1>4, <1>5, <1>6, <1>7, <1>8 DEF Next

\* The message queue implements the abstract outbox, for every set of events
\* and whatever the server, the network and the application do.
THEOREM QueueImplementsOutbox == Spec => ImplementsOutbox
<1>1. Init => OB!Init
  <2>1. Init => Box = <<>>
    BY DEF Init, Box
  <2> QED BY <2>1 DEF Init, OB!Init, Box
<1>2. IInv /\ [Next]_vars => [OB!Next]_(OB!vars)
  <2>1. CASE UNCHANGED vars
    BY <2>1 DEF vars, schedVars, netVars, OB!vars
  <2> QED BY <2>1, OutboxStep, SendAssumption
<1> QED BY <1>1, <1>2, SendInvariant, PTL DEF Spec, ImplementsOutbox, OB!Spec

\* The server accepts the events of the message queue in the order in which
\* they were queued: retries, cancellations, resends and reloads never let a
\* later entry overtake an earlier one.
THEOREM QueuedEventsInOrder == Spec => []AcceptedInOrder
<1>1. OBP!Spec => [](OBP!InOrder /\ OBP!AtMostOnce)
  BY OBP!OutboxInOrder
<1>2. OB!Init => OBP!Init
  BY DEF OB!Init, OBP!Init
<1>4. [OB!Next]_(OB!vars) => [OBP!Next]_(OBP!vars)
  BY DEF OB!Next, OBP!Next, OB!vars, OBP!vars, OB!Put, OBP!Put, OB!Bypass, OBP!Bypass,
         OB!Deliver, OBP!Deliver, OB!Delivered, OBP!Delivered, OB!Take, OBP!Take,
         OB!Clear, OBP!Clear
<1>5. ImplementsOutbox => OBP!Spec
  BY <1>2, <1>4, PTL DEF ImplementsOutbox, OB!Spec, OBP!Spec
<1>3. OBP!InOrder => AcceptedInOrder
  BY DEF OBP!InOrder, AcceptedInOrder
<1> QED BY <1>1, <1>3, <1>5, QueueImplementsOutbox, PTL
-----------------------------------------------------------------------------
(* Confirmed events, and what session storage holds.                       *)

\* A step of the client never takes a confirmed event back.
LEMMA ConfirmedStep ==
  ASSUME IInv, Next, NEW x \in Events, status[x] = "none"
  PROVE  status'[x] \in {"none", "lost"}
<1>0. status \in [Events -> Status] /\ NetType
  BY DEF IInv, TypeOK, NetType
<1>n. ALLOWED_TRANSITIONS("none") = {}
  BY DEF ALLOWED_TRANSITIONS
<1>o. ASSUME NEW e, NEW st, status' = status \/ (status' = [status EXCEPT ![e] = st] /\ status[e] # "none")
      PROVE  status'[x] = "none"
  BY <1>o, <1>0
<1>r. ASSUME NEW obj, NEW kind, retryOrGiveUp(obj, kind) PROVE status'[x] = "none"
  <2>1. \/ status' = status
        \/ /\ status' = [status EXCEPT ![obj.event] = "not_sent"]
           /\ "not_sent" \in ALLOWED_TRANSITIONS(status[obj.event])
    BY <1>r DEF retryOrGiveUp, markNotSent
  <2> QED BY <2>1, <1>o, <1>n
<1>u. ASSUME NEW e, updateSent(e), ~SentThrows(e) PROVE status'[x] = "none"
  <2>1. \/ status' = status
        \/ /\ status' = [status EXCEPT ![e] = "sent"]
           /\ "sent" \in ALLOWED_TRANSITIONS(status[e])
    BY <1>u DEF updateSent, SentThrows
  <2> QED BY <2>1, <1>o, <1>n
<1>1. ASSUME NEW e \in Events, sendEvent(e) \/ encrypted(e) \/ resendEvent(e)
             \/ cancelPendingEvent(e)
      PROVE  status'[x] = "none"
  <2>1. status[e] # "none" /\ \E st : status' = [status EXCEPT ![e] = st]
    BY <1>1 DEF sendEvent, encrypted, resendEvent, cancelPendingEvent,
                encryptAndSendEvent, queueEvent, sendDirectly
  <2> QED BY <2>1, <1>o
<1>2. ASSUME NEW e \in Events, restorePending(e) PROVE status'[x] = "none"
  <2>1. status[e] = "lost" /\ status' = [status EXCEPT ![e] = "not_sent"]
    BY <1>2 DEF restorePending, IInv, RestoringIsIdle
  <2> QED BY <2>1, <1>o
<1>3. ASSUME NEW e \in Events, DirectAnswer(e) PROVE status'[x] = "none"
  <2>1. CASE updateSent(e) /\ ~SentThrows(e)
    BY <2>1, <1>u
  <2>2. CASE markNotSent(e)
    <3>1. \/ status' = status
          \/ /\ status' = [status EXCEPT ![e] = "not_sent"]
             /\ "not_sent" \in ALLOWED_TRANSITIONS(status[e])
      BY <2>2 DEF markNotSent
    <3> QED BY <3>1, <1>o, <1>n
  <2> QED BY <1>3, <2>1, <2>2 DEF DirectAnswer
<1>4. ASSUME ProcessQueue PROVE status'[x] = "none"
  <2>1. CASE retryOrGiveUp(Head(queue), "other")
    BY <2>1, <1>r
  <2>2. CASE ~retryOrGiveUp(Head(queue), "other")
    <3>1. \/ status' = status
          \/ /\ status' = [status EXCEPT ![Head(queue).event] = "sending"]
             /\ \/ status[Head(queue).event] = "sending"
                \/ "sending" \in ALLOWED_TRANSITIONS(status[Head(queue).event])
      BY <1>4, <2>2 DEF ProcessQueue
    <3> QED BY <3>1, <1>o, <1>n
  <2> QED BY <2>1, <2>2
<1>5. ASSUME QueuedAnswer PROVE status'[x] = "none"
  <2>1. CASE SentThrows(cur.event)
    BY <1>5, <2>1, <1>r DEF QueuedAnswer
  <2>2. CASE ~SentThrows(cur.event)
    BY <1>5, <2>2, <1>u DEF QueuedAnswer
  <2> QED BY <2>1, <2>2
<1>6. ASSUME QueuedError PROVE status'[x] = "none"
  BY <1>6, <1>r DEF QueuedError
<1>7. ASSUME addLiveEvent PROVE status'[x] = "none"
  <2>1. \/ status' = status
        \/ status' = [status EXCEPT ![server[synced + 1].event] = "none"]
    BY <1>7 DEF addLiveEvent
  <2> QED BY <2>1, <1>0
<1>8. ASSUME (\E e \in Events : ServerAccepts(e)) \/ TimerFires \/ resetLiveTimeline
      PROVE  status'[x] = "none"
  BY <1>8 DEF ServerAccepts, TimerFires, resetLiveTimeline
<1>9. ASSUME restart PROVE status'[x] = "lost"
  <2>1. x \notin saved
    BY DEF IInv, PendingIsLive
  <2> QED BY <1>9, <2>1 DEF restart
<1> QED BY <1>1, <1>2, <1>3, <1>4, <1>5, <1>6, <1>7, <1>8, <1>9 DEF Next

\* No late answer, error, retry or give-up of a request undoes what /sync has
\* confirmed (the transitions of models/room.ts and the catch of client.ts).
THEOREM ConfirmedStaysFinal == Spec => ConfirmedIsFinal
<1> DEFINE A == \A e \in Events : status[e] = "none" => status'[e] \in {"none", "lost"}
<1>1. IInv /\ [Next]_vars => [A]_vars
  BY ConfirmedStep
<1> QED BY <1>1, SendInvariant, PTL DEF Spec, ConfirmedIsFinal

\* Every storable pending event is in session storage.
Storable(e) == e \in encd \/ ~Encrypted
PendingIsStored == \A e \in pending : Storable(e) => e \in saved

\* Every action that changes the pending list, or encrypts one of its events,
\* stores the list.
LEMMA StoreStep ==
  ASSUME IInv, PendingIsStored, Next
  PROVE  PendingIsStored'
<1>0. Detached \/ pending = {}
  BY DEF IInv, PendingIsLive
<1>s. ASSUME NEW named, savePendingEvents(pending', encd', named), Detached \/ pending' = {}
      PROVE  PendingIsStored'
  BY <1>s DEF savePendingEvents, PendingIsStored, Storable
<1>u. ASSUME pending' = pending, encd' = encd, saved' = saved
      PROVE  PendingIsStored'
  BY <1>u DEF PendingIsStored, Storable
<1>r. ASSUME NEW obj, NEW kind, retryOrGiveUp(obj, kind), pending' = pending, encd' = encd
      PROVE  PendingIsStored'
  <2>1. savePendingEvents(pending', encd', linked) \/ saved' = saved
    BY <1>r DEF retryOrGiveUp, markNotSent, storeVars
  <2> QED BY <1>r, <2>1, <1>s, <1>u, <1>0
<1>1. ASSUME NEW e \in Events, sendEvent(e) PROVE PendingIsStored'
  <2>1. savePendingEvents(pending', encd', linked') /\ (Detached \/ pending' = {})
    BY <1>1, <1>0 DEF sendEvent
  <2> QED BY <2>1, <1>s
<1>2. ASSUME NEW e \in Events, encrypted(e) \/ resendEvent(e) \/ cancelPendingEvent(e)
      PROVE  PendingIsStored'
  <2>1. savePendingEvents(pending', encd', linked) /\ (Detached \/ pending' = {})
    BY <1>2, <1>0 DEF encrypted, resendEvent, cancelPendingEvent, idVars
  <2> QED BY <2>1, <1>s
<1>3. ASSUME NEW e \in Events, restorePending(e) PROVE PendingIsStored'
  <2>1. Detached
    BY <1>3 DEF restorePending, IInv, PendingIsLive
  <2>2. savePendingEvents(pending', encd', linked)
    BY <1>3 DEF restorePending, idVars
  <2> QED BY <2>1, <2>2, <1>s
<1>v. ASSUME NEW e, updateSent(e), pending' = pending, encd' = encd
      PROVE  PendingIsStored'
  <2>1. savePendingEvents(pending', encd', linked') \/ saved' = saved
    BY <1>v DEF updateSent, storeVars
  <2> QED BY <1>v, <2>1, <1>s, <1>u, <1>0
<1>4. ASSUME NEW e \in Events, DirectAnswer(e) PROVE PendingIsStored'
  <2>1. pending' = pending /\ encd' = encd
    BY <1>4 DEF DirectAnswer
  <2>2. CASE updateSent(e)
    BY <2>1, <2>2, <1>v
  <2>3. CASE markNotSent(e)
    <3>1. savePendingEvents(pending', encd', linked) \/ saved' = saved
      BY <2>1, <2>3 DEF markNotSent, storeVars
    <3> QED BY <2>1, <3>1, <1>s, <1>u, <1>0
  <2> QED BY <1>4, <2>2, <2>3 DEF DirectAnswer
<1>5. ASSUME ProcessQueue PROVE PendingIsStored'
  <2>1. pending' = pending /\ encd' = encd
    BY <1>5 DEF ProcessQueue, idVars
  <2>2. CASE retryOrGiveUp(Head(queue), "other")
    BY <2>1, <2>2, <1>r
  <2>3. CASE ~retryOrGiveUp(Head(queue), "other")
    <3>1. savePendingEvents(pending', encd', linked) \/ saved' = saved
      BY <1>5, <2>1, <2>3 DEF ProcessQueue, storeVars
    <3> QED BY <2>1, <3>1, <1>s, <1>u, <1>0
  <2> QED BY <2>2, <2>3
<1>6. ASSUME QueuedAnswer \/ QueuedError PROVE PendingIsStored'
  <2>1. pending' = pending /\ encd' = encd
    BY <1>6 DEF QueuedAnswer, QueuedError, idVars
  <2>2. updateSent(cur.event) \/ \E kind : retryOrGiveUp(cur, kind)
    BY <1>6 DEF QueuedAnswer, QueuedError
  <2> QED BY <2>1, <2>2, <1>r, <1>v
<1>7. ASSUME addLiveEvent PROVE PendingIsStored'
  <2> DEFINE e == server[synced + 1].event
  <2>1. encd' = encd
    BY <1>7 DEF addLiveEvent
  <2>2. CASE e \in txn
    <3>1. savePendingEvents(pending', encd', linked) /\ (Detached \/ pending' = {})
      BY <1>7, <2>1, <2>2, <1>0 DEF addLiveEvent
    <3> QED BY <3>1, <1>s
  <2>3. CASE e \notin txn
    BY <1>7, <2>1, <2>3, <1>u DEF addLiveEvent, storeVars
  <2> QED BY <2>2, <2>3
<1>8. ASSUME (\E e \in Events : ServerAccepts(e)) \/ TimerFires \/ resetLiveTimeline
      PROVE  PendingIsStored'
  BY <1>8, <1>u DEF ServerAccepts, TimerFires, resetLiveTimeline, roomVars, storeVars, idVars
<1>9. ASSUME restart PROVE PendingIsStored'
  BY <1>9 DEF restart, storeVars, PendingIsStored
<1> QED BY <1>1, <1>2, <1>3, <1>4, <1>5, <1>6, <1>7, <1>8, <1>9 DEF Next

\* A reload brings back every pending event that can be stored, and none that
\* was confirmed or cancelled (savePendingEvents of models/room.ts).
THEOREM StorageFollowsPending == Spec => []StoredIsPending
<1>1. Init => PendingIsStored
  BY DEF Init, PendingIsStored
<1>2. IInv /\ PendingIsStored /\ [Next]_vars => PendingIsStored'
  <2>1. CASE UNCHANGED vars
    BY <2>1 DEF vars, roomVars, storeVars, idVars, PendingIsStored, Storable
  <2> QED BY <2>1, StoreStep
<1>3. IInv /\ PendingIsStored => StoredIsPending
  BY DEF IInv, PendingIsLive, PendingIsStored, Storable, StoredIsPending
<1> QED BY <1>1, <1>2, <1>3, SendInvariant, PTL DEF Spec
-----------------------------------------------------------------------------
(* The remote echo finds the local one.                                    *)

\* The page has not been reloaded yet.
NoReload == used.restarts = 0

\* Only a reload counts as one.
LEMMA ReloadStep ==
  ASSUME IInv, Next
  PROVE  /\ NoReload' => NoReload
         /\ restart => ~NoReload'
<1>1. used \in [resends : Nat, rateLimits : Nat, resets : Nat, restarts : Nat]
  BY DEF IInv, TypeOK
<1>s. ASSUME NEW b \in {"resends", "rateLimits", "resets"}, Spend(b) PROVE NoReload' => NoReload
  BY <1>1, <1>s DEF Spend, NoReload
<1>u. ASSUME used' = used PROVE NoReload' => NoReload
  BY <1>u DEF NoReload
<1>2. ASSUME NEW e \in Events, sendEvent(e) \/ encrypted(e) \/ resendEvent(e)
             \/ cancelPendingEvent(e) \/ ServerAccepts(e) \/ DirectAnswer(e) \/ restorePending(e)
      PROVE  NoReload' => NoReload
  BY <1>2, <1>s, <1>u DEF sendEvent, encrypted, resendEvent, cancelPendingEvent, ServerAccepts,
     DirectAnswer, restorePending
<1>3. ASSUME ProcessQueue \/ TimerFires \/ QueuedAnswer \/ QueuedError \/ addLiveEvent
             \/ resetLiveTimeline
      PROVE  NoReload' => NoReload
  BY <1>3, <1>s, <1>u DEF ProcessQueue, TimerFires, QueuedAnswer, QueuedError, addLiveEvent,
     resetLiveTimeline
<1>4. ASSUME restart PROVE ~NoReload'
  BY <1>1, <1>4 DEF restart, Spend, NoReload
<1> QED BY <1>2, <1>3, <1>4 DEF Next

\* How the status of one event may change in a step.
Moves(x) ==
  \/ status'[x] = status[x]
  \/ /\ status[x] \notin {"new", "none", "lost"} \/ x \in txn'
     /\ status'[x] \in {"encrypting", "sending", "queued", "sent", "not_sent", "cancelled"}
     /\ status'[x] = "not_sent" => x \in gaveUp'
     /\ status'[x] = "encrypting" => Encrypted
  \/ status'[x] = "none" /\ x \in remoteId'
  \/ status'[x] = "lost" /\ ~NoReload'

LEMMA StatusMoves ==
  ASSUME IInv, Next, NEW x \in Events
  PROVE  Moves(x)
<1> USE DEF Moves
<1>0. status \in [Events -> Status] /\ NetType
  BY DEF IInv, TypeOK, NetType
<1>o. ASSUME status' = status PROVE Moves(x)
  BY <1>o
<1>p. ASSUME NEW e, NEW st \in {"encrypting", "sending", "queued", "sent", "not_sent", "cancelled"},
             status' = [status EXCEPT ![e] = st],
             status[e] \notin {"new", "none", "lost"} \/ e \in txn',
             st = "not_sent" => e \in gaveUp', st = "encrypting" => Encrypted
      PROVE  Moves(x)
  BY <1>p, <1>0
<1>q. ASSUME NEW e, encryptAndSendEvent(e)
      PROVE  \E st \in {"encrypting", "sending", "queued"} :
               status' = [status EXCEPT ![e] = st] /\ (st = "encrypting" => Encrypted)
  BY <1>q DEF encryptAndSendEvent, encryptEventIfNeeded, queueEvent, sendDirectly
<1>a. /\ ALLOWED_TRANSITIONS("new") = {} /\ ALLOWED_TRANSITIONS("none") = {}
      /\ ALLOWED_TRANSITIONS("lost") = {}
  BY DEF ALLOWED_TRANSITIONS
<1>m. ASSUME NEW e, markNotSent(e) PROVE Moves(x)
  <2>1. \/ status' = status
        \/ /\ status' = [status EXCEPT ![e] = "not_sent"] /\ e \in gaveUp'
           /\ status[e] \notin {"new", "none", "lost"}
    BY <1>m, <1>a DEF markNotSent
  <2> QED BY <2>1, <1>o, <1>p
<1>r. ASSUME NEW obj, NEW kind, retryOrGiveUp(obj, kind) PROVE Moves(x)
  <2>1. markNotSent(obj.event) \/ status' = status
    BY <1>r DEF retryOrGiveUp
  <2> QED BY <2>1, <1>m, <1>o
<1>u. ASSUME NEW e, updateSent(e), ~SentThrows(e) PROVE Moves(x)
  <2>1. \/ status' = status
        \/ /\ status' = [status EXCEPT ![e] = "sent"]
           /\ status[e] \notin {"new", "none", "lost"}
    BY <1>u, <1>a DEF updateSent, SentThrows
  <2> QED BY <2>1, <1>o, <1>p
<1>1. ASSUME NEW e \in Events, sendEvent(e) PROVE Moves(x)
  <2>1. e \in txn'
    BY <1>1 DEF sendEvent
  <2>2. CASE encryptAndSendEvent(e)
    BY <2>1, <2>2, <1>q, <1>p
  <2>3. CASE status' = [status EXCEPT ![e] = "not_sent"] /\ e \in gaveUp'
    BY <2>1, <2>3, <1>p
  <2> QED BY <1>1, <2>2, <2>3 DEF sendEvent
<1>2. ASSUME NEW e \in Events, encrypted(e) PROVE Moves(x)
  <2>1. /\ status[e] = "encrypting"
        /\ \E st \in {"sending", "queued", "not_sent"} :
             status' = [status EXCEPT ![e] = st] /\ (st = "not_sent" => e \in gaveUp')
    BY <1>2 DEF encrypted, queueEvent, sendDirectly
  <2> QED BY <2>1, <1>p
<1>3. ASSUME NEW e \in Events, resendEvent(e) PROVE Moves(x)
  <2>1. status[e] = "not_sent" /\ encryptAndSendEvent(e)
    BY <1>3 DEF resendEvent
  <2> QED BY <2>1, <1>q, <1>p
<1>4. ASSUME NEW e \in Events, cancelPendingEvent(e) PROVE Moves(x)
  <2>1. /\ status[e] \in {"queued", "not_sent"}
        /\ status' = [status EXCEPT ![e] = "cancelled"]
    BY <1>4 DEF cancelPendingEvent
  <2> QED BY <2>1, <1>p
<1>5. ASSUME NEW e \in Events, ServerAccepts(e) PROVE Moves(x)
  BY <1>5, <1>o DEF ServerAccepts
<1>6. ASSUME NEW e \in Events, DirectAnswer(e) PROVE Moves(x)
  BY <1>6, <1>m, <1>u DEF DirectAnswer
<1>7. ASSUME NEW e \in Events, restorePending(e) PROVE Moves(x)
  <2>1. /\ e \in txn' /\ e \in gaveUp'
        /\ status' = [status EXCEPT ![e] = "not_sent"]
    BY <1>7 DEF restorePending
  <2> QED BY <2>1, <1>p
<1>8. ASSUME ProcessQueue PROVE Moves(x)
  <2>1. CASE retryOrGiveUp(Head(queue), "other")
    BY <2>1, <1>r
  <2>2. CASE ~retryOrGiveUp(Head(queue), "other")
    <3>1. \/ status' = status
          \/ /\ status' = [status EXCEPT ![Head(queue).event] = "sending"]
             /\ status[Head(queue).event] \notin {"new", "none", "lost"}
      BY <1>8, <2>2, <1>a DEF ProcessQueue
    <3> QED BY <3>1, <1>o, <1>p
  <2> QED BY <2>1, <2>2
<1>9. ASSUME QueuedAnswer PROVE Moves(x)
  BY <1>9, <1>r, <1>u DEF QueuedAnswer
<1>10. ASSUME QueuedError PROVE Moves(x)
  BY <1>10, <1>r DEF QueuedError
<1>11. ASSUME addLiveEvent PROVE Moves(x)
  <2> DEFINE e == server[synced + 1].event
  <2>1. \/ status' = status
        \/ status' = [status EXCEPT ![e] = "none"] /\ e \in remoteId'
    BY <1>11 DEF addLiveEvent, ReplaceEventId
  <2> QED BY <2>1, <1>0
<1>12. ASSUME restart PROVE Moves(x)
  <2>1. ~NoReload'
    BY <1>12, ReloadStep
  <2>2. CASE x \in pending'
    <3>1. status'[x] = "not_sent" /\ x \in txn' /\ x \in gaveUp'
      BY <1>12, <2>2 DEF restart
    <3> QED BY <3>1
  <2>3. CASE x \notin pending'
    BY <1>12, <2>1, <2>3 DEF restart
  <2> QED BY <2>2, <2>3
<1>13. ASSUME TimerFires \/ resetLiveTimeline PROVE Moves(x)
  BY <1>13, <1>o DEF TimerFires, resetLiveTimeline
<1> QED BY <1>1, <1>2, <1>3, <1>4, <1>5, <1>6, <1>7, <1>8, <1>9, <1>10, <1>11,
           <1>12, <1>13 DEF Next

\* Where a local echo is kept: what waits for its remote echo is in txnToEvent,
\* and nothing the session has received from /sync is a local echo any more.
EchoKept ==
  /\ pending \subseteq txn
  /\ tlLocal \subseteq txn \ remoteId
  /\ \A i \in 1..synced : server[i].event \notin tlLocal
EchoFound == \A i \in 1..synced : server[i].event \in tlRemote => server[i].event \notin txn

\* An event that was never sent is unknown to the server and has no server id.
NewIsUnsent ==
  \A e \in Events : (InServer(e) \/ req[e] # "none" \/ e \in remoteId) => status[e] # "new"

\* After a reload of an encrypted room the restored events are in no list until
\* they are decrypted; meanwhile /sync may bring their remote echo.
EchoAwaited == ~Encrypted \/ NoReload
RestoringIsRare == restoring # {} => ~EchoAwaited

\* What has been sent or failed here waits in txnToEvent.
LiveInTxn == \A e \in Events : status[e] \notin {"new", "none", "lost"} => e \in txn

EchoInv == /\ EchoKept /\ (EchoAwaited => EchoFound)
           /\ NewIsUnsent /\ RestoringIsRare /\ LiveInTxn

\* The sequence of accepted events only grows.
LEMMA ServerGrows ==
  ASSUME IInv, Next
  PROVE  /\ Len(server') >= Len(server) /\ Len(server') \in Nat /\ Len(server) \in Nat
         /\ \A i \in 1..Len(server) : server'[i] = server[i]
<1>1. server \in Seq([event : Events, no : Nat])
  BY DEF IInv, TypeOK
<1>2. ASSUME NEW e \in Events, ServerAccepts(e)
      PROVE  \E x : server' = server \/ server' = Append(server, x)
  BY <1>2 DEF ServerAccepts
<1>3. (\A e \in Events : ~ServerAccepts(e)) => server' = server
  BY DEF Next, sendEvent, encrypted, resendEvent, cancelPendingEvent, DirectAnswer,
     restorePending, ProcessQueue, TimerFires, QueuedAnswer, QueuedError, addLiveEvent,
     resetLiveTimeline, restart, netVars
<1>4. \E x : server' = server \/ server' = Append(server, x)
  BY <1>2, <1>3
<1>5. ASSUME NEW x, server' = Append(server, x)
      PROVE  /\ Len(server') >= Len(server) /\ Len(server') \in Nat /\ Len(server) \in Nat
             /\ \A i \in 1..Len(server) : server'[i] = server[i]
  BY <1>1, <1>5
<1>6. Len(server) \in Nat
  BY <1>1
<1> QED BY <1>4, <1>5, <1>6

\* Which steps make an event known to the server, and to which events they
\* give a server id.
LEMMA SentMoves ==
  ASSUME IInv, EchoInv, Next, SendAssumption, NEW x \in Events,
         InServer(x)' \/ req'[x] # "none" \/ x \in remoteId'
  PROVE  status'[x] # "new"
<1>0. /\ status \in [Events -> Status] /\ NetType
      /\ req \in [Events -> {"none", "sent", "accepted"}] /\ QueueInv
  BY InvSplit DEF IInv, TypeOK, NetType
<1>1. Moves(x)
  BY StatusMoves
<1>2. CASE status[x] # "new"
  BY <1>1, <1>2 DEF Moves
<1>3. CASE status[x] = "new"
  <2>0. ~InServer(x) /\ req[x] = "none" /\ x \notin remoteId
    BY <1>3 DEF EchoInv, NewIsUnsent
  <2>q. \A i \in DOMAIN queue : queue[i].event # x
    BY <1>0, <1>3 DEF QueueInv, QueueWellFormed
  <2>h. queue # <<>> => Head(queue).event # x
    BY <2>q, <1>0, QueueHead DEF QueueInv, QueueType
  <2>c. sched \in {"http", "timer"} => cur.event # x
    BY <2>h, <1>0 DEF QueueInv, HeadIsInFlight
  <2>n. ASSUME InServer(x)' => InServer(x), req'[x] = req[x], x \in remoteId' => x \in remoteId
        PROVE  FALSE
    BY <2>n, <2>0
  <2>u. ASSUME NEW e, e # x, updateSent(e) PROVE x \in remoteId' => x \in remoteId
    BY <2>u DEF updateSent, ReplaceEventId
  <2>s. ASSUME NEW e \in Events, encryptAndSendEvent(e) PROVE req'[x] # req[x] => e = x /\ status'[e] # "new"
    BY <2>s, <1>0 DEF encryptAndSendEvent, queueEvent, sendDirectly
  <2>1. ASSUME NEW e \in Events, sendEvent(e) PROVE status'[x] # "new"
    <3>1. InServer(x)' = InServer(x) /\ remoteId' = remoteId
      BY <2>1 DEF sendEvent, InServer
    <3> QED BY <3>1, <2>1, <2>s, <2>n DEF sendEvent
  <2>2. ASSUME NEW e \in Events, encrypted(e) \/ resendEvent(e) PROVE status'[x] # "new"
    <3>1. InServer(x)' = InServer(x) /\ remoteId' = remoteId /\ e # x
      BY <2>2, <1>3 DEF encrypted, resendEvent, InServer, idVars
    <3>2. req'[x] = req[x]
      <4>1. req' = req \/ req' = [req EXCEPT ![e] = "sent"]
        BY <2>2 DEF encrypted, resendEvent, encryptAndSendEvent, queueEvent, sendDirectly
      <4> QED BY <4>1, <3>1, <1>0
    <3> QED BY <3>1, <3>2, <2>n
  <2>3. ASSUME NEW e \in Events, cancelPendingEvent(e) \/ restorePending(e) PROVE status'[x] # "new"
    <3>1. InServer(x)' = InServer(x) /\ remoteId' = remoteId /\ req' = req
      BY <2>3 DEF cancelPendingEvent, restorePending, InServer, idVars, netVars
    <3> QED BY <3>1, <2>n
  <2>4. ASSUME NEW e \in Events, ServerAccepts(e) PROVE status'[x] # "new"
    <3>1. e # x /\ remoteId' = remoteId /\ req' = [req EXCEPT ![e] = "accepted"]
      BY <2>4, <2>0 DEF ServerAccepts, idVars
    <3>2. InServer(x)' => InServer(x)
      <4>1. server \in Seq([event : Events, no : Nat])
        BY <1>0 DEF NetType
      <4>2. PICK y \in {[event |-> e, no |-> n] : n \in Nat \cup {cur.no}} :
               server' = server \/ server' = Append(server, y)
        BY <2>4 DEF ServerAccepts
      <4>3. y.event = e
        BY <4>2
      <4>4. CASE server' = Append(server, y)
        <5>1. /\ DOMAIN server' = 1..(Len(server) + 1) /\ DOMAIN server = 1..Len(server)
              /\ \A i \in 1..Len(server) : server'[i] = server[i]
              /\ server'[Len(server) + 1] = y /\ Len(server) \in Nat
          BY <4>1, <4>4
        <5> QED BY <5>1, <4>3, <3>1 DEF InServer
      <4> QED BY <4>2, <4>4 DEF InServer
    <3> QED BY <3>1, <3>2, <2>n, <1>0
  <2>5. ASSUME NEW e \in Events, DirectAnswer(e) PROVE status'[x] # "new"
    <3>1. e # x /\ InServer(x)' = InServer(x) /\ req' = [req EXCEPT ![e] = "none"]
      BY <2>5, <2>0 DEF DirectAnswer, InServer
    <3>2. x \in remoteId' => x \in remoteId
      BY <2>5, <3>1, <2>u DEF DirectAnswer
    <3> QED BY <3>1, <3>2, <2>n, <1>0
  <2>6. ASSUME ProcessQueue PROVE status'[x] # "new"
    <3>1. InServer(x)' = InServer(x) /\ remoteId' = remoteId
      BY <2>6 DEF ProcessQueue, InServer, idVars
    <3>2. req'[x] = req[x]
      <4>1. req' = req \/ (queue # <<>> /\ req' = [req EXCEPT ![Head(queue).event] = "sent"])
        BY <2>6 DEF ProcessQueue
      <4> QED BY <4>1, <2>h, <1>0
    <3> QED BY <3>1, <3>2, <2>n
  <2>7. ASSUME QueuedAnswer \/ QueuedError PROVE status'[x] # "new"
    <3>1. InServer(x)' = InServer(x) /\ cur.event # x /\ req' = [req EXCEPT ![cur.event] = "none"]
      BY <2>7, <2>c DEF QueuedAnswer, QueuedError, InServer
    <3>2. x \in remoteId' => x \in remoteId
      BY <2>7, <3>1, <2>u DEF QueuedAnswer, QueuedError, idVars
    <3> QED BY <3>1, <3>2, <2>n, <1>0
  <2>8. ASSUME addLiveEvent PROVE status'[x] # "new"
    <3> DEFINE e == server[synced + 1].event
    <3>1. e # x
      <4>1. synced + 1 \in DOMAIN server
        BY <1>0, <2>8 DEF addLiveEvent, NetType
      <4> QED BY <4>1, <2>0 DEF InServer
    <3>2. InServer(x)' = InServer(x) /\ req' = req
      BY <2>8 DEF addLiveEvent, InServer
    <3>3. x \in remoteId' => x \in remoteId
      BY <2>8, <3>1 DEF addLiveEvent, ReplaceEventId
    <3> QED BY <3>2, <3>3, <2>n
  <2>9. ASSUME TimerFires \/ resetLiveTimeline PROVE status'[x] # "new"
    <3>1. InServer(x)' = InServer(x) /\ remoteId' = remoteId /\ req' = req
      BY <2>9 DEF TimerFires, resetLiveTimeline, InServer, idVars, netVars
    <3> QED BY <3>1, <2>n
  <2>10. ASSUME restart PROVE status'[x] # "new"
    <3>1. InServer(x)' = InServer(x) /\ remoteId' = remoteId /\ req'[x] = "none"
      BY <2>10 DEF restart, InServer
    <3> QED BY <3>1, <2>n, <2>0
  <2> QED BY <2>1, <2>2, <2>3, <2>4, <2>5, <2>6, <2>7, <2>8, <2>9, <2>10 DEF Next
<1> QED BY <1>2, <1>3

\* Every action keeps a local echo where its remote echo will look for it.
LEMMA EchoStep ==
  ASSUME IInv, EchoInv, Next, SendAssumption
  PROVE  EchoKept' /\ (EchoAwaited' => EchoFound')
<1> DEFINE Here == EchoKept' /\ (EchoAwaited' => EchoFound')
<1>0. NetType /\ EchoKept /\ (EchoAwaited' => EchoAwaited)
  BY ReloadStep, TypeSplit DEF IInv, EchoInv, EchoAwaited
<1>1. /\ synced \in Nat /\ synced <= Len(server)
      /\ \A i \in 1..synced : server'[i] = server[i]
  BY <1>0, ServerGrows DEF NetType
<1>2. EchoAwaited' => EchoFound
  BY <1>0 DEF EchoInv
<1>f. ASSUME pending' \subseteq pending, txn' = txn, remoteId' = remoteId, synced' = synced,
             tlLocal' \subseteq tlLocal, tlRemote' \subseteq tlRemote
      PROVE  Here
  BY <1>f, <1>0, <1>1, <1>2 DEF EchoKept, EchoFound
<1>u. ASSUME NEW e \in Events, updateSent(e), pending' = pending, txn' = txn, synced' = synced
      PROVE  Here
  <2>1. CASE AlreadySynced(e)
    BY <1>u, <2>1, <1>f DEF updateSent
  <2>2. CASE ~AlreadySynced(e)
    <3>1. /\ tlLocal' = tlLocal \ {e} /\ remoteId' = remoteId \cup {e}
          /\ tlRemote' = IF e \in tlLocal THEN tlRemote \cup {e} ELSE tlRemote
      BY <1>u, <2>2 DEF updateSent, ReplaceEventId
    <3>2. EchoKept'
      BY <1>u, <3>1, <1>0, <1>1 DEF EchoKept
    <3>3. EchoAwaited' => EchoFound'
      BY <1>u, <3>1, <1>0, <1>1, <1>2 DEF EchoKept, EchoFound
    <3> QED BY <3>2, <3>3
  <2> QED BY <2>1, <2>2
<1>n. ASSUME NEW e \in Events, status[e] = "new"
      PROVE  e \notin remoteId /\ \A i \in 1..synced : server[i].event # e
  <2>1. e \notin remoteId /\ ~InServer(e)
    BY <1>n DEF EchoInv, NewIsUnsent
  <2>2. 1..synced \subseteq DOMAIN server
    BY <1>0, <1>1 DEF NetType
  <2> QED BY <2>1, <2>2 DEF InServer
<1>3. ASSUME NEW e \in Events, sendEvent(e) PROVE Here
  <2>1. /\ txn' = txn \cup {e} /\ pending' \subseteq pending \cup {e}
        /\ tlLocal' \subseteq tlLocal \cup {e} /\ tlRemote' = tlRemote
        /\ remoteId' = remoteId /\ synced' = synced /\ status[e] = "new"
    BY <1>3 DEF sendEvent
  <2>2. e \notin remoteId /\ \A i \in 1..synced : server[i].event # e
    BY <2>1, <1>n
  <2>3. EchoKept'
    BY <2>1, <2>2, <1>0, <1>1 DEF EchoKept
  <2>4. EchoAwaited' => EchoFound'
    BY <2>1, <2>2, <1>1, <1>2 DEF EchoFound
  <2> QED BY <2>3, <2>4
<1>4. ASSUME NEW e \in Events, encrypted(e) \/ resendEvent(e) \/ ServerAccepts(e) PROVE Here
  BY <1>4, <1>f DEF encrypted, resendEvent, ServerAccepts, idVars, roomVars
<1>5. ASSUME NEW e \in Events, cancelPendingEvent(e) PROVE Here
  <2>1. /\ pending' \subseteq pending /\ txn' = txn /\ remoteId' = remoteId /\ synced' = synced
        /\ tlLocal' \subseteq tlLocal /\ tlRemote' \subseteq tlRemote
    BY <1>5 DEF cancelPendingEvent, idVars, netVars
  <2> QED BY <2>1, <1>f
<1>6. ASSUME NEW e \in Events, DirectAnswer(e) PROVE Here
  <2>1. pending' = pending /\ txn' = txn /\ synced' = synced
    BY <1>6 DEF DirectAnswer
  <2>2. \/ updateSent(e)
        \/ UNCHANGED <<remoteId, tlLocal, tlRemote>>
    BY <1>6 DEF DirectAnswer
  <2> QED BY <2>1, <2>2, <1>f, <1>u
<1>7. ASSUME NEW e \in Events, restorePending(e) PROVE Here
  <2>1. ~EchoAwaited /\ Detached
    BY <1>7 DEF restorePending, EchoInv, RestoringIsRare, IInv, PendingIsLive
  <2>2. /\ txn' = txn \cup {e} /\ pending' = pending \cup {e} /\ tlLocal' = tlLocal
        /\ remoteId' = remoteId /\ synced' = synced
    BY <1>7, <2>1 DEF restorePending, idVars, netVars
  <2>3. EchoKept'
    BY <2>2, <1>0, <1>1 DEF EchoKept
  <2> QED BY <2>1, <2>3, <1>0
<1>8. ASSUME ProcessQueue \/ TimerFires \/ QueuedError PROVE Here
  BY <1>8, <1>f DEF ProcessQueue, TimerFires, QueuedError, idVars, netVars, roomVars
<1>9. ASSUME QueuedAnswer PROVE Here
  <2>1. pending' = pending /\ txn' = txn /\ synced' = synced
    BY <1>9 DEF QueuedAnswer
  <2>2. cur.event \in Events
    BY <1>9, QueueHead DEF QueuedAnswer, IInv, TypeOK, HeadIsInFlight
  <2>3. \/ updateSent(cur.event)
        \/ UNCHANGED <<remoteId, tlLocal, tlRemote>>
    BY <1>9 DEF QueuedAnswer
  <2> QED BY <2>1, <2>2, <2>3, <1>f, <1>u
<1>10. ASSUME addLiveEvent PROVE Here
  <2> DEFINE e == server[synced + 1].event
  <2>1. /\ synced' = synced + 1 /\ server' = server /\ txn' = txn \ {e}
        /\ tlRemote' = tlRemote \cup {e}
    BY <1>10 DEF addLiveEvent
  <2>2. /\ pending' \subseteq pending \ {e} /\ tlLocal' \subseteq tlLocal \ {e}
        /\ tlLocal' \cap remoteId' = {}
    <3>1. CASE e \in txn
      BY <1>10, <3>1, <1>0 DEF addLiveEvent, ReplaceEventId, EchoKept
    <3>2. CASE e \notin txn
      BY <1>10, <3>2, <1>0 DEF addLiveEvent, EchoKept
    <3> QED BY <3>1, <3>2
  <2>3. \A i \in 1..synced' : i \in 1..synced \/ i = synced + 1
    BY <2>1, <1>1
  <2>4. EchoKept'
    BY <2>1, <2>2, <2>3, <1>0 DEF EchoKept
  <2>5. EchoAwaited' => EchoFound'
    BY <2>1, <2>3, <1>2 DEF EchoFound
  <2> QED BY <2>4, <2>5
<1>11. ASSUME resetLiveTimeline PROVE Here
  BY <1>11, <1>0 DEF resetLiveTimeline, idVars, EchoKept, EchoFound
<1>12. ASSUME restart PROVE Here
  <2>1. /\ synced' = 0 /\ tlLocal' = {} /\ tlRemote' = {} /\ txn' = pending'
    BY <1>12 DEF restart
  <2> QED BY <2>1 DEF EchoKept, EchoFound
<1> QED
  BY <1>3, <1>4, <1>5, <1>6, <1>7, <1>8, <1>9, <1>10, <1>11, <1>12 DEF Next

\* What leaves txnToEvent was confirmed, or forgotten by a reload.
LEMMA LiveInTxnStep ==
  ASSUME IInv, EchoInv, Next
  PROVE  LiveInTxn'
<1> SUFFICES ASSUME NEW x \in Events, status'[x] \notin {"new", "none", "lost"}
             PROVE  x \in txn'
  BY DEF LiveInTxn
<1>0. status \in [Events -> Status] /\ NetType
  BY DEF IInv, TypeOK, NetType
<1>1. x \in txn \/ x \in txn'
  BY StatusMoves DEF Moves, EchoInv, LiveInTxn
<1>2. CASE addLiveEvent
  <2> DEFINE e == server[synced + 1].event
  <2>1. txn' = txn \ {e} /\ (e \in txn => status' = [status EXCEPT ![e] = "none"])
    BY <1>2 DEF addLiveEvent
  <2>2. ~(x = e /\ e \in txn)
    BY <2>1, <1>0
  <2> QED BY <1>1, <2>1, <2>2
<1>3. CASE restart
  BY <1>3 DEF restart
<1>4. CASE ~addLiveEvent /\ ~restart
  <2>1. txn \subseteq txn'
    BY <1>4 DEF Next, sendEvent, encrypted, resendEvent, cancelPendingEvent, ServerAccepts,
       DirectAnswer, restorePending, ProcessQueue, TimerFires, QueuedAnswer, QueuedError,
       resetLiveTimeline, roomVars
  <2> QED BY <1>1, <2>1
<1> QED BY <1>2, <1>3, <1>4

\* Only the reload of an encrypted room leaves events to be restored later.
LEMMA RestoringRareStep ==
  ASSUME IInv, EchoInv, Next
  PROVE  RestoringIsRare'
<1>1. EchoAwaited' => EchoAwaited
  BY ReloadStep DEF EchoAwaited
<1>2. CASE restart
  <2>1. ~NoReload'
    BY <1>2, ReloadStep
  <2> QED BY <1>2, <2>1 DEF restart, RestoringIsRare, EchoAwaited
<1>3. CASE ~restart
  <2>1. restoring' \subseteq restoring
    BY <1>3 DEF Next, sendEvent, encrypted, resendEvent, cancelPendingEvent, ServerAccepts,
       DirectAnswer, restorePending, ProcessQueue, TimerFires, QueuedAnswer, QueuedError,
       addLiveEvent, resetLiveTimeline, roomVars
  <2> QED BY <1>1, <2>1 DEF EchoInv, RestoringIsRare
<1> QED BY <1>2, <1>3

LEMMA EchoInvariant == Spec => []EchoInv
<1>1. Init => EchoInv
  BY DEF Init, EchoInv, EchoKept, EchoFound, NewIsUnsent, InServer, RestoringIsRare, LiveInTxn
<1>2. IInv /\ EchoInv /\ [Next]_vars => EchoInv'
  <2> SUFFICES ASSUME IInv, EchoInv, [Next]_vars PROVE EchoInv'
    OBVIOUS
  <2>1. CASE Next
    <3>1. NewIsUnsent'
      BY <2>1, SentMoves, SendAssumption DEF NewIsUnsent
    <3> QED BY <2>1, <3>1, EchoStep, LiveInTxnStep, RestoringRareStep, SendAssumption DEF EchoInv
  <2>2. CASE UNCHANGED vars
    BY <2>2 DEF vars, idVars, netVars, roomVars, EchoInv, EchoKept, EchoFound, NewIsUnsent,
       InServer, RestoringIsRare, LiveInTxn, EchoAwaited, NoReload
  <2> QED BY <2>1, <2>2
<1> QED BY <1>1, <1>2, SendInvariant, PTL DEF Spec

\* The local echo is gone once its remote echo is in the timeline: in a clear
\* room always, in an encrypted one until the page is reloaded.
THEOREM EchoesResolve == Spec => [](EchoAwaited => EchoResolvesLocalEcho)
<1>1. IInv /\ EchoInv => (EchoAwaited => EchoResolvesLocalEcho)
  <2> SUFFICES ASSUME IInv, EchoInv, EchoAwaited, NEW i \in 1..synced,
                      server[i].event \in tlRemote
               PROVE  /\ status[server[i].event] \in {"none", "new", "lost"}
                      /\ server[i].event \notin pending \cup txn
    BY DEF EchoResolvesLocalEcho
  <2>1. server[i].event \in Events /\ server[i].event \notin txn
    BY DEF EchoInv, EchoFound, IInv, TypeOK
  <2> QED BY <2>1 DEF EchoInv, EchoKept, LiveInTxn
<1> QED BY <1>1, EchoInvariant, SendInvariant, PTL

-----------------------------------------------------------------------------
(* Relations to events whose server id is not known yet.                   *)

\* Server ids and failures are not forgotten.
LEMMA IdsGrow ==
  ASSUME Next
  PROVE  remoteId \subseteq remoteId' /\ gaveUp \subseteq gaveUp'
<1>r. ASSUME NEW obj, NEW kind, retryOrGiveUp(obj, kind) PROVE gaveUp \subseteq gaveUp'
  BY <1>r DEF retryOrGiveUp, markNotSent
<1>u. ASSUME NEW e, updateSent(e) PROVE remoteId \subseteq remoteId'
  BY <1>u DEF updateSent, ReplaceEventId
<1>1. ASSUME NEW e \in Events, sendEvent(e) \/ encrypted(e) \/ resendEvent(e)
             \/ cancelPendingEvent(e) \/ ServerAccepts(e) \/ restorePending(e)
      PROVE  remoteId \subseteq remoteId' /\ gaveUp \subseteq gaveUp'
  BY <1>1 DEF sendEvent, encrypted, resendEvent, cancelPendingEvent, ServerAccepts,
     restorePending, idVars
<1>2. ASSUME NEW e \in Events, DirectAnswer(e)
      PROVE  remoteId \subseteq remoteId' /\ gaveUp \subseteq gaveUp'
  BY <1>2, <1>u DEF DirectAnswer, markNotSent
<1>3. ASSUME ProcessQueue \/ QueuedError
      PROVE  remoteId \subseteq remoteId' /\ gaveUp \subseteq gaveUp'
  BY <1>3, <1>r DEF ProcessQueue, QueuedError, idVars
<1>4. ASSUME QueuedAnswer PROVE remoteId \subseteq remoteId' /\ gaveUp \subseteq gaveUp'
  BY <1>4, <1>r, <1>u DEF QueuedAnswer
<1>5. ASSUME TimerFires \/ addLiveEvent \/ resetLiveTimeline \/ restart
      PROVE  remoteId \subseteq remoteId' /\ gaveUp \subseteq gaveUp'
  BY <1>5 DEF TimerFires, addLiveEvent, resetLiveTimeline, restart, ReplaceEventId, idVars
<1> QED BY <1>1, <1>2, <1>3, <1>4, <1>5 DEF Next

\* Only sendEvent takes an event up.
LEMMA NewStays ==
  ASSUME IInv, EchoInv, Next, NEW x \in Events, status[x] = "new", ~sendEvent(x)
  PROVE  status'[x] = "new"
<1>0. status \in [Events -> Status] /\ NetType
  BY DEF IInv, TypeOK, NetType
<1>n. ALLOWED_TRANSITIONS("new") = {}
  BY DEF ALLOWED_TRANSITIONS
<1>o. ASSUME NEW e, NEW st, status' = status \/ (status' = [status EXCEPT ![e] = st] /\ e # x)
      PROVE  status'[x] = "new"
  BY <1>o, <1>0
<1>m. ASSUME NEW e, markNotSent(e) PROVE status'[x] = "new"
  <2>1. \/ status' = status
        \/ status' = [status EXCEPT ![e] = "not_sent"] /\ e # x
    BY <1>m, <1>n DEF markNotSent
  <2> QED BY <2>1, <1>o
<1>r. ASSUME NEW obj, NEW kind, retryOrGiveUp(obj, kind) PROVE status'[x] = "new"
  <2>1. markNotSent(obj.event) \/ status' = status
    BY <1>r DEF retryOrGiveUp
  <2> QED BY <2>1, <1>m
<1>u. ASSUME NEW e, updateSent(e), ~SentThrows(e) PROVE status'[x] = "new"
  <2>1. \/ status' = status
        \/ status' = [status EXCEPT ![e] = "sent"] /\ e # x
    BY <1>u, <1>n DEF updateSent, SentThrows
  <2> QED BY <2>1, <1>o
<1>1. ASSUME NEW e \in Events, sendEvent(e) \/ encrypted(e) \/ resendEvent(e)
             \/ cancelPendingEvent(e)
      PROVE  status'[x] = "new"
  <2>1. e # x /\ \E st : status' = [status EXCEPT ![e] = st]
    BY <1>1 DEF sendEvent, encrypted, resendEvent, cancelPendingEvent,
                encryptAndSendEvent, queueEvent, sendDirectly
  <2> QED BY <2>1, <1>o
<1>2. ASSUME NEW e \in Events, restorePending(e) PROVE status'[x] = "new"
  <2>1. e # x /\ status' = [status EXCEPT ![e] = "not_sent"]
    BY <1>2 DEF restorePending, IInv, RestoringIsIdle
  <2> QED BY <2>1, <1>o
<1>3. ASSUME NEW e \in Events, DirectAnswer(e) PROVE status'[x] = "new"
  BY <1>3, <1>m, <1>u DEF DirectAnswer
<1>4. ASSUME ProcessQueue PROVE status'[x] = "new"
  <2>1. CASE retryOrGiveUp(Head(queue), "other")
    BY <2>1, <1>r
  <2>2. CASE ~retryOrGiveUp(Head(queue), "other")
    <3>1. \/ status' = status
          \/ status' = [status EXCEPT ![Head(queue).event] = "sending"] /\ Head(queue).event # x
      BY <1>4, <2>2, <1>n DEF ProcessQueue
    <3> QED BY <3>1, <1>o
  <2> QED BY <2>1, <2>2
<1>5. ASSUME QueuedAnswer \/ QueuedError PROVE status'[x] = "new"
  BY <1>5, <1>r, <1>u DEF QueuedAnswer, QueuedError
<1>6. ASSUME addLiveEvent PROVE status'[x] = "new"
  <2>1. synced + 1 \in DOMAIN server
    BY <1>0, <1>6 DEF addLiveEvent, NetType
  <2>2. server[synced + 1].event # x
    BY <2>1 DEF EchoInv, NewIsUnsent, InServer
  <2>3. \/ status' = status
        \/ status' = [status EXCEPT ![server[synced + 1].event] = "none"]
    BY <1>6 DEF addLiveEvent
  <2> QED BY <2>2, <2>3, <1>o
<1>7. ASSUME (\E e \in Events : ServerAccepts(e)) \/ TimerFires \/ resetLiveTimeline
      PROVE  status'[x] = "new"
  BY <1>7 DEF ServerAccepts, TimerFires, resetLiveTimeline
<1>8. ASSUME restart PROVE status'[x] = "new"
  <2>1. x \notin saved
    BY DEF IInv, PendingIsLive
  <2> QED BY <1>8, <2>1 DEF restart
<1> QED BY <1>1, <1>2, <1>3, <1>4, <1>5, <1>6, <1>7, <1>8 DEF Next

\* Every relation that has been taken up names its target by the server's id,
\* or listens for it while there is none.
Linked ==
  \A r \in Relations : status[r] # "new"
     => r \in linked \/ (r \in listening /\ Target[r] \notin remoteId)
TimelineHasId == tlRemote \subseteq remoteId
NothingLost == \A e \in Events : status[e] # "lost"

\* What relations listen to has been taken up; what is confirmed has a server
\* id; what failed is on record as having failed.
ListenedIsSent == \A r \in listening : status[Target[r]] # "new"
ConfirmedHasId == \A e \in Events : status[e] = "none" => e \in remoteId
FailedIsKnown == \A e \in Events : status[e] = "not_sent" => e \in gaveUp

RelationInv == /\ NoReload => Linked /\ TimelineHasId /\ NothingLost
               /\ ListenedIsSent /\ ConfirmedHasId /\ FailedIsKnown

\* How a step may change what relations know of their targets.
RelationMoves ==
  \/ UNCHANGED <<linked, listening, remoteId>>
  \/ \E e \in Events : ReplaceEventId(e)
  \/ \E e \in Events : sendEvent(e)
  \/ restart

LEMMA RelationsMove ==
  ASSUME IInv, Next
  PROVE  RelationMoves
<1> USE DEF RelationMoves
<1>u. ASSUME NEW e \in Events, updateSent(e) PROVE RelationMoves
  BY <1>u DEF updateSent
<1>1. ASSUME NEW e \in Events, encrypted(e) \/ resendEvent(e) \/ cancelPendingEvent(e)
             \/ ServerAccepts(e) \/ restorePending(e)
      PROVE  RelationMoves
  BY <1>1 DEF encrypted, resendEvent, cancelPendingEvent, ServerAccepts, restorePending, idVars
<1>2. ASSUME NEW e \in Events, DirectAnswer(e) PROVE RelationMoves
  BY <1>2, <1>u DEF DirectAnswer
<1>3. ASSUME ProcessQueue \/ TimerFires \/ QueuedError \/ resetLiveTimeline PROVE RelationMoves
  BY <1>3 DEF ProcessQueue, TimerFires, QueuedError, resetLiveTimeline, idVars
<1>4. ASSUME QueuedAnswer PROVE RelationMoves
  <2>1. cur.event \in Events
    BY <1>4, QueueHead DEF QueuedAnswer, IInv, TypeOK, HeadIsInFlight
  <2> QED BY <1>4, <2>1, <1>u DEF QueuedAnswer
<1>5. ASSUME addLiveEvent PROVE RelationMoves
  <2>1. NetType
    BY TypeSplit DEF IInv
  <2>2. synced + 1 \in DOMAIN server
    BY <1>5, <2>1 DEF addLiveEvent, NetType
  <2>3. server[synced + 1] \in [event : Events, no : Nat]
    BY <2>1, <2>2, SeqElements DEF NetType
  <2>4. server[synced + 1].event \in Events
    BY <2>3
  <2> QED BY <1>5, <2>4 DEF addLiveEvent
<1> QED BY <1>1, <1>2, <1>3, <1>4, <1>5 DEF Next

LEMMA LinkedStep ==
  ASSUME IInv, EchoInv, RelationInv, Next, NoReload', SendAssumption
  PROVE  Linked'
<1>0. /\ NoReload /\ ~restart /\ Linked
      /\ Relations \subseteq Events
      /\ \A r \in Relations : Target[r] \in Events
  BY ReloadStep DEF RelationInv, SendAssumption, Relations
<1>1. CASE \A e \in Events : ~sendEvent(e)
  <2> SUFFICES ASSUME NEW r \in Relations, status'[r] # "new"
               PROVE  r \in linked' \/ (r \in listening' /\ Target[r] \notin remoteId')
    BY DEF Linked
  <2>1. status[r] # "new"
    BY <1>0, <1>1, NewStays
  <2>2. r \in linked \/ (r \in listening /\ Target[r] \notin remoteId)
    BY <2>1, <1>0 DEF Linked
  <2>3. CASE UNCHANGED <<linked, listening, remoteId>>
    BY <2>2, <2>3
  <2>4. ASSUME NEW e \in Events, ReplaceEventId(e)
        PROVE  r \in linked' \/ (r \in listening' /\ Target[r] \notin remoteId')
    BY <2>2, <2>4 DEF ReplaceEventId
  <2> QED BY <2>3, <2>4, <1>0, <1>1, RelationsMove DEF RelationMoves
<1>2. ASSUME NEW e \in Events, sendEvent(e) PROVE Linked'
  <2>1. /\ linked \subseteq linked' /\ listening \subseteq listening' /\ remoteId' = remoteId
        /\ e \in Relations => e \in linked' \/ (e \in listening' /\ Target[e] \notin remoteId)
    BY <1>2 DEF sendEvent, LinkToTarget
  <2>2. \A r \in Events : r # e => status'[r] = status[r]
    BY <1>2 DEF sendEvent, encryptAndSendEvent, queueEvent, sendDirectly, IInv, TypeOK
  <2> QED BY <2>1, <2>2, <1>0 DEF Linked
<1> QED BY <1>1, <1>2

LEMMA TimelineHasIdStep ==
  ASSUME IInv, EchoInv, RelationInv, Next, NoReload'
  PROVE  TimelineHasId'
<1>0. NoReload /\ ~restart /\ TimelineHasId /\ NothingLost /\ NetType /\ remoteId \subseteq remoteId'
  BY ReloadStep, IdsGrow, TypeSplit DEF RelationInv, IInv
<1>f. ASSUME tlRemote' \subseteq tlRemote PROVE TimelineHasId'
  BY <1>f, <1>0 DEF TimelineHasId
<1>u. ASSUME NEW e, updateSent(e) PROVE TimelineHasId'
  BY <1>u, <1>0 DEF updateSent, ReplaceEventId, TimelineHasId
<1>1. ASSUME NEW e \in Events, sendEvent(e) \/ encrypted(e) \/ resendEvent(e)
             \/ cancelPendingEvent(e) \/ ServerAccepts(e) \/ restorePending(e)
      PROVE  TimelineHasId'
  <2>1. tlRemote' \subseteq tlRemote
    BY <1>1 DEF sendEvent, encrypted, resendEvent, cancelPendingEvent, ServerAccepts,
       restorePending, roomVars
  <2> QED BY <2>1, <1>f
<1>2. ASSUME NEW e \in Events, DirectAnswer(e) PROVE TimelineHasId'
  BY <1>2, <1>f, <1>u DEF DirectAnswer
<1>3. ASSUME ProcessQueue \/ TimerFires \/ QueuedError \/ resetLiveTimeline PROVE TimelineHasId'
  <2>1. tlRemote' \subseteq tlRemote
    BY <1>3 DEF ProcessQueue, TimerFires, QueuedError, resetLiveTimeline, roomVars
  <2> QED BY <2>1, <1>f
<1>4. ASSUME QueuedAnswer PROVE TimelineHasId'
  BY <1>4, <1>f, <1>u DEF QueuedAnswer
<1>5. ASSUME addLiveEvent PROVE TimelineHasId'
  <2> DEFINE e == server[synced + 1].event
  <2>1. e \in Events /\ InServer(e)
    <3>1. synced + 1 \in DOMAIN server
      BY <1>0, <1>5 DEF addLiveEvent, NetType
    <3>2. server[synced + 1] \in [event : Events, no : Nat]
      BY <1>0, <3>1, SeqElements DEF NetType
    <3> QED BY <3>1, <3>2 DEF InServer
  <2>2. tlRemote' = tlRemote \cup {e}
    BY <1>5 DEF addLiveEvent
  <2>3. CASE e \in txn
    BY <1>5, <1>0, <2>2, <2>3 DEF addLiveEvent, ReplaceEventId, TimelineHasId
  <2>4. CASE e \notin txn
    <3>1. status[e] = "none"
      BY <2>1, <2>4, <1>0 DEF EchoInv, LiveInTxn, NewIsUnsent, NothingLost
    <3>2. e \in remoteId
      BY <2>1, <3>1 DEF RelationInv, ConfirmedHasId
    <3> QED BY <2>2, <3>2, <1>0 DEF TimelineHasId
  <2> QED BY <2>3, <2>4
<1> QED BY <1>0, <1>1, <1>2, <1>3, <1>4, <1>5 DEF Next

LEMMA ListenedIsSentStep ==
  ASSUME IInv, RelationInv, Next, SendAssumption
  PROVE  ListenedIsSent'
<1>0. /\ listening \subseteq Relations /\ listening' \subseteq Relations
      /\ \A r \in Relations : Target[r] \in Events
  BY InvSplit, SideStep DEF IInv, TypeOK, SideType, SendAssumption, Relations
<1>1. \A x \in Events : status'[x] = "new" => status[x] = "new"
  BY StatusMoves DEF Moves
<1>2. \A r \in listening' : r \in listening \/ status[Target[r]] # "new"
  <2>1. CASE UNCHANGED <<linked, listening, remoteId>>
    BY <2>1
  <2>2. ASSUME NEW e \in Events, ReplaceEventId(e) PROVE listening' \subseteq listening
    BY <2>2 DEF ReplaceEventId
  <2>3. ASSUME NEW e \in Events, sendEvent(e)
        PROVE  \A r \in listening' : r \in listening \/ status[Target[r]] # "new"
    <3>1. \/ listening' = listening
          \/ listening' = listening \cup {e} /\ Target[e] \in pending
      BY <2>3 DEF sendEvent, LinkToTarget
    <3>2. \A x \in pending : status[x] # "new"
      BY DEF IInv, PendingIsLive
    <3> QED BY <3>1, <3>2
  <2>4. CASE restart
    BY <2>4 DEF restart
  <2> QED BY <2>1, <2>2, <2>3, <2>4, RelationsMove DEF RelationMoves
<1> QED BY <1>0, <1>1, <1>2 DEF RelationInv, ListenedIsSent

LEMMA RelationInvariant == Spec => []RelationInv
<1>1. Init => RelationInv
  BY SendAssumption
     DEF Init, RelationInv, Linked, TimelineHasId, NothingLost, ListenedIsSent, ConfirmedHasId,
         FailedIsKnown, Relations, SendAssumption
<1>2. IInv /\ EchoInv /\ RelationInv /\ [Next]_vars => RelationInv'
  <2> SUFFICES ASSUME IInv, EchoInv, RelationInv, [Next]_vars PROVE RelationInv'
    OBVIOUS
  <2>1. CASE Next
    <3>1. NoReload' => Linked' /\ TimelineHasId'
      BY <2>1, LinkedStep, TimelineHasIdStep, SendAssumption
    <3>2. NoReload' => NothingLost'
      BY <2>1, StatusMoves, ReloadStep DEF RelationInv, NothingLost, Moves
    <3>3. ConfirmedHasId' /\ FailedIsKnown'
      BY <2>1, StatusMoves, IdsGrow DEF RelationInv, ConfirmedHasId, FailedIsKnown, Moves
    <3> QED BY <2>1, <3>1, <3>2, <3>3, ListenedIsSentStep, SendAssumption DEF RelationInv
  <2>2. CASE UNCHANGED vars
    BY <2>2 DEF vars, idVars, roomVars, RelationInv, Linked, TimelineHasId, NothingLost,
       ListenedIsSent, ConfirmedHasId, FailedIsKnown, NoReload
  <2> QED BY <2>1, <2>2
<1> QED BY <1>1, <1>2, SendInvariant, EchoInvariant, PTL DEF Spec

\* Until the page is reloaded, local echoes resolve and every relation names its
\* target by the server's id as soon as there is one (client.ts, the listener
\* for Event.localEventIdReplaced).
THEOREM EchoesAndRelationsResolve == Spec => [](NoReload => EchoAndRelationResolve)
<1>1. RelationInv => (NoReload => RelationKnowsTarget)
  BY DEF RelationInv, Linked, RelationKnowsTarget
<1>2. NoReload => EchoAwaited
  BY DEF EchoAwaited
<1> QED BY <1>1, <1>2, RelationInvariant, EchoesResolve, PTL DEF EchoAndRelationResolve

\* In a clear room nothing is ever encrypted.
NoneEncrypting == ~Encrypted => \A e \in Events : status[e] # "encrypting"

\* In a clear room an event of the message queue that was taken up and neither
\* failed nor was answered is still in the queue, and a relation that does not
\* know its target's server id stands behind the target.
StillQueued ==
  \A e \in Queueable : status[e] = "new" \/ e \in remoteId \cup gaveUp
                         \/ \E i \in DOMAIN queue : queue[i].event = e
BehindTarget ==
  \A i, j \in DOMAIN queue :
    (/\ queue[i].event \in Relations \ linked
     /\ Target[queue[i].event] \notin gaveUp
     /\ queue[j].event = Target[queue[i].event]) => j < i

PlaceInv == /\ NoneEncrypting
            /\ ~Encrypted /\ NoReload => StillQueued /\ BehindTarget

\* What a step does to the queue of a clear room: nothing that its order shows,
\* a new last entry, or one entry less, of an event that is answered or failed.
SameEvents ==
  /\ DOMAIN queue' = DOMAIN queue
  /\ \A i \in DOMAIN queue : queue'[i].event = queue[i].event
Joins(e) ==
  /\ status[e] = "new" \/ e \in gaveUp
  /\ DOMAIN queue' = 1..(Len(queue) + 1)
  /\ \A i \in DOMAIN queue : queue'[i].event = queue[i].event
  /\ queue'[Len(queue) + 1].event = e
Leaves(at) ==
  /\ queue[at].event \in remoteId' \cup gaveUp'
  /\ DOMAIN queue' = 1..(Len(queue) - 1)
  /\ \A i \in DOMAIN queue' : queue'[i].event = IF i < at THEN queue[i].event ELSE queue[i + 1].event
QueueMoves ==
  \/ SameEvents
  \/ \E e \in Events : Joins(e)
  \/ \E at \in DOMAIN queue : Leaves(at)

LEMMA QueueMove ==
  ASSUME IInv, EchoInv, RelationInv, PlaceInv, Next, ~Encrypted, NoReload'
  PROVE  QueueMoves
<1> USE DEF QueueMoves
<1>0. /\ queue \in Seq(Entry) /\ HeadIsInFlight /\ QueueWellFormed /\ CurrentNotCancellable
      /\ NoReload /\ ~restart
      /\ remoteId \subseteq remoteId' /\ gaveUp \subseteq gaveUp'
  BY ReloadStep, IdsGrow DEF IInv, TypeOK
<1>1. DOMAIN queue = 1..Len(queue) /\ Len(queue) \in Nat
  BY <1>0, QueueElements
<1>u. ASSUME queue' = queue PROVE QueueMoves
  BY <1>u DEF SameEvents
<1>a. ASSUME NEW e \in Events, queueEvent(e), status[e] \in {"new", "encrypting", "not_sent"}
      PROVE  QueueMoves
  <2>1. status[e] = "new" \/ e \in gaveUp
    BY <1>a DEF PlaceInv, NoneEncrypting, RelationInv, FailedIsKnown
  <2>2. PICK x : queue' = Append(queue, x) /\ x.event = e
    BY <1>a DEF queueEvent
  <2>3. /\ DOMAIN queue' = 1..(Len(queue) + 1)
        /\ \A i \in 1..Len(queue) : queue'[i] = queue[i]
        /\ queue'[Len(queue) + 1] = x
    BY <2>2, <1>0
  <2>4. Joins(e)
    BY <2>1, <2>2, <2>3, <1>1 DEF Joins
  <2> QED BY <2>4
<1>t. ASSUME queue # <<>>, queue' = Tail(queue), Head(queue).event \in remoteId' \cup gaveUp'
      PROVE  QueueMoves
  <2>1. /\ 1 \in DOMAIN queue /\ Head(queue) = queue[1] /\ Len(queue) > 0
        /\ DOMAIN Tail(queue) = 1..(Len(queue) - 1)
        /\ \A i \in 1..(Len(queue) - 1) : Tail(queue)[i] = queue[i + 1]
    BY <1>t, <1>0, QueueHead
  <2>2. \A i \in DOMAIN queue' : ~(i < 1)
    BY <2>1, <1>t, <1>1
  <2>3. Leaves(1)
    BY <2>1, <2>2, <1>t DEF Leaves
  <2> QED BY <2>1, <2>3
<1>r. ASSUME NEW kind, NEW obj, retryOrGiveUp(obj, kind), queue # <<>>, Head(queue) = obj,
             status[obj.event] \in {"sending", "none"}, obj.event \in Events
      PROVE  QueueMoves
  <2>1. CASE GiveUp(kind, obj.attempts + 1)
    <3>1. "not_sent" \in ALLOWED_TRANSITIONS("sending")
      BY DEF ALLOWED_TRANSITIONS
    <3>2. status[obj.event] = "none" => obj.event \in remoteId
      BY <1>r DEF RelationInv, ConfirmedHasId
    <3>3. status[obj.event] = "sending" => obj.event \in gaveUp'
      BY <1>r, <2>1, <3>1 DEF retryOrGiveUp, markNotSent
    <3>4. Head(queue).event \in remoteId' \cup gaveUp'
      BY <1>r, <1>0, <3>2, <3>3
    <3> QED BY <1>r, <2>1, <3>4, <1>t DEF retryOrGiveUp
  <2>2. CASE ~GiveUp(kind, obj.attempts + 1)
    <3>1. queue' = Bump(queue, obj)
      BY <1>r, <2>2 DEF retryOrGiveUp
    <3>2. SameEvents
      BY <3>1, <1>0, BumpQueue DEF SameEvents
    <3> QED BY <3>2
  <2> QED BY <2>1, <2>2
<1>c. ASSUME sched = "http"
      PROVE  /\ queue # <<>> /\ Head(queue) = cur /\ cur.event \in Events
             /\ status[cur.event] \in {"sending", "none"}
  BY <1>c, <1>0, QueueHead DEF HeadIsInFlight, CurrentNotCancellable
<1>2. ASSUME NEW e \in Events, sendEvent(e) PROVE QueueMoves
  <2>1. queue' = queue \/ (queueEvent(e) /\ status[e] = "new")
    BY <1>2 DEF sendEvent, encryptAndSendEvent, sendDirectly, schedVars
  <2> QED BY <2>1, <1>a, <1>u
<1>3. ASSUME NEW e \in Events, encrypted(e) \/ resendEvent(e) PROVE QueueMoves
  <2>1. queue' = queue \/ (queueEvent(e) /\ status[e] \in {"encrypting", "not_sent"})
    BY <1>3 DEF encrypted, resendEvent, encryptAndSendEvent, sendDirectly, schedVars
  <2> QED BY <2>1, <1>a, <1>u
<1>4. ASSUME NEW e \in Events, cancelPendingEvent(e) PROVE QueueMoves
  <2>1. queue' = removeEventFromQueue(e) /\ e \in gaveUp'
    BY <1>4 DEF cancelPendingEvent
  <2>2. CASE \A i \in DOMAIN queue : queue[i].event # e
    <3>1. queue' = queue
      BY <2>1, <2>2 DEF removeEventFromQueue
    <3> QED BY <3>1, <1>u
  <2>3. ASSUME NEW at \in DOMAIN queue, queue[at].event = e PROVE QueueMoves
    <3>1. queue' = [i \in 1..(Len(queue) - 1) |-> IF i < at THEN queue[i] ELSE queue[i + 1]]
      BY <2>1, <2>3, <1>0, RemoveAt
    <3>2. Leaves(at)
      BY <2>1, <2>3, <3>1 DEF Leaves
    <3> QED BY <3>2
  <2> QED BY <2>2, <2>3
<1>5. ASSUME NEW e \in Events, ServerAccepts(e) \/ DirectAnswer(e) \/ restorePending(e)
      PROVE  QueueMoves
  BY <1>5, <1>u DEF ServerAccepts, DirectAnswer, restorePending, schedVars
<1>6. ASSUME ProcessQueue PROVE QueueMoves
  <2>1. \/ queue' = queue
        \/ /\ queue # <<>> /\ retryOrGiveUp(Head(queue), "other")
           /\ status[Head(queue).event] # "sending"
           /\ "sending" \notin ALLOWED_TRANSITIONS(status[Head(queue).event])
    BY <1>6 DEF ProcessQueue
  <2>2. "sending" \in ALLOWED_TRANSITIONS("queued")
    BY DEF ALLOWED_TRANSITIONS
  <2>3. queue # <<>> => /\ Head(queue).event \in Events
                        /\ status[Head(queue).event] \in {"queued", "sending", "none"}
    BY <1>0, QueueHead DEF QueueWellFormed
  <2> QED BY <2>1, <2>2, <2>3, <1>u, <1>r
<1>7. ASSUME QueuedError PROVE QueueMoves
  <2>1. sched = "http" /\ \E kind : retryOrGiveUp(cur, kind)
    BY <1>7 DEF QueuedError
  <2> QED BY <2>1, <1>c, <1>r
<1>8. ASSUME QueuedAnswer PROVE QueueMoves
  <2>1. sched = "http"
    BY <1>8 DEF QueuedAnswer
  <2>2. CASE retryOrGiveUp(cur, "other")
    BY <2>1, <2>2, <1>c, <1>r
  <2>3. CASE updateSent(cur.event) /\ queue' = Tail(queue)
    <3>1. cur.event \in remoteId'
      <4>1. tlRemote \subseteq remoteId
        BY <1>0 DEF RelationInv, TimelineHasId
      <4> QED BY <4>1, <2>3, <1>0 DEF updateSent, AlreadySynced, ReplaceEventId
    <3> QED BY <2>1, <2>3, <3>1, <1>c, <1>t
  <2> QED BY <1>8, <2>2, <2>3 DEF QueuedAnswer
<1>9. ASSUME TimerFires \/ addLiveEvent \/ resetLiveTimeline PROVE QueueMoves
  BY <1>9, <1>u DEF TimerFires, addLiveEvent, resetLiveTimeline, schedVars
<1> QED BY <1>0, <1>2, <1>3, <1>4, <1>5, <1>6, <1>7, <1>8, <1>9 DEF Next

LEMMA StillQueuedStep ==
  ASSUME IInv, EchoInv, RelationInv, PlaceInv, Next, ~Encrypted, NoReload', SendAssumption
  PROVE  StillQueued'
<1> SUFFICES ASSUME NEW x \in Queueable, status'[x] # "new", x \notin remoteId' \cup gaveUp'
             PROVE  \E i \in DOMAIN queue' : queue'[i].event = x
  BY DEF StillQueued
<1>0. /\ NoReload /\ StillQueued /\ queue \in Seq(Entry) /\ x \in Events
      /\ remoteId \subseteq remoteId' /\ gaveUp \subseteq gaveUp'
  BY ReloadStep, IdsGrow DEF PlaceInv, IInv, TypeOK, SendAssumption
<1>1. DOMAIN queue = 1..Len(queue) /\ Len(queue) \in Nat
  BY <1>0, QueueElements
<1>2. CASE status[x] = "new"
  <2>1. sendEvent(x)
    BY <1>0, <1>2, NewStays
  <2>2. queueEvent(x)
    BY <2>1 DEF sendEvent, encryptAndSendEvent, encryptEventIfNeeded
  <2>3. PICK y : queue' = Append(queue, y) /\ y.event = x
    BY <2>2 DEF queueEvent
  <2>4. Len(queue) + 1 \in DOMAIN queue' /\ queue'[Len(queue) + 1] = y
    BY <2>3, <1>0
  <2> QED BY <2>3, <2>4
<1>3. CASE status[x] # "new"
  <2>1. PICK i \in DOMAIN queue : queue[i].event = x
    BY <1>0, <1>3 DEF StillQueued
  <2>2. CASE SameEvents
    BY <2>1, <2>2 DEF SameEvents
  <2>3. ASSUME NEW e \in Events, Joins(e) PROVE \E k \in DOMAIN queue' : queue'[k].event = x
    <3>1. i \in DOMAIN queue'
      BY <2>3, <1>1 DEF Joins
    <3> QED BY <2>1, <2>3, <3>1 DEF Joins
  <2>4. ASSUME NEW at \in DOMAIN queue, Leaves(at) PROVE \E k \in DOMAIN queue' : queue'[k].event = x
    <3>1. i # at
      BY <2>1, <2>4 DEF Leaves
    <3>2. CASE i < at
      <4>1. i \in DOMAIN queue' /\ queue'[i].event = queue[i].event
        BY <2>4, <3>2, <1>1 DEF Leaves
      <4> QED BY <2>1, <4>1
    <3>3. CASE i > at
      <4>1. /\ i - 1 \in DOMAIN queue' /\ ~(i - 1 < at) /\ (i - 1) + 1 = i
        BY <2>4, <3>3, <1>1 DEF Leaves
      <4>2. queue'[i - 1].event = queue[i].event
        BY <2>4, <4>1 DEF Leaves
      <4> QED BY <2>1, <4>1, <4>2
    <3> QED BY <3>1, <3>2, <3>3, <1>1
  <2> QED BY <2>2, <2>3, <2>4, QueueMove DEF QueueMoves
<1> QED BY <1>2, <1>3

LEMMA BehindTargetStep ==
  ASSUME IInv, EchoInv, RelationInv, PlaceInv, Next, ~Encrypted, NoReload', SendAssumption
  PROVE  BehindTarget'
<1> SUFFICES ASSUME NEW i \in DOMAIN queue', NEW j \in DOMAIN queue', NEW r,
                    r = queue'[i].event, r \in Relations \ linked',
                    Target[r] \notin gaveUp', queue'[j].event = Target[r]
             PROVE  j < i
  BY DEF BehindTarget
<1>0. /\ NoReload /\ ~restart /\ BehindTarget /\ Linked /\ queue \in Seq(Entry)
      /\ QueueWellFormed /\ gaveUp \subseteq gaveUp' /\ Target[r] # r
  BY ReloadStep, IdsGrow DEF PlaceInv, RelationInv, IInv, TypeOK, SendAssumption, Relations
<1>1. DOMAIN queue = 1..Len(queue) /\ Len(queue) \in Nat
  BY <1>0, QueueElements
<1>2. r \in Relations \ linked /\ Target[r] \notin gaveUp
  <2>1. linked \subseteq linked'
    <3>1. ASSUME NEW e \in Events, sendEvent(e) PROVE linked \subseteq linked'
      BY <3>1 DEF sendEvent, LinkToTarget
    <3>2. ASSUME NEW e \in Events, ReplaceEventId(e) PROVE linked \subseteq linked'
      BY <3>2 DEF ReplaceEventId
    <3> QED BY <1>0, <3>1, <3>2, RelationsMove DEF RelationMoves
  <2> QED BY <2>1, <1>0
<1>3. \A k, l \in DOMAIN queue : queue[k].event = r /\ queue[l].event = Target[r] => l < k
  BY <1>0, <1>2 DEF BehindTarget
<1>4. CASE SameEvents
  BY <1>3, <1>4 DEF SameEvents
<1>5. ASSUME NEW e \in Events, Joins(e) PROVE j < i
  <2>1. CASE i \in DOMAIN queue /\ j \in DOMAIN queue
    BY <2>1, <1>3, <1>5 DEF Joins
  <2>2. CASE i = Len(queue) + 1 /\ j \in DOMAIN queue
    BY <2>2, <1>1
  <2>3. CASE i \in DOMAIN queue /\ j = Len(queue) + 1
    <3>1. queue[i].event = r /\ Target[r] = e
      BY <2>3, <1>5 DEF Joins
    <3>2. status[r] # "new"
      BY <2>3, <3>1, <1>0 DEF QueueWellFormed
    <3>3. r \in listening
      BY <3>2, <1>0, <1>2 DEF Linked
    <3>4. status[e] # "new"
      BY <3>1, <3>3 DEF RelationInv, ListenedIsSent
    <3> QED BY <3>1, <3>4, <1>2, <1>5 DEF Joins
  <2>4. CASE i = Len(queue) + 1 /\ j = Len(queue) + 1
    BY <2>4, <1>0
  <2> QED BY <2>1, <2>2, <2>3, <2>4, <1>1, <1>5 DEF Joins
<1>6. ASSUME NEW at \in DOMAIN queue, Leaves(at) PROVE j < i
  <2> DEFINE old(k) == IF k < at THEN k ELSE k + 1
  <2>1. \A k \in DOMAIN queue' : old(k) \in DOMAIN queue /\ queue'[k].event = queue[old(k)].event
    <3> SUFFICES ASSUME NEW k \in DOMAIN queue'
                 PROVE  old(k) \in DOMAIN queue /\ queue'[k].event = queue[old(k)].event
      OBVIOUS
    <3>1. k \in 1..(Len(queue) - 1)
      BY <1>6 DEF Leaves
    <3>2. old(k) \in DOMAIN queue
      BY <3>1, <1>1
    <3> QED BY <3>2, <1>6 DEF Leaves
  <2>2. old(j) < old(i)
    BY <2>1, <1>3
  <2>3. i \in Nat /\ j \in Nat /\ at \in Nat
    BY <1>1, <1>6 DEF Leaves
  <2> QED BY <2>2, <2>3
<1> QED BY <1>4, <1>5, <1>6, QueueMove DEF QueueMoves

LEMMA PlaceInvariant == Spec => []PlaceInv
<1>1. Init => PlaceInv
  BY SendAssumption DEF Init, PlaceInv, NoneEncrypting, StillQueued, BehindTarget, SendAssumption
<1>2. IInv /\ EchoInv /\ RelationInv /\ PlaceInv /\ [Next]_vars => PlaceInv'
  <2> SUFFICES ASSUME IInv, EchoInv, RelationInv, PlaceInv, [Next]_vars PROVE PlaceInv'
    OBVIOUS
  <2>1. CASE Next
    <3>1. NoneEncrypting'
      BY <2>1, StatusMoves DEF PlaceInv, NoneEncrypting, Moves
    <3> QED BY <2>1, <3>1, StillQueuedStep, BehindTargetStep, SendAssumption DEF PlaceInv
  <2>2. CASE UNCHANGED vars
    BY <2>2 DEF vars, idVars, schedVars, PlaceInv, NoneEncrypting, StillQueued, BehindTarget,
       NoReload
  <2> QED BY <2>1, <2>2
<1> QED BY <1>1, <1>2, SendInvariant, EchoInvariant, RelationInvariant, PTL DEF Spec

\* The request of a relation is made when the relation reaches the head of the
\* queue; its target has left the queue by then.
LEMMA RelationRequest ==
  ASSUME IInv, RelationInv, PlaceInv, Next, ~Encrypted, NoReload, SendAssumption,
         NEW r \in Relations, Target[r] \in Queueable, req[r] = "none", req'[r] = "sent"
  PROVE  r \in linked' \/ Target[r] \in gaveUp'
<1>0. /\ req \in [Events -> {"none", "sent", "accepted"}] /\ queue \in Seq(Entry)
      /\ QueueWellFormed /\ Linked /\ StillQueued /\ BehindTarget
      /\ r \in Queueable /\ r \in Events
      /\ gaveUp \subseteq gaveUp'
  BY IdsGrow DEF IInv, TypeOK, RelationInv, PlaceInv, SendAssumption, Relations
<1>1. ProcessQueue
  <2>1. ASSUME NEW e \in Events, sendEvent(e) \/ encrypted(e) \/ resendEvent(e) PROVE FALSE
    <3>1. req' = req \/ (e \notin Queueable /\ req' = [req EXCEPT ![e] = "sent"])
      BY <2>1 DEF sendEvent, encrypted, resendEvent, encryptAndSendEvent, queueEvent, sendDirectly
    <3> QED BY <3>1, <1>0
  <2>2. ASSUME NEW e \in Events, cancelPendingEvent(e) \/ restorePending(e) PROVE FALSE
    BY <2>2 DEF cancelPendingEvent, restorePending, netVars
  <2>3. ASSUME NEW e \in Events, ServerAccepts(e) \/ DirectAnswer(e) PROVE FALSE
    <3>1. req' = [req EXCEPT ![e] = "accepted"] \/ req' = [req EXCEPT ![e] = "none"]
      BY <2>3 DEF ServerAccepts, DirectAnswer
    <3> QED BY <3>1, <1>0
  <2>4. ASSUME QueuedAnswer \/ QueuedError PROVE FALSE
    <3>1. req' = [req EXCEPT ![cur.event] = "none"]
      BY <2>4 DEF QueuedAnswer, QueuedError
    <3> QED BY <3>1, <1>0
  <2>5. ASSUME TimerFires \/ addLiveEvent \/ resetLiveTimeline \/ restart PROVE FALSE
    BY <2>5, <1>0 DEF TimerFires, addLiveEvent, resetLiveTimeline, restart, netVars
  <2> QED BY <2>1, <2>2, <2>3, <2>4, <2>5 DEF Next
<1>2. queue # <<>> /\ Head(queue).event = r
  <2>1. req' = req \/ (queue # <<>> /\ req' = [req EXCEPT ![Head(queue).event] = "sent"])
    BY <1>1 DEF ProcessQueue
  <2> QED BY <2>1, <1>0
<1>3. 1 \in DOMAIN queue /\ queue[1].event = r
  BY <1>0, <1>2, QueueHead
<1>4. linked' = linked
  BY <1>1 DEF ProcessQueue, idVars
<1>5. SUFFICES ASSUME r \notin linked, Target[r] \notin gaveUp PROVE FALSE
  BY <1>0, <1>4
<1>6. status[r] # "new"
  BY <1>0, <1>3 DEF QueueWellFormed
<1>7. r \in listening /\ Target[r] \notin remoteId
  BY <1>0, <1>5, <1>6 DEF Linked
<1>8. status[Target[r]] # "new"
  BY <1>7 DEF RelationInv, ListenedIsSent
<1>9. PICK j \in DOMAIN queue : queue[j].event = Target[r]
  BY <1>0, <1>5, <1>7, <1>8 DEF StillQueued
<1>10. j < 1
  BY <1>0, <1>3, <1>5, <1>9 DEF BehindTarget
<1> QED BY <1>9, <1>10, <1>0, QueueElements

\* In a clear room, until the page is reloaded, a relation whose target goes
\* through the message queue is sent with the target's server id, unless the
\* target was given up: the queue sends the target first, and its answer tells
\* the relation (client.ts, sendCompleteEvent and the scheduler).
THEOREM RelationsFollowTargets ==
  ASSUME ~Encrypted, MaxRestarts = 0, \A r \in Relations : Target[r] \in Queueable
  PROVE  Spec => RelationSentAfterTarget
<1> DEFINE A == \A r \in Relations : (req[r] = "none" /\ req'[r] = "sent")
                  => r \in linked' \/ Target[r] \in gaveUp'
<1>1. Spec => []NoReload
  <2>1. Init => NoReload
    BY DEF Init, NoReload
  <2>2. IInv /\ NoReload /\ [Next]_vars => NoReload'
    <3> SUFFICES ASSUME IInv, NoReload, [Next]_vars PROVE NoReload'
      OBVIOUS
    <3>0. used \in [resends : Nat, rateLimits : Nat, resets : Nat, restarts : Nat]
      BY DEF IInv, TypeOK
    <3>1. ~restart
      BY <3>0 DEF restart, NoReload
    <3>2. used' = used \/ \E b \in {"resends", "rateLimits", "resets"} : Spend(b)
      BY <3>1 DEF Next, sendEvent, encrypted, resendEvent, cancelPendingEvent, ServerAccepts,
         DirectAnswer, restorePending, ProcessQueue, TimerFires, QueuedAnswer, QueuedError,
         addLiveEvent, resetLiveTimeline, vars
    <3> QED BY <3>0, <3>2 DEF Spend, NoReload
  <2> QED BY <2>1, <2>2, SendInvariant, PTL DEF Spec
<1>2. IInv /\ RelationInv /\ PlaceInv /\ NoReload /\ [Next]_vars => [A]_vars
  BY RelationRequest, SendAssumption
<1> QED
  BY <1>1, <1>2, SendInvariant, RelationInvariant, PlaceInvariant, PTL DEF Spec, RelationSentAfterTarget
=============================================================================
