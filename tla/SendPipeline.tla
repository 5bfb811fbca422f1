---------------------------- MODULE SendPipeline ----------------------------
(***************************************************************************)
(* How one client sends events into one room: SendingNetworkScheduler      *)
(* (scheduler.ts), the send path of SendingNetworkClient (client.ts) and   *)
(* the local echo kept by Room (models/room.ts), with a server that        *)
(* accepts a transaction once and echoes it back through /sync.            *)
(*                                                                         *)
(* The program is single threaded: a macrotask (a call from the            *)
(* application, an HTTP answer, a timer, a /sync response) and the         *)
(* microtasks it queues run without interruption.  processQueue() hands    *)
(* over to the next queue entry in such a microtask: it is the action      *)
(* ProcessQueue, and every other action waits until it has run.            *)
(***************************************************************************)
EXTENDS Naturals, Sequences, FiniteSets

CONSTANTS
  Events,      \* local events, one per transaction id
  Queueable,   \* those QUEUE_MESSAGES puts in the "message" queue
  Target,      \* [relations -> Events]: the event a relation or redaction names
  Reactions,   \* relations of type m.reaction, never encrypted
  Encrypted,   \* is the room encrypted?
  Detached,    \* pendingEventOrdering = "detached"?
  RetryLimit,  \* the 4 of "attempts > 4" in RETRY_BACKOFF_RATELIMIT
  MaxResends, MaxRateLimits, MaxResets, MaxRestarts  \* bounds of the model

ASSUME SendAssumption ==
  /\ Queueable \subseteq Events
  /\ DOMAIN Target \subseteq Queueable
  /\ \A r \in DOMAIN Target : Target[r] \in Events \ {r}
  /\ Reactions \subseteq DOMAIN Target
  /\ Encrypted \in BOOLEAN /\ Detached \in BOOLEAN
  /\ RetryLimit \in Nat \ {0}
  /\ {MaxResends, MaxRateLimits, MaxResets, MaxRestarts} \subseteq Nat

VARIABLES
  status,    \* EventStatus of each event; "new", "none" (null) and "lost" added
  encd,      \* events whose content has been encrypted
  remoteId,  \* events whose local object carries the server's event id
  linked,    \* relations that carry the server's id of their target
  listening, \* relations with a localEventIdReplaced listener on their target
  queue,     \* the "message" queue: sequence of IQueueEntry
  cur,       \* the entry processQueue() is working on
  sched,     \* where processQueue() is: "idle", "start", "http" or "timer"
  req,       \* the HTTP request of an event: "none", "sent" or "accepted"
  txn,       \* keys of Room.txnToEvent
  pending,   \* Room.pendingEventList
  saved,     \* the pending events in session storage
  savedLinked, \* relations stored with the server's id of their target
  restoring, \* saved events whose restoration awaits their decryption
  tlLocal,   \* events whose local id is in the timeline
  tlRemote,  \* events whose server id is in the timeline
  server,    \* events the server accepted, in order
  synced,    \* how much of server this session has received from /sync
  nextNo,    \* number of the next queue entry (its object identity)
  gaveUp,    \* history: events that were once not sent or cancelled
  used       \* how much of each bound is spent

storeVars == <<saved, savedLinked>>
roomVars == <<txn, pending, storeVars, restoring, tlLocal, tlRemote>>
idVars   == <<encd, remoteId, linked, listening>>
schedVars == <<queue, cur, sched, nextNo>>
netVars  == <<req, server, synced>>
vars == <<status, idVars, schedVars, netVars, roomVars, gaveUp, used>>

Relations == DOMAIN Target
Status == {"new", "none", "lost", "encrypting", "sending", "queued",
           "sent", "not_sent", "cancelled"}
Entry == [event : Events, attempts : Nat, no : Nat]
NoEntry == [event |-> "none", attempts |-> 0, no |-> 0]

\* ALLOWED_TRANSITIONS of models/room.ts; an event without status has no entry.
ALLOWED_TRANSITIONS(s) ==
  CASE s = "encrypting" -> {"sending", "not_sent"}
    [] s = "sending"    -> {"encrypting", "queued", "not_sent", "sent"}
    [] s = "queued"     -> {"sending", "cancelled"}
    [] s = "not_sent"   -> {"sending", "queued", "cancelled"}
    [] OTHER            -> {}

\* Mutant: the event stays in the list.
removePendingEvent_keeps(e) == pending

\* Room.removePendingEvent: the list without the event.
removePendingEvent(e) == pending \ {e}

\* Mutant: the list is stored as it was before the change.
savePendingEvents_stale(list, enc, named) ==
  /\ saved' = IF Detached THEN {e \in pending : e \in enc \/ ~Encrypted} ELSE {}
  /\ savedLinked' = saved' \cap named

\* savePendingEvents: what of the list is stored, and which of its relations
\* already name the server's id.  An encrypted room only stores ciphertext.
savePendingEvents(list, enc, named) ==
  /\ saved' = IF Detached THEN {e \in list : e \in enc \/ ~Encrypted} ELSE {}
  /\ savedLinked' = saved' \cap named

\* Event.localEventIdReplaced reaches the relations that listen for event e.
ReplaceEventId(e) ==
  LET told == {r \in listening : Target[r] = e}
  IN  /\ remoteId' = remoteId \cup {e}
      /\ linked' = linked \cup told
      /\ listening' = listening \ told

Spend(b) == used' = [used EXCEPT ![b] = @ + 1]
Quiet == sched # "start"

Init ==
  /\ status = [e \in Events |-> "new"]
  /\ encd = {} /\ remoteId = {} /\ linked = {} /\ listening = {}
  /\ queue = <<>> /\ cur = NoEntry /\ sched = "idle" /\ nextNo = 1
  /\ req = [e \in Events |-> "none"] /\ server = <<>> /\ synced = 0
  /\ txn = {} /\ pending = {} /\ restoring = {}
  /\ saved = {} /\ savedLinked = {}
  /\ tlLocal = {} /\ tlRemote = {}
  /\ gaveUp = {}
  /\ used = [resends |-> 0, rateLimits |-> 0, resets |-> 0, restarts |-> 0]

-----------------------------------------------------------------------------
(* Handing an event to the scheduler or to the network.                    *)

\* queueEvent and startProcessingQueues, and the QUEUED status that
\* encryptAndSendEvent gives an event stuck behind an earlier one.
queueEvent(e) ==
  /\ queue' = Append(queue, [event |-> e, attempts |-> 0, no |-> nextNo])
  /\ nextNo' = nextNo + 1
  /\ status' = [status EXCEPT ![e] = IF queue = <<>> THEN "sending" ELSE "queued"]
  /\ sched' = IF sched = "idle" THEN "start" ELSE sched
  /\ UNCHANGED <<cur, req>>

\* An event QUEUE_MESSAGES gives no queue goes straight to sendEventHttpRequest.
sendDirectly(e) ==
  /\ req' = [req EXCEPT ![e] = "sent"]
  /\ status' = [status EXCEPT ![e] = "sending"]
  /\ UNCHANGED schedVars

encryptEventIfNeeded(e) == Encrypted /\ e \notin encd \cup Reactions

\* encryptAndSendEvent up to its first wait.
encryptAndSendEvent(e) ==
  IF encryptEventIfNeeded(e)
  THEN /\ status' = [status EXCEPT ![e] = "encrypting"]
       /\ UNCHANGED <<schedVars, req>>
  ELSE IF e \in Queueable THEN queueEvent(e) ELSE sendDirectly(e)

-----------------------------------------------------------------------------
(* Calls from the application.                                             *)

\* Mutant: no listener is left on a target without server id.
LinkToTarget_deaf(e) ==
  /\ linked' = IF e \in Relations /\ Target[e] \in remoteId \cup tlRemote
               THEN linked \cup {e} ELSE linked
  /\ UNCHANGED listening

\* A relation to an event without server id needs the target in
\* getPendingEvents(), which only a detached list answers.
LinkToTarget(e) ==
  \/ /\ e \notin Relations
     /\ UNCHANGED <<linked, listening>>
  \/ /\ e \in Relations /\ Target[e] \in remoteId \cup tlRemote
     /\ linked' = linked \cup {e}
     /\ UNCHANGED listening
  \/ /\ e \in Relations /\ Target[e] \in pending \ remoteId
     /\ listening' = listening \cup {e}
     /\ UNCHANGED linked

\* addPendingEvent: into the pending list or, attached, into the timeline.
addPendingEvent(e, named) ==
  /\ txn' = txn \cup {e}
  /\ pending' = IF Detached THEN pending \cup {e} ELSE pending
  /\ savePendingEvents(pending', encd, named)
  /\ tlLocal' = IF Detached THEN tlLocal ELSE tlLocal \cup {e}

\* sendCompleteEvent: a detached list that holds a failed
\* event makes the new one fail at once.
sendEvent(e) ==
  /\ Quiet
  /\ status[e] = "new"
  /\ LinkToTarget(e)
  /\ addPendingEvent(e, linked')
  /\ IF \E p \in pending : status[p] = "not_sent"
     THEN /\ status' = [status EXCEPT ![e] = "not_sent"]
          /\ gaveUp' = gaveUp \cup {e}
          /\ UNCHANGED <<schedVars, req>>
     ELSE /\ encryptAndSendEvent(e)
          /\ UNCHANGED gaveUp
  /\ UNCHANGED <<encd, remoteId, server, synced, restoring, tlRemote, used>>

\* The promise of crypto.encryptEvent settles.
encrypted(e) ==
  /\ Quiet
  /\ status[e] = "encrypting"
  /\ \/ /\ encd' = encd \cup {e}
        /\ savePendingEvents(pending, encd', linked)
        /\ IF e \in Queueable THEN queueEvent(e) ELSE sendDirectly(e)
        /\ UNCHANGED gaveUp
     \/ /\ status' = [status EXCEPT ![e] = "not_sent"]
        /\ gaveUp' = gaveUp \cup {e}
        /\ savePendingEvents(pending, encd, linked)
        /\ UNCHANGED <<encd, schedVars, req>>
  /\ UNCHANGED <<remoteId, linked, listening, server, synced, txn, pending,
                 restoring, tlLocal, tlRemote, used>>

\* resendEvent, which applications offer for a failed event.
resendEvent(e) ==
  /\ Quiet
  /\ status[e] = "not_sent"
  /\ used.resends < MaxResends /\ Spend("resends")
  /\ encryptAndSendEvent(e)
  /\ savePendingEvents(pending, encd, linked)
  /\ UNCHANGED <<idVars, server, synced, txn, pending, restoring,
                 tlLocal, tlRemote, gaveUp>>

\* scheduler.removeEventFromQueue: drops the first entry of the event.
removeEventFromQueue(e) ==
  IF \E i \in DOMAIN queue : queue[i].event = e
  THEN LET at == CHOOSE i \in DOMAIN queue :
                   /\ queue[i].event = e
                   /\ \A j \in 1..(i - 1) : queue[j].event # e
       IN  [i \in 1..(Len(queue) - 1) |-> IF i < at THEN queue[i] ELSE queue[i + 1]]
  ELSE queue

\* Mutant: an event that is being sent may be cancelled too.
cancelPendingEvent_sending(e) ==
  /\ Quiet
  /\ status[e] \in {"queued", "sending", "not_sent"}
  /\ queue' = removeEventFromQueue(e)
  /\ status' = [status EXCEPT ![e] = "cancelled"]
  /\ gaveUp' = gaveUp \cup {e}
  /\ pending' = removePendingEvent(e)
  /\ savePendingEvents(pending', encd, linked)
  /\ UNCHANGED <<idVars, cur, sched, nextNo, netVars, txn, restoring, tlLocal, tlRemote, used>>

\* The event leaves the pending list, or the timeline, whichever has its id.
cancelPendingEvent(e) ==
  /\ Quiet
  /\ status[e] \in {"queued", "not_sent"}
  /\ queue' = removeEventFromQueue(e)
  /\ status' = [status EXCEPT ![e] = "cancelled"]
  /\ gaveUp' = gaveUp \cup {e}
  /\ pending' = removePendingEvent(e)
  /\ savePendingEvents(pending', encd, linked)
  /\ IF e \in remoteId
     THEN tlRemote' = tlRemote \ {e} /\ UNCHANGED tlLocal
     ELSE tlLocal' = tlLocal \ {e} /\ UNCHANGED tlRemote
  /\ UNCHANGED <<idVars, cur, sched, nextNo, netVars, txn, restoring, used>>

-----------------------------------------------------------------------------
(* The scheduler's loop.                                                   *)

\* The attempts are counted on the entry itself.
Bump(q, obj) ==
  [i \in DOMAIN q |-> IF q[i].no = obj.no
                      THEN [q[i] EXCEPT !.attempts = @ + 1] ELSE q[i]]

\* Mutant: NOT_SENT whatever the status.
markNotSent_always(e) ==
  /\ status' = [status EXCEPT ![e] = "not_sent"]
  /\ gaveUp' = gaveUp \cup {e}
  /\ savePendingEvents(pending, encd, linked)

\* The catch of encryptAndSendEvent: NOT_SENT if that transition is allowed;
\* updatePendingEvent throws otherwise and the throw is swallowed.
markNotSent(e) ==
  IF "not_sent" \in ALLOWED_TRANSITIONS(status[e])
  THEN /\ status' = [status EXCEPT ![e] = "not_sent"]
       /\ gaveUp' = gaveUp \cup {e}
       /\ savePendingEvents(pending, encd, linked)
  ELSE UNCHANGED <<status, gaveUp, storeVars>>

\* RETRY_BACKOFF_RATELIMIT: -1 (give up) after obj's attempts-th failure?
GiveUp(kind, attempts) ==
  \/ kind = "fatal"
  \/ kind = "other" /\ attempts > RetryLimit

\* Mutant: an entry to be retried goes to the back of the queue.
retryOrGiveUp_rotates(obj, kind) ==
  IF GiveUp(kind, obj.attempts + 1)
  THEN /\ queue' = Tail(queue)
       /\ markNotSent(obj.event)
       /\ sched' = "start" /\ cur' = NoEntry
  ELSE /\ queue' = Append(Tail(queue), [obj EXCEPT !.attempts = @ + 1])
       /\ sched' = "timer" /\ cur' = [obj EXCEPT !.attempts = @ + 1]
       /\ UNCHANGED <<status, gaveUp, storeVars>>

\* Mutant: giving up does not go on with the next entry.
retryOrGiveUp_stops(obj, kind) ==
  IF GiveUp(kind, obj.attempts + 1)
  THEN /\ queue' = Tail(queue)
       /\ markNotSent(obj.event)
       /\ sched' = "idle" /\ cur' = NoEntry
  ELSE /\ queue' = Bump(queue, obj)
       /\ sched' = "timer" /\ cur' = [obj EXCEPT !.attempts = @ + 1]
       /\ UNCHANGED <<status, gaveUp, storeVars>>

\* The reject handler of processQueue.
retryOrGiveUp(obj, kind) ==
  IF GiveUp(kind, obj.attempts + 1)
  THEN /\ queue' = Tail(queue)
       /\ markNotSent(obj.event)
       /\ sched' = "start" /\ cur' = NoEntry
  ELSE /\ queue' = Bump(queue, obj)
       /\ sched' = "timer" /\ cur' = [obj EXCEPT !.attempts = @ + 1]
       /\ UNCHANGED <<status, gaveUp, storeVars>>

\* peekNextEvent, then the process function up to its HTTP request.  It throws
\* for an event that may not go back to SENDING.
ProcessQueue ==
  /\ sched = "start"
  /\ IF queue = <<>>
     THEN /\ sched' = "idle" /\ cur' = NoEntry
          /\ UNCHANGED <<queue, status, req, gaveUp, storeVars>>
     ELSE LET obj == Head(queue) IN
          IF \/ status[obj.event] = "sending"
             \/ "sending" \in ALLOWED_TRANSITIONS(status[obj.event])
          THEN /\ status' = [status EXCEPT ![obj.event] = "sending"]
               /\ req' = [req EXCEPT ![obj.event] = "sent"]
               /\ sched' = "http" /\ cur' = obj
               /\ IF status[obj.event] = "sending" THEN UNCHANGED storeVars
                  ELSE savePendingEvents(pending, encd, linked)
               /\ UNCHANGED <<queue, gaveUp>>
          ELSE /\ retryOrGiveUp(obj, "other")
               /\ UNCHANGED req
  /\ UNCHANGED <<idVars, nextNo, server, synced, txn, pending, restoring,
                 tlLocal, tlRemote, used>>

\* setTimeout(this.processQueue, waitTimeMs, queueName) fires.
TimerFires ==
  /\ sched = "timer"
  /\ sched' = "start" /\ cur' = NoEntry
  /\ UNCHANGED <<status, idVars, queue, nextNo, netVars, roomVars, gaveUp, used>>

-----------------------------------------------------------------------------
(* The server and the HTTP answers.                                        *)

InServer(e) == \E i \in DOMAIN server : server[i].event = e

\* External: the server accepts a request, once per transaction id.
ServerAccepts(e) ==
  /\ Quiet
  /\ req[e] = "sent"
  /\ req' = [req EXCEPT ![e] = "accepted"]
  /\ server' = IF InServer(e) THEN server
               ELSE Append(server, [event |-> e,
                                    no |-> IF e \in Queueable THEN cur.no ELSE 0])
  /\ UNCHANGED <<status, idVars, schedVars, synced, roomVars, gaveUp, used>>

\* room.updatePendingEvent(event, SENT, event_id): nothing when /sync was first.
AlreadySynced(e) == e \in tlRemote
updateSent(e) ==
  IF AlreadySynced(e)
  THEN UNCHANGED <<status, remoteId, linked, listening, tlLocal, tlRemote, storeVars>>
  ELSE /\ status' = [status EXCEPT ![e] = "sent"]
       /\ ReplaceEventId(e)
       /\ tlLocal' = tlLocal \ {e}
       /\ tlRemote' = IF e \in tlLocal THEN tlRemote \cup {e} ELSE tlRemote
       /\ savePendingEvents(pending, encd, linked')
SentThrows(e) == ~AlreadySynced(e) /\ "sent" \notin ALLOWED_TRANSITIONS(status[e])

\* The request of the queue's current entry is answered with an event id.
QueuedAnswer ==
  /\ sched = "http"
  /\ req[cur.event] = "accepted"
  /\ req' = [req EXCEPT ![cur.event] = "none"]
  /\ IF SentThrows(cur.event)
     THEN /\ retryOrGiveUp(cur, "other")
          /\ UNCHANGED <<remoteId, linked, listening, tlLocal, tlRemote>>
     ELSE /\ updateSent(cur.event)
          /\ queue' = Tail(queue)
          /\ sched' = "start" /\ cur' = NoEntry
          /\ UNCHANGED gaveUp
  /\ UNCHANGED <<encd, nextNo, server, synced, txn, pending, restoring, used>>

\* It fails.  A refusal (400, 401, 403, M_TOO_LARGE, no connection, rate
\* limit) means the server did not take the event; any other error tells nothing.
QueuedError ==
  /\ sched = "http"
  /\ req' = [req EXCEPT ![cur.event] = "none"]
  /\ \/ /\ req[cur.event] = "sent"
        /\ retryOrGiveUp(cur, "fatal")
        /\ UNCHANGED used
     \/ /\ req[cur.event] = "sent"
        /\ used.rateLimits < MaxRateLimits /\ Spend("rateLimits")
        /\ retryOrGiveUp(cur, "ratelimit")
     \/ /\ retryOrGiveUp(cur, "other")
        /\ UNCHANGED used
  /\ UNCHANGED <<idVars, nextNo, server, synced, txn, pending, restoring,
                 tlLocal, tlRemote>>

\* The same for an event that is sent directly: no retry.
DirectAnswer(e) ==
  /\ Quiet
  /\ e \notin Queueable /\ req[e] # "none"
  /\ req' = [req EXCEPT ![e] = "none"]
  /\ \/ /\ req[e] = "accepted" /\ ~SentThrows(e)
        /\ updateSent(e)
        /\ UNCHANGED gaveUp
     \/ /\ markNotSent(e)
        /\ UNCHANGED <<remoteId, linked, listening, tlLocal, tlRemote>>
  /\ UNCHANGED <<encd, schedVars, server, synced, txn, pending, restoring, used>>

-----------------------------------------------------------------------------
(* /sync and reloads.                                                      *)

\* Room.handleRemoteEcho: the local echo becomes the server's event.
handleRemoteEcho(e) ==
  /\ pending' = removePendingEvent(e)
  /\ savePendingEvents(pending', encd, linked)
  /\ status' = [status EXCEPT ![e] = "none"]
  /\ ReplaceEventId(e)
  /\ tlLocal' = IF e \in remoteId THEN tlLocal ELSE tlLocal \ {e}

\* addLiveEvent: the next event of the room's stream.
addLiveEvent ==
  /\ Quiet
  /\ synced < Len(server)
  /\ synced' = synced + 1
  /\ LET e == server[synced + 1].event IN
     /\ txn' = txn \ {e}
     /\ tlRemote' = tlRemote \cup {e}
     /\ IF e \in txn
        THEN handleRemoteEcho(e)
        ELSE UNCHANGED <<pending, storeVars, status, remoteId, linked, listening, tlLocal>>
  /\ UNCHANGED <<encd, schedVars, req, server, restoring, gaveUp, used>>

\* A limited /sync: resetLiveTimeline forgets the timeline, and the events of
\* the gap never come through this stream.
resetLiveTimeline ==
  /\ Quiet
  /\ used.resets < MaxResets /\ Spend("resets")
  /\ synced' \in synced..Len(server)
  /\ tlLocal' = {} /\ tlRemote' = {}
  /\ UNCHANGED <<status, idVars, schedVars, req, server, txn, pending, storeVars,
                 restoring, gaveUp>>

\* The page is reloaded: a new client and Room.  What session storage holds is
\* restored as NOT_SENT, at once in a clear room, after an asynchronous
\* decryption in an encrypted one; the first /sync replays the room.
restart ==
  /\ Quiet
  /\ used.restarts < MaxRestarts /\ Spend("restarts")
  /\ queue' = <<>> /\ cur' = NoEntry /\ sched' = "idle"
  /\ req' = [e \in Events |-> "none"]
  /\ synced' = 0
  /\ tlLocal' = {} /\ tlRemote' = {}
  /\ listening' = {} /\ linked' = savedLinked
  /\ restoring' = IF Encrypted THEN saved ELSE {}
  /\ pending' = saved \ restoring'
  /\ txn' = pending'
  /\ gaveUp' = gaveUp \cup pending'
  /\ status' = [e \in Events |->
                  IF e \in pending' THEN "not_sent"
                  ELSE IF status[e] = "new" THEN "new" ELSE "lost"]
  /\ UNCHANGED <<encd, remoteId, nextNo, server, storeVars>>

\* attemptDecryption of one restored event returns: addPendingEvent, which
\* stores the list as it is now.
restorePending(e) ==
  /\ Quiet
  /\ e \in restoring
  /\ restoring' = restoring \ {e}
  /\ status' = [status EXCEPT ![e] = "not_sent"]
  /\ gaveUp' = gaveUp \cup {e}
  /\ addPendingEvent(e, linked)
  /\ UNCHANGED <<idVars, schedVars, netVars, tlRemote, used>>

-----------------------------------------------------------------------------
Next ==
  \/ \E e \in Events : \/ sendEvent(e) \/ encrypted(e) \/ resendEvent(e)
                       \/ cancelPendingEvent(e) \/ ServerAccepts(e)
                       \/ DirectAnswer(e) \/ restorePending(e)
  \/ ProcessQueue \/ TimerFires \/ QueuedAnswer \/ QueuedError
  \/ addLiveEvent \/ resetLiveTimeline \/ restart

Spec == Init /\ [][Next]_vars

\* The runtime runs its microtasks and timers, every HTTP request is answered
\* or fails, and encryption settles; nothing obliges the application or the
\* server's /sync stream to act.
Fairness ==
  /\ WF_vars(ProcessQueue) /\ WF_vars(TimerFires)
  /\ WF_vars(QueuedAnswer \/ QueuedError)
  /\ \A e \in Events : WF_vars(DirectAnswer(e)) /\ WF_vars(encrypted(e))

FairSpec == Spec /\ Fairness

-----------------------------------------------------------------------------
TypeOK ==
  /\ status \in [Events -> Status]
  /\ encd \subseteq Events /\ remoteId \subseteq Events /\ gaveUp \subseteq Events
  /\ txn \subseteq Events /\ pending \subseteq Events /\ restoring \subseteq Events
  /\ saved \subseteq Events /\ tlLocal \subseteq Events /\ tlRemote \subseteq Events
  /\ linked \subseteq Relations /\ listening \subseteq Relations
  /\ savedLinked \subseteq Relations
  /\ queue \in Seq(Entry)
  /\ cur \in Entry \cup {NoEntry}
  /\ sched \in {"idle", "start", "http", "timer"}
  /\ req \in [Events -> {"none", "sent", "accepted"}]
  /\ server \in Seq([event : Events, no : Nat])
  /\ synced \in 0..Len(server)
  /\ nextNo \in Nat
  /\ used \in [resends : Nat, rateLimits : Nat, resets : Nat, restarts : Nat]

\* The entry that a finished or abandoned request shifts off the queue is the
\* entry the request was made for: whatever the application cancels or /sync
\* confirms meanwhile, processQueue's blind queue.shift() drops no other event.
HeadIsInFlight ==
  sched \in {"http", "timer"} => queue # <<>> /\ Head(queue) = cur

\* The server receives the events of the message queue in the order in which
\* they were put there, across retries, cancellations, resends and reloads.
AcceptedInOrder ==
  \A i, j \in DOMAIN server :
    (i < j /\ server[i].no > 0 /\ server[j].no > 0) => server[i].no < server[j].no

\* The message queue implements the abstract outbox: only its oldest entry is
\* ever delivered, an event is delivered once, and entries leave one by one.
OB == INSTANCE Outbox WITH
        box <- [i \in DOMAIN queue |-> [event |-> queue[i].event, no |-> queue[i].no]],
        log <- server
ImplementsOutbox == OB!Spec

\* An event whose remote echo this session has processed is not shown as a
\* local echo as well: it is out of pendingEventList and txnToEvent.
EchoResolvesLocalEcho ==
  \A i \in 1..synced : LET e == server[i].event IN
    e \in tlRemote => status[e] \in {"none", "new", "lost"} /\ e \notin pending \cup txn

\* Session storage holds exactly the events a reload must bring back as unsent:
\* every storable pending one, and none that was confirmed or cancelled.
StoredIsPending ==
  /\ \A e \in pending : (e \in encd \/ ~Encrypted) => e \in saved
  /\ \A e \in saved : e \in restoring \/ status[e] \notin {"none", "cancelled"}

\* Once /sync has confirmed an event no late error, retry or give-up of its
\* request makes it a local echo again; only a reload forgets it.
ConfirmedIsFinal ==
  [][\A e \in Events : status[e] = "none" => status'[e] \in {"none", "lost"}]_vars

\* A queued relation is put on the wire with the server's id of its target,
\* unless that target was given up or cancelled at some point.
RelationSentAfterTarget ==
  [][\A r \in Relations : (req[r] = "none" /\ req'[r] = "sent")
       => r \in linked' \/ Target[r] \in gaveUp']_vars

\* Once the client has the server's id of an event, every relation to that
\* event it holds names it by that id.
RelationKnowsTarget ==
  \A r \in Relations : (/\ status[r] \notin {"new", "lost"}
                        /\ Target[r] \in remoteId
                        /\ status[Target[r]] \in {"sent", "none"}) => r \in linked

\* The remote echo of an event that was sent here finds and replaces the local
\* one, and an event that relates to another one knows it by its server id once
\* it has one.
EchoAndRelationResolve == EchoResolvesLocalEcho /\ RelationKnowsTarget

\* No event stays in "encrypting", "queued" or "sending" for ever: each is sent,
\* reported as not sent, cancelled or confirmed.
SendSettles ==
  \A e \in Events : status[e] \in {"encrypting", "queued", "sending"}
                 ~> status[e] \notin {"encrypting", "queued", "sending"}

-----------------------------------------------------------------------------
(* The inductive invariant behind HeadIsInFlight and ImplementsOutbox.     *)

\* What is queued is queueable, once, and waiting, being sent or confirmed:
\* never in a state from which it could be queued a second time.
QueueWellFormed ==
  /\ \A i \in DOMAIN queue :
       /\ queue[i].event \in Queueable
       /\ status[queue[i].event] \in {"queued", "sending", "none"}
  /\ \A i, j \in DOMAIN queue : queue[i].event = queue[j].event => i = j

\* The entry being processed cannot be cancelled.
CurrentNotCancellable ==
  sched \in {"http", "timer"} => status[cur.event] \in {"sending", "none"}

\* Only the entry being processed has a request outstanding.
OneQueuedRequest ==
  \A e \in Queueable : req[e] # "none" => sched = "http" /\ cur.event = e

RestoringIsIdle ==
  \A e \in restoring : status[e] = "lost" /\ e \notin txn

\* What is pending or stored is neither confirmed nor cancelled, and an
\* attached local echo ("chronological" ordering) is never stored.
PendingIsLive ==
  /\ \A e \in saved \cup pending : status[e] \notin {"new", "none", "cancelled"}
  /\ ~Detached => saved \cup pending \cup restoring = {}

IInv == /\ TypeOK /\ HeadIsInFlight /\ QueueWellFormed
        /\ CurrentNotCancellable /\ OneQueuedRequest /\ RestoringIsIdle
        /\ PendingIsLive
=============================================================================
