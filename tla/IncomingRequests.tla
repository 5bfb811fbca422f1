-------------------------- MODULE IncomingRequests --------------------------
(***************************************************************************)
(* Room key requests of other devices (onRoomKeyRequestEvent,              *)
(* processReceivedRoomKeyRequests and its two helpers in crypto/index.ts,  *)
(* reshareKeyWithDevice and shareKeysWithDevice of the megolm algorithms). *)
(* Requests and cancellations queue up during a sync, and are processed in *)
(* the background when it completes; one batch at a time.                  *)
(***************************************************************************)
EXTENDS Naturals, Sequences, FiniteSets

CONSTANTS Request,
          MaxStoreErrors,   \* bound: times the store cannot be read
          MaxTrustChanges   \* bound: times the user changes her mind about a device

ASSUME IncomingAssumption == {MaxStoreErrors, MaxTrustChanges} \subseteq Nat

VARIABLES
    asker,      \* whose request it is
    sharedTo,   \* requests of devices the session was shared with, as they are now
    trusted,    \* requests of devices that are verified now
    onWire,     \* requests and cancellations not received yet
    receivedRoomKeyRequests, receivedRoomKeyRequestCancellations,
    batch,      \* the batch being processed
    stray,      \* requests still looked up after their batch was given up
    shown,      \* requests the app was told of and not told to forget
    answered,   \* requests whose key was sent
    approved,   \* requests the user said yes to
    withdrawn,  \* cancellations the app was told of
    storeErrors, trustChanges

requestVars == <<asker, sharedTo, trusted, onWire, receivedRoomKeyRequests,
                 receivedRoomKeyRequestCancellations, batch, stray, shown, answered, approved,
                 withdrawn, storeErrors, trustChanges>>

queues == <<onWire, receivedRoomKeyRequests, receivedRoomKeyRequestCancellations>>
mishaps == <<storeErrors, trustChanges>>

NoBatch == [on |-> FALSE, requests |-> {}, cancellations |-> {}]

\* Every part of the state has its type.
IncomingTypeOK ==
    /\ asker \in [Request -> {"other user", "own device", "this device"}]
    /\ receivedRoomKeyRequests \cup receivedRoomKeyRequestCancellations \subseteq Request
    /\ batch.requests \cup batch.cancellations \cup stray \subseteq Request
    /\ shown \cup answered \cup approved \cup withdrawn \subseteq Request

\* A request is followed by its cancellation on the wire.
IncomingInit ==
    /\ asker \in [Request -> {"other user", "own device", "this device"}]
    /\ sharedTo \in SUBSET Request /\ trusted \in SUBSET Request
    /\ onWire = [r \in Request |-> <<"request", "cancellation">>]
    /\ receivedRoomKeyRequests = {} /\ receivedRoomKeyRequestCancellations = {}
    /\ batch = NoBatch /\ stray = {}
    /\ shown = {} /\ answered = {} /\ approved = {} /\ withdrawn = {}
    /\ storeErrors = 0 /\ trustChanges = 0

onRoomKeyRequestEvent(r) ==
    /\ onWire[r] # <<>>
    /\ onWire' = [onWire EXCEPT ![r] = Tail(@)]
    /\ IF Head(onWire[r]) = "request"
       THEN /\ receivedRoomKeyRequests' = receivedRoomKeyRequests \cup {r}
            /\ UNCHANGED receivedRoomKeyRequestCancellations
       ELSE /\ receivedRoomKeyRequestCancellations' = receivedRoomKeyRequestCancellations \cup {r}
            /\ UNCHANGED receivedRoomKeyRequests
    /\ UNCHANGED <<asker, sharedTo, trusted, batch, stray, shown, answered, approved, withdrawn, mishaps>>

\* onSyncCompleted: the queues are taken and cleared, unless a batch is being processed.
processReceivedRoomKeyRequests ==
    /\ ~batch.on
    /\ batch' = [on |-> TRUE, requests |-> receivedRoomKeyRequests,
                 cancellations |-> receivedRoomKeyRequestCancellations]
    /\ receivedRoomKeyRequests' = {} /\ receivedRoomKeyRequestCancellations' = {}
    /\ UNCHANGED <<asker, sharedTo, trusted, onWire, stray, shown, answered, approved, withdrawn,
                   mishaps>>

\* One request of the batch has been looked up: another user's device gets the key it was
\* sent before, a verified device of our own gets it at once, the app is asked about any other.
processReceivedRoomKeyRequest(r) ==
    /\ r \in batch.requests \cup stray
    /\ IF r \in stray THEN stray' = stray \ {r} /\ UNCHANGED batch
       ELSE batch' = [batch EXCEPT !.requests = @ \ {r}] /\ UNCHANGED stray
    /\ answered' = IF \/ asker[r] = "other user" /\ r \in sharedTo
                      \/ asker[r] = "own device" /\ r \in trusted
                   THEN answered \cup {r} ELSE answered
    /\ shown' = IF asker[r] = "own device" /\ r \notin trusted THEN shown \cup {r} ELSE shown
    /\ UNCHANGED <<asker, sharedTo, trusted, queues, approved, withdrawn, mishaps>>

\* hasKeysForKeyRequest cannot read the store: the batch is given up, the cancellations
\* too, while the other requests of it go on by themselves.
requestThrows(r) ==
    /\ r \in batch.requests /\ asker[r] = "own device" /\ batch.on
    /\ storeErrors < MaxStoreErrors
    /\ storeErrors' = storeErrors + 1
    /\ batch' = NoBatch
    /\ stray' = stray \cup (batch.requests \ {r})
    /\ UNCHANGED <<asker, sharedTo, trusted, queues, shown, answered, approved, withdrawn,
                   trustChanges>>

\* Mutant: the cancellations do not wait for the requests.
processReceivedRoomKeyRequestCancellation_early ==
    /\ batch.on
    /\ shown' = shown \ batch.cancellations
    /\ withdrawn' = withdrawn \cup batch.cancellations
    /\ batch' = NoBatch
    /\ stray' = stray \cup batch.requests
    /\ UNCHANGED <<asker, sharedTo, trusted, queues, answered, approved, mishaps>>

\* The cancellations of the batch follow when all its requests are through.
processReceivedRoomKeyRequestCancellation ==
    /\ batch.on /\ batch.requests = {}
    /\ shown' = shown \ batch.cancellations
    /\ withdrawn' = withdrawn \cup batch.cancellations
    /\ batch' = NoBatch
    /\ UNCHANGED <<asker, sharedTo, trusted, queues, stray, answered, approved, mishaps>>

\* The user says yes to a request she was shown (req.share).
share(r) ==
    /\ r \in shown
    /\ shown' = shown \ {r} /\ approved' = approved \cup {r}
    /\ answered' = answered \cup {r}
    /\ UNCHANGED <<asker, sharedTo, trusted, queues, batch, stray, withdrawn, mishaps>>

\* The user verifies the device or takes that back.
trustChanged(r) ==
    /\ trustChanges < MaxTrustChanges
    /\ trustChanges' = trustChanges + 1
    /\ trusted' = (trusted \ {r}) \cup ({r} \ trusted)
    /\ UNCHANGED <<asker, sharedTo, queues, batch, stray, shown, answered, approved, withdrawn,
                   storeErrors>>

IncomingNext ==
    \/ processReceivedRoomKeyRequests \/ processReceivedRoomKeyRequestCancellation
    \/ \E r \in Request :
         \/ onRoomKeyRequestEvent(r) \/ processReceivedRoomKeyRequest(r) \/ requestThrows(r)
         \/ share(r) \/ trustChanged(r)

IncomingSpec == IncomingInit /\ [][IncomingNext]_requestVars

----------------------------------------------------------------------------
(* Properties.                                                             *)

\* A cancellation that was passed on to the app is never followed by the
\* request it cancels: the app is not left with a request nobody makes, as
\* long as the store can be read.
NoGhostRequest == storeErrors = 0 => shown \cap withdrawn = {}

\* ... and no cancellation is lost when a batch is being processed while it arrives.
CancelledIsWithdrawn ==
    /\ [](IncomingTypeOK /\ NoGhostRequest)
    /\ \A r \in Request :
         r \in receivedRoomKeyRequestCancellations ~> (r \in withdrawn \/ storeErrors > 0)
=============================================================================
