---------------------------- MODULE Verification ----------------------------
(***************************************************************************)
(* Interactive verification of a device over to-device messages:           *)
(* VerificationRequest (the phases), ToDeviceChannel, VerificationBase     *)
(* and SAS.  One request from the device Initiator of one user to the      *)
(* Devices of another.  Users read and compare the short strings honestly  *)
(* or reject them; the server delivers what it accepts, perhaps twice.     *)
(*                                                                         *)
(* A callback and its microtasks are one step.  A message is on the wire,  *)
(* then at the server, which puts it in the inboxes, and then answered;    *)
(* the answer makes the channel hand the message to its own request as a   *)
(* faked echo, and lets go on whoever awaited the send.                    *)
(***************************************************************************)
EXTENDS Naturals, Sequences, FiniteSets

CONSTANTS
  Initiator,            \* the device that asks
  Devices,              \* the devices of the other user
  None,                 \* no device
  InitiatorIsSmaller,   \* whether the initiator's user id sorts first
  MaxTroubles           \* failed requests, timeouts, cancellations by a user and
                        \* messages delivered twice, together

ASSUME VerificationAssumption ==
  /\ Initiator \notin Devices /\ None \notin Devices \cup {Initiator}
  /\ IsFiniteSet(Devices) /\ Devices # {}
  /\ InitiatorIsSmaller \in BOOLEAN
  /\ MaxTroubles \in Nat

VARIABLES
  side,       \* each device's request, its channel and its verifier
  net,        \* the requests to the server that are under way
  inbox,      \* each device's to-device messages, oldest first
  verified,   \* the devices that have marked the other side verified
  used        \* what has gone wrong so far

vars == <<side, net, inbox, verified, used>>

Parties == {Initiator} \cup Devices
Types   == {"request", "ready", "start", "accept", "key", "mac", "done", "cancel"}
Phases  == {"Unsent", "Requested", "Ready", "Started", "Cancelled", "Done"}

\* Where doVerification stands: the verifier does not exist, verify() was not
\* called, it awaits the key download, a send or an event, the user and the
\* MAC, the check of the MAC, or it has returned or thrown.
Places  == {"none", "created", "downloading", "sendStart", "waitAccept",
            "sendAccept", "sendKey", "waitKey", "sas", "checking", "ended"}

(***************************************************************************)
(* A device's record.  The request: eventsByUs, eventsByThem, _phase,      *)
(* verifierHasFinished, _cancelled, timeoutTimer.  The channel: devices,   *)
(* deviceId.  The verifier: place, startEvent (its sender), expectedEvent, *)
(* waitingForAccept, whether promise is set, _done, its timer, the         *)
(* commitment received, whether the MAC promise is resolved and how far    *)
(* the user's confirmation is.  out holds what a step sends.               *)
(***************************************************************************)
Fresh ==
  [eventsByUs |-> {}, eventsByThem |-> {}, phase |-> "Unsent",
   verifierHasFinished |-> FALSE, cancelled |-> FALSE, timeoutTimer |-> FALSE,
   devices |-> {}, deviceId |-> None,
   place |-> "none", startEvent |-> None, expectedEvent |-> "none",
   waitingForAccept |-> FALSE, promise |-> FALSE, done |-> FALSE, timer |-> FALSE,
   commitment |-> None, gotMAC |-> FALSE, confirmed |-> "no", out |-> {}]

Init ==
  /\ side = [p \in Parties |-> Fresh]
  /\ net = {}
  /\ inbox = [p \in Parties |-> <<>>]
  /\ verified = {}
  /\ used = [failures |-> 0, stops |-> 0, duplicates |-> 0]

\* Whether p's user id sorts before q's.
Smaller(p, q) ==
  /\ (p = Initiator) # (q = Initiator)
  /\ (p = Initiator) = InitiatorIsSmaller

-----------------------------------------------------------------------------
(* The channel: whom a message goes to.                                    *)

Message(p, to, type, start, echo) ==
  [from |-> p, to |-> to, type |-> type, start |-> start,
   echo |-> echo, delivered |-> FALSE]

\* send and sendCompleted: an event of the request, echoed when it is answered.
send(p, s, type) ==
  LET to == IF type = "request" \/ (type = "cancel" /\ s.deviceId = None)
            THEN s.devices ELSE {s.deviceId}
  IN [s EXCEPT !.out = @ \cup {Message(p, to, type, s.startEvent, TRUE)}]

\* sendToDevices alone: a cancellation for devices that are not taking part.
sendToDevices(p, s, to) ==
  [s EXCEPT !.out = @ \cup {Message(p, to, "cancel", None, FALSE)}]

-----------------------------------------------------------------------------
(* The phases of a request, from the events of both sides.                 *)

hasRequestByThem(s) == "request" \in s.eventsByThem

hasRequest(s) == hasRequestByThem(s) \/ "request" \in s.eventsByUs

\* Only the side that did not ask can make the request ready.
isReady(s) ==
  /\ hasRequest(s)
  /\ "ready" \in (IF hasRequestByThem(s) THEN s.eventsByUs ELSE s.eventsByThem)

\* The senders whose start events count: before the ready event only the side
\* that did not ask may start.
Starters(p, s) ==
  LET open == isReady(s) \/ ~hasRequest(s)
      us   == IF "start" \in s.eventsByUs /\ (open \/ hasRequestByThem(s))
              THEN {p} ELSE {}
      them == IF "start" \in s.eventsByThem /\ (open \/ ~hasRequestByThem(s))
              THEN {s.deviceId} ELSE {}
  IN us \cup them

\* The start event that counts: the one of the smaller user id.
startEventOf(p, s) ==
  CHOOSE q \in Starters(p, s) : \A r \in Starters(p, s) : q = r \/ Smaller(q, r)

isDone(p, s) ==
  s.verifierHasFinished \/ ("done" \in s.eventsByUs /\ Starters(p, s) # {})

\* The last of calculatePhaseTransitions.
calculatePhase(p, s) ==
  CASE isDone(p, s) -> "Done"
    [] ~isDone(p, s) /\ (s.cancelled \/ "cancel" \in s.eventsByUs \cup s.eventsByThem) -> "Cancelled"
    [] OTHER -> IF Starters(p, s) # {} THEN "Started"
                ELSE IF isReady(s) THEN "Ready"
                ELSE IF hasRequest(s) THEN "Requested" ELSE "Unsent"

\* applyPhaseTransitions and setPhase: the first start event creates the
\* verifier if the application has not.
applyPhaseTransitions(p, s) ==
  LET create == /\ s.phase \in {"Unsent", "Requested", "Ready"}
                /\ s.place = "none"
                /\ Starters(p, s) # {}
      t == IF create THEN [s EXCEPT !.place = "created", !.startEvent = startEventOf(p, s)]
           ELSE s
  IN [t EXCEPT !.phase = calculatePhase(p, s)]

\* setupTimeout, for a phase that handleEvent has just reached.
setupTimeout(old, s) ==
  IF s.phase = old THEN s ELSE [s EXCEPT !.timeoutTimer = (s.phase = "Requested")]

-----------------------------------------------------------------------------
(* The verifier.                                                           *)

\* The device whose start event is in force: initiatedByMe says whether it is
\* the own one.
Starter(p, s) == IF s.startEvent = None THEN p ELSE s.startEvent

\* VerificationBase.cancel.  Without verify() there is a rejected promise, and
\* nothing sets _done.
verifierCancel(p, s) ==
  IF s.done THEN [s EXCEPT !.timer = FALSE]
  ELSE send(p, applyPhaseTransitions(p,
         [s EXCEPT !.timer = FALSE, !.cancelled = TRUE, !.promise = TRUE,
                   !.done = s.place # "created"]), "cancel")

\* VerificationBase.done.
verifierDone(p, s) ==
  IF s.done THEN [s EXCEPT !.timer = FALSE, !.place = "ended"]
  ELSE applyPhaseTransitions(p, send(p,
         [s EXCEPT !.timer = FALSE, !.place = "ended", !.done = TRUE,
                   !.verifierHasFinished = TRUE], "done"))

\* doVerification throws.
Throw(p, s) == verifierCancel(p, [s EXCEPT !.place = "ended"])

\* Mutant: an event that is already there is waited for.
waitForEvent_next(p, s, type, place, then) ==
  IF s.done THEN Throw(p, s) ELSE [s EXCEPT !.expectedEvent = type, !.place = place]

\* waitForEvent(type) at a place, with what follows when the event is there.
waitForEvent(p, s, type, place, then) ==
  IF s.done THEN Throw(p, s)
  ELSE IF type \in s.eventsByThem THEN then
  ELSE [s EXCEPT !.expectedEvent = type, !.place = place]

\* The short string is shown; the MAC and the user are awaited together.
showSAS(p, s) ==
  waitForEvent(p, s, "mac", "sas",
    [s EXCEPT !.place = "sas", !.gotMAC = TRUE, !.expectedEvent = "done"])

\* The other side's key.  Who started checks the commitment to the start
\* event he sent, the other side answers with its key.
gotKey(p, s) ==
  IF Starter(p, s) # p THEN send(p, [s EXCEPT !.place = "sendKey"], "key")
  ELSE IF s.commitment = p THEN showSAS(p, s)
  ELSE Throw(p, s)

gotAccept(p, s) ==
  send(p, [s EXCEPT !.place = "sendKey", !.waitingForAccept = FALSE], "key")

\* Mutant: the MAC is checked without the user's confirmation.
gotMAC_alone(p, s) ==
  [s EXCEPT !.gotMAC = TRUE, !.expectedEvent = "done", !.place = "checking"]

gotMAC(p, s) ==
  [s EXCEPT !.gotMAC = TRUE, !.expectedEvent = "done",
            !.place = IF s.confirmed = "yes" THEN "checking" ELSE "sas"]

doRespondVerification(p, s) == send(p, [s EXCEPT !.place = "sendAccept"], "accept")

doSendVerification(p, s) ==
  send(p, [s EXCEPT !.place = "sendStart", !.waitingForAccept = TRUE], "start")

\* After sendStart: another start event may have won meanwhile.
startSent(p, s) ==
  IF Starter(p, s) # p THEN doRespondVerification(p, s)
  ELSE waitForEvent(p, s, "accept", "waitAccept", gotAccept(p, s))

acceptSent(p, s) == waitForEvent(p, s, "key", "waitKey", gotKey(p, s))

keySent(p, s) ==
  IF Starter(p, s) = p THEN waitForEvent(p, s, "key", "waitKey", gotKey(p, s))
  ELSE showSAS(p, s)

macSent(s) ==
  [s EXCEPT !.confirmed = "yes",
            !.place = IF s.place = "sas" /\ s.gotMAC THEN "checking" ELSE @]

\* VerificationBase.handleEvent.  Whether waitForEvent's promise can still be
\* rejected: not while a send is awaited.
canReject(s) == s.place \in {"waitAccept", "waitKey"} \/ (s.place = "sas" /\ ~s.gotMAC)

verifierHandleEvent(p, s, type) ==
  IF s.done THEN s
  ELSE IF type = s.expectedEvent
  THEN LET t == [s EXCEPT !.expectedEvent = "none", !.timer = TRUE]
       IN CASE type = "accept" -> gotAccept(p, t)
            [] type = "key"    -> gotKey(p, t)
            [] type = "mac"    -> gotMAC(p, t)
  ELSE IF type = "cancel"
  THEN IF s.place = "created" THEN s ELSE [s EXCEPT !.done = TRUE, !.timer = FALSE]
  ELSE IF s.expectedEvent # "none"
  THEN verifierCancel(p, [s EXCEPT !.expectedEvent = "none",
                                   !.place = IF canReject(s) THEN "ended" ELSE @])
  ELSE s

-----------------------------------------------------------------------------
(* VerificationRequest.                                                    *)

requestCancel(p, s) ==
  IF s.phase = "Cancelled" THEN s
  ELSE IF s.place # "none" THEN verifierCancel(p, s) ELSE send(p, s, "cancel")

\* cancelOnError.
isUnexpected(s, type) ==
  \/ type = "request" /\ s.phase # "Unsent"
  \/ type = "ready" /\ s.phase \notin {"Unsent", "Requested"}

addEvent(s, m, isSentByUs) ==
  IF isSentByUs THEN [s EXCEPT !.eventsByUs = @ \cup {m.type}]
  ELSE [s EXCEPT !.eventsByThem = @ \cup {m.type},
                 !.commitment = IF m.type = "accept" THEN m.start ELSE @]

\* Mutant: any start event of the other side wins.
isWinningStartRace_latest(p, s, m) == m.type = "start" /\ m.from # Starter(p, s)

\* isWinningStartRace, canSwitchStartEvent and switchStartEvent.
isWinningStartRace(p, s, m) == m.type = "start" /\ Smaller(m.from, Starter(p, s))

switchStartEvent(p, s, m) ==
  LET t == [s EXCEPT !.startEvent = m.from]
  IN IF s.place = "waitAccept"
     THEN doRespondVerification(p, [t EXCEPT !.waitingForAccept = FALSE])
     ELSE t

\* What the verifier is told of an event.
tellVerifier(p, s, m, isRemoteEcho) ==
  IF s.place = "none" THEN s
  ELSE IF isWinningStartRace(p, s, m) /\ s.waitingForAccept THEN switchStartEvent(p, s, m)
  ELSE IF ~isRemoteEcho /\ m.type \in {"accept", "key", "mac", "cancel"}
  THEN verifierHandleEvent(p, s, m.type)
  ELSE s

\* handleEvent, for an event of the other side or the echo of an own one.
handleEvent(p, s, m, isRemoteEcho) ==
  IF s.phase \in {"Done", "Cancelled"} THEN s
  ELSE IF ~isRemoteEcho /\ isUnexpected(s, m.type) THEN requestCancel(p, s)
  ELSE IF m.type \in (IF isRemoteEcho THEN s.eventsByUs ELSE s.eventsByThem) THEN s
  ELSE tellVerifier(p,
         setupTimeout(s.phase, applyPhaseTransitions(p, addEvent(s, m, isRemoteEcho))),
         m, isRemoteEcho)

-----------------------------------------------------------------------------
(* A device's step: its record changes, and what it sends goes on the wire. *)

Step(p, s) ==
  /\ side' = [side EXCEPT ![p] = [s EXCEPT !.out = {}]]
  /\ net' = net \cup s.out

Trouble(kind) ==
  /\ used.failures + used.stops + used.duplicates < MaxTroubles
  /\ used' = [used EXCEPT ![kind] = @ + 1]

(* The application. *)

\* requestVerification, to all devices of the other user.
sendRequest ==
  /\ side[Initiator] = Fresh /\ net = {}
  /\ Step(Initiator, send(Initiator, [Fresh EXCEPT !.devices = Devices], "request"))
  /\ UNCHANGED <<inbox, verified, used>>

\* Crypto.beginKeyVerification without a request, to one device.
beginWithoutRequest(d) ==
  /\ side[Initiator] = Fresh /\ net = {}
  /\ Step(Initiator, [Fresh EXCEPT !.devices = {d}, !.deviceId = d, !.place = "created"])
  /\ UNCHANGED <<inbox, verified, used>>

\* accept, once.
accept(p) ==
  /\ side[p].phase = "Requested" /\ p # Initiator
  /\ \A m \in net : m.from = p => m.type # "ready"
  /\ Step(p, send(p, side[p], "ready"))
  /\ UNCHANGED <<inbox, verified, used>>

\* VerificationRequest.beginKeyVerification: targetDevice needs an event of
\* the other side.
beginKeyVerification(p) ==
  /\ side[p].place = "none" /\ side[p].phase \in {"Requested", "Ready"}
  /\ side[p].eventsByThem \cap {"request", "ready", "start"} # {}
  /\ Step(p, [side[p] EXCEPT !.place = "created"])
  /\ UNCHANGED <<inbox, verified, used>>

verify(p) ==
  /\ side[p].place = "created" /\ ~side[p].promise
  /\ Step(p, [side[p] EXCEPT !.place = "downloading", !.promise = TRUE, !.timer = TRUE])
  /\ UNCHANGED <<inbox, verified, used>>

\* The user says that the strings match; sendMAC.
confirm(p) ==
  /\ side[p].place = "sas" /\ side[p].confirmed = "no"
  /\ Step(p, send(p, [side[p] EXCEPT !.confirmed = "sending"], "mac"))
  /\ UNCHANGED <<inbox, verified, used>>

\* The user says that they do not, or gives up.
mismatch(p) ==
  /\ side[p].place = "sas" /\ side[p].confirmed = "no"
  /\ Trouble("stops")
  /\ Step(p, Throw(p, side[p]))
  /\ UNCHANGED <<inbox, verified>>

cancel(p) ==
  /\ side[p].phase \notin {"Cancelled", "Done"}
  /\ side[p].phase # "Unsent" \/ side[p].place # "none"
  /\ Trouble("stops")
  /\ Step(p, requestCancel(p, side[p]))
  /\ UNCHANGED <<inbox, verified>>

-----------------------------------------------------------------------------
(* Timers and other awaits.                                                *)

cancelOnTimeout(p) ==
  /\ side[p].timeoutTimer
  /\ Trouble("stops")
  /\ Step(p, requestCancel(p, [side[p] EXCEPT !.timeoutTimer = FALSE]))
  /\ UNCHANGED <<inbox, verified>>

\* The timer of resetTimer: ten minutes without an expected event.
verifierTimeout(p) ==
  /\ side[p].timer /\ ~side[p].done
  /\ Trouble("stops")
  /\ Step(p, verifierCancel(p, side[p]))
  /\ UNCHANGED <<inbox, verified>>

\* doVerification has downloaded the other user's keys.
downloaded(p) ==
  /\ side[p].place = "downloading"
  /\ Step(p, IF Starter(p, side[p]) = p THEN doSendVerification(p, side[p])
             ELSE doRespondVerification(p, side[p]))
  /\ UNCHANGED <<inbox, verified, used>>

downloadFails(p) ==
  /\ side[p].place = "downloading"
  /\ Trouble("failures")
  /\ Step(p, Throw(p, side[p]))
  /\ UNCHANGED <<inbox, verified>>

\* checkMAC and verifyKeys mark the device; the upload of the signature may
\* fail before or after that.
checked(p) ==
  /\ side[p].place = "checking"
  /\ verified' = verified \cup {p}
  /\ Step(p, verifierDone(p, side[p]))
  /\ UNCHANGED <<inbox, used>>

checkFails(p) ==
  /\ side[p].place = "checking"
  /\ Trouble("failures")
  /\ verified' \in {verified, verified \cup {p}}
  /\ Step(p, Throw(p, side[p]))
  /\ UNCHANGED inbox

-----------------------------------------------------------------------------
(* The server and the messages.                                            *)

\* The server accepts a request: its recipients will get the message.
Deliver(m) ==
  /\ m \in net /\ ~m.delivered
  /\ net' = (net \ {m}) \cup {[m EXCEPT !.delivered = TRUE]}
  /\ inbox' = [p \in Parties |-> IF p \in m.to
                 THEN Append(inbox[p], [from |-> m.from, type |-> m.type, start |-> m.start])
                 ELSE inbox[p]]
  /\ UNCHANGED <<side, verified, used>>

\* The answer: the echo, and then doVerification or confirm if it awaited it.
Answer(m) ==
  /\ m \in net /\ m.delivered
  /\ LET p == m.from
         s == IF m.echo THEN handleEvent(p, side[p], m, TRUE) ELSE side[p]
         t == CASE m.type = "start" /\ s.place = "sendStart"   -> startSent(p, s)
                [] m.type = "accept" /\ s.place = "sendAccept" -> acceptSent(p, s)
                [] m.type = "key" /\ s.place = "sendKey"       -> keySent(p, s)
                [] m.type = "mac" /\ s.confirmed = "sending"   -> macSent(s)
                [] OTHER -> s
     IN /\ side' = [side EXCEPT ![p] = [t EXCEPT !.out = {}]]
        /\ net' = (net \ {m}) \cup t.out
  /\ UNCHANGED <<inbox, verified, used>>

\* The request fails, whether or not it was delivered.
Fail(m) ==
  /\ m \in net
  /\ Trouble("failures")
  /\ LET p == m.from
         awaited == \/ m.type = "start" /\ side[p].place = "sendStart"
                    \/ m.type = "accept" /\ side[p].place = "sendAccept"
                    \/ m.type = "key" /\ side[p].place = "sendKey"
                    \/ m.type = "mac" /\ side[p].place = "sas"
         t == IF awaited THEN Throw(p, side[p]) ELSE side[p]
     IN /\ side' = [side EXCEPT ![p] = [t EXCEPT !.out = {}]]
        /\ net' = (net \ {m}) \cup t.out
  /\ UNCHANGED <<inbox, verified>>

\* ToDeviceChannel.handleEvent: the first device that answers is chosen, the
\* others are told.
channelHandleEvent(p, s, m) ==
  LET names == m.type \in {"request", "ready", "start"}
      c == IF names /\ s.deviceId = None /\ m.from \in s.devices
           THEN [s EXCEPT !.deviceId = m.from] ELSE s
      t == handleEvent(p, c, m, FALSE)
      others == t.devices \ {t.deviceId}
  IN IF names /\ c.deviceId # m.from THEN sendToDevices(p, s, {m.from})
     ELSE IF /\ m.type \in {"start", "ready"} /\ others # {}
             /\ s.phase \notin {"Started", "Ready"} /\ t.phase \in {"Started", "Ready"}
     THEN sendToDevices(p, t, others)
     ELSE t

\* handleVerificationEvent: an unknown transaction begins with a request or a
\* start event, anything else is ignored.
handleVerificationEvent(p, s, m) ==
  IF s.devices # {} THEN channelHandleEvent(p, s, m)
  ELSE IF m.type \in {"request", "start"}
  THEN channelHandleEvent(p, [s EXCEPT !.devices = {m.from}], m)
  ELSE s

\* A message arrives; it may stay in the inbox for a second delivery.
Receive(p) ==
  /\ inbox[p] # <<>>
  /\ Step(p, handleVerificationEvent(p, side[p], Head(inbox[p])))
  /\ \/ inbox' = [inbox EXCEPT ![p] = Tail(@)] /\ UNCHANGED used
     \/ Trouble("duplicates") /\ UNCHANGED inbox
  /\ UNCHANGED verified

-----------------------------------------------------------------------------
Next ==
  \/ sendRequest
  \/ \E d \in Devices : beginWithoutRequest(d)
  \/ \E p \in Parties :
       \/ accept(p) \/ beginKeyVerification(p) \/ mismatch(p) \/ cancel(p)
       \/ cancelOnTimeout(p) \/ verifierTimeout(p)
       \/ downloadFails(p) \/ checkFails(p)
       \/ verify(p) \/ confirm(p) \/ downloaded(p) \/ checked(p) \/ Receive(p)
  \/ \E m \in net : Deliver(m) \/ Answer(m) \/ Fail(m)

Spec == Init /\ [][Next]_vars

\* The server answers, messages arrive, and users go on with a verification
\* that has begun.  Nothing is said of timers and cancellations.
Goes ==
  \/ \E m \in net : Deliver(m)
  \/ \E m \in net : Answer(m)
  \/ \E p \in Parties : verify(p) \/ confirm(p) \/ downloaded(p) \/ checked(p) \/ Receive(p)

FairSpec == Spec /\ WF_vars(Goes)

-----------------------------------------------------------------------------
Starts == Parties \cup {None}

Record ==
  [eventsByUs : SUBSET Types, eventsByThem : SUBSET Types, phase : Phases,
   verifierHasFinished : BOOLEAN, cancelled : BOOLEAN, timeoutTimer : BOOLEAN,
   devices : SUBSET Parties, deviceId : Starts,
   place : Places, startEvent : Starts, expectedEvent : Types \cup {"none"},
   waitingForAccept : BOOLEAN, promise : BOOLEAN, done : BOOLEAN, timer : BOOLEAN,
   commitment : Starts, gotMAC : BOOLEAN, confirmed : {"no", "sending", "yes"},
   out : {{}}]

TypeOK ==
  /\ side \in [Parties -> Record]
  /\ \A m \in net : /\ m.from \in Parties /\ m.to \subseteq Parties
                    /\ m.type \in Types /\ m.start \in Starts
  /\ inbox \in [Parties -> Seq([from : Parties, type : Types, start : Starts])]
  /\ verified \subseteq Parties
  /\ used \in [{"failures", "stops", "duplicates"} -> 0..MaxTroubles]

\* The device d and the initiator verify each other.
Paired(d) == side[Initiator].deviceId = d /\ side[d].deviceId = Initiator

\* The two sides agree on who started: they never both follow the other's start
\* event, and the strings the users compare were derived with the same one.
SameStart ==
  \A d \in Devices :
    /\ ~(side[d].startEvent = Initiator /\ side[Initiator].startEvent = d)
    /\ Paired(d) /\ {side[d].place, side[Initiator].place} \subseteq {"sas", "checking"}
         => Starter(d, side[d]) = Starter(Initiator, side[Initiator])

\* A device is marked verified only when its user has confirmed and the user of
\* the device it verified has, and a request is Done only with that.
VerifiedIsConfirmed ==
  \A p \in Parties :
    /\ p \in verified => /\ side[p].confirmed = "yes"
                         /\ side[side[p].deviceId].confirmed # "no"
    /\ side[p].phase = "Done" => p \in verified

\* The loser of a start race whose verifier was not yet sending its start
\* event: canSwitchStartEvent refuses, and both sides wait for an accept event.
Deaf(p) ==
  /\ side[p].place = "waitAccept"
  /\ "start" \in side[p].eventsByThem /\ Smaller(side[p].deviceId, p)

\* The loser that switched while it awaited the accept event still expects
\* one while it sends its own, and takes the other side's key for an error.
Stale(p) == side[p].place = "sendAccept" /\ side[p].expectedEvent = "accept"

\* A ready event that comes twice, or after the start event it was sent with.
Surprising(p) == inbox[p] # <<>> /\ isUnexpected(side[p], Head(inbox[p]).type)

Smooth ==
  /\ used.failures = 0 /\ used.stops = 0
  /\ \A p \in Parties : ~Deaf(p) /\ ~Stale(p) /\ ~Surprising(p)

\* A verification that both sides have begun is completed on both, unless
\* something fails, somebody stops it, or the start race ends badly.
Completes ==
  []Smooth =>
    \A d \in Devices :
      (Paired(d) /\ side[d].place # "none" /\ side[Initiator].place # "none")
        ~> (side[d].phase = "Done" /\ side[Initiator].phase = "Done")

\* A side that has cancelled does not leave the other one waiting: it has been
\* told or has cancelled itself, unless a message failed.  (Without a request
\* event the cancellation may come before the start event, and is ignored; and
\* if any other device of the same user declines the request, the initiator's
\* ends, and it does not tell the device that it has chosen.)
CancelIsTold ==
  \A d \in Devices : \A p, q \in {d, Initiator} :
    /\ Paired(d) /\ side[p].phase = "Cancelled" /\ side[q].phase \notin {"Cancelled", "Done"}
    /\ hasRequest(side[q]) /\ used.failures = 0
    /\ p = d \/ Devices = {d} \/ side[p].cancelled \/ "cancel" \in side[p].eventsByUs
    => \/ \E m \in net : m.type = "cancel" /\ (m.from = q \/ (q \in m.to /\ ~m.delivered))
       \/ \E i \in DOMAIN inbox[q] : inbox[q][i].type = "cancel"

\* The sides agree on the start event they follow, and neither is left waiting
\* for one that has cancelled.
SidesAgree == TypeOK /\ SameStart /\ CancelIsTold
=============================================================================
