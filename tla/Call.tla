-------------------------------- MODULE Call --------------------------------
(***************************************************************************)
(* Voice and video calls: SendingNetworkCall, CallEventHandler, the feeds  *)
(* and the media handler, for the devices of two users in one room.        *)
(*                                                                         *)
(* A call object is named by its index among the objects of its device; a  *)
(* call id is the device that placed the call, and every device places at  *)
(* most one.  Everything a call awaits (turn servers, user media, the peer *)
(* connection, the wait for candidates, the statistics collected by        *)
(* terminate) is a member of its todo.  Events are separate requests: the  *)
(* server takes them in any order and every device reads the others'       *)
(* events in the server's order (its own change nothing).                  *)
(***************************************************************************)
EXTENDS Naturals, Sequences, FiniteSets, SequencesExt

CONSTANTS
  Devices,      \* the devices in the room
  User,         \* the user of each device
  Rank,         \* the order of call ids
  None,         \* no device
  MaxTries,     \* attempts to send candidates before the call is given up
  MaxObjects,   \* call objects per device
  Scenarios     \* who is there, who may place a call, and how many hang-ups, rejections
                \* and timeouts (stops), failures of requests, media or the peer
                \* connection (troubles) and rounds of candidates there may be

ASSUME CallAssumption ==
  /\ None \notin Devices
  /\ Rank \in [Devices -> Nat]
  /\ \A d, e \in Devices : Rank[d] = Rank[e] => d = e
  /\ MaxTries \in Nat /\ MaxObjects \in Nat
  /\ Scenarios \subseteq [present : SUBSET Devices, callers : SUBSET Devices,
                          stops : Nat, troubles : Nat, candidates : Nat,
                          stopped : {FALSE}, troubled : {FALSE}]

VARIABLES
  call,      \* the call objects of each device
  calls,     \* CallEventHandler.calls: the object of a call id, or 0
  stashed,   \* candidateEventsByCall: ids and senders
  live,      \* streams of the media handler that have not been stopped
  net,       \* events being sent
  inbox,     \* the room's events a device has not received
  buffer,    \* callEventBuffer
  evals,     \* evaluations of the buffer that are under way
  scene      \* the scenario, with what is left of its bounds

callVars == <<call, calls, stashed, live, net, inbox, buffer, evals, scene>>

States == {"Fledgling", "WaitLocalMedia", "CreateOffer", "InviteSent", "Ringing",
           "CreateAnswer", "Connecting", "Connected", "Ended"}

\* stream is the local feed's stream (the object that asked for it, or 0), peer
\* the opponent's object whose description the peer connection has.
NewCall(id, direction) ==
  [callId |-> id, direction |-> direction, state |-> "Fledgling", peerConn |-> "none",
   opponent |-> None, peer |-> 0, sent |-> FALSE, waitAV |-> FALSE, stream |-> 0, successor |-> 0,
   inviteTimeout |-> FALSE, expiry |-> FALSE, gathered |-> FALSE, queue |-> 0, tries |-> 0,
   buffered |-> {}, added |-> FALSE, todo |-> {}]

CallInit ==
  /\ call = [d \in Devices |-> <<>>]
  /\ calls = [d \in Devices |-> [id \in Devices |-> 0]]
  /\ stashed = [d \in Devices |-> {}]
  /\ live = [d \in Devices |-> {}]
  /\ net = {}
  /\ inbox = [d \in Devices |-> <<>>]
  /\ buffer = [d \in Devices |-> <<>>]
  /\ evals = [d \in Devices |-> <<>>]
  /\ scene \in Scenarios

Objects(d) == DOMAIN call[d]

Trouble == scene.troubles > 0 /\ scene' = [scene EXCEPT !.troubles = @ - 1, !.troubled = TRUE]
Stop == scene.stops > 0 /\ scene' = [scene EXCEPT !.stops = @ - 1, !.stopped = TRUE]

-----------------------------------------------------------------------------
(* What a call does: operators on a record, with what it sends.            *)

Event(d, i, c, type) ==
  [from |-> d, obj |-> i, type |-> type, callId |-> c.callId, to |-> c.opponent,
   arrived |-> FALSE]

\* A call and the events it sends in this step.
With(c, out) == [c |-> c, out |-> out]

\* terminate, up to its await of the call's statistics.  A call that is
\* replaced will leave its media running.
endWith(c, how) == IF c.state = "Ended" THEN c ELSE [c EXCEPT !.todo = @ \cup {how}]

terminate(c) == endWith(c, "stats")

\* Mutant: a call that is replaced is not ended.
hangup_not_replaced(d, i, c, how) ==
  IF how = "replaced" \/ c.state = "Ended" THEN With(c, {})
  ELSE With(endWith(c, how), {Event(d, i, c, "hangup")})

hangup(d, i, c, how) ==
  IF c.state = "Ended" THEN With(c, {})
  ELSE With(endWith(c, how),
            IF c.state = "WaitLocalMedia" THEN {} ELSE {Event(d, i, c, "hangup")})

sendCandidateQueue(d, i, c) ==
  IF c.queue = 0 THEN With(c, {})
  ELSE With([c EXCEPT !.queue = 0, !.tries = @ + 1], {Event(d, i, c, "candidates")})

\* gotUserMediaForAnswer, up to createAnswer.
gotUserMediaForAnswer(c, stream) ==
  IF c.state = "Ended" \/ c.peerConn # "open" THEN c
  ELSE [c EXCEPT !.stream = stream, !.state = "CreateAnswer", !.todo = @ \cup {"createAnswer"}]

\* replacedBy, as far as it concerns the new call.
handOver(old, new) ==
  IF old.state = "WaitLocalMedia" THEN [new EXCEPT !.waitAV = TRUE]
  ELSE gotUserMediaForAnswer(new, old.stream)

\* The device's object i becomes r.c, and r.out is sent.
Update(d, i, r) ==
  /\ call' = [call EXCEPT ![d][i] = r.c]
  /\ net' = net \cup r.out

Awaits(d, i, what) == i \in Objects(d) /\ what \in call[d][i].todo

\* The statistics are there before a timer of 200 milliseconds is over.
Ending(c) == c.todo \cap {"stats", "replaced"} # {}

Done(d, i, what) == [call[d][i] EXCEPT !.todo = @ \ {what}]

-----------------------------------------------------------------------------
(* The application.                                                        *)

placeCall(d) ==
  /\ d \in scene.callers /\ call[d] = <<>>
  /\ call' = [call EXCEPT ![d] = Append(@, [NewCall(d, "out") EXCEPT
                !.state = "WaitLocalMedia", !.peerConn = "open", !.todo = {"media"}])]
  /\ calls' = [calls EXCEPT ![d][d] = Len(call[d]) + 1]
  /\ UNCHANGED <<stashed, live, net, inbox, buffer, evals, scene>>

\* The application has the call: a call that lost to another is replaced, or
\* was never announced.
Told(c) == "replaced" \notin c.todo

\* answer, of a call that rings.  After an answer that could not be sent there
\* is a local stream, and nothing happens.
answer(d, i) ==
  /\ i \in Objects(d)
  /\ LET c == call[d][i] IN
     /\ Told(c) /\ c.state = "Ringing" /\ ~c.sent /\ c.stream = 0 /\ ~c.waitAV
     /\ Update(d, i, With([c EXCEPT !.state = "WaitLocalMedia", !.waitAV = TRUE,
                                    !.todo = @ \cup {"media"}], {}))
  /\ UNCHANGED <<calls, stashed, live, inbox, buffer, evals, scene>>

userHangup(d, i) ==
  /\ i \in Objects(d) /\ Stop
  /\ Told(call[d][i]) /\ call[d][i].state # "Ended"
  /\ Update(d, i, hangup(d, i, call[d][i], "stats"))
  /\ UNCHANGED <<calls, stashed, live, inbox, buffer, evals>>

reject(d, i) ==
  /\ i \in Objects(d) /\ Stop
  /\ Told(call[d][i]) /\ call[d][i].state = "Ringing"
  /\ Update(d, i, With(terminate(call[d][i]), {Event(d, i, call[d][i], "reject")}))
  /\ UNCHANGED <<calls, stashed, live, inbox, buffer, evals>>

-----------------------------------------------------------------------------
(* What a call awaits.                                                     *)

\* getUserMediaStream for an outgoing call: gotUserMediaForInvite.  A call that
\* has ended stops the media of its feeds, and has none.
gotUserMediaForInvite(d, i) ==
  /\ Awaits(d, i, "media") /\ call[d][i].direction = "out"
  /\ live' = [live EXCEPT ![d] = @ \cup {i}]
  /\ LET c == Done(d, i, "media")
         s == c.successor
         offer == [c EXCEPT !.stream = i, !.state = "CreateOffer", !.todo = @ \cup {"offer"}]
     IN call' = [call EXCEPT ![d] =
                   IF s # 0 THEN [@ EXCEPT ![i] = c, ![s] = gotUserMediaForAnswer(@, i)]
                   ELSE [@ EXCEPT ![i] = IF c.state = "Ended" THEN c ELSE offer]]
  /\ UNCHANGED <<calls, stashed, net, inbox, buffer, evals, scene>>

\* The same for an answer.
gotMedia(d, i) ==
  /\ call[d] # <<>>
  /\ \E what \in {"media", "audio"} :
       /\ Awaits(d, i, what) /\ call[d][i].direction = "in"
       /\ live' = [live EXCEPT ![d] = @ \cup {i}]
       /\ Update(d, i, With(gotUserMediaForAnswer(
                              [Done(d, i, what) EXCEPT !.waitAV = FALSE], i), {}))
  /\ UNCHANGED <<calls, stashed, inbox, buffer, evals, scene>>

\* getUserMediaFailed; an answer is tried again without video.
mediaFails(d, i) ==
  /\ call[d] # <<>> /\ Trouble
  /\ \E what \in {"media", "audio"} :
       /\ Awaits(d, i, what)
       /\ LET c == Done(d, i, what)
              s == c.successor
          IN call' = [call EXCEPT ![d] =
               IF c.direction = "in" /\ what = "media"
               THEN [@ EXCEPT ![i] = [c EXCEPT !.state = "WaitLocalMedia", !.todo = @ \cup {"audio"}]]
               ELSE IF s # 0 THEN [@ EXCEPT ![i] = c, ![s] = terminate(@)]
               ELSE [@ EXCEPT ![i] = terminate(c)]]
  /\ UNCHANGED <<calls, stashed, live, net, inbox, buffer, evals>>

\* onNegotiationNeeded and gotLocalOffer: the offer is made and, unless the
\* call has ended, sent; the candidates so far are in it.
gotLocalOffer(d, i) ==
  /\ Awaits(d, i, "offer") /\ ~Ending(call[d][i])
  /\ LET c == Done(d, i, "offer")
     IN Update(d, i, With([c EXCEPT !.queue = 0], {Event(d, i, c, "invite")}))
  /\ UNCHANGED <<calls, stashed, live, inbox, buffer, evals, scene>>

\* createAnswer and setLocalDescription.
answerCreated(d, i) ==
  /\ Awaits(d, i, "createAnswer")
  /\ Update(d, i, With([Done(d, i, "createAnswer") EXCEPT !.state = "Connecting",
                          !.todo = @ \cup {"wait"}], {}))
  /\ UNCHANGED <<calls, stashed, live, inbox, buffer, evals, scene>>

\* The 200 milliseconds are over: sendAnswer, whatever has happened.
sendAnswer(d, i) ==
  /\ Awaits(d, i, "wait") /\ ~Ending(call[d][i])
  /\ LET c == Done(d, i, "wait")
     IN Update(d, i, With([c EXCEPT !.queue = 0], {Event(d, i, c, "answer")}))
  /\ UNCHANGED <<calls, stashed, live, inbox, buffer, evals, scene>>

\* onAnswerReceived has set the remote description: select_answer.
answerSet(d, i) ==
  /\ Awaits(d, i, "setRemote")
  /\ LET c == Done(d, i, "setRemote") IN Update(d, i, With(c, {Event(d, i, c, "select_answer")}))
  /\ UNCHANGED <<calls, stashed, live, inbox, buffer, evals, scene>>

\* One of the peer connection's operations fails.
peerConnFails(d, i) ==
  /\ call[d] # <<>> /\ Trouble
  /\ \E what \in {"offer", "createAnswer", "setRemote"} :
       /\ Awaits(d, i, what)
       /\ Update(d, i, With(terminate(Done(d, i, what)), {}))
  /\ UNCHANGED <<calls, stashed, live, inbox, buffer, evals>>

\* Mutant: the media of a replaced call are stopped as well.
terminated_stops_media(d, i) ==
  /\ i \in Objects(d) /\ Ending(call[d][i])
  /\ live' = [live EXCEPT ![d] = @ \ {call[d][i].stream}]
  /\ Update(d, i, With([call[d][i] EXCEPT !.state = "Ended", !.stream = 0, !.peerConn = "closed",
       !.todo = @ \ {"stats", "replaced", "offer", "createAnswer", "setRemote"}], {}))
  /\ UNCHANGED <<calls, stashed, inbox, buffer, evals, scene>>

\* The rest of terminate.  Closing the peer connection drops its operations.
terminated(d, i) ==
  /\ i \in Objects(d)
  /\ \E how \in {"stats", "replaced"} :
       /\ Awaits(d, i, how)
       /\ live' = [live EXCEPT ![d] = IF how = "replaced" THEN @ ELSE @ \ {call[d][i].stream}]
       /\ Update(d, i, With([call[d][i] EXCEPT !.state = "Ended", !.inviteTimeout = FALSE,
            !.stream = 0, !.peerConn = IF @ = "open" THEN "closed" ELSE @,
            !.todo = @ \ {how, "offer", "createAnswer", "setRemote"}], {}))
  /\ UNCHANGED <<calls, stashed, inbox, buffer, evals, scene>>

-----------------------------------------------------------------------------
(* Timers and the peer connection.                                         *)

inviteTimeout(d, i) ==
  /\ i \in Objects(d) /\ call[d][i].inviteTimeout /\ Stop
  /\ LET c == [call[d][i] EXCEPT !.inviteTimeout = FALSE]
     IN Update(d, i, IF c.state = "InviteSent" THEN hangup(d, i, c, "stats") ELSE With(c, {}))
  /\ UNCHANGED <<calls, stashed, live, inbox, buffer, evals>>

\* The invite's lifetime is over while the call rings.
inviteExpires(d, i) ==
  /\ i \in Objects(d) /\ call[d][i].expiry /\ Stop
  /\ LET c == [call[d][i] EXCEPT !.expiry = FALSE] IN
     IF c.state = "Ringing"
     THEN /\ Update(d, i, With([c EXCEPT !.state = "Ended", !.peerConn = "closed"], {}))
          /\ live' = [live EXCEPT ![d] = @ \ {c.stream}]
     ELSE Update(d, i, With(c, {})) /\ UNCHANGED live
  /\ UNCHANGED <<calls, stashed, inbox, buffer, evals>>

\* gotLocalIceCandidate and queueCandidate.
gotLocalIceCandidate(d, i) ==
  /\ i \in Objects(d)
  /\ LET c == call[d][i]
         described == c.state \in {"CreateOffer", "InviteSent", "Connecting", "Connected"}
     IN /\ c.peerConn = "open" /\ described /\ ~c.gathered
        /\ scene.candidates > 0
        /\ scene' = [scene EXCEPT !.candidates = @ - 1]
        /\ Update(d, i, With([c EXCEPT !.gathered = TRUE, !.queue = @ + 1,
             !.todo = IF c.sent /\ c.tries = 0 THEN @ \cup {"flush"} ELSE @], {}))
  /\ UNCHANGED <<calls, stashed, live, inbox, buffer, evals>>

flush(d, i) ==
  /\ Awaits(d, i, "flush")
  /\ Update(d, i, sendCandidateQueue(d, i, Done(d, i, "flush")))
  /\ UNCHANGED <<calls, stashed, live, inbox, buffer, evals, scene>>

\* The two ends of a connection: each has the other's description.
Joined(d, i, e, j) ==
  LET c == call[d][i]  o == call[e][j]
  IN /\ c.opponent = e /\ c.peer = j /\ o.opponent = d /\ o.peer = i
     /\ \A p \in {c, o} : p.state \in {"Connecting", "Connected"} /\ p.peerConn = "open"
                           /\ "setRemote" \notin p.todo

Connectable(d, i) ==
  call[d][i].state = "Connecting" /\ \E e \in Devices : \E j \in Objects(e) : Joined(d, i, e, j)

\* onIceConnectionStateChanged: connected.
iceConnected(d, i) ==
  /\ Connectable(d, i)
  /\ call' = [call EXCEPT ![d][i].state = "Connected"]
  /\ UNCHANGED <<calls, stashed, live, net, inbox, buffer, evals, scene>>

iceFailed(d, i) ==
  /\ i \in Objects(d) /\ Trouble
  /\ call[d][i].state \in {"Connecting", "Connected"} /\ call[d][i].peerConn = "open"
  /\ Update(d, i, hangup(d, i, call[d][i], "stats"))
  /\ UNCHANGED <<calls, stashed, live, inbox, buffer, evals>>

-----------------------------------------------------------------------------
(* Events on their way.                                                    *)

Arrive(m) ==
  /\ m \in net /\ ~m.arrived
  /\ net' = (net \ {m}) \cup
       (IF m.type \in {"invite", "answer", "candidates"} THEN {[m EXCEPT !.arrived = TRUE]} ELSE {})
  /\ inbox' = [d \in Devices |->
       IF d = m.from \/ d \notin scene.present THEN inbox[d]
       ELSE Append(inbox[d], [type |-> m.type, callId |-> m.callId, from |-> m.from,
                               obj |-> m.obj, to |-> m.to])]
  /\ UNCHANGED <<call, calls, stashed, live, buffer, evals, scene>>

\* The request is answered.
afterSend(d, i, c, type) ==
  CASE type = "invite" ->
         LET r == sendCandidateQueue(d, i, c)
         IN IF c.state = "CreateOffer"
            THEN [r EXCEPT !.c = [@ EXCEPT !.sent = TRUE, !.state = "InviteSent",
                                           !.inviteTimeout = TRUE]]
            ELSE r
    [] type = "answer"     -> sendCandidateQueue(d, i, [c EXCEPT !.sent = TRUE])
    [] type = "candidates" -> With([c EXCEPT !.tries = 0], {})
    [] OTHER -> With(c, {})

Sent(m) ==
  /\ m \in net /\ m.arrived
  /\ LET r == afterSend(m.from, m.obj, call[m.from][m.obj], m.type)
     IN /\ call' = [call EXCEPT ![m.from][m.obj] = r.c]
        /\ net' = (net \ {m}) \cup r.out
  /\ UNCHANGED <<calls, stashed, live, inbox, buffer, evals, scene>>

\* The request fails, whether or not the server has taken the event.
afterFailure(d, i, c, type) ==
  CASE type = "invite"     -> With(terminate(c), {})
    [] type = "answer"     -> With([c EXCEPT !.state = "Ringing"], {})
    [] type = "candidates" ->
         LET q == [c EXCEPT !.queue = @ + 1]
         IN IF c.tries > MaxTries THEN hangup(d, i, q, "stats")
            ELSE With([q EXCEPT !.tries = @ + 1, !.todo = @ \cup {"flush"}], {})
    [] OTHER -> With(c, {})

SendFails(m) ==
  /\ m \in net /\ Trouble
  /\ LET r == afterFailure(m.from, m.obj, call[m.from][m.obj], m.type)
     IN /\ call' = [call EXCEPT ![m.from][m.obj] = r.c]
        /\ net' = (net \ {m}) \cup r.out
  /\ UNCHANGED <<calls, stashed, live, inbox, buffer, evals>>

-----------------------------------------------------------------------------
(* CallEventHandler.  h is what it keeps for a device: call, calls and     *)
(* stashed, and rest, the events after an invite whose initWithInvite is   *)
(* awaited, the invite included.                                           *)

Handler(d, rest) == [call |-> call[d], calls |-> calls[d], stashed |-> stashed[d], rest |-> rest]

\* onRemoteIceCandidatesReceived.
onCandidates(c, e) ==
  IF c.state = "Ended" THEN c
  ELSE IF c.opponent = None THEN [c EXCEPT !.buffered = @ \cup {e.from}]
  ELSE IF c.opponent = e.from THEN [c EXCEPT !.added = TRUE] ELSE c

\* onAnswerReceived, up to setRemoteDescription.  Candidates are added before
\* it, which the peer connection refuses.
onAnswerReceived(c, e) ==
  IF c.state = "Ended" \/ c.opponent # None THEN c
  ELSE [c EXCEPT !.opponent = e.from, !.peer = e.obj, !.state = "Connecting", !.buffered = {},
                 !.todo = @ \cup {"setRemote"}]

onHangupReceived(c, e) ==
  IF c.opponent = e.from \/ c.state = "Ringing" THEN terminate(c) ELSE c

onRejectReceived(c) ==
  IF c.state \in {"InviteSent", "Ringing"} THEN terminate(c) ELSE c

onSelectAnswerReceived(d, c, e) ==
  IF c.direction = "in" /\ e.to # d THEN terminate(c) ELSE c

onAnsweredElsewhere(c) == IF c.state = "Ringing" THEN terminate(c) ELSE c

afterEvent(d, c, e) ==
  LET ours == User[e.from] = User[d]
  IN CASE e.type = "candidates" -> IF ours THEN c ELSE onCandidates(c, e)
       [] e.type = "hangup" -> onHangupReceived(c, e)
       [] e.type = "reject" -> onRejectReceived(c)
       [] e.type = "select_answer" -> onSelectAnswerReceived(d, c, e)
       [] e.type = "answer" -> IF ours THEN onAnsweredElsewhere(c) ELSE onAnswerReceived(c, e)

\* handleCallEvent, but for invites.  A hangup or reject takes a call that has
\* not ended out of the map, whoever sent it; without a call it is remembered,
\* and candidates are stashed.
handleCallEvent(d, h, e) ==
  LET i == h.calls[e.callId]
      ends == e.type \in {"hangup", "reject"}
  IN IF i # 0 /\ ends /\ h.call[i].state = "Ended" THEN h
     ELSE IF i # 0
     THEN [h EXCEPT !.call[i] = afterEvent(d, @, e), !.calls[e.callId] = IF ends THEN 0 ELSE @]
     ELSE IF ends
     THEN [h EXCEPT !.call = Append(@, [NewCall(e.callId, "none") EXCEPT !.state = "Ended"]),
                    !.calls[e.callId] = Len(h.call) + 1]
     ELSE IF e.type = "candidates" /\ User[e.from] # User[d]
     THEN [h EXCEPT !.stashed = @ \cup {<<e.callId, e.from>>}]
     ELSE h

\* An invite that is ignored: our own, or of a call that has ended.
isStaleInvite(d, h, e) ==
  \/ User[e.from] = User[d]
  \/ h.calls[e.callId] # 0 /\ h.call[h.calls[e.callId]].state = "Ended"

\* The loop of evaluateEventBuffer, until it awaits.
evaluate(d, h, ignore, evs) ==
  FoldLeft(LAMBDA g, e :
             IF g.rest # <<>> THEN [g EXCEPT !.rest = Append(@, e)]
             ELSE IF e.type # "invite" THEN handleCallEvent(d, g, e)
             ELSE IF e.callId \in ignore \/ isStaleInvite(d, g, e) THEN g
             ELSE [g EXCEPT !.rest = <<e>>],
           h, evs)

\* The evaluation ends, or awaits initWithInvite with its rest.  When one ends
\* the buffer is emptied; the others go on with the array they have.
Evaluated(d, h, ev, others, buf) ==
  /\ call' = [call EXCEPT ![d] = h.call]
  /\ calls' = [calls EXCEPT ![d] = h.calls]
  /\ stashed' = [stashed EXCEPT ![d] = h.stashed]
  /\ IF h.rest # <<>>
     THEN /\ evals' = [evals EXCEPT ![d] = Append(others, [ev EXCEPT !.todo = h.rest])]
          /\ buffer' = [buffer EXCEPT ![d] = buf]
     ELSE /\ evals' = [evals EXCEPT ![d] =
                         [n \in DOMAIN others |-> [others[n] EXCEPT !.current = FALSE]]]
          /\ buffer' = [buffer EXCEPT ![d] = <<>>]
  /\ Len(h.call) <= MaxObjects

\* A sync brings events and begins an evaluation of the whole buffer; one that
\* is under way goes on to the new events as well.
evaluateEventBuffer(d) ==
  /\ \E k \in 1..Len(inbox[d]) :
       LET new == SubSeq(inbox[d], 1, k)
           all == buffer[d] \o new
           ignore == {all[n].callId : n \in {n \in DOMAIN all : all[n].type \in {"answer", "hangup"}}}
           older == [n \in DOMAIN evals[d] |->
                       IF evals[d][n].current THEN [evals[d][n] EXCEPT !.todo = @ \o new]
                       ELSE evals[d][n]]
       IN /\ inbox' = [inbox EXCEPT ![d] = SubSeq(@, k + 1, Len(@))]
          /\ Evaluated(d, evaluate(d, Handler(d, <<>>), ignore, all),
                       [todo |-> all, ignore |-> ignore, current |-> TRUE], older, all)
  /\ UNCHANGED <<live, net, scene>>

\* The outgoing call that an incoming one meets.
isCalling(c) == c.direction = "out" /\ c.state \in {"WaitLocalMedia", "CreateOffer", "InviteSent"}

\* The incoming call is taken: our invite is not out yet, or its id is higher.
yields(own, id) ==
  own.state \in {"WaitLocalMedia", "CreateOffer"} \/ Rank[own.callId] > Rank[id]

\* initWithInvite has returned c: the call is registered, and rings, or is
\* weighed against our own.  The handler's state, and what is sent.
invited(d, h, c) ==
  LET i == Len(h.call) + 1
      own == {j \in DOMAIN h.call : h.calls[h.call[j].callId] = j /\ isCalling(h.call[j])}
      j == CHOOSE k \in own : TRUE
      r == hangup(d, j, [h.call[j] EXCEPT !.successor = i], "replaced")
      new == handOver(h.call[j], c)
      g == [h EXCEPT !.calls[c.callId] = i, !.rest = <<>>]
  IN IF own = {} THEN [h |-> [g EXCEPT !.call = Append(@, c)], out |-> {}]
     ELSE IF yields(h.call[j], c.callId)
     THEN [h |-> [g EXCEPT !.call = Append([@ EXCEPT ![j] = r.c],
                    IF new.waitAV THEN [new EXCEPT !.state = "WaitLocalMedia"] ELSE new)],
           out |-> r.out]
     ELSE [h |-> [g EXCEPT !.call = Append(@, hangup(d, i, c, "replaced").c)], out |-> hangup(d, i, c, "replaced").out]

initWithInvite(d, n) ==
  LET ev == evals[d][n]
      e == Head(ev.todo)
      c == [NewCall(e.callId, "in") EXCEPT !.peerConn = "open", !.opponent = e.from,
              !.peer = e.obj, !.added = <<e.callId, e.from>> \in stashed[d]]
      finish(d0) == LET r == invited(d, Handler(d, <<>>), d0)
                    IN /\ Evaluated(d, evaluate(d, r.h, ev.ignore, Tail(ev.todo)), ev,
                                    RemoveAt(evals[d], n), buffer[d])
                       /\ net' = net \cup r.out
  IN /\ \/ finish([c EXCEPT !.state = "Ringing", !.expiry = TRUE]) /\ UNCHANGED scene
        \/ finish(terminate(c)) /\ Trouble
     /\ UNCHANGED <<live, inbox>>

-----------------------------------------------------------------------------
CallNext ==
  \/ \E d \in Devices :
       \/ placeCall(d) \/ evaluateEventBuffer(d)
       \/ \E i \in Objects(d) :
            \/ answer(d, i) \/ userHangup(d, i) \/ reject(d, i)
            \/ gotUserMediaForInvite(d, i) \/ gotMedia(d, i)
            \/ mediaFails(d, i) \/ gotLocalOffer(d, i) \/ answerCreated(d, i)
            \/ sendAnswer(d, i) \/ answerSet(d, i) \/ peerConnFails(d, i)
            \/ terminated(d, i) \/ inviteTimeout(d, i) \/ inviteExpires(d, i)
            \/ gotLocalIceCandidate(d, i) \/ flush(d, i)
            \/ iceConnected(d, i) \/ iceFailed(d, i)
       \/ \E n \in DOMAIN evals[d] : initWithInvite(d, n)
  \/ \E m \in net : Arrive(m) \/ Sent(m) \/ SendFails(m)

CallSpec == CallInit /\ [][CallNext]_callVars
-----------------------------------------------------------------------------
(* Properties.                                                             *)

\* Every part of the state has its type; a request belongs to a call object.
CallTypeOK ==
  /\ \A d \in Devices : \A i \in Objects(d) :
       LET c == call[d][i] IN
       /\ c.state \in States /\ c.direction \in {"in", "out", "none"}
       /\ c.peerConn \in {"none", "open", "closed"}
       /\ c.callId \in Devices /\ c.opponent \in Devices \cup {None}
       /\ c.stream \in Nat /\ c.successor \in Nat /\ c.peer \in Nat
       /\ c.queue \in Nat /\ c.tries \in Nat /\ c.buffered \subseteq Devices
       /\ c.todo \subseteq {"media", "audio", "offer", "createAnswer", "wait", "setRemote",
                            "flush", "stats", "replaced"}
  /\ \A d, id \in Devices : calls[d][id] \in 0..Len(call[d])
  /\ \A d \in Devices : live[d] \subseteq Objects(d) /\ stashed[d] \subseteq Devices \X Devices
  /\ \A m \in net : m.obj \in Objects(m.from)
  /\ DOMAIN inbox = Devices /\ DOMAIN buffer = Devices /\ DOMAIN evals = Devices

\* Nothing is on its way, and nothing but a user or a timer makes a step.
Settled ==
  /\ net = {}
  /\ \A d \in Devices :
       /\ inbox[d] = <<>> /\ evals[d] = <<>>
       /\ \A i \in Objects(d) : call[d][i].todo = {} /\ ~Connectable(d, i)

Ongoing(c) == c.state \in {"Connecting", "Connected"}

Mutual(d, i) ==
  LET e == call[d][i].opponent IN e # None /\ \E j \in Objects(e) : Joined(d, i, e, j)

\* The invite has been taken up by one evaluation of the buffer only.
TakenUpOnce(d, i) == \A j \in Objects(d) : call[d][j].callId = call[d][i].callId => j = i

\* What two phones that ring each other, or several that ring at once, must not
\* come to: when all is settled and no one has hung up, a call that goes on on
\* one side (Connecting or Connected) goes on on the other, with each other
\* (answers, select_answer and the glare of two invites); after a hang-up no
\* side still shows a connected call that the other has ended (onHangupReceived
\* and partyIdMatches); and no device is in two conversations.  Candidates found
\* while the invite, the answer or the last ones were being sent do not stay in
\* the queue of a call that goes on.
CallsAreMutual ==
  /\ CallTypeOK
  /\ Settled /\ ~scene.troubled =>
       \A d \in Devices : \A i \in Objects(d) :
         /\ ~scene.stopped /\ Ongoing(call[d][i]) /\ TakenUpOnce(d, i) => Mutual(d, i)
         /\ call[d][i].state = "Connected" /\ TakenUpOnce(d, i) => Mutual(d, i)
  /\ Settled => \A d \in Devices :
       /\ Cardinality({i \in Objects(d) : call[d][i].state = "Connected"}) <= 1
       /\ \A i \in Objects(d) : Ongoing(call[d][i]) /\ call[d][i].sent => call[d][i].queue = 0

\* The stream of a connected call has not been stopped: the call that was
\* replaced hands its media over, and its own termination leaves them running.
StreamInUseIsLive ==
  \A d \in Devices : \A i \in Objects(d) :
     call[d][i].state = "Connected" /\ ~Ending(call[d][i]) => call[d][i].stream \in live[d]
=============================================================================
