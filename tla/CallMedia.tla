----------------------------- MODULE CallMedia ------------------------------
(***************************************************************************)
(* The media of a call that is set up: screen sharing, the upgrade to      *)
(* video, hold and mute, and the negotiation they lead to.                 *)
(*                                                                         *)
(* The two sides are "out" (impolite) and "in" (polite).  What a side      *)
(* wants to send is a record; an offer carries all of it, an answer only   *)
(* the direction of the tracks there are, that is, hold.  The peer         *)
(* connection is external: it does its operations one after the other (its *)
(* chain) and asks for negotiation when it is stable and what was          *)
(* negotiated is not what is wanted.                                       *)
(***************************************************************************)
EXTENDS Naturals, Sequences, FiniteSets, SequencesExt

CONSTANTS
  MaxMediaChanges,  \* changes of the users
  MaxLostOffers     \* requests that fail

ASSUME MediaAssumption == MaxMediaChanges \in Nat /\ MaxLostOffers \in Nat

VARIABLES
  want,      \* the local feeds and the direction of the tracks
  mic,       \* audioMuted of the local feed
  sees,      \* what the other side's descriptions have said
  shows,     \* the mute state in remoteSDPStreamMetadata
  signal,    \* signalingState
  chain,     \* operations of the peer connection
  pend,      \* pendingLocalDescription
  cur,       \* currentLocalDescription
  agreed,    \* what has been negotiated of want
  asked,     \* negotiationneeded has fired and the state was not stable since
  making,    \* makingOffer
  todo,      \* media being opened, and the wait before an offer is sent
  void,      \* such waits whose offer has been rolled back
  over,      \* the call has ended on this side
  wire,      \* requests, in the order they were made
  awaited,   \* requests the server has that are not answered
  post,      \* events to be received
  overtaken, \* a request came before an earlier one
  mistaken,  \* a description was taken for something else
  left       \* what is left of the bounds

mediaVars == <<want, mic, sees, shows, signal, chain, pend, cur, agreed, asked, making, todo,
               void, over, wire, awaited, post, overtaken, mistaken, left>>

pcVars == <<signal, chain, pend, cur, agreed, asked>>
sentVars == <<wire, awaited, overtaken>>
otherVars == <<sees, shows, post, mistaken>>

Sides == {"out", "in"}
Other(s) == IF s = "out" THEN "in" ELSE "out"

Wants == [screen : BOOLEAN, video : BOOLEAN, hold : BOOLEAN]
Plain == [screen |-> FALSE, video |-> FALSE, hold |-> FALSE]
NoOffer == [type |-> "none", media |-> Plain]
Description(type, media) == [type |-> type, media |-> media]

MediaInit ==
  /\ want = [s \in Sides |-> Plain]
  /\ mic = [s \in Sides |-> FALSE]
  /\ sees = [s \in Sides |-> Plain]
  /\ shows = [s \in Sides |-> FALSE]
  /\ signal = [s \in Sides |-> "stable"]
  /\ chain = [s \in Sides |-> <<>>]
  /\ pend = [s \in Sides |-> NoOffer]
  /\ cur = [s \in Sides |-> Description(IF s = "out" THEN "offer" ELSE "answer", Plain)]
  /\ agreed = [s \in Sides |-> Plain]
  /\ asked = [s \in Sides |-> FALSE]
  /\ making = [s \in Sides |-> FALSE]
  /\ todo = [s \in Sides |-> {}]
  /\ void = [s \in Sides |-> 0]
  /\ over = [s \in Sides |-> FALSE]
  /\ wire = [s \in Sides |-> <<>>]
  /\ awaited = [s \in Sides |-> 0]
  /\ post = [s \in Sides |-> <<>>]
  /\ overtaken = [s \in Sides |-> FALSE]
  /\ mistaken = [s \in Sides |-> FALSE]
  /\ left = [changes |-> MaxMediaChanges, losses |-> MaxLostOffers]

-----------------------------------------------------------------------------
(* Requests and the chain.                                                 *)

\* sendVoipEvent.  kind says what the request is: an offer (negotiate), what
\* is sent again, an answer (reply), or the mute state (metadata).
Send(s, kind, desc) ==
  wire' = [wire EXCEPT ![s] = Append(@, [kind |-> kind, desc |-> desc, muted |-> mic'[s]])]

\* gotLocalOffer awaits the request it makes; the others are not awaited.
IsAwaited(m) == m.kind \in {"negotiate", "again"}

Change == left.changes > 0 /\ left' = [left EXCEPT !.changes = @ - 1]

Then(s, op) == chain' = [chain EXCEPT ![s] = Append(Tail(@), op)]
ChainDone(s) == chain' = [chain EXCEPT ![s] = Tail(@)]
NextOp(s, op) == ~over[s] /\ chain[s] # <<>> /\ Head(chain[s]).op = op
Operation(op, desc) == [op |-> op, desc |-> desc]

\* terminate: the connection is closed.
mediaTerminate(s) ==
  /\ over' = [over EXCEPT ![s] = TRUE]
  /\ making' = [making EXCEPT ![s] = FALSE]
  /\ chain' = [chain EXCEPT ![s] = <<>>]

\* localDescription: the pending one, or the current one.
localDescription(s) == IF pend[s] # NoOffer THEN pend[s] ELSE cur[s]

-----------------------------------------------------------------------------
(* The users.                                                              *)

\* setScreensharingEnabled(true) and upgradeCall, up to the media.
openMedia(s, what) ==
  /\ ~over[s] /\ ~want[s][what] /\ what \notin todo[s] /\ Change
  /\ todo' = [todo EXCEPT ![s] = @ \cup {what}]
  /\ UNCHANGED <<want, mic, pcVars, making, void, over, sentVars, otherVars>>

\* pushLocalFeed, or addTrack.
mediaOpened(s, what) ==
  /\ ~over[s] /\ what \in todo[s]
  /\ todo' = [todo EXCEPT ![s] = @ \ {what}]
  /\ want' = [want EXCEPT ![s][what] = TRUE]
  /\ UNCHANGED <<mic, pcVars, making, void, over, sentVars, otherVars, left>>

\* The media could not be had: the call goes on as it was.
mediaRefused(s, what) ==
  /\ what \in todo[s]
  /\ todo' = [todo EXCEPT ![s] = @ \ {what}]
  /\ UNCHANGED <<want, mic, pcVars, making, void, over, sentVars, otherVars, left>>

\* setScreensharingEnabled(false).
stopScreensharing(s) ==
  /\ ~over[s] /\ want[s].screen /\ Change
  /\ want' = [want EXCEPT ![s].screen = FALSE]
  /\ UNCHANGED <<mic, pcVars, making, todo, void, over, sentVars, otherVars>>

setRemoteOnHold(s) ==
  /\ ~over[s] /\ Change
  /\ want' = [want EXCEPT ![s].hold = ~@]
  /\ mic' = mic
  /\ Send(s, "metadata", NoOffer)
  /\ UNCHANGED <<pcVars, making, todo, void, over, awaited, overtaken, otherVars>>

setMicrophoneMuted(s) ==
  /\ ~over[s] /\ Change
  /\ mic' = [mic EXCEPT ![s] = ~@]
  /\ Send(s, "metadata", NoOffer)
  /\ UNCHANGED <<want, pcVars, making, todo, void, over, awaited, overtaken, otherVars>>

-----------------------------------------------------------------------------
(* Our offer.                                                              *)

onNegotiationNeeded(s) ==
  /\ ~over[s] /\ chain[s] = <<>> /\ signal[s] = "stable"
  /\ ~asked[s] /\ agreed[s] # want[s]
  /\ asked' = [asked EXCEPT ![s] = TRUE]
  /\ making' = [making EXCEPT ![s] = TRUE]
  /\ chain' = [chain EXCEPT ![s] = <<Operation("createOffer", NoOffer)>>]
  /\ UNCHANGED <<want, mic, signal, pend, cur, agreed, todo, void, over, sentVars, otherVars,
                 left>>

createOffer(s) ==
  /\ NextOp(s, "createOffer")
  /\ Then(s, Operation("setLocal", Description("offer", want[s])))
  /\ UNCHANGED <<want, mic, signal, pend, cur, agreed, asked, making, todo, void, over,
                 sentVars, otherVars, left>>

\* gotLocalOffer: an offer that cannot be set ends the call.
setLocalOffer(s) ==
  /\ NextOp(s, "setLocal")
  /\ \/ /\ signal[s] # "remoteOffer"
        /\ signal' = [signal EXCEPT ![s] = "localOffer"]
        /\ pend' = [pend EXCEPT ![s] = Head(chain[s]).desc]
        /\ todo' = [todo EXCEPT ![s] = @ \cup {"wait"}]
        /\ ChainDone(s)
        /\ UNCHANGED <<making, over>>
     \/ /\ signal[s] = "remoteOffer"
        /\ mediaTerminate(s)
        /\ UNCHANGED <<signal, pend, todo>>
  /\ UNCHANGED <<want, mic, cur, agreed, asked, void, sentVars, otherVars, left>>

\* The 200 milliseconds for candidates are over, and the description there is
\* now is sent: the offer that is pending still.
sendOffer(s) ==
  /\ "wait" \in todo[s] /\ void[s] = 0
  /\ todo' = [todo EXCEPT ![s] = @ \ {"wait"}]
  /\ mic' = mic
  /\ IF over[s] THEN wire' = wire ELSE Send(s, "negotiate", localDescription(s))
  /\ UNCHANGED <<want, pcVars, making, void, over, awaited, overtaken, otherVars, left>>

\* The same when the offer has been rolled back: what is sent is the answer
\* that was given since, a later offer, or a description from before.
sendAgain(s) ==
  /\ void[s] > 0
  /\ void' = [void EXCEPT ![s] = @ - 1]
  /\ mic' = mic
  /\ IF over[s] THEN wire' = wire ELSE Send(s, "again", localDescription(s))
  /\ UNCHANGED <<want, pcVars, making, todo, over, awaited, overtaken, otherVars, left>>

-----------------------------------------------------------------------------
(* Requests.                                                               *)

\* The server has the event of the i-th request.
mediaArrive(s, i) ==
  /\ wire' = [wire EXCEPT ![s] = RemoveAt(@, i)]
  /\ awaited' = [awaited EXCEPT ![s] = IF IsAwaited(wire[s][i]) THEN @ + 1 ELSE @]
  /\ post' = [post EXCEPT ![Other(s)] = Append(@, wire[s][i])]
  /\ overtaken' = [overtaken EXCEPT ![s] = @ \/ i > 1]
  /\ UNCHANGED <<want, mic, sees, shows, pcVars, making, todo, void, over, mistaken, left>>

\* The request of an offer is answered.
offerSent(s) ==
  /\ awaited[s] > 0
  /\ awaited' = [awaited EXCEPT ![s] = @ - 1]
  /\ making' = [making EXCEPT ![s] = FALSE]
  /\ UNCHANGED <<want, mic, pcVars, todo, void, over, wire, overtaken, otherVars, left>>

\* It fails, before or after the event was taken: the call ends on this side.
offerLost(s) ==
  /\ left.losses > 0
  /\ left' = [left EXCEPT !.losses = @ - 1]
  /\ \/ /\ \E i \in DOMAIN wire[s] :
             /\ IsAwaited(wire[s][i])
             /\ wire' = [wire EXCEPT ![s] = RemoveAt(@, i)]
        /\ awaited' = awaited
     \/ /\ awaited[s] > 0
        /\ awaited' = [awaited EXCEPT ![s] = @ - 1]
        /\ wire' = wire
  /\ mediaTerminate(s)
  /\ UNCHANGED <<want, mic, signal, pend, cur, agreed, asked, todo, void, overtaken, otherVars>>

-----------------------------------------------------------------------------
(* The other side's events.                                                *)

offerCollision(s, m) == m.desc.type = "offer" /\ (making[s] \/ signal[s] # "stable")

\* Mutant: neither side gives way.
ignoreOffer_both(s, m) == offerCollision(s, m)

ignoreOffer(s, m) == s = "out" /\ offerCollision(s, m)

\* What onNegotiateReceived takes for something else.  A description sent
\* again is not what this side is waiting for; and when an earlier offer's
\* request is answered, makingOffer says no longer that one is being made.
Mistakes(s, m) ==
  \/ /\ m.kind = "again"
     /\ m.desc.type = "offer" \/ signal[s] # "stable" \/ chain[s] # <<>>
  \/ /\ s = "out" /\ m.desc.type = "offer"
     /\ \E i \in DOMAIN chain[s] : chain[s][i].op \in {"createOffer", "setLocal"}

\* onSDPStreamMetadataChangedReceived, and onNegotiateReceived up to its await.
receive(s) ==
  /\ post[s] # <<>>
  /\ LET m == Head(post[s])
         ignored == over[s] \/ ignoreOffer(s, m)
     IN /\ shows' = IF ignored THEN shows ELSE [shows EXCEPT ![s] = m.muted]
        /\ chain' = IF ignored \/ m.kind = "metadata" THEN chain
                    ELSE [chain EXCEPT ![s] = Append(@, Operation("setRemote", m.desc))]
        /\ mistaken' = [mistaken EXCEPT ![s] = @ \/ (~ignored /\ Mistakes(s, m))]
  /\ post' = [post EXCEPT ![s] = Tail(@)]
  /\ UNCHANGED <<want, mic, sees, signal, pend, cur, agreed, asked, making, todo, void, over,
                 sentVars, left>>

\* setRemoteDescription of an offer; one of our own is rolled back, and if it
\* has not been sent, it never will be.
setRemoteOffer(s) ==
  /\ NextOp(s, "setRemote") /\ Head(chain[s]).desc.type = "offer"
  /\ signal' = [signal EXCEPT ![s] = "remoteOffer"]
  /\ pend' = [pend EXCEPT ![s] = NoOffer]
  /\ sees' = [sees EXCEPT ![s] = Head(chain[s]).desc.media]
  /\ todo' = [todo EXCEPT ![s] = @ \ {"wait"}]
  /\ void' = [void EXCEPT ![s] = IF "wait" \in todo[s] THEN @ + 1 ELSE @]
  /\ Then(s, Operation("createAnswer", NoOffer))
  /\ UNCHANGED <<want, mic, shows, cur, agreed, asked, making, over, sentVars, post, mistaken,
                 left>>

\* setRemoteDescription of an answer; without an offer it is an error, and logged.
setRemoteAnswer(s) ==
  /\ NextOp(s, "setRemote") /\ Head(chain[s]).desc.type = "answer"
  /\ IF signal[s] # "localOffer" THEN UNCHANGED <<signal, pend, cur, agreed, asked, sees>>
     ELSE /\ signal' = [signal EXCEPT ![s] = "stable"]
          /\ cur' = [cur EXCEPT ![s] = pend[s]]
          /\ pend' = [pend EXCEPT ![s] = NoOffer]
          /\ agreed' = [agreed EXCEPT ![s] = pend[s].media]
          /\ asked' = [asked EXCEPT ![s] = FALSE]
          /\ sees' = [sees EXCEPT ![s].hold = Head(chain[s]).desc.media.hold]
  /\ ChainDone(s)
  /\ UNCHANGED <<want, mic, shows, making, todo, void, over, sentVars, post, mistaken, left>>

createAnswer(s) ==
  /\ NextOp(s, "createAnswer")
  /\ Then(s, Operation("setLocalAnswer", Description("answer", want[s])))
  /\ UNCHANGED <<want, mic, signal, pend, cur, agreed, asked, making, todo, void, over,
                 sentVars, otherVars, left>>

\* setLocalDescription of the answer, which is sent and not awaited.
setLocalAnswer(s) ==
  /\ NextOp(s, "setLocalAnswer")
  /\ ChainDone(s)
  /\ mic' = mic
  /\ IF signal[s] # "remoteOffer" THEN UNCHANGED <<signal, cur, agreed, asked, wire>>
     ELSE /\ signal' = [signal EXCEPT ![s] = "stable"]
          /\ cur' = [cur EXCEPT ![s] = Head(chain[s]).desc]
          /\ agreed' = [agreed EXCEPT ![s].hold = Head(chain[s]).desc.media.hold]
          /\ asked' = [asked EXCEPT ![s] = FALSE]
          /\ Send(s, "reply", Head(chain[s]).desc)
  /\ UNCHANGED <<want, pend, making, todo, void, over, awaited, overtaken, otherVars, left>>

-----------------------------------------------------------------------------
MediaNext ==
  \E s \in Sides :
    \/ \E what \in {"screen", "video"} :
         openMedia(s, what) \/ mediaOpened(s, what) \/ mediaRefused(s, what)
    \/ stopScreensharing(s) \/ setRemoteOnHold(s) \/ setMicrophoneMuted(s)
    \/ onNegotiationNeeded(s) \/ createOffer(s) \/ setLocalOffer(s)
    \/ sendOffer(s) \/ sendAgain(s)
    \/ (\E i \in DOMAIN wire[s] : mediaArrive(s, i)) \/ offerSent(s) \/ offerLost(s)
    \/ receive(s) \/ setRemoteOffer(s) \/ setRemoteAnswer(s)
    \/ createAnswer(s) \/ setLocalAnswer(s)

MediaSpec == MediaInit /\ [][MediaNext]_mediaVars

-----------------------------------------------------------------------------
(* Properties.                                                             *)

\* Every part of the state has its type.
MediaTypeOK ==
  /\ want \in [Sides -> Wants] /\ sees \in [Sides -> Wants] /\ agreed \in [Sides -> Wants]
  /\ mic \in [Sides -> BOOLEAN] /\ shows \in [Sides -> BOOLEAN] /\ making \in [Sides -> BOOLEAN]
  /\ signal \in [Sides -> {"stable", "localOffer", "remoteOffer"}]
  /\ \A s \in Sides : todo[s] \subseteq {"screen", "video", "wait"}

\* The call goes on, nothing is on its way, and no negotiation is due.
MediaQuiet ==
  \A s \in Sides :
    /\ ~over[s] /\ wire[s] = <<>> /\ awaited[s] = 0 /\ post[s] = <<>>
    /\ chain[s] = <<>> /\ todo[s] = {} /\ void[s] = 0
    /\ ~(signal[s] = "stable" /\ ~asked[s] /\ agreed[s] # want[s])

\* The server took the events of each side in the order they were sent, and no
\* description was taken for something else.
Orderly == \A s \in Sides : ~overtaken[s] /\ ~mistaken[s]

\* What onNegotiateReceived's rule for offers that cross is for.  When both
\* sides are quiet and stable each sees what the other wants to send; the
\* caller, whose offers win, is always stable then and always seen; and the
\* mute state shown is the other side's, unless its events were reordered.
\* (The callee's offer may be lost for good: see the README.)
NegotiationSettles ==
  /\ MediaTypeOK
  /\ MediaQuiet =>
       /\ Orderly /\ (\A s \in Sides : signal[s] = "stable") =>
            \A s \in Sides : sees[s] = want[Other(s)]
       /\ Orderly => signal["out"] = "stable" /\ sees["in"] = want["out"]
       /\ \A s \in Sides : overtaken[s] \/ shows[Other(s)] = mic[s]
=============================================================================
