---------------------------- MODULE MegolmInbound ----------------------------
(***************************************************************************)
(* Decryption of room events: megolm.ts (MegolmDecryption), the loop of    *)
(* event.ts around it, and the inbound group sessions of OlmDevice.ts.     *)
(*                                                                         *)
(* All events are of one sender device, in one room.  A session's key is   *)
(* known from an index on.  A store transaction and the code that runs     *)
(* when it completes are one step.                                         *)
(***************************************************************************)
EXTENDS Integers, FiniteSets

CONSTANTS
  Event, Session,
  SessionOf,     \* [Event -> Session]: session_id of an event
  IndexOf,       \* [Event -> Nat]: message index of its ciphertext
  WrongRoom,     \* events whose payload names another room
  MaxIndex,
  MaxKeys,       \* keys that arrive
  MaxProblems,   \* olm problems with the sender
  MaxErrors,     \* reads of the store that fail
  NoEvent

ASSUME MegolmInboundAssumption ==
  /\ SessionOf \in [Event -> Session] /\ IndexOf \in [Event -> Nat]
  /\ WrongRoom \subseteq Event /\ NoEvent \notin Event
  /\ MaxIndex \in Nat /\ \A e \in Event : IndexOf[e] <= MaxIndex
  /\ {MaxKeys, MaxProblems, MaxErrors} \subseteq Nat

VARIABLES
  known,      \* first_known_index of each stored session
  withheld,   \* sessions with a withheld record
  indexSeen,  \* inboundGroupSessionMessageIndexes
  pending,    \* pendingEvents
  est,        \* what the event's decryption loop is doing
  flag,       \* retryDecryption of each event
  batches,    \* runs of retryDecryption that wait for their events
  requested,  \* sessions whose key is requested
  inboundUsed

inboundVars == <<known, withheld, indexSeen, pending, est, flag, batches, requested, inboundUsed>>

Index == 0..MaxIndex
NoKey == MaxIndex + 1
Slot(e) == <<SessionOf[e], IndexOf[e]>>
Busy(e) == est[e] \in {"txn", "problems"}
Readable(e) == known[SessionOf[e]] <= IndexOf[e]
Duplicate(e) == indexSeen[Slot(e)] \notin {NoEvent, e}
SpendInbound(b) == inboundUsed' = [inboundUsed EXCEPT ![b] = @ + 1]

InboundInit ==
  /\ known = [s \in Session |-> NoKey] /\ withheld = {}
  /\ indexSeen = [x \in Session \X Index |-> NoEvent]
  /\ pending = {} /\ est = [e \in Event |-> "new"] /\ flag = [e \in Event |-> FALSE]
  /\ batches = {} /\ requested = {}
  /\ inboundUsed = [keys |-> 0, problems |-> 0, errors |-> 0]

-----------------------------------------------------------------------------
(* Pieces that several handlers share.                                     *)

addEventsToPendingList(rest, S) == rest \cup S
removeEventFromPendingList(e) == pending \ {e}

\* Mutant: retryDecryption is not noted.
attemptDecryption_no_flag(S, rest) ==
  LET begun == {e \in S : ~Busy(e) /\ est[e] # "clear"} IN
  /\ est' = [e \in Event |-> IF e \in begun THEN "txn" ELSE est[e]]
  /\ flag' = [e \in Event |-> flag[e] /\ e \notin begun]
  /\ pending' = addEventsToPendingList(rest, begun)

\* attemptDecryption of each event of S; rest are the events that stay pending.
attemptDecryption(S, rest) ==
  LET begun == {e \in S : ~Busy(e) /\ est[e] # "clear"} IN
  /\ est' = [e \in Event |-> IF e \in begun THEN "txn" ELSE est[e]]
  /\ flag' = [e \in Event |-> e \notin begun /\ (flag[e] \/ (e \in S /\ Busy(e)))]
  /\ pending' = addEventsToPendingList(rest, begun)

\* The loop of e ends with the result r, with rest pending, after the session
\* asked was requested: the batches that waited for e alone are done.
\* retryDecryption looks up a Map by [], which finds nothing: it is always a success.
EndLoop(e, r, rest, asked) ==
  LET left == {[b EXCEPT !.wait = @ \ {e}] : b \in batches}
      finished == {b \in left : b.wait = {}} IN
  /\ est' = [est EXCEPT ![e] = r] /\ flag' = [flag EXCEPT ![e] = FALSE]
  /\ pending' = rest
  /\ batches' = left \ finished
  /\ requested' = (requested \cup asked) \ {b.session : b \in finished}

\* Mutant: the event is forgotten with the error.
DecryptionError_dropped(e, rest, asked) ==
  \/ /\ flag[e]
     /\ est' = [est EXCEPT ![e] = "txn"] /\ flag' = [flag EXCEPT ![e] = FALSE]
     /\ pending' = rest
     /\ requested' = requested \cup asked
     /\ UNCHANGED batches
  \/ ~flag[e] /\ EndLoop(e, "bad", rest, asked)

\* A DecryptionError in the loop of e: once more when a retry is queued.
DecryptionError(e, rest, asked) ==
  \/ /\ flag[e]
     /\ est' = [est EXCEPT ![e] = "txn"] /\ flag' = [flag EXCEPT ![e] = FALSE]
     /\ pending' = addEventsToPendingList(rest, {e})
     /\ requested' = requested \cup asked
     /\ UNCHANGED batches
  \/ ~flag[e] /\ EndLoop(e, "bad", rest, asked)

-----------------------------------------------------------------------------
(* An event's decryption.                                                  *)

\* decryptEventIfNeeded, decryptAllEvents, decryptCriticalEvents.
decryptEventIfNeeded(e) ==
  /\ est[e] \in {"new", "error"}
  /\ attemptDecryption({e}, pending)
  /\ UNCHANGED <<known, withheld, indexSeen, batches, requested, inboundUsed>>

\* decryptGroupMessage without a key for the message.
NoKeyForMessage(e) ==
  /\ est[e] = "txn" /\ ~Readable(e)
  /\ \/ /\ SessionOf[e] \in withheld
        /\ DecryptionError(e, pending, {})
     \/ /\ SessionOf[e] \notin withheld /\ known[SessionOf[e]] = NoKey
        /\ est' = [est EXCEPT ![e] = "problems"]
        /\ requested' = requested \cup {SessionOf[e]}
        /\ UNCHANGED <<pending, flag, batches>>
     \/ /\ SessionOf[e] \notin withheld /\ known[SessionOf[e]] # NoKey
        /\ DecryptionError(e, pending, {SessionOf[e]})
  /\ UNCHANGED <<known, withheld, indexSeen, inboundUsed>>

\* Mutant: the index is not compared.
decryptGroupMessage_replay(e) ==
  /\ est[e] = "txn" /\ Readable(e)
  /\ indexSeen' = [indexSeen EXCEPT ![Slot(e)] = e]
  /\ IF e \in WrongRoom
     THEN DecryptionError(e, removeEventFromPendingList(e), {})
     ELSE EndLoop(e, "clear", removeEventFromPendingList(e), {})
  /\ UNCHANGED <<known, withheld, inboundUsed>>

\* decryptGroupMessage with a key.
decryptGroupMessage(e) ==
  /\ est[e] = "txn" /\ Readable(e)
  /\ \/ /\ Duplicate(e)
        /\ DecryptionError(e, pending, {})
        /\ UNCHANGED indexSeen
     \/ /\ ~Duplicate(e)
        /\ indexSeen' = [indexSeen EXCEPT ![Slot(e)] = e]
        /\ IF e \in WrongRoom
           THEN DecryptionError(e, removeEventFromPendingList(e), {})
           ELSE EndLoop(e, "clear", removeEventFromPendingList(e), {})
  /\ UNCHANGED <<known, withheld, inboundUsed>>

\* sessionMayHaveProblems is answered, or its read fails; the latter is no
\* DecryptionError and ends the loop without a result.
sessionMayHaveProblems(e) ==
  /\ est[e] = "problems"
  /\ \/ DecryptionError(e, pending, {}) /\ UNCHANGED inboundUsed
     \/ /\ inboundUsed.errors < MaxErrors /\ SpendInbound("errors")
        /\ EndLoop(e, "error", pending, {})
  /\ UNCHANGED <<known, withheld, indexSeen>>

-----------------------------------------------------------------------------
(* Keys and messages about keys.                                           *)

\* Mutant: the latest copy of a key wins.
addInboundGroupSession_latest(s, i) == known' = [known EXCEPT ![s] = i]

\* addInboundGroupSession: a key only replaces one that begins later.
addInboundGroupSession(s, i) ==
  known' = [known EXCEPT ![s] = IF @ <= i THEN @ ELSE i]

retryDecryption(s) == attemptDecryption({e \in pending : SessionOf[e] = s}, pending)

onRoomKeyEvent(s, i) ==
  /\ inboundUsed.keys < MaxKeys /\ SpendInbound("keys")
  /\ addInboundGroupSession(s, i)
  /\ retryDecryption(s)
  /\ LET wait == {e \in pending : SessionOf[e] = s} IN
     IF wait = {}
     THEN requested' = requested \ {s} /\ UNCHANGED batches
     ELSE batches' = batches \cup {[session |-> s, wait |-> wait]} /\ UNCHANGED requested
  /\ UNCHANGED <<withheld, indexSeen>>

importRoomKey(s, i) ==
  /\ inboundUsed.keys < MaxKeys /\ SpendInbound("keys")
  /\ addInboundGroupSession(s, i)
  /\ retryDecryption(s)
  /\ UNCHANGED <<withheld, indexSeen, batches, requested>>

\* onRoomKeyWithheldEvent, but for the code m.no_olm.
onRoomKeyWithheldEvent(s) ==
  /\ s \notin withheld
  /\ withheld' = withheld \cup {s}
  /\ UNCHANGED <<known, indexSeen, pending, est, flag, batches, requested, inboundUsed>>

\* onRoomKeyWithheldEvent with m.no_olm, onToDeviceBadEncrypted.
retryDecryptionFromSender ==
  /\ inboundUsed.problems < MaxProblems /\ SpendInbound("problems")
  /\ attemptDecryption(pending, {})
  /\ UNCHANGED <<known, withheld, indexSeen, batches, requested>>

-----------------------------------------------------------------------------
LoopStep(e) == NoKeyForMessage(e) \/ decryptGroupMessage(e) \/ sessionMayHaveProblems(e)

InboundNext ==
  \/ \E e \in Event : decryptEventIfNeeded(e) \/ LoopStep(e)
  \/ \E s \in Session, i \in Index : onRoomKeyEvent(s, i) \/ importRoomKey(s, i)
  \/ \E s \in Session : onRoomKeyWithheldEvent(s)
  \/ retryDecryptionFromSender

InboundSpec == InboundInit /\ [][InboundNext]_inboundVars

\* The store answers, and promises are followed up.
FairInboundSpec == InboundSpec /\ \A e \in Event : WF_inboundVars(LoopStep(e))

-----------------------------------------------------------------------------
InboundTypeOK ==
  /\ known \in [Session -> 0..NoKey] /\ withheld \subseteq Session
  /\ indexSeen \in [Session \X Index -> Event \cup {NoEvent}]
  /\ pending \subseteq Event
  /\ est \in [Event -> {"new", "txn", "problems", "bad", "clear", "error"}]
  /\ flag \in [Event -> BOOLEAN]
  /\ batches \subseteq [session : Session, wait : SUBSET Event]
  /\ requested \subseteq Session
  /\ inboundUsed \in [keys : Nat, problems : Nat, errors : Nat]

\* "if the key turns up while decryption is in progress (and decryption fails),
\* we will schedule a retry": an event is given up only when its key is not
\* there, however keys, problems and the event's own attempts interleave.
NoMissedKey ==
  \A e \in Event : est[e] = "bad" /\ Readable(e) => e \in WrongRoom \/ Duplicate(e)

\* An event that was given up waits for its key, whatever dropped it from the
\* pending events in between.
GivenUpIsPending == \A e \in Event : est[e] = "bad" => e \in pending \/ e \in WrongRoom

\* No two events are shown for one index of a session.
NoReplay ==
  \A e, f \in Event : est[e] = "clear" /\ est[f] = "clear" /\ Slot(e) = Slot(f) => e = f

\* What could be decrypted once can be decrypted again, after a reload say: no
\* later key takes its place.
DecryptedStaysReadable == \A e \in Event : est[e] = "clear" => Readable(e)

\* Once its key is there, an event that has been looked at is decrypted, unless
\* the store fails.
KeyDecrypts ==
  \A e \in Event : est[e] # "new" /\ Readable(e)
    ~> est[e] \in {"clear", "error"} \/ e \in WrongRoom \/ Duplicate(e)

\* "Only do this if we managed to decrypt every message in the session, because if
\* we didn't, we leave the other key requests": an event without its key has a
\* request, unless its key is withheld.
UndecryptedIsRequested ==
  \A e \in Event : est[e] = "bad" /\ ~Readable(e) => SessionOf[e] \in requested \cup withheld
=============================================================================
