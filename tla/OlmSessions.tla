---------------------------- MODULE OlmSessions ----------------------------
(***************************************************************************)
(* The Olm sessions of one device with the devices it talks to             *)
(* (crypto/olmlib.ts, crypto/OlmDevice.ts, crypto/algorithms/olm.ts and    *)
(* Crypto.onToDeviceBadEncrypted).                                         *)
(*                                                                         *)
(* sessions[d] is the store: the sessions with device d, and the one that  *)
(* most recently received a message (lastReceivedMessageTs; a session made *)
(* here counts as having received one).  marker[d] is the promise          *)
(* sessionsInProgress[d], named by the task that put it there.  A task is  *)
(* a call of ensureOlmSessionsForDevices: one that shares keys, or the     *)
(* forced one that mends a session on which a message of the peer could    *)
(* not be decrypted.  lost[d] are the sessions the peer can use no more.   *)
(***************************************************************************)
EXTENDS Naturals, Sequences, SequencesExt, FiniteSets

CONSTANTS Device, Task,
          MaxSessions,      \* bound: sessions made with one device
          OlmPlans          \* bounds of a run: calls, devices in one, failures, losses, prekeys

ASSUME OlmAssumption ==
    /\ MaxSessions \in Nat /\ "nobody" \notin Task
    /\ OlmPlans \subseteq [tasks : 0 .. Cardinality(Task), width : Nat, faults : Nat, losses : Nat,
                          prekeys : Nat]

VARIABLES sessions, made, marker, ensuring, lost, forcedAt, limited, sentOn,
          prekeys, unreadable, olmPlan, olmSpent

olmVars == <<sessions, made, marker, ensuring, lost, forcedAt, limited, sentOn, prekeys,
             unreadable, olmPlan, olmSpent>>

Nobody == "nobody"
NoSession == 0

\* A call not made yet.  `at` is what it waits for, `devices` those still to be looked
\* at, `on` the task whose promise it awaits, `without` the devices to claim keys for.
NewTask == [at |-> "new", devices |-> <<>>, on |-> Nobody, mends |-> FALSE,
            without |-> {}, starting |-> {}]

\* Every part of the state has its type.
OlmTypeOK ==
    /\ made \in [Device -> 0 .. MaxSessions]
    /\ \A d \in Device : /\ sessions[d].ids \subseteq 1 .. made[d]
                          /\ sessions[d].latest \in sessions[d].ids \cup {NoSession}
    /\ marker \in [Device -> Task \cup {Nobody}]
    /\ lost \in [Device -> SUBSET (1 .. MaxSessions)]
    /\ forcedAt \in [Device -> BOOLEAN] /\ limited \in [Device -> BOOLEAN]
    /\ sentOn \in [Device -> 0 .. MaxSessions]
    /\ olmSpent \in [faults : 0 .. olmPlan.faults, losses : 0 .. olmPlan.losses,
                  prekeys : 0 .. olmPlan.prekeys]

OlmInit ==
    /\ sessions = [d \in Device |-> [ids |-> {}, latest |-> NoSession]] /\ made = [d \in Device |-> 0]
    /\ marker = [d \in Device |-> Nobody]
    /\ ensuring = [t \in Task |-> NewTask]
    /\ lost = [d \in Device |-> {}]
    /\ forcedAt = [d \in Device |-> FALSE] /\ limited = [d \in Device |-> FALSE]
    /\ sentOn = [d \in Device |-> NoSession]
    /\ prekeys = <<>> /\ unreadable = 0
    /\ olmPlan \in OlmPlans
    /\ olmSpent = [faults |-> 0, losses |-> 0, prekeys |-> 0]

\* One of the bounded misfortunes of the plan.
spend(what) ==
    /\ olmSpent[what] < olmPlan[what]
    /\ olmSpent' = [olmSpent EXCEPT ![what] = @ + 1]

----------------------------------------------------------------------------
\* OlmDevice

\* getSessionIdForDevice: the session that most recently received a message.
getSessionIdForDevice(d) == sessions[d].latest

\* saveSession, a message having been received on s, or s having just been made.
saveSession(d, s) ==
    sessions' = [sessions EXCEPT ![d] = [ids |-> @.ids \cup {s}, latest |-> s]]

\* Whether a reader of d's sessions is held up by the promise under markers m; the task
\* that put the promise there is not (nowait).
heldUp(m, t, d) == m[d] \notin {Nobody, t}

\* resolveSession[key]() for the keys of ds that t itself had marked.
resolveSession(t, ds) ==
    [d \in Device |-> IF d \in ds /\ marker[d] = t THEN Nobody ELSE marker[d]]

----------------------------------------------------------------------------
\* ensureOlmSessionsForDevices

\* Task k turns to the first of the devices ds, the markers being m.
lookAt(t, k, ds, m) ==
    [k EXCEPT !.devices = ds,
              !.at = IF heldUp(m, t, Head(ds)) THEN "wait" ELSE "read",
              !.on = IF heldUp(m, t, Head(ds)) THEN m[Head(ds)] ELSE Nobody]

\* Mutant: no device is marked.
mark_nothing(t, ds) == marker

\* Every device of the call that is not in progress yet is marked, in one synchronous step.
mark(t, ds) ==
    [d \in Device |-> IF d \in Range(ds) /\ marker[d] = Nobody THEN t ELSE marker[d]]

ensureOlmSessionsForDevices(t, ds, mends) ==
    /\ ensuring[t].at = "new"
    /\ Cardinality({x \in Task : ensuring[x].at # "new"}) < olmPlan.tasks
    /\ marker' = mark(t, ds)
    /\ ensuring' = [ensuring EXCEPT ![t] = lookAt(t, [@ EXCEPT !.mends = mends], ds, marker')]

\* Key sharing calls it for the devices ds, in their order.
shareKeys(t, ds) ==
    /\ ensureOlmSessionsForDevices(t, ds, FALSE)
    /\ UNCHANGED <<sessions, made, lost, forcedAt, limited, sentOn, prekeys, unreadable, olmPlan,
                   olmSpent>>

\* The promise waited for was resolved: the store is read next, whoever has marked
\* the device since.
promiseResolved(t) ==
    /\ ensuring[t].at = "wait"
    /\ marker[Head(ensuring[t].devices)] # ensuring[t].on
    /\ ensuring' = [ensuring EXCEPT ![t].at = IF @ = "wait" THEN "read" ELSE @, ![t].on = Nobody]
    /\ UNCHANGED <<sessions, made, marker, lost, forcedAt, limited, sentOn, prekeys, unreadable,
                   olmPlan, olmSpent>>

\* The sessions of the next device have been read.
sessionInfoRead(t) ==
    LET d == Head(ensuring[t].devices)
        m == IF sessions[d].ids # {} THEN resolveSession(t, {d}) ELSE marker
        k == [ensuring[t] EXCEPT !.without =
                IF sessions[d].ids = {} \/ ensuring[t].mends THEN @ \cup {d} ELSE @] IN
    /\ ensuring[t].at = "read"
    /\ marker' = m
    /\ ensuring' = [ensuring EXCEPT ![t] =
                  IF Len(k.devices) > 1 THEN lookAt(t, k, Tail(k.devices), m)
                  ELSE [k EXCEPT !.at = IF k.without = {} THEN "done" ELSE "claim"]]
    /\ UNCHANGED <<sessions, made, lost, forcedAt, limited, sentOn, prekeys, unreadable, olmPlan,
                   olmSpent>>

\* The sessions of `left` are still being started under markers m.  When none is, the
\* call returns; a mending one notes that it forced a session now, and goes on to
\* choose the session of the message it sends on it.
goOn(t, left, m) ==
    LET k == ensuring[t] IN
    /\ ensuring' = [ensuring EXCEPT ![t] =
                  IF left # {} THEN [k EXCEPT !.at = "start", !.starting = left]
                  ELSE IF ~k.mends THEN [k EXCEPT !.at = "done", !.starting = {}]
                  ELSE IF heldUp(m, Nobody, Head(k.devices))
                       THEN [k EXCEPT !.at = "hold", !.starting = {}, !.on = m[Head(k.devices)]]
                       ELSE [k EXCEPT !.at = "send", !.starting = {}]]
    /\ forcedAt' = IF left = {} /\ k.mends THEN [forcedAt EXCEPT ![Head(k.devices)] = TRUE]
                   ELSE forcedAt

\* The claim answered, with keys of the devices `got`.
keysClaimed(t, got) ==
    LET k == ensuring[t] IN
    /\ k.at = "claim" /\ got \subseteq k.without
    /\ IF got = k.without THEN UNCHANGED olmSpent ELSE spend("faults")
    /\ marker' = resolveSession(t, k.without \ got)
    /\ goOn(t, got, marker')
    /\ UNCHANGED <<sessions, made, lost, limited, sentOn, prekeys, unreadable, olmPlan>>

\* Mutant: the markers stay when the claim fails.
claimFailed_keeps(t) ==
    /\ ensuring[t].at = "claim"
    /\ spend("faults")
    /\ ensuring' = [ensuring EXCEPT ![t].at = "done"]
    /\ UNCHANGED <<sessions, made, marker, lost, forcedAt, limited, sentOn, prekeys, unreadable,
                   olmPlan>>

\* The claim failed: every marker of the task goes, and the call throws.
claimFailed(t) ==
    /\ ensuring[t].at = "claim"
    /\ spend("faults")
    /\ marker' = resolveSession(t, Device)
    /\ ensuring' = [ensuring EXCEPT ![t].at = "done"]
    /\ UNCHANGED <<sessions, made, lost, forcedAt, limited, sentOn, prekeys, unreadable, olmPlan>>

\* _verifyKeyAndStartSession of d has ended: createOutboundSession made a session, or
\* the key was no good and there is none.
sessionStarted(t, d, good) ==
    /\ ensuring[t].at = "start" /\ d \in ensuring[t].starting
    /\ IF good
       THEN /\ made[d] < MaxSessions
            /\ made' = [made EXCEPT ![d] = @ + 1]
            /\ saveSession(d, made[d] + 1)
            /\ UNCHANGED olmSpent
       ELSE spend("faults") /\ UNCHANGED <<made, sessions>>
    /\ marker' = resolveSession(t, {d})
    /\ goOn(t, ensuring[t].starting \ {d}, marker')
    /\ UNCHANGED <<lost, limited, sentOn, prekeys, unreadable, olmPlan>>

----------------------------------------------------------------------------
\* onToDeviceBadEncrypted

\* The peer has lost its sessions, and a message of it on another one cannot be
\* decrypted: a new session is forced, unless one was forced within the last hour.
onToDeviceBadEncrypted(t, d) ==
    /\ spend("losses")
    /\ lost' = [lost EXCEPT ![d] = 1 .. made[d]]
    /\ IF forcedAt[d]
       THEN limited' = [limited EXCEPT ![d] = TRUE] /\ UNCHANGED <<marker, ensuring>>
       ELSE ensureOlmSessionsForDevices(t, <<d>>, TRUE) /\ UNCHANGED limited
    /\ UNCHANGED <<sessions, made, forcedAt, sentOn, prekeys, unreadable, olmPlan>>

\* encryptMessageForDevice too waits for the promise of a session in progress.
sendPromiseResolved(t) ==
    /\ ensuring[t].at = "hold"
    /\ marker[Head(ensuring[t].devices)] # ensuring[t].on
    /\ ensuring' = [ensuring EXCEPT ![t].at = "send", ![t].on = Nobody]
    /\ UNCHANGED <<sessions, made, marker, lost, forcedAt, limited, sentOn, prekeys, unreadable,
                   olmPlan, olmSpent>>

\* The blank message is encrypted on the best session there is, and sent.
encryptMessageForDevice(t) ==
    LET d == Head(ensuring[t].devices) IN
    /\ ensuring[t].at = "send"
    /\ sentOn' = [sentOn EXCEPT ![d] = getSessionIdForDevice(d)]
    /\ ensuring' = [ensuring EXCEPT ![t].at = "done"]
    /\ UNCHANGED <<sessions, made, marker, lost, forcedAt, limited, prekeys, unreadable, olmPlan,
                   olmSpent>>

----------------------------------------------------------------------------
\* OlmDecryption

\* A prekey message arrives, on a session the peer has just made, or on one of which
\* another prekey message is still waiting here; it joins the chain of olmPrekeyPromise.
prekeyArrives(d, again) ==
    LET s == IF again THEN made[d] ELSE made[d] + 1 IN
    /\ spend("prekeys")
    /\ IF again
       THEN (\E i \in DOMAIN prekeys : prekeys[i].from = d /\ prekeys[i].session = s)
            /\ UNCHANGED made
       ELSE made[d] < MaxSessions /\ made' = [made EXCEPT ![d] = s]
    /\ prekeys' = Append(prekeys, [from |-> d, session |-> s, at |-> "queued", on |-> Nobody])
    /\ UNCHANGED <<sessions, marker, ensuring, lost, forcedAt, limited, sentOn, unreadable,
                   olmPlan>>

\* Prekey messages are decrypted one after the other.
decryptMessageMay(i) == i = 1

leaveChain(i) == prekeys' = SubSeq(prekeys, 1, i - 1) \o SubSeq(prekeys, i + 1, Len(prekeys))

\* getSessionIdsForDevice: waits for a session in progress, then reads the store; the
\* message is tried with every session, and if it fits none it makes one.
reallyDecryptMessage(i) ==
    LET p == prekeys[i] IN
    /\ decryptMessageMay(i)
    /\ \/ /\ p.at = "queued" /\ heldUp(marker, Nobody, p.from)
          /\ prekeys' = [prekeys EXCEPT ![i].at = "wait", ![i].on = marker[p.from]]
          /\ UNCHANGED sessions
       \/ /\ \/ p.at = "queued" /\ ~heldUp(marker, Nobody, p.from)
             \/ p.at = "wait" /\ marker[p.from] # p.on
          /\ IF p.session \in sessions[p.from].ids
             THEN saveSession(p.from, p.session) /\ leaveChain(i)
             ELSE prekeys' = [prekeys EXCEPT ![i].at = "create"] /\ UNCHANGED sessions
    /\ UNCHANGED <<made, marker, ensuring, lost, forcedAt, limited, sentOn, unreadable, olmPlan,
                   olmSpent>>

\* createInboundSession uses up the one-time key of the message: the message cannot be
\* read when a session was made from that key before.
createInboundSession(i) ==
    LET p == prekeys[i] IN
    /\ p.at = "create"
    /\ leaveChain(i)
    /\ IF p.session \in sessions[p.from].ids
       THEN unreadable' = unreadable + 1 /\ UNCHANGED sessions
       ELSE saveSession(p.from, p.session) /\ UNCHANGED unreadable
    /\ UNCHANGED <<made, marker, ensuring, lost, forcedAt, limited, sentOn, olmPlan, olmSpent>>

----------------------------------------------------------------------------
\* Orders in which a call may list its devices.
Lists == {ds \in UNION {[1 .. n -> Device] : n \in 1 .. olmPlan.width} : IsInjective(ds)}

EnsureSteps(t) ==
    \/ promiseResolved(t) \/ sessionInfoRead(t)
    \/ \E got \in SUBSET Device : keysClaimed(t, got)
    \/ claimFailed(t)
    \/ \E d \in Device, good \in BOOLEAN : sessionStarted(t, d, good)
    \/ sendPromiseResolved(t) \/ encryptMessageForDevice(t)

Decryption == \E i \in DOMAIN prekeys : reallyDecryptMessage(i) \/ createInboundSession(i)

OlmNext ==
    \/ \E t \in Task :
         \/ \E ds \in Lists : shareKeys(t, ds)
         \/ \E d \in Device : onToDeviceBadEncrypted(t, d)
         \/ EnsureSteps(t)
    \/ \E d \in Device, again \in BOOLEAN : prekeyArrives(d, again)
    \/ Decryption

OlmSpec == OlmInit /\ [][OlmNext]_olmVars

----------------------------------------------------------------------------
(* Properties.                                                             *)

Ended(t) == ensuring[t].at \in {"new", "done"}

\* "otherwise it is possible to have deadlocks": every call of
\* ensureOlmSessionsForDevices returns, however the calls mark the devices they
\* share and wait for each other's promises.
TasksEnd == \A t \in Task : ensuring[t].at # "new" ~> Ended(t)

\* A promise in sessionsInProgress is that of a call which is still at work.
NoStrayMarker == \A d \in Device : marker[d] # Nobody => ~Ended(marker[d])

\* Calls made together do not start two sessions with one device, as long as
\* nothing fails and the peer starts none.
OneSessionEach ==
    olmSpent.faults + olmSpent.losses + olmSpent.prekeys = 0 => \A d \in Device : made[d] <= 1

\* No one-time key is used up by one of two prekey messages of the same session.
PrekeysAreRead == unreadable = 0

\* The session the next message would be encrypted on is one the peer has lost.
Wedged(d) == sessions[d].ids # {} /\ getSessionIdForDevice(d) \in lost[d]

\* When the calls have returned, the session in use is one the peer has, and the
\* message that tells it of the new session went out on such a one; unless a new
\* session was refused for having been forced within the hour.
WedgeIsMended ==
    \A d \in Device :
      (\A t \in Task : Ended(t)) /\ ~limited[d] /\ olmSpent.faults = 0 /\ olmPlan.prekeys = 0
        => ~Wedged(d) /\ sentOn[d] \notin lost[d]

\* No stray promise, no duplicate session, no prekey message made unreadable, and
\* a wedged session mended.
SessionsAreSound ==
    /\ OlmTypeOK /\ NoStrayMarker /\ OneSessionEach /\ PrekeysAreRead
    /\ WedgeIsMended
=============================================================================
