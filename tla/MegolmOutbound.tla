--------------------------- MODULE MegolmOutbound ---------------------------
(***************************************************************************)
(* Encryption of room events in megolm.ts (MegolmEncryption): outbound     *)
(* group sessions are set up one after the other, their keys are shared    *)
(* with the devices in the room by several requests at once, partly in the *)
(* background, and rotated when a device may no longer read.               *)
(*                                                                         *)
(* Devices stand for pairs of user and device.  Promise reactions run      *)
(* before anything else (Settled): the next set-up begins, then the call   *)
(* whose set-up is done encrypts its message.                              *)
(***************************************************************************)
EXTENDS Integers, Sequences, FiniteSets

CONSTANTS
  Device,
  Call,           \* calls of encryptMessage that may overlap
  Prep,           \* the call made by prepareToEncrypt
  NoCall,         \* owner of work in the background
  RotationMsgs,   \* sessionRotationPeriodMsgs
  MaxSessions, MaxMessages,
  MaxChanges,     \* changes of the room's devices
  MaxFailures,    \* requests that fail
  MaxNoOlm,       \* claims that leave devices without an olm session
  MaxDiscards,    \* calls of forceDiscardSession
  MaxPreps,       \* calls of prepareToEncrypt
  MaxReshares,    \* calls of reshareKeyWithDevice
  MaxOld          \* sessions replaced for their age or their history visibility

ASSUME MegolmOutboundAssumption ==
  /\ Prep \notin Call /\ NoCall \notin Call \cup {Prep} /\ "discard" \notin Call \cup {Prep}
  /\ IsFiniteSet(Call)
  /\ RotationMsgs \in Nat \ {0}
  /\ {MaxSessions, MaxMessages, MaxChanges, MaxFailures, MaxNoOlm, MaxDiscards, MaxPreps,
      MaxReshares, MaxOld} \subseteq Nat

VARIABLES
  room,       \* external: what each device is to the room
  olm,        \* devices we have an olm session with
  pc,         \* where each call is
  want,       \* devicesInRoom of each call
  blocked,    \* blocked devices of each call
  sess,       \* session of each call
  need,       \* history: discards requested when the call began
  chain,      \* set-ups that hang on setupPromise
  cur,        \* the session the last of them left
  index,      \* message index of each session: as many have been encrypted
  born,       \* history: discards done when the session was created
  shared,     \* sharedWithDevices of each session: index, by device
  notified,   \* blockedDevicesNotified of each session
  holds,      \* external: the index from which a device can read a session
  jobs,       \* parts of ensureOutboundSession that are under way
  msgs,       \* history: messages encrypted
  used

callVars == <<pc, want, blocked, sess, need>>
setupVars == <<chain, cur, index, born>>
shareVars == <<shared, notified, holds>>
vars == <<room, olm, callVars, setupVars, shareVars, jobs, msgs, used>>

AllCalls == Call \cup {Prep}
Discard == "discard"
None == -1
NoSession == 0
Sessions == 1..Len(index)
Spend(b) == used' = [used EXCEPT ![b] = @ + 1]
Fail == used.failures < MaxFailures /\ Spend("failures")

Init ==
  /\ room \in [Device -> {"in", "out"}] /\ olm \in SUBSET Device
  /\ pc = [c \in AllCalls |-> "idle"]
  /\ want = [c \in AllCalls |-> {}] /\ blocked = [c \in AllCalls |-> {}]
  /\ sess = [c \in AllCalls |-> NoSession] /\ need = [c \in AllCalls |-> 0]
  /\ chain = <<>> /\ cur = NoSession /\ index = <<>> /\ born = <<>>
  /\ shared = <<>> /\ notified = <<>> /\ holds = <<>>
  /\ jobs = {} /\ msgs = {}
  /\ used = [changes |-> 0, failures |-> 0, noOlm |-> 0, asked |-> 0, discarded |-> 0,
             preps |-> 0, reshares |-> 0, old |-> 0]

\* No promise reaction is waiting.
Settled ==
  /\ \A c \in Call : pc[c] # "ready"
  /\ chain # <<>> => Head(chain) # Discard /\ pc[Head(chain)] # "queued"
  /\ \A j \in jobs : j.stage = "share" => j.todo # {}

-----------------------------------------------------------------------------
(* Calls.                                                                  *)

encryptMessage(c) ==
  /\ Settled /\ pc[c] = "idle" /\ Cardinality(msgs) < MaxMessages
  /\ pc' = [pc EXCEPT ![c] = IF pc[Prep] = "idle" THEN "devices" ELSE "waitPrep"]
  /\ need' = [need EXCEPT ![c] = used.asked]
  /\ UNCHANGED <<room, olm, want, blocked, sess, setupVars, shareVars, jobs, msgs, used>>

prepareToEncrypt ==
  /\ Settled /\ pc[Prep] = "idle" /\ used.preps < MaxPreps /\ Spend("preps")
  /\ pc' = [pc EXCEPT ![Prep] = "devices"]
  /\ UNCHANGED <<room, olm, want, blocked, sess, need, setupVars, shareVars, jobs, msgs>>

\* The state of the calls when c has ended: those that wait for the preparation go on.
Ended(c) ==
  [d \in AllCalls |-> IF d = c THEN "idle"
                      ELSE IF c = Prep /\ pc[d] = "waitPrep" THEN "devices" ELSE pc[d]]

\* getDevicesInRoom, and ensureOutboundSession up to its first wait.
getDevicesInRoom(c) ==
  /\ Settled /\ pc[c] = "devices"
  /\ \/ /\ pc' = [pc EXCEPT ![c] = "queued"]
        /\ want' = [want EXCEPT ![c] = {d \in Device : room[d] = "in"}]
        /\ blocked' = [blocked EXCEPT ![c] = {d \in Device : room[d] = "blocked"}]
        /\ chain' = Append(chain, c)
        /\ UNCHANGED used
     \/ Fail /\ pc' = Ended(c) /\ UNCHANGED <<want, blocked, chain>>
  /\ UNCHANGED <<room, olm, sess, need, cur, index, born, shareVars, jobs, msgs>>

forceDiscardSession ==
  /\ Settled /\ used.asked < MaxDiscards /\ Spend("asked")
  /\ chain' = Append(chain, Discard)
  /\ UNCHANGED <<room, olm, callVars, cur, index, born, shareVars, jobs, msgs>>

\* Mutant: the session set up last stays.
DiscardSession_keeps ==
  /\ chain # <<>> /\ Head(chain) = Discard
  /\ chain' = Tail(chain)
  /\ Spend("discarded")
  /\ UNCHANGED <<room, olm, callVars, cur, index, born, shareVars, jobs, msgs>>

DiscardSession ==
  /\ chain # <<>> /\ Head(chain) = Discard
  /\ chain' = Tail(chain) /\ cur' = NoSession
  /\ Spend("discarded")
  /\ UNCHANGED <<room, olm, callVars, index, born, shareVars, jobs, msgs>>

-----------------------------------------------------------------------------
(* Set-up of a session.                                                    *)

needsRotation(s) == index[s] >= RotationMsgs
\* Mutant: nobody is looked for who should not have the key.
sharedWithTooManyDevices_not(s, devices) == FALSE

sharedWithTooManyDevices(s, devices) == \E d \in Device \ devices : shared[s][d] # None

Job(c, kind, stage, s, todo) ==
  [call |-> c, kind |-> kind, stage |-> stage, session |-> s, index |-> index'[s],
   todo |-> todo, errs |-> {}, down |-> {}]

\* The parts of prepareSession for the session s of call c, given what it is
\* shared with and who was told; without any, the set-up is done.
share(c, s, with, told) ==
  LET shareMap == {d \in want[c] : with[d] = None}
      parts == {Job(c, "existing", "share", s, shareMap \cap olm),
                Job(c, "new", "claim", s, shareMap \ olm),
                Job(c, "blocked", "notify", s, blocked[c] \ told)} IN
  /\ sess' = [sess EXCEPT ![c] = s]
  /\ jobs' = jobs \cup {j \in parts : j.todo # {}}
  /\ IF \A j \in parts : j.todo = {}
     THEN /\ pc' = IF c = Prep THEN Ended(c) ELSE [pc EXCEPT ![c] = "ready"]
          /\ chain' = Tail(chain) /\ cur' = s
     ELSE /\ pc' = [pc EXCEPT ![c] = "sharing"]
          /\ UNCHANGED <<chain, cur>>

MustRenew(c) ==
  cur # NoSession => needsRotation(cur) \/ sharedWithTooManyDevices(cur, want[c])

\* A session that is old, or made for another history visibility, is replaced too.
prepareSession(c) ==
  /\ pc[c] = "queued" /\ chain # <<>> /\ Head(chain) = c
  /\ \/ /\ ~MustRenew(c)
        /\ UNCHANGED <<index, used>>
        /\ share(c, cur, shared[cur], notified[cur])
     \/ /\ \/ MustRenew(c) /\ UNCHANGED used
           \/ ~MustRenew(c) /\ used.old < MaxOld /\ Spend("old")
        /\ pc' = [pc EXCEPT ![c] = "creating"] /\ UNCHANGED <<sess, jobs, chain, cur, index>>
  /\ UNCHANGED <<room, olm, want, blocked, need, born, shareVars, msgs>>

prepareNewSession(c) ==
  /\ Settled /\ pc[c] = "creating"
  /\ \/ /\ Len(index) < MaxSessions
        /\ LET s == Len(index) + 1
               nobody == [d \in Device |-> None] IN
           /\ index' = Append(index, 0) /\ born' = Append(born, used.discarded)
           /\ shared' = Append(shared, nobody) /\ holds' = Append(holds, nobody)
           /\ notified' = Append(notified, {})
           /\ share(c, s, nobody, {})
        /\ UNCHANGED used
     \/ /\ Fail
        /\ pc' = Ended(c) /\ chain' = Tail(chain) /\ cur' = NoSession
        /\ UNCHANGED <<sess, index, born, shareVars, jobs>>
  /\ UNCHANGED <<room, olm, want, blocked, need, msgs>>

\* The rest of encryptMessage.
encryptGroupMessage(c) ==
  /\ pc[c] = "ready"
  /\ chain # <<>> => Head(chain) # Discard /\ pc[Head(chain)] # "queued"
  /\ msgs' = msgs \cup {[session |-> sess[c], index |-> index[sess[c]], to |-> want[c],
                         need |-> need[c]]}
  /\ index' = [index EXCEPT ![sess[c]] = @ + 1]
  /\ pc' = [pc EXCEPT ![c] = "idle"]
  /\ UNCHANGED <<room, olm, want, blocked, sess, need, chain, cur, born, shareVars, jobs, used>>

-----------------------------------------------------------------------------
(* The parts of a set-up.                                                  *)

\* The part j goes on as the parts in next; with its last part a set-up is done.
Becomes(j, next) ==
  LET left == (jobs \ {j}) \cup next IN
  /\ jobs' = left
  /\ IF j.call = NoCall \/ \E k \in left : k.call = j.call
     THEN UNCHANGED <<pc, chain, cur>>
     ELSE /\ pc' = IF j.call = Prep THEN Ended(Prep) ELSE [pc EXCEPT ![j.call] = "ready"]
          /\ chain' = Tail(chain) /\ cur' = j.session

\* The part j fails, and with it its set-up; the other parts go on.
Fails(j) ==
  /\ Fail
  /\ IF j.call = NoCall
     THEN /\ jobs' = (jobs \ {j}) \cup {[j EXCEPT !.stage = "failed"]}
          /\ UNCHANGED <<pc, chain, cur>>
     ELSE /\ jobs' = {IF k.call = j.call THEN [k EXCEPT !.call = NoCall] ELSE k : k \in jobs \ {j}}
          /\ pc' = Ended(j.call) /\ chain' = Tail(chain) /\ cur' = j.session

Rest == UNCHANGED <<room, want, blocked, sess, need, index, born, msgs>>

Marked(s, devs, i) ==
  shared' = [shared EXCEPT ![s] = [d \in Device |-> IF d \in devs THEN i ELSE @[d]]]
Delivered(s, devs, i) ==
  holds' = [holds EXCEPT ![s] =
              [d \in Device |-> IF d \in devs /\ (@[d] = None \/ i < @[d]) THEN i ELSE @[d]]]

\* encryptAndSendKeysToDevices, with a slice of the devices of splitDevices; a
\* request that fails may have been delivered.
encryptAndSendKeysToDevices(j) ==
  /\ Settled /\ j.stage = "share"
  /\ \E slice \in SUBSET j.todo \ {{}} :
       \/ /\ Delivered(j.session, slice, j.index) /\ Marked(j.session, slice, j.index)
          /\ Becomes(j, {[j EXCEPT !.todo = @ \ slice]})
          /\ UNCHANGED used
       \/ /\ Fails(j)
          /\ Delivered(j.session, slice, j.index) \/ UNCHANGED holds
          /\ UNCHANGED shared
  /\ UNCHANGED <<olm, notified>> /\ Rest

\* ensureOlmSessionsForDevices in shareKeyWithDevices: got have a session now, the
\* servers of down did not answer.
ensureOlmSessionsForDevices(j) ==
  /\ Settled /\ j.stage = "claim"
  /\ \/ \E got \in SUBSET j.todo :
          /\ \/ got = j.todo /\ UNCHANGED used
             \/ got # j.todo /\ used.noOlm < MaxNoOlm /\ Spend("noOlm")
          /\ \E down \in SUBSET (j.todo \ got) :
               Becomes(j, {[j EXCEPT !.stage = "share", !.todo = got, !.down = down,
                                     !.errs = @ \cup (j.todo \ got)]})
          /\ olm' = olm \cup got
     \/ Fails(j) /\ UNCHANGED olm
  /\ UNCHANGED shareVars /\ Rest

\* notifyFailedOlmDevices begins: its devices count as served from here on.
Handled(j, devs) ==
  /\ Marked(j.session, devs, j.index)
  /\ UNCHANGED holds
Notify(j, devs) == [j EXCEPT !.stage = "notify", !.todo = devs, !.errs = {}, !.down = {}]

\* Mutant: nothing is noted of what was sent.
KeysSent_forgets(j) ==
  /\ j.stage = "share" /\ j.todo = {}
  /\ Becomes(j, {}) /\ UNCHANGED <<shared, holds>>
  /\ UNCHANGED <<olm, notified, used>> /\ Rest

\* The keys are sent: devices without a session are told, after a second try in
\* the background unless there is just one phase or the first took too long.
KeysSent(j) ==
  /\ j.stage = "share" /\ j.todo = {}
  /\ \/ j.errs = {} /\ Becomes(j, {}) /\ UNCHANGED <<shared, holds>>
     \/ /\ j.errs # {} /\ j.kind \in {"new", "retry"}
        /\ Handled(j, j.errs) /\ Becomes(j, {Notify(j, j.errs)})
     \/ /\ j.errs # {} /\ j.kind = "new" /\ j.call # Prep /\ j.down = {}
        /\ Handled(j, j.errs)
        /\ Becomes(j, {[Notify(j, j.errs) EXCEPT !.call = NoCall]})
     \/ /\ j.kind = "new" /\ j.call # Prep /\ j.down # {}
        /\ Becomes(j, {[j EXCEPT !.call = NoCall, !.kind = "retry", !.stage = "claim",
                                 !.todo = j.down, !.errs = @ \ j.down, !.down = {}]})
        /\ UNCHANGED <<shared, holds>>
  /\ UNCHANGED <<olm, notified, used>> /\ Rest

\* notifyBlockedDevices, for blocked devices and for those without a session.
notifyBlockedDevices(j) ==
  /\ Settled /\ j.stage = "notify"
  /\ \/ /\ notified' = [notified EXCEPT ![j.session] = @ \cup j.todo]
        /\ Becomes(j, {}) /\ UNCHANGED used
     \/ Fails(j) /\ UNCHANGED notified
  /\ UNCHANGED <<olm, shared, holds>> /\ Rest

\* reshareKeyWithDevice: from the index it was shared with.
reshareKeyWithDevice(s, d) ==
  /\ Settled /\ used.reshares < MaxReshares /\ Spend("reshares")
  /\ shared[s][d] # None
  /\ Delivered(s, {d}, shared[s][d])
  /\ olm' = olm \cup {d}
  /\ UNCHANGED <<shared, notified, pc, chain, cur, jobs>> /\ Rest

\* External: a device joins, leaves, is blocked or unblocked.
DeviceChanges(d) ==
  /\ Settled /\ used.changes < MaxChanges /\ Spend("changes")
  /\ \E r \in {"in", "out", "blocked"} \ {room[d]} : room' = [room EXCEPT ![d] = r]
  /\ UNCHANGED <<olm, callVars, setupVars, shareVars, jobs, msgs>>

-----------------------------------------------------------------------------
JobStep(j) ==
  \/ encryptAndSendKeysToDevices(j) \/ ensureOlmSessionsForDevices(j) \/ KeysSent(j)
  \/ notifyBlockedDevices(j)

CallStep(c) == getDevicesInRoom(c) \/ prepareSession(c) \/ prepareNewSession(c)

Next ==
  \/ \E c \in Call : encryptMessage(c) \/ encryptGroupMessage(c)
  \/ prepareToEncrypt
  \/ \E c \in AllCalls : CallStep(c)
  \/ forceDiscardSession \/ DiscardSession
  \/ \E j \in jobs : JobStep(j)
  \/ \E s \in Sessions, d \in Device : reshareKeyWithDevice(s, d)
  \/ \E d \in Device : DeviceChanges(d)

Spec == Init /\ [][Next]_vars

\* Requests are answered or fail, and promises are followed up.
FairSpec ==
  /\ Spec
  /\ \A c \in AllCalls : WF_vars(CallStep(c))
  /\ \A c \in Call : WF_vars(encryptGroupMessage(c))
  /\ WF_vars(DiscardSession)
  /\ WF_vars(\E j \in jobs : JobStep(j))

-----------------------------------------------------------------------------
\* Every part of the state has its type: the calls, the set-ups, the shares, the rest.
PcType ==
  pc \in [AllCalls -> {"idle", "waitPrep", "devices", "queued", "creating", "sharing", "ready"}]

CallType ==
  /\ PcType
  /\ want \in [AllCalls -> SUBSET Device] /\ blocked \in [AllCalls -> SUBSET Device]
  /\ sess \in [AllCalls -> Sessions \cup {NoSession}] /\ need \in [AllCalls -> Nat]

SetupType ==
  /\ chain \in Seq(AllCalls \cup {Discard}) /\ cur \in Sessions \cup {NoSession}
  /\ index \in Seq(Nat) /\ born \in Seq(Nat) /\ Len(born) = Len(index)

ShareType ==
  /\ shared \in Seq([Device -> Nat \cup {None}]) /\ Len(shared) = Len(index)
  /\ holds \in Seq([Device -> Nat \cup {None}]) /\ Len(holds) = Len(index)
  /\ notified \in Seq(SUBSET Device) /\ Len(notified) = Len(index)

JobType ==
  [call : AllCalls \cup {NoCall}, kind : {"existing", "new", "blocked", "retry"},
   stage : {"share", "claim", "notify", "failed"}, session : Sessions, index : Nat,
   todo : SUBSET Device, errs : SUBSET Device, down : SUBSET Device]

UsedType ==
  used \in [changes : Nat, failures : Nat, noOlm : Nat, asked : Nat, discarded : Nat,
            preps : Nat, reshares : Nat, old : Nat]

RestType ==
  /\ room \in [Device -> {"in", "out", "blocked"}] /\ olm \subseteq Device
  /\ jobs \subseteq JobType
  /\ msgs \subseteq [session : Sessions, index : Nat, to : SUBSET Device, need : Nat]
  /\ UsedType

TypeOK == CallType /\ SetupType /\ ShareType /\ RestType

CanRead(d, m) == holds[m.session][d] # None /\ holds[m.session][d] <= m.index

\* Each device that m is meant for can read it, has been given up on, or is being
\* retried in the background.
Served(m) ==
  \A d \in m.to :
    \/ CanRead(d, m) \/ shared[m.session][d] # None
    \/ \E j \in jobs : j.call = NoCall /\ j.session = m.session /\ d \in j.todo \cup j.errs

\* A message is encrypted only when that is so.
EncryptedWhenServed == [][\A m \in msgs' \ msgs : Served(m)]_vars

\* Messages are encrypted for all they are meant for; and every call of
\* encryptMessage ends, with the message or with an error.
EncryptedForAll ==
  /\ EncryptedWhenServed
  /\ \A c \in AllCalls : pc[c] # "idle" ~> pc[c] = "idle"

\* No session is used for more messages than its rotation allows, but for the
\* calls that overlap.
RotationIsDue ==
  \A s \in Sessions : index[s] <= RotationMsgs + Cardinality(Call) - 1

\* After forceDiscardSession "another one will be created next time an event is
\* sent", also when other set-ups are under way or fail.
DiscardIsRespected == \A m \in msgs : born[m.session] >= m.need

\* Whatever calls, discards and failures overlap, no message is encrypted with a
\* session that was due for rotation or discarded before the call.
OutboundIsSound == TypeOK /\ RotationIsDue /\ DiscardIsRespected

\* "a race-free view of which session we are using, and which devices we have
\* shared the keys with": only the devices of its call can read a message.
OnlyRecipientsRead == \A m \in msgs, d \in Device : CanRead(d, m) => d \in m.to

\* ... and that is so as long as set-ups do not overlap, no request fails and no
\* key is left to be shared in the background.
OnlyRecipientsReadWhenSmooth ==
  Cardinality(Call) = 1 /\ used.preps + used.failures + used.noOlm = 0 => OnlyRecipientsRead
=============================================================================
