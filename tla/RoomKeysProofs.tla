--------------------------- MODULE RoomKeysProofs ---------------------------
(***************************************************************************)
(* Theorems about IncomingRequests, KeyBackup, KeyRequests and             *)
(* MegolmInbound, for any number of requests, keys, checks, calls, events  *)
(* and failures.                                                           *)
(*                                                                         *)
(* Each invariant is inductive only together with where the messages of a  *)
(* request can be (IncomingInv), with what is being sent to the server     *)
(* (BackupInv), and with the identifiers that tie a message to the row it  *)
(* is about (RequestsInv).  The theorems about KeyRequests are for one tab *)
(* (OneTab): with two, both loops may send the same request.               *)
(***************************************************************************)
EXTENDS KeyRequests, IncomingRequests, KeyBackup, MegolmInbound, TLAPS

-----------------------------------------------------------------------------
(* Requests of other devices.                                              *)

Both == <<"request", "cancellation">>
JustTheLatter == <<"cancellation">>

\* Where a request and its cancellation can be: the request goes before the
\* cancellation on the wire ...
OnTheWire ==
  /\ onWire \in [Request -> {Both, JustTheLatter, <<>>}]
  /\ \A r \in Request :
       /\ onWire[r] # <<>> => /\ r \notin receivedRoomKeyRequestCancellations
                              /\ r \notin batch.cancellations /\ r \notin withdrawn
       /\ onWire[r] = Both => r \notin receivedRoomKeyRequests /\ r \notin batch.requests

\* ... and in the queues and batches, as long as no batch is given up.
InTheBatch ==
  /\ batch \in [on : BOOLEAN, requests : SUBSET Request, cancellations : SUBSET Request]
  /\ ~batch.on => batch.requests = {} /\ batch.cancellations = {}
  /\ storeErrors \in Nat
  /\ storeErrors = 0 =>
       /\ stray = {}
       /\ \A r \in Request :
            /\ r \in receivedRoomKeyRequests => r \notin batch.cancellations /\ r \notin withdrawn
            /\ r \in batch.requests => r \notin withdrawn

IncomingInv == IncomingTypeOK /\ NoGhostRequest /\ OnTheWire /\ InTheBatch

\* What is left of a request's messages.
LEMMA Wire ==
  /\ Head(Both) = "request" /\ Tail(Both) = JustTheLatter /\ Both # <<>> /\ JustTheLatter # Both
  /\ Head(JustTheLatter) # "request" /\ Tail(JustTheLatter) = <<>> /\ JustTheLatter # <<>>
BY DEF Both, JustTheLatter

\* IncomingInv is kept by every step.
LEMMA IncomingStep ==
  ASSUME IncomingInv, [IncomingNext]_requestVars
  PROVE  IncomingInv'
<1> USE DEF IncomingInv, NoGhostRequest, IncomingTypeOK, queues, mishaps
<1>1. ASSUME NEW r \in Request, onRoomKeyRequestEvent(r) PROVE IncomingInv'
  <2>1. /\ onWire[r] # <<>> /\ onWire' = [onWire EXCEPT ![r] = Tail(onWire[r])]
        /\ UNCHANGED <<asker, batch, stray, shown, answered, approved, withdrawn, storeErrors>>
    BY <1>1 DEF onRoomKeyRequestEvent
  <2>2. CASE onWire[r] = Both
    <3>1. /\ onWire' = [onWire EXCEPT ![r] = JustTheLatter]
          /\ receivedRoomKeyRequests' = receivedRoomKeyRequests \cup {r}
          /\ UNCHANGED receivedRoomKeyRequestCancellations
      BY <1>1, <2>1, <2>2, Wire DEF onRoomKeyRequestEvent
    <3>2. OnTheWire'
      BY <2>1, <2>2, <3>1, Wire, ZenonT(30) DEF OnTheWire
    <3>3. InTheBatch'
      BY <2>1, <2>2, <3>1, Wire DEF InTheBatch, OnTheWire
    <3> QED BY <2>1, <3>1, <3>2, <3>3
  <2>3. CASE onWire[r] = JustTheLatter
    <3>1. /\ onWire' = [onWire EXCEPT ![r] = <<>>]
          /\ receivedRoomKeyRequestCancellations' = receivedRoomKeyRequestCancellations \cup {r}
          /\ UNCHANGED receivedRoomKeyRequests
      BY <1>1, <2>1, <2>3, Wire DEF onRoomKeyRequestEvent
    <3>2. OnTheWire'
      BY <2>1, <2>3, <3>1, Wire DEF OnTheWire
    <3>3. InTheBatch'
      BY <2>1, <3>1 DEF InTheBatch
    <3> QED BY <2>1, <3>1, <3>2, <3>3
  <2> QED BY <2>1, <2>2, <2>3 DEF OnTheWire
<1>2. CASE processReceivedRoomKeyRequests
  BY <1>2 DEF processReceivedRoomKeyRequests, OnTheWire, InTheBatch
<1>3. CASE processReceivedRoomKeyRequestCancellation
  BY <1>3 DEF processReceivedRoomKeyRequestCancellation, OnTheWire, InTheBatch, NoBatch
<1>4. ASSUME NEW r \in Request, processReceivedRoomKeyRequest(r) PROVE IncomingInv'
  <2>1. /\ UNCHANGED <<asker, onWire, receivedRoomKeyRequests, receivedRoomKeyRequestCancellations,
                       approved, withdrawn, storeErrors>>
        /\ answered' \in {answered, answered \cup {r}} /\ shown' \in {shown, shown \cup {r}}
        /\ \/ r \in stray /\ stray' = stray \ {r} /\ UNCHANGED batch
           \/ r \in batch.requests /\ UNCHANGED stray
              /\ batch' = [batch EXCEPT !.requests = batch.requests \ {r}]
    BY <1>4, Zenon DEF processReceivedRoomKeyRequest
  <2>2. /\ batch' \in [on : BOOLEAN, requests : SUBSET Request, cancellations : SUBSET Request]
        /\ batch'.on = batch.on /\ batch'.cancellations = batch.cancellations
        /\ batch'.requests \subseteq batch.requests
    <3>1. batch \in [on : BOOLEAN, requests : SUBSET Request, cancellations : SUBSET Request]
      BY DEF InTheBatch
    <3>2. CASE batch' = [batch EXCEPT !.requests = batch.requests \ {r}]
      BY ONLY <3>1, <3>2
    <3> QED BY ONLY <2>1, <3>1, <3>2
  <2>3. OnTheWire'
    BY <2>1, <2>2 DEF OnTheWire
  <2>4. InTheBatch'
    BY <2>1, <2>2 DEF InTheBatch
  <2>5. storeErrors = 0 => r \notin withdrawn
    BY <2>1 DEF InTheBatch
  <2> QED BY <2>1, <2>2, <2>3, <2>4, <2>5
<1>5. ASSUME NEW r \in Request, requestThrows(r) PROVE IncomingInv'
  <2>1. /\ UNCHANGED <<asker, onWire, receivedRoomKeyRequests, receivedRoomKeyRequestCancellations,
                       shown, answered, approved, withdrawn>>
        /\ storeErrors' = storeErrors + 1 /\ batch' = NoBatch
        /\ stray' = stray \cup (batch.requests \ {r})
    BY <1>5 DEF requestThrows
  <2>2. OnTheWire'
    BY <2>1 DEF OnTheWire, NoBatch
  <2>3. InTheBatch' /\ storeErrors' # 0
    <3>1. /\ batch' \in [on : BOOLEAN, requests : SUBSET Request, cancellations : SUBSET Request]
          /\ batch'.requests = {} /\ batch'.cancellations = {}
      BY <2>1 DEF NoBatch
    <3>2. storeErrors \in Nat
      BY DEF InTheBatch
    <3>3. storeErrors' \in Nat /\ storeErrors' # 0
      BY ONLY <2>1, <3>2
    <3> QED BY <3>1, <3>3 DEF InTheBatch
  <2>4. IncomingTypeOK'
    BY <2>1 DEF NoBatch
  <2> QED BY <2>2, <2>3, <2>4
<1>6. ASSUME NEW r \in Request, share(r) PROVE IncomingInv'
  BY <1>6 DEF share, OnTheWire, InTheBatch
<1>7. ASSUME NEW r \in Request, trustChanged(r) PROVE IncomingInv'
  BY <1>7 DEF trustChanged, OnTheWire, InTheBatch
<1>8. CASE UNCHANGED requestVars
  BY <1>8 DEF requestVars, OnTheWire, InTheBatch
<1> HIDE DEF IncomingInv
<1> QED BY <1>1, <1>2, <1>3, <1>4, <1>5, <1>6, <1>7, <1>8 DEF IncomingNext

\* While the store can be read, a cancellation that was passed on to the app is
\* never followed by the request it cancels, however batches and syncs overlap
\* (processReceivedRoomKeyRequests).
THEOREM NoGhosts == IncomingSpec => []NoGhostRequest
<1>1. ASSUME IncomingInit PROVE IncomingInv
  <2>1. /\ batch \in [on : BOOLEAN, requests : SUBSET Request, cancellations : SUBSET Request]
        /\ batch.requests = {} /\ batch.cancellations = {}
    BY <1>1 DEF IncomingInit, NoBatch
  <2>2. IncomingTypeOK /\ NoGhostRequest
    BY <1>1, <2>1 DEF IncomingInit, NoGhostRequest, IncomingTypeOK
  <2>3. OnTheWire
    BY <1>1, <2>1, Wire DEF IncomingInit, OnTheWire, Both
  <2>4. InTheBatch
    BY <1>1, <2>1 DEF IncomingInit, InTheBatch
  <2> QED BY <2>2, <2>3, <2>4 DEF IncomingInv
<1>2. IncomingInv /\ [IncomingNext]_requestVars => IncomingInv'
  BY IncomingStep
<1>3. IncomingInv => NoGhostRequest
  BY DEF IncomingInv
<1> QED BY <1>1, <1>2, <1>3, PTL DEF IncomingSpec

-----------------------------------------------------------------------------
(* The backup of room keys.                                                *)

KeysOK ==
  /\ backupPlan \in [versions : Nat \ {0}, revisions : Nat, failures : Nat, restarts : Nat,
                     creates : BOOLEAN, deletes : BOOLEAN]
  /\ revision \in [RoomKey -> 0 .. backupPlan.revisions]
  /\ unflagged \subseteq Held /\ needing \subseteq Held /\ restarts \in Nat

CheckAts == {"idle", "ask", "trust", "make", "flag"}
SenderAts == {"idle", "sleep", "read", "encrypt", "send", "wire", "unmark", "recheck"}

\* No version is known before it was made.
VersionsOK ==
  /\ versions \in 0 .. backupPlan.versions /\ current \in 0 .. versions
  /\ backupInfo \in 0 .. versions /\ algorithm \in 0 .. versions /\ creating \in {"no", "post"}
  /\ check \in [Checks -> [at : CheckAts, found : Nat, switches : BOOLEAN]]
  /\ \A c \in Checks : check[c].found <= versions

\* What is being sent was in the store, and is encrypted for some version.
SenderOK ==
  /\ sender \in [at : SenderAts, batch : SUBSET [key : RoomKey, revision : Nat \ {0}], key : Nat]
  /\ \A b \in sender.batch : b.revision <= revision[b.key]
  /\ sender.at = "send" => sender.key \in 1 .. versions

ServerOK ==
  /\ backup \subseteq [key : RoomKey, revision : Nat, for : Nat, version : Nat]
  /\ \A b \in backup : b.version \in 1 .. versions /\ b.revision <= revision[b.key]

\* A batch that is about to be unflagged is on the server.
NothingForgotten ==
  Undisturbed =>
    /\ \A k \in Held : k \in unflagged \/ k \in needing \/ BackedUp(k)
    /\ sender.at = "unmark" => \A b \in sender.batch : BackedUp(b.key)

BackupInv == KeysOK /\ VersionsOK /\ SenderOK /\ ServerOK /\ NothingForgotten

\* The states of the send loop that an action can lead to.
LEMMA SenderFacts ==
  ASSUME SenderOK
  PROVE  /\ NotSending \in [at : SenderAts, batch : SUBSET [key : RoomKey, revision : Nat \ {0}],
                            key : Nat]
         /\ NotSending.batch = {} /\ NotSending.at = "idle"
         /\ pause \in [at : SenderAts, batch : SUBSET [key : RoomKey, revision : Nat \ {0}],
                       key : Nat]
         /\ pause.batch = {} /\ pause.at = "sleep"
         /\ scheduleKeyBackupSend(sender) \in {sender, pause}
         /\ \A a \in SenderAts :
              LET s == [sender EXCEPT !.at = a] IN
              /\ s \in [at : SenderAts, batch : SUBSET [key : RoomKey, revision : Nat \ {0}],
                        key : Nat]
              /\ s.batch = sender.batch /\ s.at = a /\ s.key = sender.key
BY DEF SenderOK, NotSending, NoVersion, pause, scheduleKeyBackupSend, SenderAts

\* A step that only moves the loop, without a batch that is about to be unflagged.
LEMMA SenderMoves ==
  ASSUME BackupInv,
         sender' \in [at : SenderAts, batch : SUBSET [key : RoomKey, revision : Nat \ {0}],
                      key : Nat],
         \A b \in sender'.batch : b.revision <= revision[b.key],
         sender'.at = "send" => sender'.key \in 1 .. versions,
         sender' = sender \/ sender'.at # "unmark",
         UNCHANGED <<revision, unflagged, needing, backup, current, versions, backupPlan, restarts>>
  PROVE  KeysOK' /\ SenderOK' /\ ServerOK' /\ NothingForgotten'
<1>1. KeysOK' /\ Held' = Held
  BY DEF BackupInv, KeysOK, Held
<1>2. SenderOK' /\ ServerOK'
  BY DEF BackupInv, SenderOK, ServerOK
<1>3. NothingForgotten'
  BY <1>1 DEF BackupInv, NothingForgotten, Undisturbed, BackedUp
<1> QED BY <1>1, <1>2, <1>3

\* A step of the loop that leaves the checks and versions alone too.
LEMMA LoopMoves ==
  ASSUME BackupInv, UNCHANGED <<backupInfo, algorithm, check, creating, current, versions,
                                backupPlan>>
  PROVE  VersionsOK'
BY DEF BackupInv, VersionsOK

\* A check moves on, and the client's version may change with it.
LEMMA CheckMoves ==
  ASSUME BackupInv, NEW c \in Checks,
         NEW v \in [at : CheckAts, found : Nat, switches : BOOLEAN], v.found <= versions,
         check' = [check EXCEPT ![c] = v],
         backupInfo' \in 0 .. versions, algorithm' \in 0 .. versions,
         UNCHANGED <<creating, current, versions, backupPlan>>
  PROVE  VersionsOK'
<1>1. /\ check' \in [Checks -> [at : CheckAts, found : Nat, switches : BOOLEAN]]
      /\ \A x \in Checks : check'[x] = IF x = c THEN v ELSE check[x]
  BY DEF BackupInv, VersionsOK
<1> QED BY <1>1 DEF BackupInv, VersionsOK

\* The states of a check.
LEMMA CheckFacts ==
  ASSUME BackupInv
  PROVE  /\ NoCheck \in [at : CheckAts, found : Nat, switches : BOOLEAN] /\ NoCheck.found = 0
         /\ [NoCheck EXCEPT !.at = "ask"] \in [at : CheckAts, found : Nat, switches : BOOLEAN]
         /\ [NoCheck EXCEPT !.at = "ask"].found = 0
         /\ versions \in Nat /\ current \in 0 .. versions
         /\ backupInfo \in 0 .. versions /\ algorithm \in 0 .. versions
         /\ "loop" \in Checks /\ Check \subseteq Checks
         /\ \A c \in Checks : /\ check[c] \in [at : CheckAts, found : Nat, switches : BOOLEAN]
                              /\ check[c].found \in 0 .. versions
<1>1. /\ NoCheck \in [at : CheckAts, found : Nat, switches : BOOLEAN] /\ NoCheck.found = 0
      /\ [NoCheck EXCEPT !.at = "ask"] \in [at : CheckAts, found : Nat, switches : BOOLEAN]
      /\ [NoCheck EXCEPT !.at = "ask"].found = 0
  BY DEF NoCheck, CheckAts, NoVersion
<1>2. versions \in Nat /\ current \in 0 .. versions
  BY DEF BackupInv, VersionsOK, KeysOK
<1>3. backupInfo \in 0 .. versions /\ algorithm \in 0 .. versions
  BY DEF BackupInv, VersionsOK
<1>4. ASSUME NEW c \in Checks
      PROVE  /\ check[c] \in [at : CheckAts, found : Nat, switches : BOOLEAN]
             /\ check[c].found \in 0 .. versions
  <2>1. check[c] \in [at : CheckAts, found : Nat, switches : BOOLEAN] /\ check[c].found <= versions
    BY DEF BackupInv, VersionsOK
  <2> QED BY <1>2, <2>1
<1>5. "loop" \in Checks /\ Check \subseteq Checks
  BY DEF Checks
<1> QED BY <1>1, <1>2, <1>3, <1>4, <1>5

\* A key, or a better copy of it, is saved: its flag follows.
LEMMA KeySaved ==
  ASSUME BackupInv, NEW k \in RoomKey, keySaved(k)
  PROVE  BackupInv'
<1>1. /\ revision' = [revision EXCEPT ![k] = revision[k] + 1] /\ revision[k] < backupPlan.revisions
      /\ unflagged' = unflagged \cup {k}
      /\ UNCHANGED <<needing, backupInfo, algorithm, sender, check, creating, current, versions,
                     backup, backupPlan, failures, restarts>>
  BY DEF keySaved, world, bounds
<1>2. /\ revision \in [RoomKey -> Nat] /\ backupPlan.revisions \in Nat
      /\ \A x \in RoomKey : revision'[x] = IF x = k THEN revision[k] + 1 ELSE revision[x]
  BY <1>1 DEF BackupInv, KeysOK
<1>3. Held' = Held \cup {k}
  BY <1>2 DEF Held
<1>4. KeysOK'
  BY <1>1, <1>2, <1>3 DEF BackupInv, KeysOK
<1>5. VersionsOK'
  BY <1>1, LoopMoves
<1>6. SenderOK'
  BY <1>1, <1>2 DEF BackupInv, SenderOK
<1>7. ServerOK'
  BY <1>1, <1>2 DEF BackupInv, ServerOK
<1>8. ASSUME Undisturbed' PROVE Undisturbed /\ revision[k] = 0
  BY <1>1, <1>2, <1>8 DEF Undisturbed
<1>9. ASSUME Undisturbed', NEW b \in sender.batch PROVE b.key # k
  BY <1>8, <1>9, <1>2 DEF BackupInv, SenderOK
<1>10. \A x \in RoomKey \ {k} : BackedUp(x)' <=> BackedUp(x)
  BY <1>1, <1>2 DEF BackedUp
<1>11. \A b \in sender.batch : b.key \in RoomKey
  BY DEF BackupInv, SenderOK
<1>12. NothingForgotten'
  <2> SUFFICES ASSUME Undisturbed'
               PROVE  /\ \A x \in Held' : x \in unflagged' \/ x \in needing' \/ BackedUp(x)'
                      /\ sender'.at = "unmark" => \A b \in sender'.batch : BackedUp(b.key)'
    BY DEF NothingForgotten
  <2>1. Held \subseteq RoomKey
    BY DEF Held
  <2> QED BY <1>1, <1>3, <1>8, <1>9, <1>10, <1>11, <2>1 DEF BackupInv, NothingForgotten
<1> QED BY <1>4, <1>5, <1>6, <1>7, <1>12 DEF BackupInv

\* Nothing but the loop and the flags changes, and no flag is lost.
LEMMA FlagsMove ==
  ASSUME BackupInv, needing \cup unflagged \subseteq needing' \cup unflagged',
         needing' \subseteq Held, unflagged' \subseteq Held,
         sender' \in {sender, pause, NotSending},
         UNCHANGED <<revision, backup, current, versions, backupPlan, restarts>>
  PROVE  KeysOK' /\ SenderOK' /\ ServerOK' /\ NothingForgotten'
<1>1. KeysOK' /\ Held' = Held
  BY DEF BackupInv, KeysOK, Held
<1>2. SenderOK /\ ServerOK
  BY DEF BackupInv
<1>3. SenderOK'
  <2>1. CASE sender' = sender
    BY <1>2, <2>1 DEF SenderOK
  <2>2. CASE sender' \in {pause, NotSending}
    BY <1>2, <2>2, SenderFacts DEF SenderOK
  <2> QED BY <2>1, <2>2
<1>4. ServerOK'
  BY <1>2 DEF ServerOK
<1>5. NothingForgotten'
  <2>1. sender' = sender \/ sender'.at # "unmark"
    BY <1>2, SenderFacts
  <2> QED BY <1>1, <2>1 DEF BackupInv, NothingForgotten, Undisturbed, BackedUp
<1> QED BY <1>1, <1>3, <1>4, <1>5

\* The flag is set after the key, and the loop may be started.
LEMMA KeyFlagged ==
  ASSUME BackupInv, NEW k \in RoomKey, backupGroupSession(k)
  PROVE  BackupInv'
<1>1. VersionsOK'
  BY LoopMoves DEF backupGroupSession, world, bounds
<1>2. sender' \in {sender, pause, NotSending}
  BY SenderFacts DEF backupGroupSession, BackupInv
<1>3. /\ needing \cup unflagged \subseteq needing' \cup unflagged'
      /\ needing' \subseteq Held /\ unflagged' \subseteq Held
  BY DEF backupGroupSession, BackupInv, KeysOK
<1> QED BY <1>1, <1>2, <1>3, FlagsMove DEF BackupInv, backupGroupSession, world, bounds

\* The loop reads a batch and encrypts it; nothing is unflagged yet.
LEMMA LoopReads ==
  ASSUME BackupInv, loopHead \/ (\E ks \in SUBSET RoomKey : getSessionsNeedingBackup(ks))
                      \/ encryptSession
  PROVE  BackupInv'
<1>1. UNCHANGED <<revision, unflagged, needing, backupInfo, algorithm, check, creating, current,
                  versions, backup, backupPlan, restarts>>
  BY DEF loopHead, getSessionsNeedingBackup, encryptSession, world, bounds
<1>2. VersionsOK' /\ SenderOK
  BY <1>1, LoopMoves DEF BackupInv
<1> DEFINE Fits(s) ==
             /\ s \in [at : SenderAts, batch : SUBSET [key : RoomKey, revision : Nat \ {0}],
                       key : Nat]
             /\ \A b \in s.batch : b.revision <= revision[b.key]
             /\ s.at = "send" => s.key \in 1 .. versions
             /\ s.at # "unmark"
<1>3. Fits(NotSending) /\ Fits(pause)
  BY <1>2, SenderFacts
<1>4. CASE loopHead
  <2>1. CASE algorithm # NoVersion
    <3>1. sender' = [sender EXCEPT !.at = "read"]
      BY <1>4, <2>1 DEF loopHead
    <3>2. Fits(sender')
      BY <1>2, <3>1, SenderFacts DEF SenderOK, SenderAts
    <3> QED BY <1>1, <1>2, <3>2, SenderMoves DEF BackupInv
  <2>2. CASE algorithm = NoVersion
    <3>1. sender' = NotSending
      BY <1>4, <2>2 DEF loopHead
    <3> QED BY <1>1, <1>2, <1>3, <3>1, SenderMoves DEF BackupInv
  <2> QED BY <2>1, <2>2
<1>5. ASSUME NEW ks \in SUBSET RoomKey, getSessionsNeedingBackup(ks) PROVE BackupInv'
  <2>1. CASE ks # {}
    <3> DEFINE taken == {[key |-> k, revision |-> revision[k]] : k \in ks}
    <3>1. sender' = [sender EXCEPT !.at = "encrypt", !.batch = taken] /\ ks \subseteq needing
      BY <1>5, <2>1 DEF getSessionsNeedingBackup
    <3>2. \A k \in ks : revision[k] \in Nat \ {0}
      BY <3>1 DEF BackupInv, KeysOK, Held
    <3>3. taken \subseteq [key : RoomKey, revision : Nat \ {0}]
      BY <3>2
    <3>4. \A b \in taken : b.revision <= revision[b.key]
      BY <3>2
    <3>5. Fits(sender')
      <4> HIDE DEF taken
      <4>1. /\ sender' \in [at : SenderAts, batch : SUBSET [key : RoomKey, revision : Nat \ {0}],
                            key : Nat]
            /\ sender'.batch = taken /\ sender'.at = "encrypt"
        BY <1>2, <3>1, <3>3 DEF SenderOK, SenderAts
      <4> QED BY <3>4, <4>1
    <3> QED BY <1>1, <1>2, <3>5, SenderMoves DEF BackupInv
  <2>2. CASE ks = {}
    <3>1. sender' = NotSending
      BY <1>5, <2>2 DEF getSessionsNeedingBackup
    <3> QED BY <1>1, <1>2, <1>3, <3>1, SenderMoves DEF BackupInv
  <2> QED BY <2>1, <2>2
<1>6. CASE encryptSession
  <2>1. CASE algorithm # NoVersion
    <3>1. sender' = [sender EXCEPT !.at = "send", !.key = algorithm]
      BY <1>6, <2>1 DEF encryptSession
    <3>2. algorithm \in 1 .. versions /\ algorithm \in Nat /\ versions \in Nat
      BY <2>1 DEF BackupInv, VersionsOK, KeysOK, NoVersion
    <3>3. Fits(sender')
      <4>1. /\ sender' \in [at : SenderAts, batch : SUBSET [key : RoomKey, revision : Nat \ {0}],
                            key : Nat]
            /\ sender'.batch = sender.batch /\ sender'.at = "send" /\ sender'.key = algorithm
        BY <1>2, <3>1, <3>2 DEF SenderOK, SenderAts
      <4> QED BY <1>2, <3>2, <4>1 DEF SenderOK
    <3> QED BY <1>1, <1>2, <3>3, SenderMoves DEF BackupInv
  <2>2. CASE algorithm = NoVersion
    <3>1. sender' = pause
      BY <1>6, <2>2 DEF encryptSession
    <3> QED BY <1>1, <1>2, <1>3, <3>1, SenderMoves DEF BackupInv
  <2> QED BY <2>1, <2>2
<1> QED BY <1>4, <1>5, <1>6

\* What the server keeps of a batch that it takes.
LEMMA KeptFacts ==
  ASSUME BackupInv, sender.at = "send", backupInfo # NoVersion, backupInfo = current,
         UNCHANGED <<revision, current, versions, backupPlan, restarts>>,
         backup' = backup \cup kept
  PROVE  /\ ServerOK'
         /\ \A k \in RoomKey : BackedUp(k) => BackedUp(k)'
         /\ Undisturbed => \A b \in sender.batch : BackedUp(b.key)'
<1>1. /\ sender.key \in Nat /\ backupInfo \in 1 .. versions /\ backupInfo \in Nat
      /\ versions \in Nat /\ backupPlan.versions \in Nat /\ versions <= backupPlan.versions
      /\ sender.key \in 1 .. versions
      /\ \A b \in sender.batch : /\ b.key \in RoomKey /\ b.revision \in Nat \ {0}
                                 /\ b.revision <= revision[b.key]
                                 /\ revision[b.key] \in Nat
                                 /\ revision[b.key] <= backupPlan.revisions
                                 /\ backupPlan.revisions \in Nat
  BY DEF BackupInv, SenderOK, VersionsOK, KeysOK, NoVersion
<1>2. \A x \in kept : /\ x \in [key : RoomKey, revision : Nat, for : Nat, version : Nat]
                      /\ x.version \in 1 .. versions /\ x.revision <= revision[x.key]
  BY <1>1 DEF kept
<1>3. ServerOK'
  BY <1>2 DEF BackupInv, ServerOK
<1>4. ASSUME Undisturbed, NEW b \in sender.batch PROVE BackedUp(b.key)'
  <2>1. b.revision = revision[b.key] /\ sender.key = current /\ backupInfo = current
    BY <1>1, <1>4 DEF Undisturbed
  <2>2. [key |-> b.key, revision |-> b.revision, for |-> sender.key, version |-> backupInfo] \in kept
    BY DEF kept
  <2> QED BY <2>1, <2>2 DEF BackedUp
<1> QED BY <1>3, <1>4 DEF BackedUp

\* The batch is sent: the answer, or the refusal, comes back to the loop ...
LEMMA BatchSent ==
  ASSUME BackupInv, sendKeyBackup
  PROVE  BackupInv'
<1>1. /\ sender.at = "send"
      /\ UNCHANGED <<revision, unflagged, needing, backupInfo, algorithm, creating, current,
                     versions, backupPlan, restarts>>
  BY DEF sendKeyBackup, bounds
<1>2. SenderOK /\ KeysOK /\ VersionsOK
  BY DEF BackupInv
<1>3. CASE backupInfo = NoVersion
  <2>1. sender' = pause /\ UNCHANGED <<backup, check>>
    BY <1>3 DEF sendKeyBackup
  <2> QED BY <1>1, <2>1, FlagsMove, LoopMoves DEF BackupInv, KeysOK
<1>4. CASE backupInfo # NoVersion /\ backupInfo # current
  <2>1. /\ sender' = [sender EXCEPT !.at = "recheck"] /\ UNCHANGED backup
        /\ check' = [check EXCEPT !["loop"] = [NoCheck EXCEPT !.at = "ask"]]
    BY <1>4 DEF sendKeyBackup
  <2>2. /\ sender' \in [at : SenderAts, batch : SUBSET [key : RoomKey, revision : Nat \ {0}],
                        key : Nat]
        /\ sender'.batch = sender.batch /\ sender'.at = "recheck"
    BY <1>2, <2>1, SenderFacts DEF SenderAts
  <2>3. KeysOK' /\ SenderOK' /\ ServerOK' /\ NothingForgotten'
    BY <1>1, <1>2, <2>1, <2>2, SenderMoves DEF SenderOK
  <2>4. VersionsOK'
    <3>1. PICK v : v = [NoCheck EXCEPT !.at = "ask"]
      OBVIOUS
    <3>2. check' = [check EXCEPT !["loop"] = v]
      BY <2>1, <3>1
    <3>3. v \in [at : CheckAts, found : Nat, switches : BOOLEAN] /\ v.found <= versions
      BY <3>1, CheckFacts
    <3> QED BY <1>1, <3>2, <3>3, CheckMoves, CheckFacts
  <2> QED BY <2>3, <2>4 DEF BackupInv
<1>5. CASE backupInfo # NoVersion /\ backupInfo = current
  <2>1. /\ sender' = [sender EXCEPT !.at = "unmark"] /\ UNCHANGED check
        /\ backup' = backup \cup kept
    BY <1>5 DEF sendKeyBackup
  <2>2. /\ sender' \in [at : SenderAts, batch : SUBSET [key : RoomKey, revision : Nat \ {0}],
                        key : Nat]
        /\ sender'.batch = sender.batch /\ sender'.at = "unmark"
    BY <1>2, <2>1, SenderFacts DEF SenderAts
  <2>3. /\ ServerOK' /\ \A k \in RoomKey : BackedUp(k) => BackedUp(k)'
        /\ Undisturbed => \A b \in sender.batch : BackedUp(b.key)'
    BY <1>1, <1>5, <2>1, KeptFacts
  <2>4. KeysOK' /\ Held' = Held /\ Held \subseteq RoomKey
    BY <1>1, <1>2 DEF KeysOK, Held
  <2>5. SenderOK'
    BY <1>1, <1>2, <2>2 DEF SenderOK
  <2>6. NothingForgotten'
    BY <1>1, <2>2, <2>3, <2>4 DEF BackupInv, NothingForgotten, Undisturbed
  <2> QED BY <1>1, <2>1, <2>3, <2>4, <2>5, <2>6, LoopMoves DEF BackupInv
<1> QED BY <1>3, <1>4, <1>5

\* ... or is lost, after the server took it or before.
LEMMA SendFails ==
  ASSUME BackupInv, NEW taken \in BOOLEAN, sendFailed(taken)
  PROVE  BackupInv'
<1>1. /\ sender.at = "send" /\ backupInfo # NoVersion /\ backupInfo = current /\ sender' = pause
      /\ UNCHANGED <<revision, unflagged, needing, backupInfo, algorithm, creating, current, check,
                     versions, backupPlan, restarts>>
      /\ backup' = backup \/ backup' = backup \cup kept
  BY DEF sendFailed, fail
<1>2. SenderOK /\ KeysOK
  BY DEF BackupInv
<1>3. CASE backup' = backup
  BY <1>1, <1>2, <1>3, FlagsMove, LoopMoves DEF BackupInv, KeysOK
<1>4. CASE backup' = backup \cup kept
  <2>1. ServerOK' /\ \A k \in RoomKey : BackedUp(k) => BackedUp(k)'
    BY <1>1, <1>4, KeptFacts
  <2>2. KeysOK' /\ Held' = Held /\ Held \subseteq RoomKey
    BY <1>1, <1>2 DEF KeysOK, Held
  <2>3. SenderOK' /\ sender'.at # "unmark"
    BY <1>1, <1>2, SenderFacts DEF SenderOK
  <2>4. NothingForgotten'
    BY <1>1, <2>1, <2>2, <2>3 DEF BackupInv, NothingForgotten, Undisturbed
  <2> QED BY <1>1, <2>1, <2>2, <2>3, <2>4, LoopMoves DEF BackupInv
<1> QED BY <1>1, <1>3, <1>4

\* What was sent is unflagged: all of it is on the server.
LEMMA Unmarked ==
  ASSUME BackupInv, unmarkSessionsNeedingBackup
  PROVE  BackupInv'
<1>1. /\ sender.at = "unmark" /\ sender' = pause
      /\ needing' = needing \ {b.key : b \in sender.batch}
      /\ UNCHANGED <<revision, unflagged, backupInfo, algorithm, creating, current, check, backup,
                     versions, backupPlan, restarts>>
  BY DEF unmarkSessionsNeedingBackup, world, bounds
<1>2. SenderOK /\ KeysOK /\ ServerOK
  BY DEF BackupInv
<1>3. KeysOK' /\ Held' = Held
  BY <1>1, <1>2 DEF KeysOK, Held
<1>4. SenderOK' /\ sender'.at # "unmark"
  BY <1>1, <1>2, SenderFacts DEF SenderOK
<1>5. ServerOK'
  BY <1>1, <1>2 DEF ServerOK
<1>6. NothingForgotten'
  <2>1. \A k : BackedUp(k)' <=> BackedUp(k)
    BY <1>1 DEF BackedUp
  <2> QED BY <1>1, <1>3, <1>4, <2>1 DEF BackupInv, NothingForgotten, Undisturbed
<1> QED BY <1>1, <1>3, <1>4, <1>5, <1>6, LoopMoves DEF BackupInv

\* A step of a check that unflags nothing.
LEMMA CheckSteps_keep ==
  ASSUME BackupInv, VersionsOK',
         needing \subseteq needing', needing' \subseteq Held, unflagged' = unflagged,
         sender' \in {sender, pause, NotSending},
         UNCHANGED <<revision, backup, current, versions, backupPlan, restarts>>
  PROVE  BackupInv'
BY FlagsMove DEF BackupInv, KeysOK

\* Whatever it ends with, a check leaves the loop as it was, starts it or ends it.
LEMMA CheckEnd ==
  ASSUME BackupInv, NEW c \in Checks, NEW s \in {sender, pause, NotSending}, checkEnds(c, s),
         backupInfo' \in 0 .. versions, algorithm' \in 0 .. versions,
         UNCHANGED <<creating, current, versions, backupPlan>>
  PROVE  VersionsOK' /\ sender' \in {sender, pause, NotSending}
<1>1. NoCheck.found <= versions /\ NoCheck \in [at : CheckAts, found : Nat, switches : BOOLEAN]
  BY CheckFacts
<1>2. check' = [check EXCEPT ![c] = NoCheck] /\ sender' \in {s, NotSending}
  BY DEF checkEnds
<1>3. VersionsOK'
  BY <1>1, <1>2, CheckMoves
<1> QED BY <1>2, <1>3

\* Every step of a check keeps BackupInv.
LEMMA CheckKeeps ==
  ASSUME BackupInv, NEW c \in Checks, CheckSteps(c)
  PROVE  BackupInv'
<1> USE CheckFacts
<1>1. /\ SenderOK /\ KeysOK /\ check[c].found \in 0 .. versions
      /\ check[c] \in [at : CheckAts, found : Nat, switches : BOOLEAN]
  BY DEF BackupInv
<1>2. scheduleKeyBackupSend(sender) \in {sender, pause, NotSending}
  BY <1>1, SenderFacts
<1>3. needing \subseteq Held
  BY <1>1 DEF KeysOK
<1>4. CASE versionFound(c)
  <2>1. UNCHANGED <<revision, unflagged, needing, backupInfo, algorithm, creating, current,
                    versions, backup, backupPlan, restarts>>
    BY <1>4 DEF versionFound, world, bounds
  <2>2. CASE current = NoVersion
    <3>1. checkEnds(c, sender)
      BY <1>4, <2>2 DEF versionFound
    <3> QED BY <1>3, <2>1, <3>1, CheckEnd, CheckSteps_keep
  <2>3. CASE current # NoVersion
    <3> DEFINE v == [check[c] EXCEPT !.at = "trust", !.found = current]
    <3>1. check' = [check EXCEPT ![c].at = "trust", ![c].found = current] /\ sender' = sender
      BY <1>4, <2>3 DEF versionFound
    <3>2. check' = [check EXCEPT ![c] = v]
      BY <3>1
    <3>3. v \in [at : CheckAts, found : Nat, switches : BOOLEAN] /\ v.found <= versions
      <4>1. current \in Nat /\ current <= versions
        OBVIOUS
      <4>2. "trust" \in CheckAts
        BY DEF CheckAts
      <4> QED BY ONLY <1>1, <4>1, <4>2
    <3>4. VersionsOK'
      <4> HIDE DEF v
      <4> QED BY <2>1, <3>2, <3>3, CheckMoves
    <3> QED BY <1>3, <2>1, <3>1, <3>4, CheckSteps_keep
  <2> QED BY <2>2, <2>3
<1>5. ASSUME NEW usable \in BOOLEAN, checkAndStart(c, usable) PROVE BackupInv'
  <2> DEFINE found == check[c].found
             enables == usable /\ backupInfo # found
             switches == enables /\ backupInfo # NoVersion
             disables == ~usable /\ backupInfo # NoVersion
  <2>1. /\ UNCHANGED <<revision, unflagged, needing, creating, current, versions, backup,
                       backupPlan, restarts>>
        /\ backupInfo' = IF enables THEN found ELSE IF disables THEN NoVersion ELSE backupInfo
        /\ algorithm' = IF switches \/ disables THEN NoVersion ELSE algorithm
    BY <1>5 DEF checkAndStart, world, bounds
  <2>2. backupInfo' \in 0 .. versions /\ algorithm' \in 0 .. versions
    BY <1>1, <2>1 DEF NoVersion
  <2>3. CASE enables
    <3> DEFINE v == [check[c] EXCEPT !.at = "make", !.switches = switches]
    <3>1. check' = [check EXCEPT ![c].at = "make", ![c].switches = switches] /\ sender' = sender
      BY <1>5, <2>3 DEF checkAndStart
    <3>2. check' = [check EXCEPT ![c] = v]
      BY <3>1
    <3>3. v \in [at : CheckAts, found : Nat, switches : BOOLEAN] /\ v.found <= versions
      <4>1. switches \in BOOLEAN
        OBVIOUS
      <4>2. check[c].found <= versions /\ "make" \in CheckAts
        BY <1>1 DEF CheckAts
      <4> HIDE DEF switches
      <4> QED BY ONLY <1>1, <4>1, <4>2
    <3>4. VersionsOK'
      <4> HIDE DEF v
      <4> QED BY <2>1, <2>2, <3>2, <3>3, CheckMoves
    <3> QED BY <1>3, <2>1, <3>1, <3>4, CheckSteps_keep
  <2>4. CASE ~enables
    <3>1. checkEnds(c, sender)
      BY <1>5, <2>4 DEF checkAndStart
    <3> QED BY <1>3, <2>1, <2>2, <3>1, CheckEnd, CheckSteps_keep
  <2> QED BY <2>3, <2>4
<1>6. CASE enableKeyBackup(c)
  <2>1. /\ UNCHANGED <<revision, unflagged, needing, backupInfo, creating, current, versions,
                       backup, backupPlan, restarts>>
        /\ algorithm' = check[c].found
    BY <1>6 DEF enableKeyBackup, world, bounds
  <2>2. CASE check[c].switches
    <3> DEFINE v == [check[c] EXCEPT !.at = "flag"]
    <3>1. check' = [check EXCEPT ![c].at = "flag"] /\ sender' = scheduleKeyBackupSend(sender)
      BY <1>6, <2>2 DEF enableKeyBackup
    <3>2. check' = [check EXCEPT ![c] = v]
      BY <3>1
    <3>3. v \in [at : CheckAts, found : Nat, switches : BOOLEAN] /\ v.found <= versions
      BY <1>1 DEF CheckAts
    <3>4. VersionsOK'
      <4> HIDE DEF v
      <4> QED BY <1>1, <2>1, <3>2, <3>3, CheckMoves
    <3> QED BY <1>2, <1>3, <2>1, <3>1, <3>4, CheckSteps_keep
  <2>3. CASE ~check[c].switches
    <3>1. checkEnds(c, scheduleKeyBackupSend(sender))
      BY <1>6, <2>3 DEF enableKeyBackup
    <3> QED BY <1>1, <1>2, <1>3, <2>1, <3>1, CheckEnd, CheckSteps_keep
  <2> QED BY <2>2, <2>3
<1>7. CASE scheduleAllGroupSessionsForBackup(c)
  BY <1>2, <1>3, <1>7, CheckEnd, CheckSteps_keep
     DEF scheduleAllGroupSessionsForBackup, world, bounds
<1> QED BY <1>4, <1>5, <1>6, <1>7 DEF CheckSteps

\* A new version is made, here or by another device; before there was one,
\* nothing could be backed up.
LEMMA VersionMade ==
  ASSUME BackupInv, versions' \in {versions, versions + 1}, versions' <= backupPlan.versions,
         current' \in {current, versions'},
         backupInfo' = backupInfo, algorithm' \in 0 .. versions', creating' \in {"no", "post"},
         check' \in [Checks -> [at : CheckAts, found : Nat, switches : BOOLEAN]],
         \A c \in Checks : check'[c].found <= versions',
         UNCHANGED <<revision, unflagged, needing, sender, backup, backupPlan, restarts>>
  PROVE  BackupInv'
<1>1. /\ versions \in Nat /\ current \in Nat /\ current <= versions /\ backupInfo \in 0 .. versions
      /\ backupPlan.versions \in Nat
  BY DEF BackupInv, VersionsOK, KeysOK
<1>2. KeysOK' /\ Held' = Held
  BY DEF BackupInv, KeysOK, Held
<1>3. VersionsOK'
  BY <1>1 DEF VersionsOK
<1>4. SenderOK' /\ ServerOK'
  BY <1>1 DEF BackupInv, SenderOK, ServerOK
<1>5. ASSUME current' # current, Undisturbed PROVE \A k : ~BackedUp(k)
  <2>1. current = 0
    BY <1>1, <1>5 DEF Undisturbed
  <2> QED BY <2>1 DEF BackedUp, BackupInv, ServerOK
<1>6. ASSUME current' = current PROVE \A k : BackedUp(k)' <=> BackedUp(k)
  BY <1>6 DEF BackedUp
<1>7. NothingForgotten'
  BY <1>2, <1>5, <1>6 DEF BackupInv, NothingForgotten, Undisturbed
<1> QED BY <1>2, <1>3, <1>4, <1>7 DEF BackupInv

\* BackupInv is kept by every step.
LEMMA BackupStep ==
  ASSUME BackupInv, [BackupNext]_backupVars
  PROVE  BackupInv'
<1> USE CheckFacts
<1>1. ASSUME NEW k \in RoomKey, keySaved(k) \/ backupGroupSession(k) PROVE BackupInv'
  BY <1>1, KeySaved, KeyFlagged
<1>2. CASE SendLoop
  BY <1>2, LoopReads, BatchSent, Unmarked DEF SendLoop
<1>3. ASSUME NEW taken \in BOOLEAN, sendFailed(taken) PROVE BackupInv'
  BY <1>3, SendFails
<1>4. ASSUME NEW c \in Check, checkKeyBackup(c) PROVE BackupInv'
  <2>1. PICK v : v = [NoCheck EXCEPT !.at = "ask"]
    OBVIOUS
  <2>2. v \in [at : CheckAts, found : Nat, switches : BOOLEAN] /\ v.found <= versions
    BY <2>1
  <2>3. /\ check' = [check EXCEPT ![c] = v] /\ c \in Checks
        /\ UNCHANGED <<revision, unflagged, needing, backupInfo, algorithm, sender, creating,
                       current, versions, backup, backupPlan, restarts>>
    BY <1>4, <2>1 DEF checkKeyBackup, world, bounds
  <2>4. VersionsOK'
    BY <2>2, <2>3, CheckMoves
  <2> QED BY <2>3, <2>4, CheckSteps_keep DEF BackupInv, KeysOK
<1>5. ASSUME NEW c \in Check, versionCreated(c) PROVE BackupInv'
  <2>1. PICK v : v = [NoCheck EXCEPT !.at = "ask"]
    OBVIOUS
  <2>2. v \in [at : CheckAts, found : Nat, switches : BOOLEAN] /\ v.found <= versions
    BY <2>1
  <2>3. /\ check' = [check EXCEPT ![c] = v] /\ c \in Checks /\ creating' = "no"
        /\ current' = versions
        /\ UNCHANGED <<revision, unflagged, needing, backupInfo, algorithm, sender, versions,
                       backup, backupPlan, restarts>>
    BY <1>5, <2>1 DEF versionCreated, bounds
  <2>4. /\ check' \in [Checks -> [at : CheckAts, found : Nat, switches : BOOLEAN]]
        /\ \A x \in Checks : check'[x].found <= versions
    BY <2>2, <2>3 DEF BackupInv, VersionsOK
  <2> QED BY <2>3, <2>4, VersionMade DEF BackupInv, VersionsOK
<1>6. ASSUME NEW c \in Check, restart(c) PROVE BackupInv'
  <2>1. /\ restarts' = restarts + 1 /\ unflagged' = {} /\ sender' = NotSending /\ creating' = "no"
        /\ backupInfo' = NoVersion /\ algorithm' = NoVersion
        /\ check' = [x \in Checks |-> IF x = c THEN [NoCheck EXCEPT !.at = "ask"] ELSE NoCheck]
        /\ UNCHANGED <<revision, needing, current, versions, backup, backupPlan>>
    BY <1>6 DEF restart, world
  <2>2. KeysOK' /\ restarts' # 0
    BY <2>1 DEF BackupInv, KeysOK, Held
  <2>3. VersionsOK'
    <3>1. PICK v : v = [NoCheck EXCEPT !.at = "ask"]
      OBVIOUS
    <3>2. v \in [at : CheckAts, found : Nat, switches : BOOLEAN] /\ v.found = 0
      BY <3>1
    <3>3. /\ check' \in [Checks -> [at : CheckAts, found : Nat, switches : BOOLEAN]]
          /\ \A x \in Checks : check'[x].found = 0
      BY <2>1, <3>1, <3>2
    <3> QED BY <2>1, <3>3 DEF BackupInv, VersionsOK, NoVersion
  <2>4. SenderOK' /\ ServerOK'
    BY <2>1, SenderFacts DEF BackupInv, SenderOK, ServerOK
  <2>5. NothingForgotten'
    BY <2>2 DEF NothingForgotten, Undisturbed
  <2> QED BY <2>2, <2>3, <2>4, <2>5 DEF BackupInv
<1>7. ASSUME NEW c \in Checks, CheckSteps(c) PROVE BackupInv'
  BY <1>7, CheckKeeps
<1>8. CASE createKeyBackupVersion
  <2>1. /\ versions < backupPlan.versions /\ creating' = "post" /\ algorithm' = versions + 1
        /\ versions' = versions + 1
        /\ UNCHANGED <<revision, unflagged, needing, backupInfo, sender, check, current, backup,
                       backupPlan, restarts>>
    BY <1>8 DEF createKeyBackupVersion, bounds
  <2>2. backupPlan.versions \in Nat /\ versions \in Nat
    BY DEF BackupInv, KeysOK
  <2>3. /\ check' \in [Checks -> [at : CheckAts, found : Nat, switches : BOOLEAN]]
        /\ \A c \in Checks : check'[c].found <= versions'
    BY <2>1, <2>2 DEF BackupInv, VersionsOK
  <2> QED BY <2>1, <2>2, <2>3, VersionMade
<1>9. CASE deleteKeyBackupVersion
  <2>1. /\ backupPlan.deletes /\ backupInfo' = NoVersion /\ algorithm' \in {NoVersion, algorithm}
        /\ current' = NoVersion
        /\ UNCHANGED <<revision, unflagged, needing, sender, check, creating, versions, backup,
                       backupPlan, restarts>>
    BY <1>9 DEF deleteKeyBackupVersion, bounds
  <2>2. KeysOK'
    BY <2>1 DEF BackupInv, KeysOK, Held
  <2>3. VersionsOK'
    BY <2>1 DEF BackupInv, VersionsOK, NoVersion
  <2>4. SenderOK' /\ ServerOK'
    BY <2>1 DEF BackupInv, SenderOK, ServerOK
  <2>5. NothingForgotten'
    BY <2>1 DEF NothingForgotten, Undisturbed
  <2> QED BY <2>2, <2>3, <2>4, <2>5 DEF BackupInv
<1>10. CASE otherDeviceCreates
  <2>1. /\ versions < backupPlan.versions /\ versions' = versions + 1 /\ current' = versions + 1
        /\ UNCHANGED <<revision, unflagged, needing, backupInfo, algorithm, sender, check,
                       creating, backup, backupPlan, restarts>>
    BY <1>10 DEF otherDeviceCreates, bounds
  <2>2. backupPlan.versions \in Nat /\ versions \in Nat /\ creating \in {"no", "post"}
    BY DEF BackupInv, KeysOK, VersionsOK
  <2>3. /\ check' \in [Checks -> [at : CheckAts, found : Nat, switches : BOOLEAN]]
        /\ \A c \in Checks : check'[c].found <= versions'
    BY <2>1, <2>2 DEF BackupInv, VersionsOK
  <2>4. algorithm' \in 0 .. versions'
    BY <2>1, <2>2
  <2> QED BY <2>1, <2>2, <2>3, <2>4, VersionMade
<1>11. CASE UNCHANGED backupVars
  BY <1>11, CheckSteps_keep, LoopMoves DEF backupVars, BackupInv, KeysOK
<1> QED BY <1>1, <1>2, <1>3, <1>4, <1>5, <1>6, <1>7, <1>8, <1>9, <1>10, <1>11 DEF BackupNext

\* While the server has one version of the backup, a room key that is not
\* flagged is on the server, as the client has it and for that version: keys
\* that arrive while a batch is sent, lost answers and sends that are taken up
\* again do not make the client forget one (backupPendingKeys).
THEOREM Unforgotten == BackupSpec => []UnflaggedIsBackedUp
<1>1. ASSUME BackupInit PROVE BackupInv
  <2>1. /\ revision = [k \in RoomKey |-> 0] /\ unflagged = {} /\ needing = {} /\ restarts = 0
        /\ backupInfo = 0 /\ algorithm = 0 /\ sender = NotSending /\ backup = {} /\ creating = "no"
        /\ check = [c \in Checks |-> NoCheck] /\ backupPlan \in BackupPlans
        /\ current \in 0 .. 1 /\ versions = current
    BY <1>1 DEF BackupInit, NoVersion
  <2>2. backupPlan \in [versions : Nat \ {0}, revisions : Nat, failures : Nat, restarts : Nat,
                        creates : BOOLEAN, deletes : BOOLEAN]
    BY <2>1, KeyBackupAssumption
  <2>3. Held = {}
    BY <2>1 DEF Held
  <2>4. KeysOK
    BY <2>1, <2>2, <2>3 DEF KeysOK
  <2>5. VersionsOK
    <3>1. NoCheck \in [at : CheckAts, found : Nat, switches : BOOLEAN] /\ NoCheck.found = 0
      BY DEF NoCheck, CheckAts, NoVersion
    <3>2. /\ check \in [Checks -> [at : CheckAts, found : Nat, switches : BOOLEAN]]
          /\ \A c \in Checks : check[c].found = 0
      BY <2>1, <3>1
    <3>3. backupPlan.versions \in Nat /\ backupPlan.versions >= 1
      BY <2>2
    <3> QED BY <2>1, <3>2, <3>3 DEF VersionsOK
  <2>6. SenderOK /\ ServerOK /\ sender.at # "unmark"
    <3>1. /\ NotSending.batch = {} /\ NotSending.at = "idle"
          /\ NotSending \in [at : SenderAts, key : Nat,
                             batch : SUBSET [key : RoomKey, revision : Nat \ {0}]]
      BY DEF NotSending, SenderAts, NoVersion
    <3> QED BY <2>1, <3>1 DEF SenderOK, ServerOK
  <2>7. NothingForgotten
    BY <2>3, <2>6 DEF NothingForgotten
  <2> QED BY <2>4, <2>5, <2>6, <2>7 DEF BackupInv
<1>2. BackupInv /\ [BackupNext]_backupVars => BackupInv'
  BY BackupStep
<1>3. BackupInv => UnflaggedIsBackedUp
  <2> SUFFICES ASSUME BackupInv PROVE UnflaggedIsBackedUp
    OBVIOUS
  <2>1. {backupInfo, algorithm, current} \subseteq 0 .. backupPlan.versions
    BY DEF BackupInv, VersionsOK, KeysOK
  <2>2. sender.at \in SenderAts
    BY DEF BackupInv, SenderOK
  <2>3. \A c \in Checks : check[c].at \in CheckAts
    BY DEF BackupInv, VersionsOK
  <2>4. BackupTypeOK
    BY <2>1, <2>2, <2>3 DEF BackupInv, BackupTypeOK, KeysOK, VersionsOK, ServerOK, SenderAts,
                            CheckAts
  <2> QED BY <2>4 DEF UnflaggedIsBackedUp, BackupInv, NothingForgotten
<1> QED BY <1>1, <1>2, <1>3, PTL DEF BackupSpec

-----------------------------------------------------------------------------
(* Requests of this device.                                                *)

OneTab == \E t : Tabs = {t}

\* Identifiers are taken from the counter, and no two are the same.
RowsOK ==
  /\ next > 0
  /\ \A n \in seen : n < next
  /\ \A b \in Bodies : row[b] # NoRow =>
       /\ row[b].id > 0 /\ row[b].id < next
       /\ row[b].requestTxnId < next /\ row[b].cancellationTxnId < next
       /\ row[b].st \in {"CancellationPending", "CancellationPendingAndWillResend"}
            => row[b].cancellationTxnId > 0

RowsDiffer ==
  \A a, b \in Bodies : row[a] # NoRow /\ row[b] # NoRow =>
    /\ row[a].id = row[b].id => a = b
    /\ row[b].cancellationTxnId > 0 =>
         /\ row[a].cancellationTxnId = row[b].cancellationTxnId => a = b
         /\ requestTxn(row[a]) # row[b].cancellationTxnId

\* A message is about the row whose identifiers it has.
MessagesOK ==
  \A m \in sends :
    /\ m.id < next /\ m.txn < next /\ (m.arrived => m.txn \in seen)
    /\ \A b \in Bodies : row[b] # NoRow =>
         /\ m.id = row[b].id => m.body = b
         /\ m.txn = row[b].cancellationTxnId /\ row[b].cancellationTxnId > 0
              => m.action = "request_cancellation" /\ m.id = row[b].id

\* The timer's loop sends one request at a time, and no other step touches a
\* request that is being sent except to forget it.
OneRequest ==
  /\ \A m, n \in sends : m.action = "request" /\ n.action = "request" => m = n
  /\ \A m \in sends : m.action = "request" =>
       /\ m.from = "timer"
       /\ row[m.body] # NoRow /\ row[m.body].id = m.id
            => row[m.body].st = "Unsent" /\ requestTxn(row[m.body]) = m.txn

\* What the server has seen of a request.
ServerSaw ==
  \A b \in Bodies :
    /\ row[b].st \in {"Sent", "CancellationPending"} => requestTxn(row[b]) \in seen
    /\ row[b].st = "CancellationPending" /\ row[b].cancellationTxnId \in seen
         => row[b].id \notin held

\* Only cancelRoomKeyRequest cancels.
CallsOK == \A c \in calls : c.todo = "cancel" => c.op = "cancel"

RequestsInv == TypeOK /\ CallsOK /\ RowsOK /\ RowsDiffer /\ MessagesOK /\ OneRequest /\ ServerSaw

\* What a row is.
LEMMA RowFacts ==
  ASSUME TypeOK, NEW b \in Bodies
  PROVE  /\ row[b] # NoRow => /\ row[b] \in Row /\ row[b].st \in RoomKeyRequestState
                              /\ row[b].id \in Nat /\ row[b].requestTxnId \in Nat
                              /\ row[b].cancellationTxnId \in Nat /\ requestTxn(row[b]) \in Nat
         /\ row[b].st # "none" <=> row[b] # NoRow
<1>1. row[b] \in Row \cup {NoRow}
  BY DEF TypeOK
<1>2. CASE row[b] = NoRow
  BY <1>2 DEF NoRow
<1>3. CASE row[b] \in Row /\ row[b] # NoRow
  <2>1. /\ row[b].st \in RoomKeyRequestState /\ row[b].id \in Nat /\ row[b].requestTxnId \in Nat
        /\ row[b].cancellationTxnId \in Nat
    BY <1>3 DEF Row
  <2> QED BY <1>3, <2>1 DEF RoomKeyRequestState, requestTxn
<1> QED BY <1>1, <1>2, <1>3

\* The timer is in a state of its own after a call has returned or failed.
LEMMA TimerFacts ==
  ASSUME TypeOK, NEW t \in Tabs, NEW op,
         \/ UNCHANGED timer \/ startTimer(t) \/ Return(t, op)
         \/ \E s \in {"null", "waiting", "running"} : timer' = [timer EXCEPT ![t] = s]
  PROVE  timer' \in [Tabs -> {"null", "waiting", "running"}]
BY DEF TypeOK, startTimer, Return

\* The counters of the bounds.
LEMMA SpendFacts ==
  ASSUME TypeOK, NEW x \in {"calls", "failures", "reloads", "stops"}, Spend(x)
  PROVE  used' \in [calls : Nat, failures : Nat, reloads : Nat, stops : Nat]
BY DEF TypeOK, Spend

\* Every message has its type.
LEMMA MessageFacts ==
  ASSUME TypeOK, NEW t \in Tabs, NEW b \in Bodies
  PROVE  /\ row[b] # NoRow => sendRequest(t, b, row[b]) \in Message
         /\ \A r \in Row, from \in Ops \cup {"timer"}, again \in BOOLEAN :
              sendCancellation(t, from, b, r, again) \in Message
<1>1. row[b] # NoRow => sendRequest(t, b, row[b]) \in Message
  BY RowFacts DEF sendRequest, Message
<1>2. \A r \in Row, from \in Ops \cup {"timer"}, again \in BOOLEAN :
        sendCancellation(t, from, b, r, again) \in Message
  BY DEF sendCancellation, Message, Row
<1> QED BY <1>1, <1>2

\* A call that was read.
LEMMA CallFacts ==
  ASSUME TypeOK, NEW c \in calls
  PROVE  /\ c \in Call /\ c.tab \in Tabs /\ c.op \in Ops /\ c.body \in Bodies /\ c.id \in Nat
         /\ [c EXCEPT !.todo = "read"] \in Call
         /\ \A x \in {"add", "uncancel", "resend", "delete", "cancel"}, i \in Nat :
              [c EXCEPT !.todo = x, !.id = i] \in Call
         /\ \A st : Todo(c.op, st) \in {"add", "uncancel", "resend", "delete", "cancel", "nothing"}
<1>1. c \in Call
  BY DEF TypeOK
<1>2. \A st : Todo(c.op, st) \in {"add", "uncancel", "resend", "delete", "cancel", "nothing"}
  BY DEF Todo
<1> QED BY <1>1, <1>2 DEF Call

\* A call that is made.
LEMMA NewCallFacts ==
  ASSUME NEW t \in Tabs, NEW b \in Bodies, NEW op \in Ops
  PROVE  NewCall(t, op, b) \in Call
BY DEF NewCall, Call

\* The row that a call or a message leaves behind.
LEMMA RowTypes ==
  ASSUME TypeOK, NEW b \in Bodies, NEW r \in Row \cup {NoRow}, row' = [row EXCEPT ![b] = r]
  PROVE  row' \in [Bodies -> Row \cup {NoRow}] /\ row'[b] = r
         /\ \A x \in Bodies : x # b => row'[x] = row[x]
BY DEF TypeOK

\* The four ways in which a step changes the table: nothing, a request is added,
\* a request is forgotten, a request in state st gets another state.
Untouched == row' = row /\ next' >= next /\ next' \in Nat

Added(b) ==
  /\ row[b] = NoRow /\ next' = next + 1
  /\ row' = [row EXCEPT ![b] = [st |-> "Unsent", id |-> next, requestTxnId |-> 0,
                                cancellationTxnId |-> 0]]

Forgotten(b, st) ==
  /\ row[b].st = st /\ row' = [row EXCEPT ![b] = NoRow] /\ next' = next

Moved(b, st, r) ==
  /\ row[b] # NoRow /\ row[b].st = st /\ r \in Row /\ row' = [row EXCEPT ![b] = r]
  /\ r.id = row[b].id /\ next' \in Nat /\ next' >= next
  /\ \/ r.cancellationTxnId = row[b].cancellationTxnId
     \/ r.cancellationTxnId = next /\ next' > next
  /\ \/ r.requestTxnId = row[b].requestTxnId
     \/ /\ r.requestTxnId = next + 1 /\ next' > next + 1
        /\ r.cancellationTxnId = next

\* What the steps of a call do to the table and to the messages.
CallMoves(c) ==
  LET b == c.body IN
  \/ Untouched /\ UNCHANGED sends
  \/ Added(b) /\ UNCHANGED sends
  \/ Forgotten(b, "Unsent") /\ UNCHANGED sends
  \/ \E r \in Row : /\ Moved(b, "CancellationPending", r) /\ UNCHANGED sends
                    /\ r.st \in {"Sent", "CancellationPendingAndWillResend"}
                    /\ r.cancellationTxnId = next /\ r.requestTxnId = row[b].requestTxnId
  \/ \E r \in Row, again \in BOOLEAN :
       /\ Moved(b, "Sent", r) /\ r.cancellationTxnId = next
       /\ r.st = IF again THEN "CancellationPendingAndWillResend" ELSE "CancellationPending"
       /\ r.requestTxnId = row[b].requestTxnId \/ again
       /\ sends' = sends \cup {sendCancellation(c.tab, c.op, b, r, again)}

\* Every step of a call has its types and is one of these.
LEMMA CallStepMoves ==
  ASSUME TypeOK, CallsOK, NEW c \in calls, CallStep(c)
  PROVE  TypeOK' /\ CallsOK' /\ CallMoves(c) /\ UNCHANGED <<seen, held>>
<1> DEFINE b == c.body
<1>1. /\ c \in Call /\ c.tab \in Tabs /\ c.op \in Ops /\ b \in Bodies /\ c.id \in Nat
      /\ next \in Nat /\ row[b] \in Row \cup {NoRow} /\ calls \ {c} \subseteq Call
  BY CallFacts DEF TypeOK, CallsOK
<1> HIDE DEF b
<1>2. CASE getOutgoingRoomKeyRequest(c)
  <2>1. UNCHANGED <<row, sends, immediate, running, next, seen, held, used>>
    BY <1>2 DEF getOutgoingRoomKeyRequest, server
  <2>2. timer' \in [Tabs -> {"null", "waiting", "running"}]
    BY <1>1, <1>2, TimerFacts DEF getOutgoingRoomKeyRequest
  <2>3. calls' \subseteq Call /\ CallsOK'
    <3>1. PICK i, todo : /\ i = IF row[b] = NoRow THEN 0 ELSE row[b].id
                         /\ todo = Todo(c.op, row[b].st)
      OBVIOUS
    <3>2. calls' = calls \ {c} \/ (todo # "nothing"
              /\ calls' = (calls \ {c}) \cup {[c EXCEPT !.todo = todo, !.id = i]})
      BY <1>2, <3>1 DEF getOutgoingRoomKeyRequest, b
    <3>3. i \in Nat
      BY <1>1, <3>1, RowFacts
    <3>4. todo \in {"add", "uncancel", "resend", "delete", "cancel", "nothing"}
      BY <3>1, CallFacts
    <3>5. PICK d : d = [c EXCEPT !.todo = todo, !.id = i]
      OBVIOUS
    <3>6. todo # "nothing" => d \in Call /\ d.todo = todo /\ d.op = c.op
      BY <1>1, <3>3, <3>4, <3>5 DEF Call
    <3>7. todo = "cancel" => c.op = "cancel"
      BY <3>1 DEF Todo
    <3> QED BY <1>1, <3>2, <3>5, <3>6, <3>7 DEF CallsOK
  <2>4. CallMoves(c)
    BY <1>1, <2>1 DEF CallMoves, Untouched
  <2> QED BY <2>1, <2>2, <2>3, <2>4 DEF TypeOK, CallsOK
<1>3. CASE getOrAddOutgoingRoomKeyRequest(c)
  <2>1. /\ UNCHANGED <<sends, immediate, running, seen, held, used>> /\ next' = next + 1
        /\ calls' = calls \ {c}
    BY <1>3 DEF getOrAddOutgoingRoomKeyRequest, server
  <2>2. timer' \in [Tabs -> {"null", "waiting", "running"}]
    BY <1>1, <1>3, TimerFacts DEF getOrAddOutgoingRoomKeyRequest
  <2>3. CallMoves(c)
    BY <1>1, <1>3, <2>1 DEF getOrAddOutgoingRoomKeyRequest, b, CallMoves, Untouched, Added
  <2>4. row' \in [Bodies -> Row \cup {NoRow}]
    <3>1. [st |-> "Unsent", id |-> next, requestTxnId |-> 0, cancellationTxnId |-> 0] \in Row
      BY <1>1 DEF Row, RoomKeyRequestState
    <3> QED BY <1>1, <1>3, <3>1 DEF getOrAddOutgoingRoomKeyRequest, b, TypeOK
  <2> QED BY <1>1, <2>1, <2>2, <2>3, <2>4 DEF TypeOK, CallsOK
<1>4. CASE uncancel(c)
  <2>1. /\ UNCHANGED <<sends, immediate, running, seen, held, used>> /\ next' = next + 1
        /\ calls' = calls \ {c}
    BY <1>4 DEF uncancel, server
  <2>2. timer' \in [Tabs -> {"null", "waiting", "running"}]
    BY <1>1, <1>4, TimerFacts DEF uncancel
  <2>3. CASE IsIn(b, c.id, "CancellationPending")
    <3>1. PICK st : st = IF c.op = "queue" THEN "Sent" ELSE "CancellationPendingAndWillResend"
      OBVIOUS
    <3>2. row[b] # NoRow /\ row[b].st = "CancellationPending" /\ row[b] \in Row
      BY <1>1, <2>3 DEF IsIn
    <3>3. PICK r : r = [row[b] EXCEPT !.st = st, !.cancellationTxnId = next]
      OBVIOUS
    <3>4. row' = [row EXCEPT ![b] = r]
      BY <1>4, <2>3, <3>1, <3>3 DEF uncancel, b
    <3>5. st \in RoomKeyRequestState
      BY <3>1 DEF RoomKeyRequestState
    <3>6. /\ r \in Row /\ r.st = st /\ r.id = row[b].id /\ r.requestTxnId = row[b].requestTxnId
          /\ r.cancellationTxnId = next
      <4>1. next \in Nat /\ row[b] \in Row
        BY <1>1, <3>2
      <4> QED BY ONLY <3>3, <3>5, <4>1 DEF Row
    <3>7. Moved(b, "CancellationPending", r)
      BY <1>1, <2>1, <3>2, <3>4, <3>6 DEF Moved
    <3>8. CallMoves(c)
      BY <2>1, <3>1, <3>6, <3>7 DEF CallMoves, b
    <3>9. row' \in [Bodies -> Row \cup {NoRow}]
      BY <1>1, <3>4, <3>6, RowTypes
    <3> QED BY <1>1, <2>1, <2>2, <3>8, <3>9 DEF TypeOK, CallsOK
  <2>4. CASE ~IsIn(b, c.id, "CancellationPending")
    <3>1. row' = row
      BY <1>4, <2>4 DEF uncancel, b
    <3>2. CallMoves(c)
      BY <1>1, <2>1, <3>1 DEF CallMoves, Untouched
    <3> QED BY <1>1, <2>1, <2>2, <3>1, <3>2 DEF TypeOK, CallsOK
  <2> QED BY <2>3, <2>4
<1>5. CASE resend(c)
  <2>1. UNCHANGED <<timer, immediate, running, seen, held, used>> /\ next' = next + 2
    BY <1>5 DEF resend, server, tabVars
  <2>2. CASE IsIn(b, c.id, "Sent")
    <3>1. row[b] # NoRow /\ row[b].st = "Sent" /\ row[b] \in Row
      BY <1>1, <2>2 DEF IsIn
    <3>2. PICK r : r = Resent(row[b])
      OBVIOUS
    <3>3. /\ r \in Row /\ r.st = "CancellationPendingAndWillResend" /\ r.id = row[b].id
          /\ r.cancellationTxnId = next /\ r.requestTxnId = next + 1
      <4>1. "CancellationPendingAndWillResend" \in RoomKeyRequestState /\ next + 1 \in Nat
        BY <1>1 DEF RoomKeyRequestState
      <4>2. next \in Nat /\ row[b] \in Row
        BY <1>1, <3>1
      <4> QED BY ONLY <3>2, <4>1, <4>2 DEF Resent, Row
    <3>4. row' = [row EXCEPT ![b] = r] /\ calls' = calls \ {c}
      BY <1>5, <2>2, <3>2 DEF resend, b
    <3>5. row' \in [Bodies -> Row \cup {NoRow}] /\ row'[b] = r
      BY <1>1, <3>3, <3>4, RowTypes
    <3>6. sends' = sends \cup {sendCancellation(c.tab, c.op, b, r, TRUE)}
      BY <1>5, <2>2, <3>5 DEF resend, b
    <3>7. sends' \subseteq Message
      <4>1. sendCancellation(c.tab, c.op, b, r, TRUE) \in Message
        BY <1>1, <3>3, MessageFacts
      <4> QED BY <3>6, <4>1 DEF TypeOK, CallsOK
    <3>8. Moved(b, "Sent", r)
      BY <1>1, <2>1, <3>1, <3>3, <3>4 DEF Moved
    <3>9. CallMoves(c)
      BY <3>3, <3>6, <3>8 DEF CallMoves, b
    <3> QED BY <1>1, <2>1, <3>4, <3>5, <3>7, <3>9 DEF TypeOK, CallsOK
  <2>3. CASE ~IsIn(b, c.id, "Sent")
    <3>1. UNCHANGED <<row, sends>> /\ calls' = (calls \ {c}) \cup {[c EXCEPT !.todo = "read"]}
      BY <1>5, <2>3 DEF resend, b
    <3>2. CallMoves(c)
      BY <1>1, <2>1, <3>1 DEF CallMoves, Untouched
    <3>3. calls' \subseteq Call /\ CallsOK'
      <4>1. PICK d : d = [c EXCEPT !.todo = "read"]
        OBVIOUS
      <4>2. d \in Call /\ d.todo = "read"
        BY <1>1, <4>1 DEF Call
      <4> QED BY <1>1, <3>1, <4>1, <4>2 DEF CallsOK
    <3> QED BY <1>1, <2>1, <3>1, <3>2, <3>3 DEF TypeOK, CallsOK
  <2> QED BY <2>2, <2>3
<1>6. CASE deleteUnsent(c)
  <2>1. /\ UNCHANGED <<sends, timer, immediate, running, next, seen, held, used>>
        /\ calls' = calls \ {c}
        /\ row' = IF IsIn(b, c.id, "Unsent") THEN [row EXCEPT ![b] = NoRow] ELSE row
    BY <1>6 DEF deleteUnsent, server, tabVars, b
  <2>2. CallMoves(c)
    BY <1>1, <2>1 DEF CallMoves, Untouched, Forgotten, IsIn, b
  <2>3. row' \in [Bodies -> Row \cup {NoRow}]
    BY <1>1, <2>1 DEF TypeOK, CallsOK
  <2> QED BY <1>1, <2>1, <2>2, <2>3 DEF TypeOK, CallsOK
<1>7. CASE cancelSent(c)
  <2>1. /\ UNCHANGED <<timer, immediate, running, seen, held, used>> /\ next' = next + 1
        /\ calls' = calls \ {c}
    BY <1>7 DEF cancelSent, server, tabVars
  <2>2. CASE IsIn(b, c.id, "Sent")
    <3>1. row[b] # NoRow /\ row[b].st = "Sent" /\ row[b] \in Row
      BY <1>1, <2>2 DEF IsIn
    <3>2. PICK r : r = [row[b] EXCEPT !.st = "CancellationPending", !.cancellationTxnId = next]
      OBVIOUS
    <3>3. /\ r \in Row /\ r.st = "CancellationPending" /\ r.id = row[b].id
          /\ r.cancellationTxnId = next /\ r.requestTxnId = row[b].requestTxnId
      <4>1. "CancellationPending" \in RoomKeyRequestState
        BY DEF RoomKeyRequestState
      <4>2. next \in Nat /\ row[b] \in Row
        BY <1>1, <3>1
      <4> QED BY ONLY <3>2, <4>1, <4>2 DEF Row
    <3>4. row' = [row EXCEPT ![b] = r]
      BY <1>7, <2>2, <3>2 DEF cancelSent, b
    <3>5. row' \in [Bodies -> Row \cup {NoRow}] /\ row'[b] = r
      BY <1>1, <3>3, <3>4, RowTypes
    <3>6. sends' = sends \cup {sendCancellation(c.tab, c.op, b, r, FALSE)}
      <4>1. c.op = "cancel"
        BY <1>7 DEF cancelSent, CallsOK
      <4> QED BY <1>7, <2>2, <3>5, <4>1 DEF cancelSent, b
    <3>7. sends' \subseteq Message
      <4>1. sendCancellation(c.tab, c.op, b, r, FALSE) \in Message
        BY <1>1, <3>3, MessageFacts
      <4> QED BY <3>6, <4>1 DEF TypeOK, CallsOK
    <3>8. Moved(b, "Sent", r)
      BY <1>1, <2>1, <3>1, <3>3, <3>4 DEF Moved
    <3>9. CallMoves(c)
      BY <3>3, <3>6, <3>8 DEF CallMoves, b
    <3> QED BY <1>1, <2>1, <3>5, <3>7, <3>9 DEF TypeOK, CallsOK
  <2>3. CASE ~IsIn(b, c.id, "Sent")
    <3>1. UNCHANGED <<row, sends>>
      BY <1>7, <2>3 DEF cancelSent, b
    <3>2. CallMoves(c)
      BY <1>1, <2>1, <3>1 DEF CallMoves, Untouched
    <3> QED BY <1>1, <2>1, <3>1, <3>2 DEF TypeOK, CallsOK
  <2> QED BY <2>2, <2>3
<1> QED BY <1>2, <1>3, <1>4, <1>5, <1>6, <1>7 DEF CallStep

\* The parts of the invariant that are about the table and the messages only.
TableOK == RowsOK /\ RowsDiffer

\* A message that was in flight is about the same row after the step.
StillOK(m) ==
  /\ m.id < next' /\ m.txn < next'
  /\ \A b \in Bodies : row'[b] # NoRow =>
       /\ m.id = row'[b].id => m.body = b
       /\ m.txn = row'[b].cancellationTxnId /\ row'[b].cancellationTxnId > 0
            => m.action = "request_cancellation" /\ m.id = row'[b].id

\* What the types say about the numbers in a message and in the table.
LEMMA Numbers ==
  ASSUME RequestsInv
  PROVE  /\ next \in Nat /\ TypeOK
         /\ \A m \in sends : m.id \in Nat /\ m.txn \in Nat /\ m.body \in Bodies /\ m.tab \in Tabs
         /\ \A n \in seen : n \in Nat /\ n < next
<1>1. \A m \in Message : m.id \in Nat /\ m.txn \in Nat /\ m.body \in Bodies /\ m.tab \in Tabs
  BY DEF Message
<1> QED BY <1>1 DEF RequestsInv, TypeOK, RowsOK

\* Nothing happens to the table ...
LEMMA TableUntouched ==
  ASSUME RequestsInv, Untouched, UNCHANGED seen
  PROVE  TableOK' /\ \A m \in sends : StillOK(m)
<1> USE Numbers, RowFacts
<1>1. RowsOK'
  BY DEF RequestsInv, RowsOK, Untouched
<1>2. RowsDiffer'
  BY DEF RequestsInv, RowsDiffer, Untouched
<1>3. \A m \in sends : StillOK(m)
  BY DEF RequestsInv, MessagesOK, Untouched, StillOK
<1> QED BY <1>1, <1>2, <1>3 DEF TableOK

\* ... a request is forgotten ...
LEMMA TableForgets ==
  ASSUME RequestsInv, NEW b \in Bodies, NEW st, Forgotten(b, st), UNCHANGED seen
  PROVE  TableOK' /\ \A m \in sends : StillOK(m)
<1> USE Numbers, RowFacts
<1>1. /\ \A x \in Bodies : row'[x] # NoRow => row'[x] = row[x] /\ row[x] # NoRow
      /\ next' = next
  BY DEF Forgotten, TypeOK
<1>2. RowsOK'
  BY <1>1 DEF RequestsInv, RowsOK
<1>3. RowsDiffer'
  BY <1>1 DEF RequestsInv, RowsDiffer
<1>4. \A m \in sends : StillOK(m)
  BY <1>1 DEF RequestsInv, MessagesOK, StillOK
<1> QED BY <1>2, <1>3, <1>4 DEF TableOK

\* ... a request is added, with an identifier that nothing has yet ...
LEMMA TableAdds ==
  ASSUME RequestsInv, NEW b \in Bodies, Added(b), UNCHANGED seen
  PROVE  TableOK' /\ \A m \in sends : StillOK(m)
<1> USE Numbers, RowFacts
<1>1. PICK r : r = [st |-> "Unsent", id |-> next, requestTxnId |-> 0, cancellationTxnId |-> 0]
  OBVIOUS
<1>2. /\ r.st = "Unsent" /\ r.id = next /\ r.requestTxnId = 0 /\ r.cancellationTxnId = 0
      /\ requestTxn(r) = next
  BY <1>1 DEF requestTxn
<1>3. /\ \A x \in Bodies : row'[x] = IF x = b THEN r ELSE row[x]
      /\ next' = next + 1
  BY <1>1 DEF Added, TypeOK
<1>4. RowsOK'
  BY <1>2, <1>3 DEF RequestsInv, RowsOK
<1>5. RowsDiffer'
  BY <1>2, <1>3 DEF RequestsInv, RowsDiffer, RowsOK
<1>6. \A m \in sends : StillOK(m)
  BY <1>2, <1>3 DEF RequestsInv, MessagesOK, StillOK
<1> QED BY <1>4, <1>5, <1>6 DEF TableOK

\* ... or a request gets another state, with transactions that nothing has yet.
LEMMA TableMoves ==
  ASSUME RequestsInv, NEW b \in Bodies, NEW st, NEW r, Moved(b, st, r), UNCHANGED seen,
         r.st \in {"CancellationPending", "CancellationPendingAndWillResend"}
           => r.cancellationTxnId > 0
  PROVE  TableOK' /\ \A m \in sends : StillOK(m)
<1> USE Numbers, RowFacts
<1>1. /\ \A x \in Bodies : row'[x] = IF x = b THEN r ELSE row[x]
      /\ r.id = row[b].id /\ row[b] # NoRow /\ next' \in Nat /\ next' >= next
      /\ r.id \in Nat /\ r.cancellationTxnId \in Nat /\ r.requestTxnId \in Nat
  BY DEF Moved, TypeOK, Row
<1>2. r.cancellationTxnId = row[b].cancellationTxnId \/ r.cancellationTxnId = next
  BY DEF Moved
<1>3. requestTxn(r) = requestTxn(row[b]) \/ (requestTxn(r) = next + 1 /\ r.cancellationTxnId = next)
  BY DEF Moved, requestTxn
<1>4. \A x \in Bodies : row[x] # NoRow => requestTxn(row[x]) < next
  BY DEF RequestsInv, RowsOK, requestTxn
<1>5. RowsOK'
  <2>1. r.id > 0 /\ r.id < next' /\ r.requestTxnId < next' /\ r.cancellationTxnId < next'
    BY <1>1 DEF Moved, RequestsInv, RowsOK
  <2> QED BY <1>1, <2>1 DEF RequestsInv, RowsOK
<1>6. RowsDiffer'
  <2>1. ASSUME NEW x \in Bodies, NEW y \in Bodies, row'[x] # NoRow, row'[y] # NoRow
        PROVE  /\ row'[x].id = row'[y].id => x = y
               /\ row'[y].cancellationTxnId > 0 =>
                    /\ row'[x].cancellationTxnId = row'[y].cancellationTxnId => x = y
                    /\ requestTxn(row'[x]) # row'[y].cancellationTxnId
    <3>1. row[x] # NoRow /\ row[y] # NoRow
      BY <1>1, <2>1
    <3>2. row'[x].id = row[x].id /\ row'[y].id = row[y].id
      BY <1>1
    <3>3. /\ row[x].cancellationTxnId < next /\ row[y].cancellationTxnId < next
          /\ row[x].cancellationTxnId \in Nat /\ row[y].cancellationTxnId \in Nat
          /\ requestTxn(row[x]) < next /\ requestTxn(row[x]) \in Nat
      BY <1>4, <3>1 DEF RequestsInv, RowsOK
    <3>4. /\ row[x].id = row[y].id => x = y
          /\ row[y].cancellationTxnId > 0 =>
                    /\ row[x].cancellationTxnId = row[y].cancellationTxnId => x = y
                    /\ requestTxn(row[x]) # row[y].cancellationTxnId
      BY <3>1 DEF RequestsInv, RowsDiffer
    <3>5. row'[x].id = row'[y].id => x = y
      BY <3>2, <3>4
    <3>6. /\ x # b => row'[x] = row[x]
          /\ y # b => row'[y] = row[y]
          /\ x = b => row'[x] = r
          /\ y = b => row'[y] = r
      BY <1>1
    <3>7. row'[x].cancellationTxnId \in {row[x].cancellationTxnId, next}
      BY <3>6, <1>2
    <3>8. row'[y].cancellationTxnId \in {row[y].cancellationTxnId, next}
      BY <3>6, <1>2
    <3>9. CASE x # b /\ y # b
      BY <3>4, <3>6, <3>9
    <3>10. CASE x = b /\ y # b
      <4>1. next \in Nat /\ row[x].id \in Nat /\ row[y].id \in Nat
        BY <3>1
      <4> QED BY ONLY <1>2, <1>3, <3>3, <3>4, <3>5, <3>6, <3>10, <4>1
    <3>11. CASE x # b /\ y = b
      <4>1. next \in Nat /\ row[x].id \in Nat /\ row[y].id \in Nat
        BY <3>1
      <4> QED BY ONLY <1>2, <1>3, <3>3, <3>4, <3>5, <3>6, <3>11, <4>1
    <3>12. CASE x = b /\ y = b
      BY <1>2, <1>3, <3>3, <3>4, <3>6, <3>12
    <3> QED BY <3>9, <3>10, <3>11, <3>12
  <2> QED BY <2>1 DEF RowsDiffer, requestTxn
<1>7. ASSUME NEW m \in sends PROVE StillOK(m)
  <2>1. m.id < next /\ m.txn < next /\ m.id \in Nat /\ m.txn \in Nat
    BY DEF RequestsInv, MessagesOK
  <2>2. ASSUME NEW x \in Bodies, row'[x] # NoRow
        PROVE  /\ m.id = row'[x].id => m.body = x
               /\ m.txn = row'[x].cancellationTxnId /\ row'[x].cancellationTxnId > 0
                    => m.action = "request_cancellation" /\ m.id = row'[x].id
    <3>1. row[x] # NoRow /\ row'[x].id = row[x].id
      BY <1>1, <2>2
    <3>2. row'[x].cancellationTxnId \in {row[x].cancellationTxnId, next}
      BY <1>1, <1>2
    <3> QED BY <2>1, <3>1, <3>2 DEF RequestsInv, MessagesOK
  <2> QED BY <1>1, <2>1, <2>2 DEF StillOK
<1> QED BY <1>5, <1>6, <1>7 DEF TableOK

\* No message is new: what was said of the messages is still true.
LEMMA NoNewMessage ==
  ASSUME RequestsInv, \A m \in sends : StillOK(m), sends' \subseteq sends, seen \subseteq seen'
  PROVE  MessagesOK'
BY DEF RequestsInv, MessagesOK, StillOK

\* The cancellation of a row is about that row.
LEMMA NewCancellation ==
  ASSUME RequestsInv, TypeOK', TableOK', \A m \in sends : StillOK(m), UNCHANGED seen,
         NEW t \in Tabs, NEW from, NEW b \in Bodies, NEW again, row'[b] # NoRow,
         row'[b].cancellationTxnId > 0,
         sends' = sends \cup {sendCancellation(t, from, b, row'[b], again)}
  PROVE  MessagesOK'
<1>1. PICK x : x = sendCancellation(t, from, b, row'[b], again)
  OBVIOUS
<1>2. /\ x.id = row'[b].id /\ x.txn = row'[b].cancellationTxnId /\ x.body = b
      /\ x.action = "request_cancellation" /\ x.arrived = FALSE
  BY <1>1 DEF sendCancellation
<1>3. StillOK(x)
  <2>1. /\ row'[b].id < next' /\ row'[b].cancellationTxnId < next'
    BY DEF TableOK, RowsOK
  <2>2. \A y \in Bodies : row'[y] # NoRow =>
          /\ row'[b].id = row'[y].id => b = y
          /\ row'[y].cancellationTxnId > 0 /\ row'[b].cancellationTxnId = row'[y].cancellationTxnId
               => b = y
    BY DEF TableOK, RowsDiffer
  <2> QED BY <1>2, <2>1, <2>2 DEF StillOK
<1>4. \A m \in sends' : StillOK(m) /\ (m.arrived => m.txn \in seen)
  BY <1>1, <1>2, <1>3 DEF RequestsInv, MessagesOK
<1> QED BY <1>4 DEF MessagesOK, StillOK

\* A row that is not being sent may change its state, and any row may be
\* forgotten or added.
LEMMA StillOneRequest ==
  ASSUME RequestsInv, NEW b \in Bodies, UNCHANGED seen,
         \/ Untouched \/ Added(b) \/ (\E st : Forgotten(b, st))
         \/ \E st, r : Moved(b, st, r) /\ st # "Unsent",
         \A m \in sends' : m.action = "request" => m \in sends
  PROVE  OneRequest'
<1> USE Numbers
<1>1. ASSUME NEW m \in sends, m.action = "request", row'[m.body] # NoRow, row'[m.body].id = m.id
      PROVE  row'[m.body] = row[m.body]
  <2>1. m.id < next
    BY DEF RequestsInv, MessagesOK
  <2>2. CASE Untouched
    BY <2>2 DEF Untouched
  <2>3. CASE Added(b)
    <3>1. row'[b].id = next /\ \A x \in Bodies : x # b => row'[x] = row[x]
      BY <2>3 DEF Added, TypeOK
    <3> QED BY <1>1, <2>1, <3>1
  <2>4. CASE \E st : Forgotten(b, st)
    BY <1>1, <2>4 DEF Forgotten, TypeOK
  <2>5. ASSUME NEW st, NEW r, Moved(b, st, r), st # "Unsent"
        PROVE  row'[m.body] = row[m.body]
    <3>1. row'[b] = r /\ r.id = row[b].id /\ \A x \in Bodies : x # b => row'[x] = row[x]
      BY <2>5 DEF Moved, TypeOK
    <3>2. row[b] # NoRow /\ row[b].st # "Unsent"
      BY <2>5 DEF Moved
    <3>3. m.body # b
      BY <1>1, <3>1, <3>2 DEF RequestsInv, OneRequest
    <3> QED BY <3>1, <3>3
  <2> QED BY <2>2, <2>3, <2>4, <2>5
<1> QED BY <1>1 DEF RequestsInv, OneRequest, requestTxn

\* Every step of a call keeps the invariant.
LEMMA CallKeeps ==
  ASSUME RequestsInv, NEW c \in calls, CallStep(c)
  PROVE  RequestsInv'
<1> DEFINE b == c.body
<1>1. /\ TypeOK' /\ CallsOK' /\ CallMoves(c) /\ UNCHANGED <<seen, held>> /\ TypeOK
      /\ b \in Bodies /\ c.tab \in Tabs
  BY CallStepMoves, CallFacts DEF RequestsInv
<1> HIDE DEF b
<1> USE Numbers
<1>2. CASE Untouched /\ UNCHANGED sends
  <2>1. TableOK' /\ \A m \in sends : StillOK(m)
    BY <1>1, <1>2, TableUntouched
  <2>2. MessagesOK' /\ OneRequest'
    BY <1>1, <1>2, <2>1, NoNewMessage, StillOneRequest
  <2>3. ServerSaw'
    BY <1>1, <1>2 DEF RequestsInv, ServerSaw, Untouched, requestTxn
  <2> QED BY <1>1, <2>1, <2>2, <2>3 DEF RequestsInv, TableOK
<1>3. CASE Added(b) /\ UNCHANGED sends
  <2>1. TableOK' /\ \A m \in sends : StillOK(m)
    BY <1>1, <1>3, TableAdds
  <2>2. MessagesOK' /\ OneRequest'
    BY <1>1, <1>3, <2>1, NoNewMessage, StillOneRequest
  <2>3. ServerSaw'
    <3>1. row'[b].st = "Unsent" /\ \A x \in Bodies : x # b => row'[x] = row[x]
      BY <1>1, <1>3 DEF Added, TypeOK
    <3> QED BY <1>1, <3>1 DEF RequestsInv, ServerSaw, requestTxn
  <2> QED BY <1>1, <2>1, <2>2, <2>3 DEF RequestsInv, TableOK
<1>4. CASE Forgotten(b, "Unsent") /\ UNCHANGED sends
  <2>1. TableOK' /\ \A m \in sends : StillOK(m)
    BY <1>1, <1>4, TableForgets
  <2>2. MessagesOK' /\ OneRequest'
    BY <1>1, <1>4, <2>1, NoNewMessage, StillOneRequest
  <2>3. ServerSaw'
    <3>1. row'[b].st = "none" /\ \A x \in Bodies : x # b => row'[x] = row[x]
      BY <1>1, <1>4 DEF Forgotten, TypeOK, NoRow
    <3> QED BY <1>1, <3>1 DEF RequestsInv, ServerSaw, requestTxn
  <2> QED BY <1>1, <2>1, <2>2, <2>3 DEF RequestsInv, TableOK
<1>5. ASSUME NEW r \in Row, Moved(b, "CancellationPending", r), UNCHANGED sends,
             r.st \in {"Sent", "CancellationPendingAndWillResend"},
             r.cancellationTxnId = next, r.requestTxnId = row[b].requestTxnId
      PROVE  RequestsInv'
  <2>1. TableOK' /\ \A m \in sends : StillOK(m)
    BY <1>1, <1>5, TableMoves DEF RequestsInv, RowsOK
  <2>2. MessagesOK' /\ OneRequest'
    BY <1>1, <1>5, <2>1, NoNewMessage, StillOneRequest
  <2>3. ServerSaw'
    <3>1. row'[b] = r /\ \A x \in Bodies : x # b => row'[x] = row[x]
      BY <1>1, <1>5 DEF Moved, TypeOK
    <3>2. requestTxn(r) = requestTxn(row[b]) /\ row[b].st = "CancellationPending"
      BY <1>5 DEF Moved, requestTxn
    <3> QED BY <1>1, <1>5, <3>1, <3>2 DEF RequestsInv, ServerSaw, requestTxn
  <2> QED BY <1>1, <2>1, <2>2, <2>3 DEF RequestsInv, TableOK
<1>6. ASSUME NEW r \in Row, NEW again \in BOOLEAN, Moved(b, "Sent", r), r.cancellationTxnId = next,
             r.st = IF again THEN "CancellationPendingAndWillResend" ELSE "CancellationPending",
             r.requestTxnId = row[b].requestTxnId \/ again,
             sends' = sends \cup {sendCancellation(c.tab, c.op, b, r, again)}
      PROVE  RequestsInv'
  <2>1. TableOK' /\ \A m \in sends : StillOK(m)
    BY <1>1, <1>6, TableMoves DEF RequestsInv, RowsOK
  <2>2. row'[b] = r /\ r # NoRow /\ \A x \in Bodies : x # b => row'[x] = row[x]
    BY <1>1, <1>6 DEF Moved, TypeOK, Row, NoRow
  <2>3. MessagesOK'
    <3>1. next > 0
      BY DEF RequestsInv, RowsOK
    <3> QED BY <1>1, <1>6, <2>1, <2>2, <3>1, NewCancellation
  <2>4. OneRequest'
    <3>1. \A m \in sends' : m.action = "request" => m \in sends
      BY <1>6 DEF sendCancellation
    <3> QED BY <1>1, <1>6, <3>1, StillOneRequest
  <2>5. ServerSaw'
    <3>1. row[b].st = "Sent"
      BY <1>6 DEF Moved
    <3>2. ~again => requestTxn(r) = requestTxn(row[b])
      BY <1>6 DEF Moved, requestTxn
    <3>3. next \notin seen
      OBVIOUS
    <3> QED BY <1>1, <1>6, <2>2, <3>1, <3>2, <3>3 DEF RequestsInv, ServerSaw, requestTxn
  <2> QED BY <1>1, <2>1, <2>3, <2>4, <2>5 DEF RequestsInv, TableOK
<1> QED BY <1>1, <1>2, <1>3, <1>4, <1>5, <1>6 DEF CallMoves, b

\* Nothing but tabs, calls and messages in flight changes.
LEMMA TabsMove ==
  ASSUME RequestsInv, TypeOK', CallsOK', UNCHANGED <<row, next, seen, held>>, sends' \subseteq sends
  PROVE  RequestsInv'
<1> USE Numbers
<1>1. Untouched
  BY DEF Untouched
<1>2. TableOK' /\ \A m \in sends : StillOK(m)
  BY <1>1, TableUntouched
<1>3. MessagesOK'
  BY <1>2, NoNewMessage
<1>4. OneRequest' /\ ServerSaw'
  BY DEF RequestsInv, OneRequest, ServerSaw, requestTxn
<1> QED BY <1>2, <1>3, <1>4 DEF RequestsInv, TableOK

\* The server takes a message that it has not seen before.
LEMMA ArrivalKeeps ==
  ASSUME RequestsInv, NEW m \in sends, MessageArrives(m)
  PROVE  RequestsInv'
<1> USE Numbers
<1>1. PICK n : n = [m EXCEPT !.arrived = TRUE]
  OBVIOUS
<1>2. m \in Message
  BY DEF TypeOK
<1>3. /\ n \in Message /\ n.tab = m.tab /\ n.from = m.from /\ n.body = m.body /\ n.id = m.id
      /\ n.txn = m.txn /\ n.action = m.action
  BY ONLY <1>1, <1>2 DEF Message
<1>4. /\ sends' = (sends \ {m}) \cup {n} /\ seen' = seen \cup {m.txn}
      /\ UNCHANGED <<row, calls, timer, immediate, running, next, used>>
      /\ m.txn \in seen => held' = held
      /\ m.txn \notin seen /\ m.action = "request" => held' = held \cup {m.id}
      /\ m.txn \notin seen /\ m.action # "request" => held' = held \ {m.id}
  BY <1>1 DEF MessageArrives, tabVars
<1>5. TypeOK' /\ CallsOK'
  BY <1>3, <1>4 DEF RequestsInv, TypeOK, CallsOK
<1>6. m.txn < next /\ m.id < next
  BY DEF RequestsInv, MessagesOK
<1>7. RowsOK' /\ RowsDiffer'
  BY <1>4, <1>6 DEF RequestsInv, RowsOK, RowsDiffer, requestTxn
<1>8. MessagesOK'
  <2>1. ASSUME NEW x \in sends'
        PROVE  /\ x.id < next /\ x.txn < next /\ (x.arrived => x.txn \in seen')
               /\ \A b \in Bodies : row[b] # NoRow =>
                    /\ x.id = row[b].id => x.body = b
                    /\ x.txn = row[b].cancellationTxnId /\ row[b].cancellationTxnId > 0
                         => x.action = "request_cancellation" /\ x.id = row[b].id
    <3>1. CASE x = n
      BY <1>3, <1>4, <1>6, <3>1 DEF RequestsInv, MessagesOK
    <3>2. CASE x \in sends
      BY <1>4, <3>2 DEF RequestsInv, MessagesOK
    <3> QED BY <1>4, <3>1, <3>2
  <2> QED BY <1>4, <2>1 DEF MessagesOK
<1>9. OneRequest'
  <2>1. ASSUME NEW x \in sends', NEW y \in sends', x.action = "request", y.action = "request"
        PROVE  x = y
    <3>1. x \in sends \ {m} \/ x = n
      BY <1>4
    <3>2. y \in sends \ {m} \/ y = n
      BY <1>4
    <3> QED BY <1>3, <2>1, <3>1, <3>2 DEF RequestsInv, OneRequest
  <2>2. ASSUME NEW x \in sends', x.action = "request"
        PROVE  /\ x.from = "timer"
               /\ row[x.body] # NoRow /\ row[x.body].id = x.id
                    => row[x.body].st = "Unsent" /\ requestTxn(row[x.body]) = x.txn
    BY <1>3, <1>4, <2>2 DEF RequestsInv, OneRequest
  <2> QED BY <1>4, <2>1, <2>2 DEF OneRequest, requestTxn
<1>10. ServerSaw'
  <2>1. ASSUME NEW b \in Bodies, row[b].st = "CancellationPending",
               row[b].cancellationTxnId \in seen'
        PROVE  row[b].id \notin held'
    <3>1. row[b] # NoRow /\ row[b].cancellationTxnId > 0
      BY <2>1, RowFacts DEF RequestsInv, RowsOK
    <3>2. CASE m.txn \in seen
      BY <1>4, <2>1, <3>2 DEF RequestsInv, ServerSaw
    <3>3. CASE m.txn \notin seen /\ m.action = "request"
      <4>1. row[b].cancellationTxnId # m.txn
        BY <3>1, <3>3 DEF RequestsInv, MessagesOK
      <4>2. row[b].id # m.id
        BY <2>1, <3>1, <3>3 DEF RequestsInv, MessagesOK, OneRequest
      <4> QED BY <1>4, <2>1, <3>3, <4>1, <4>2 DEF RequestsInv, ServerSaw
    <3>4. CASE m.txn \notin seen /\ m.action # "request"
      <4>1. row[b].cancellationTxnId = m.txn => row[b].id = m.id
        BY <3>1 DEF RequestsInv, MessagesOK
      <4> QED BY <1>4, <2>1, <3>4, <4>1 DEF RequestsInv, ServerSaw
    <3> QED BY <3>2, <3>3, <3>4
  <2>2. \A b \in Bodies : row[b].st \in {"Sent", "CancellationPending"}
          => requestTxn(row[b]) \in seen'
    BY <1>4 DEF RequestsInv, ServerSaw
  <2> QED BY <1>4, <2>1, <2>2 DEF ServerSaw, requestTxn
<1> QED BY <1>5, <1>7, <1>8, <1>9, <1>10 DEF RequestsInv

\* What the store does when a message was sent.
LEMMA UpdateFacts ==
  ASSUME RequestsInv, NEW m \in sends, MessageSent(m)
  PROVE  /\ m.arrived /\ sends' = sends \ {m} /\ UNCHANGED <<next, seen, held>>
         /\ TypeOK' /\ CallsOK'
         /\ \/ row' = row
            \/ \E r : /\ Moved(m.body, "Unsent", r) /\ m.action = "request" /\ m.id = row[m.body].id
                      /\ r.st = "Sent" /\ requestTxn(r) = requestTxn(row[m.body])
            \/ \E r : Moved(m.body, "CancellationPendingAndWillResend", r) /\ r.st = "Unsent"
            \/ /\ Forgotten(m.body, "CancellationPending") /\ m.action = "request_cancellation"
               /\ m.id = row[m.body].id
<1> USE Numbers
<1> DEFINE b == m.body
<1>1. b \in Bodies /\ m.tab \in Tabs /\ row[b] \in Row \cup {NoRow}
  BY DEF TypeOK
<1>2. /\ m.arrived /\ sends' = sends \ {m} /\ row' = updateAfter(m)
      /\ UNCHANGED <<calls, immediate, running, next, seen, held, used>>
  BY DEF MessageSent, server
<1>3. timer' \in [Tabs -> {"null", "waiting", "running"}]
  BY <1>1, TimerFacts DEF MessageSent
<1> HIDE DEF b
<1>4. ASSUME row[b] # NoRow, NEW st \in RoomKeyRequestState, row' = [row EXCEPT ![b].st = st]
      PROVE  /\ row' \in [Bodies -> Row \cup {NoRow}]
             /\ \E r : Moved(b, row[b].st, r) /\ r.st = st /\ requestTxn(r) = requestTxn(row[b])
  <2>1. PICK r : r = [row[b] EXCEPT !.st = st]
    OBVIOUS
  <2>2. row[b] \in Row
    BY <1>1, <1>4
  <2>3. /\ r \in Row /\ r.st = st /\ r.id = row[b].id
        /\ r.cancellationTxnId = row[b].cancellationTxnId /\ r.requestTxnId = row[b].requestTxnId
    BY ONLY <1>4, <2>1, <2>2 DEF Row
  <2>4. row' = [row EXCEPT ![b] = r]
    BY <1>4, <2>1
  <2>5. Moved(b, row[b].st, r) /\ requestTxn(r) = requestTxn(row[b])
    <3>1. next' = next /\ next \in Nat /\ next >= next
      BY <1>2
    <3>2. requestTxn(r) = requestTxn(row[b])
      BY ONLY <2>3 DEF requestTxn
    <3> QED BY ONLY <1>4, <2>3, <2>4, <3>1, <3>2 DEF Moved
  <2> QED BY <1>1, <2>3, <2>4, <2>5, RowTypes
<1>5. {"Sent", "Unsent"} \subseteq RoomKeyRequestState
  BY DEF RoomKeyRequestState
<1>6. CASE m.action = "request" /\ IsIn(b, m.id, "Unsent")
  <2>1. row[b] # NoRow /\ row[b].id = m.id /\ row[b].st = "Unsent"
    BY <1>6 DEF IsIn
  <2>2. row' = [row EXCEPT ![b].st = "Sent"]
    <3>1. ~IsIn(b, m.id, "CancellationPendingAndWillResend") /\ ~IsIn(b, m.id, "CancellationPending")
      BY <2>1 DEF IsIn
    <3> QED BY <1>2, <1>6, <3>1 DEF updateAfter, b
  <2>3. /\ row' \in [Bodies -> Row \cup {NoRow}]
        /\ \E r : Moved(b, "Unsent", r) /\ r.st = "Sent" /\ requestTxn(r) = requestTxn(row[b])
    <3>1. "Sent" \in RoomKeyRequestState
      BY <1>5
    <3>2. /\ row' \in [Bodies -> Row \cup {NoRow}]
          /\ \E r : /\ Moved(b, row[b].st, r) /\ r.st = "Sent"
                    /\ requestTxn(r) = requestTxn(row[b])
      BY <1>4, <2>1, <2>2, <3>1
    <3> QED BY <2>1, <3>2
  <2>4. TypeOK' /\ CallsOK'
    BY <1>2, <1>3, <2>3 DEF TypeOK, RequestsInv, CallsOK
  <2> QED BY <1>2, <1>6, <2>1, <2>3, <2>4 DEF b
<1>7. CASE m.andResend /\ IsIn(b, m.id, "CancellationPendingAndWillResend")
  <2>1. row[b] # NoRow /\ row[b].id = m.id /\ row[b].st = "CancellationPendingAndWillResend"
    BY <1>7 DEF IsIn
  <2>2. row' = [row EXCEPT ![b].st = "Unsent"]
    <3>1. ~IsIn(b, m.id, "Unsent") /\ ~IsIn(b, m.id, "CancellationPending")
      BY <2>1 DEF IsIn
    <3> QED BY <1>2, <1>7, <3>1 DEF updateAfter, b
  <2>3. /\ row' \in [Bodies -> Row \cup {NoRow}]
        /\ \E r : Moved(b, "CancellationPendingAndWillResend", r) /\ r.st = "Unsent"
    BY <1>4, <1>5, <2>1, <2>2
  <2>4. TypeOK' /\ CallsOK'
    BY <1>2, <1>3, <2>3 DEF TypeOK, RequestsInv, CallsOK
  <2> QED BY <1>2, <2>3, <2>4 DEF b
<1>8. CASE /\ m.action = "request_cancellation" /\ ~m.andResend
           /\ IsIn(b, m.id, "CancellationPending")
  <2>1. row[b].id = m.id /\ row[b].st = "CancellationPending"
    BY <1>8 DEF IsIn
  <2>2. row' = [row EXCEPT ![b] = NoRow]
    <3>1. ~IsIn(b, m.id, "Unsent") /\ ~IsIn(b, m.id, "CancellationPendingAndWillResend")
      BY <2>1 DEF IsIn
    <3> QED BY <1>2, <1>8, <3>1 DEF updateAfter, b
  <2>3. row' \in [Bodies -> Row \cup {NoRow}]
    BY <1>1, <2>2, RowTypes
  <2> QED BY <1>2, <1>3, <1>8, <2>1, <2>2, <2>3 DEF TypeOK, RequestsInv, CallsOK, Forgotten, b
<1>9. CASE /\ ~(m.action = "request" /\ IsIn(b, m.id, "Unsent"))
           /\ ~(m.andResend /\ IsIn(b, m.id, "CancellationPendingAndWillResend"))
           /\ ~(/\ m.action = "request_cancellation" /\ ~m.andResend
                /\ IsIn(b, m.id, "CancellationPending"))
  <2>1. row' = row
    BY <1>2, <1>9 DEF updateAfter, b
  <2> QED BY <1>2, <1>3, <2>1 DEF TypeOK, RequestsInv, CallsOK
<1> QED BY <1>6, <1>7, <1>8, <1>9

\* The answer to a message keeps the invariant.
LEMMA AnswerKeeps ==
  ASSUME RequestsInv, NEW m \in sends, MessageSent(m)
  PROVE  RequestsInv'
<1> DEFINE b == m.body
<1> USE Numbers
<1>1. /\ m.arrived /\ sends' = sends \ {m} /\ UNCHANGED <<next, seen, held>> /\ TypeOK' /\ CallsOK'
      /\ b \in Bodies /\ \A x \in sends' : x \in sends /\ (x.action = "request" => x \in sends)
  BY UpdateFacts
<1> HIDE DEF b
<1>2. CASE row' = row
  BY <1>1, <1>2, TabsMove
<1>3. ASSUME NEW r, Moved(b, "Unsent", r), m.action = "request", m.id = row[b].id, r.st = "Sent",
             requestTxn(r) = requestTxn(row[b])
      PROVE  RequestsInv'
  <2>1. TableOK' /\ \A x \in sends : StillOK(x)
    BY <1>1, <1>3, TableMoves
  <2>2. MessagesOK'
    BY <1>1, <2>1, NoNewMessage
  <2>3. OneRequest'
    <3>1. \A x \in sends' : x.action # "request"
      BY <1>1, <1>3 DEF RequestsInv, OneRequest
    <3> QED BY <3>1 DEF OneRequest
  <2>4. ServerSaw'
    <3>1. row'[b] = r /\ \A x \in Bodies : x # b => row'[x] = row[x]
      BY <1>1, <1>3 DEF Moved, TypeOK
    <3>2. requestTxn(row[b]) = m.txn /\ m.txn \in seen
      <4>1. row[b] # NoRow
        BY <1>3 DEF Moved
      <4> QED BY <1>1, <1>3, <4>1 DEF RequestsInv, OneRequest, MessagesOK, b
    <3> QED BY <1>1, <1>3, <3>1, <3>2 DEF RequestsInv, ServerSaw, requestTxn
  <2> QED BY <1>1, <2>1, <2>2, <2>3, <2>4 DEF RequestsInv, TableOK
<1>4. ASSUME NEW r, Moved(b, "CancellationPendingAndWillResend", r), r.st = "Unsent"
      PROVE  RequestsInv'
  <2>1. TableOK' /\ \A x \in sends : StillOK(x)
    BY <1>1, <1>4, TableMoves
  <2>2. MessagesOK' /\ OneRequest'
    BY <1>1, <1>4, <2>1, NoNewMessage, StillOneRequest
  <2>3. ServerSaw'
    <3>1. row'[b] = r /\ \A x \in Bodies : x # b => row'[x] = row[x]
      BY <1>1, <1>4 DEF Moved, TypeOK
    <3> QED BY <1>1, <1>4, <3>1 DEF RequestsInv, ServerSaw, requestTxn
  <2> QED BY <1>1, <2>1, <2>2, <2>3 DEF RequestsInv, TableOK
<1>5. CASE Forgotten(b, "CancellationPending")
  <2>1. TableOK' /\ \A x \in sends : StillOK(x)
    BY <1>1, <1>5, TableForgets
  <2>2. MessagesOK' /\ OneRequest'
    BY <1>1, <1>5, <2>1, NoNewMessage, StillOneRequest
  <2>3. ServerSaw'
    <3>1. row'[b].st = "none" /\ \A x \in Bodies : x # b => row'[x] = row[x]
      BY <1>1, <1>5 DEF Forgotten, TypeOK, NoRow
    <3> QED BY <1>1, <3>1 DEF RequestsInv, ServerSaw, requestTxn
  <2> QED BY <1>1, <2>1, <2>2, <2>3 DEF RequestsInv, TableOK
<1> QED BY <1>2, <1>3, <1>4, <1>5, UpdateFacts DEF b

\* The timer's loop sends the next request, or its cancellation: with one tab,
\* no other request is being sent.
LEMMA LoopKeeps ==
  ASSUME RequestsInv, OneTab, NEW t \in Tabs, sendOutgoingRoomKeyRequests(t)
  PROVE  RequestsInv'
<1> USE Numbers
<1>1. /\ UNCHANGED <<row, calls, immediate, running, next, seen, held, used>> /\ TimerSends(t) = {}
      /\ timer' \in [Tabs -> {"null", "waiting", "running"}]
  BY TimerFacts DEF sendOutgoingRoomKeyRequests, server
<1>2. CASE UNCHANGED sends
  <2>1. TypeOK' /\ CallsOK'
    BY <1>1, <1>2 DEF RequestsInv, TypeOK, CallsOK
  <2> QED BY <1>1, <1>2, <2>1, TabsMove
<1>3. ASSUME NEW b \in Bodies, row[b].st \in Pending,
             sends' = sends \cup {IF row[b].st = "Unsent" THEN sendRequest(t, b, row[b])
                                  ELSE sendCancellation(t, "timer", b, row[b],
                                         row[b].st = "CancellationPendingAndWillResend")}
      PROVE  RequestsInv'
  <2>1. row[b] # NoRow /\ row[b] \in Row
    BY <1>3, RowFacts DEF Pending, RoomKeyRequestState
  <2>2. TableOK' /\ \A m \in sends : StillOK(m)
    <3>1. Untouched
      BY <1>1 DEF Untouched
    <3> QED BY <1>1, <3>1, TableUntouched
  <2>3. ServerSaw' /\ CallsOK'
    BY <1>1 DEF RequestsInv, ServerSaw, CallsOK, requestTxn
  <2>4. CASE row[b].st = "Unsent"
    <3>1. PICK x : x = sendRequest(t, b, row[b])
      OBVIOUS
    <3>2. /\ x.id = row[b].id /\ x.txn = requestTxn(row[b]) /\ x.body = b /\ x.action = "request"
          /\ x.arrived = FALSE /\ x.from = "timer"
      BY <3>1 DEF sendRequest
    <3>3. sends' = sends \cup {x} /\ x \in Message
      BY <1>3, <2>1, <2>4, <3>1, MessageFacts
    <3>4. TypeOK'
      BY <1>1, <3>3 DEF TypeOK
    <3>5. StillOK(x)
      <4>1. x.id < next /\ x.txn < next
        BY <2>1, <3>2, RowFacts DEF RequestsInv, RowsOK, requestTxn
      <4>2. ASSUME NEW y \in Bodies, row[y] # NoRow
            PROVE  /\ x.id = row[y].id => b = y
                   /\ row[y].cancellationTxnId > 0 => x.txn # row[y].cancellationTxnId
        BY <2>1, <3>2, <4>2 DEF RequestsInv, RowsDiffer
      <4> QED BY <1>1, <3>2, <4>1, <4>2 DEF StillOK
    <3>6. MessagesOK'
      BY <1>1, <2>2, <3>2, <3>3, <3>5 DEF RequestsInv, MessagesOK, StillOK
    <3>7. \A m \in sends : m.action # "request"
      <4>1. \A m \in sends : m.tab = t
        BY DEF OneTab
      <4> QED BY <1>1, <4>1 DEF TimerSends, RequestsInv, OneRequest
    <3>8. OneRequest'
      BY <1>1, <2>1, <2>4, <3>2, <3>3, <3>7 DEF OneRequest, requestTxn
    <3> QED BY <2>2, <2>3, <3>4, <3>6, <3>8 DEF RequestsInv, TableOK
  <2>5. CASE row[b].st # "Unsent"
    <3>1. PICK again : again = (row[b].st = "CancellationPendingAndWillResend")
      OBVIOUS
    <3>2. again \in BOOLEAN
      BY <3>1
    <3>3. sends' = sends \cup {sendCancellation(t, "timer", b, row[b], again)}
      BY <1>3, <2>5, <3>1
    <3>4. sendCancellation(t, "timer", b, row[b], again) \in Message
      BY <2>1, <3>2, MessageFacts
    <3>5. TypeOK'
      BY <1>1, <3>3, <3>4 DEF TypeOK
    <3>6. row[b].cancellationTxnId > 0
      <4>1. row[b].st \in {"CancellationPending", "CancellationPendingAndWillResend"}
        BY <1>3, <2>5 DEF Pending, RoomKeyRequestState
      <4> QED BY <2>1, <4>1 DEF RequestsInv, RowsOK
    <3>7. MessagesOK'
      BY <1>1, <2>1, <2>2, <3>3, <3>5, <3>6, NewCancellation
    <3>8. OneRequest'
      <4>1. \A m \in sends' : m.action = "request" => m \in sends
        BY <3>3 DEF sendCancellation
      <4>2. Untouched
        BY <1>1 DEF Untouched
      <4> QED BY <1>1, <4>1, <4>2, StillOneRequest
    <3> QED BY <2>2, <2>3, <3>5, <3>7, <3>8 DEF RequestsInv, TableOK
  <2> QED BY <2>4, <2>5
<1> QED BY <1>2, <1>3 DEF sendOutgoingRoomKeyRequests

\* RequestsInv is kept by every step of a single tab.
LEMMA RequestsStep ==
  ASSUME RequestsInv, OneTab, [Next]_vars
  PROVE  RequestsInv'
<1> USE Numbers
<1>1. ASSUME NEW t \in Tabs, NEW op \in Ops, NEW b \in Bodies, RequestCall(t, op, b)
      PROVE  RequestsInv'
  <2>1. /\ calls' = calls \cup {NewCall(t, op, b)} /\ Spend("calls")
        /\ UNCHANGED <<row, sends, timer, immediate, running, next, seen, held>>
    BY <1>1 DEF RequestCall, tabVars, server
  <2>2. NewCall(t, op, b) \in Call /\ NewCall(t, op, b).todo = "read"
    BY NewCallFacts DEF NewCall
  <2>3. TypeOK' /\ CallsOK'
    BY <2>1, <2>2, SpendFacts DEF RequestsInv, TypeOK, CallsOK
  <2> QED BY <2>1, <2>3, TabsMove
<1>2. ASSUME NEW t \in Tabs, cancelAndResendAllOutgoingRequests(t) PROVE RequestsInv'
  <2>1. /\ "resendAll" \in Ops /\ Spend("calls")
        /\ calls' \subseteq calls \cup {NewCall(t, "resendAll", b) : b \in Bodies}
        /\ UNCHANGED <<row, sends, timer, immediate, running, next, seen, held>>
    BY <1>2 DEF cancelAndResendAllOutgoingRequests, tabVars, server
  <2>2. \A b \in Bodies : /\ NewCall(t, "resendAll", b) \in Call
                          /\ NewCall(t, "resendAll", b).todo = "read"
    BY <2>1, NewCallFacts DEF NewCall
  <2>3. TypeOK' /\ CallsOK'
    BY <2>1, <2>2, SpendFacts DEF RequestsInv, TypeOK, CallsOK
  <2> QED BY <2>1, <2>3, TabsMove
<1>3. ASSUME NEW t \in Tabs, onToDeviceBadEncrypted(t) PROVE RequestsInv'
  <2>1. /\ calls' = calls /\ Spend("calls")
        /\ UNCHANGED <<row, sends, timer, immediate, running, next, seen, held>>
    BY <1>3 DEF onToDeviceBadEncrypted, getOutgoingRoomKeyRequestsByTarget, tabVars, server
  <2>2. TypeOK' /\ CallsOK'
    BY <2>1, SpendFacts DEF RequestsInv, TypeOK, CallsOK
  <2> QED BY <2>1, <2>2, TabsMove
<1>4. ASSUME NEW t \in Tabs, sendOutgoingRoomKeyRequests(t) PROVE RequestsInv'
  BY <1>4, LoopKeeps
<1>5. ASSUME NEW t \in Tabs, sendQueuedRequests(t) PROVE RequestsInv'
  <2>1. /\ startTimer(t) /\ immediate' = [immediate EXCEPT ![t] = TRUE]
        /\ UNCHANGED <<row, calls, sends, running, next, seen, held, used>>
    BY <1>5 DEF sendQueuedRequests, server
  <2>2. TypeOK' /\ CallsOK'
    BY <2>1, TimerFacts DEF RequestsInv, TypeOK, CallsOK
  <2> QED BY <2>1, <2>2, TabsMove
<1>6. ASSUME NEW t \in Tabs, stop(t) \/ start(t) PROVE RequestsInv'
  <2>1. /\ \E x \in BOOLEAN : running' = [running EXCEPT ![t] = x]
        /\ Spend("stops") \/ used' = used
        /\ UNCHANGED <<row, calls, sends, timer, immediate, next, seen, held>>
    BY <1>6 DEF stop, start, server
  <2>2. TypeOK' /\ CallsOK'
    BY <2>1, SpendFacts DEF RequestsInv, TypeOK, CallsOK
  <2> QED BY <2>1, <2>2, TabsMove
<1>7. ASSUME NEW t \in Tabs, reload(t) PROVE RequestsInv'
  <2>1. /\ Spend("reloads") /\ calls' \subseteq calls /\ sends' \subseteq sends
        /\ timer' = [timer EXCEPT ![t] = "null"] /\ immediate' = [immediate EXCEPT ![t] = FALSE]
        /\ running' = [running EXCEPT ![t] = TRUE]
        /\ UNCHANGED <<row, next, seen, held>>
    BY <1>7 DEF reload, server
  <2>2. TypeOK' /\ CallsOK'
    BY <2>1, SpendFacts DEF RequestsInv, TypeOK, CallsOK
  <2> QED BY <2>1, <2>2, TabsMove
<1>8. ASSUME NEW c \in calls, CallStep(c) PROVE RequestsInv'
  BY <1>8, CallKeeps
<1>9. ASSUME NEW m \in sends, MessageArrives(m) \/ MessageSent(m) PROVE RequestsInv'
  BY <1>9, ArrivalKeeps, AnswerKeeps
<1>10. ASSUME NEW m \in sends, MessageFails(m) PROVE RequestsInv'
  <2>1. /\ Spend("failures") /\ sends' = sends \ {m} /\ AfterFailure(m)
        /\ UNCHANGED <<row, calls, immediate, running, next, seen, held>>
    BY <1>10 DEF MessageFails, server
  <2>2. timer' \in [Tabs -> {"null", "waiting", "running"}]
    BY <2>1, TimerFacts DEF AfterFailure
  <2>3. TypeOK' /\ CallsOK'
    BY <2>1, <2>2, SpendFacts DEF RequestsInv, TypeOK, CallsOK
  <2> QED BY <2>1, <2>3, TabsMove
<1>11. CASE UNCHANGED vars
  <2>1. TypeOK' /\ CallsOK'
    BY <1>11 DEF vars, tabVars, server, RequestsInv, TypeOK, CallsOK
  <2> QED BY <1>11, <2>1, TabsMove DEF vars, tabVars, server
<1> QED BY <1>1, <1>2, <1>3, <1>4, <1>5, <1>6, <1>7, <1>8, <1>9, <1>10, <1>11 DEF Next

\* RequestsInv holds at first.
LEMMA RequestsStart == Init => RequestsInv
<1> SUFFICES ASSUME Init PROVE RequestsInv
  OBVIOUS
<1>1. /\ row = [b \in Bodies |-> NoRow] /\ calls = {} /\ sends = {} /\ next = 1 /\ seen = {}
      /\ \A b \in Bodies : row[b] = NoRow /\ row[b].st = "none"
  BY DEF Init, NoRow
<1>2. TypeOK
  BY DEF Init, TypeOK
<1>3. CallsOK /\ RowsOK /\ RowsDiffer /\ MessagesOK /\ OneRequest /\ ServerSaw
  BY <1>1 DEF CallsOK, RowsOK, RowsDiffer, MessagesOK, OneRequest, ServerSaw
<1> QED BY <1>2, <1>3 DEF RequestsInv

\* A request that the store of a client with one tab has in state Sent was
\* accepted by the server (sendOutgoingRoomKeyRequest).
THEOREM SentAccepted ==
  ASSUME OneTab
  PROVE  Spec => []SentWasAccepted
<1>1. RequestsInv /\ [Next]_vars => RequestsInv'
  BY RequestsStep
<1>2. RequestsInv => SentWasAccepted
  BY DEF RequestsInv, ServerSaw, SentWasAccepted
<1> QED BY <1>1, <1>2, RequestsStart, PTL DEF Spec

\* The store of such a client forgets a request whose cancellation is pending
\* when the recipients no longer hold it, or with the answer to an earlier
\* cancellation (sendOutgoingRoomKeyRequestCancellation).
THEOREM ForgetsCancelled ==
  ASSUME OneTab
  PROVE  Spec => ForgottenIsCancelled
<1> DEFINE Forgets ==
             \A b \in Bodies : row[b].st = "CancellationPending" /\ row'[b] = NoRow
               => row[b].id \notin held \/ \E m \in sends \ sends' : IsLate(m, b)
<1>1. RequestsInv /\ [Next]_vars => RequestsInv'
  BY RequestsStep
<1>2. ASSUME RequestsInv, [Next]_vars PROVE [Forgets]_vars
  <2> SUFFICES ASSUME Next, NEW b \in Bodies, row[b].st = "CancellationPending", row'[b] = NoRow
               PROVE  row[b].id \notin held \/ \E m \in sends \ sends' : IsLate(m, b)
    BY <1>2
  <2>1. TypeOK /\ row[b] # NoRow /\ row' # row
    BY <1>2, RowFacts, Numbers
  <2>2. ASSUME NEW c \in calls, CallStep(c) PROVE FALSE
    <3>1. CallMoves(c) /\ c.body \in Bodies
      BY <1>2, <2>1, <2>2, CallStepMoves, CallFacts DEF RequestsInv
    <3>2. \A r \in Row : r # NoRow
      BY DEF Row, NoRow
    <3> QED BY <2>1, <3>1, <3>2 DEF CallMoves, Untouched, Added, Forgotten, Moved, TypeOK
  <2>3. PICK m \in sends : MessageSent(m)
    BY <2>1, <2>2 DEF Next, RequestCall, cancelAndResendAllOutgoingRequests,
                      onToDeviceBadEncrypted, sendOutgoingRoomKeyRequests, sendQueuedRequests,
                      stop, start, reload, MessageArrives, MessageFails
  <2>4. m.arrived /\ m \in sends \ sends' /\ m.body \in Bodies
    BY <1>2, <2>3, UpdateFacts, Numbers
  <2>5. m.body = b /\ m.action = "request_cancellation" /\ m.id = row[b].id
    <3>1. \A r \in Row : r # NoRow
      BY DEF Row, NoRow
    <3> QED BY <1>2, <2>1, <2>3, <2>4, <3>1, UpdateFacts DEF Moved, Forgotten, TypeOK
  <2>6. CASE m.txn = row[b].cancellationTxnId
    BY <1>2, <2>4, <2>6 DEF RequestsInv, MessagesOK, ServerSaw
  <2>7. CASE m.txn # row[b].cancellationTxnId
    BY <2>4, <2>5, <2>7 DEF IsLate
  <2> QED BY <2>6, <2>7
<1>3. RequestsInv /\ [Next]_vars => [Forgets]_vars
  BY <1>2
<1> QED BY <1>1, <1>3, RequestsStart, PTL DEF Spec, ForgottenIsCancelled

-----------------------------------------------------------------------------
(* What the keys are for: the decryption of events.                        *)
(*                                                                         *)
(* NoMissedKey alone is not inductive: an event in the middle of an        *)
(* attempt must be known to whoever brings its key (it is pending, or a    *)
(* retry is queued already), and once the attempt has failed to find the   *)
(* key, a key that came since must have queued a retry.                    *)

Hopeless(e) == e \in WrongRoom \/ Duplicate(e)

AttemptIsSeen(e) == Busy(e) => e \in pending \/ flag[e]
KeyQueuesRetry(e) == est[e] = "problems" /\ Readable(e) => flag[e]
GivenUp(e) == est[e] = "bad" => /\ e \in pending \/ e \in WrongRoom
                                /\ Readable(e) => Hopeless(e)
Shown(e) == est[e] = "clear" => Readable(e) /\ indexSeen[Slot(e)] = e

KeyInv ==
  /\ InboundTypeOK
  /\ \A e \in Event : AttemptIsSeen(e) /\ KeyQueuesRetry(e) /\ GivenUp(e) /\ Shown(e)

\* The slot of an event is one of those that are remembered.
LEMMA SlotType == \A e \in Event : Slot(e) \in Session \X Index
BY MegolmInboundAssumption DEF Slot, Index

\* What a step of attemptDecryption leaves of the invariant, for keys that only
\* become known from earlier on, if every event that is dropped from the pending
\* ones is tried, and every event that the new key concerns.
LEMMA AttemptKeepsInv ==
  ASSUME KeyInv, NEW S \in SUBSET Event, NEW rest \in SUBSET Event,
         attemptDecryption(S, rest), UNCHANGED <<indexSeen, withheld>>,
         batches' \subseteq [session : Session, wait : SUBSET Event],
         requested' \subseteq Session, inboundUsed' \in [keys : Nat, problems : Nat, errors : Nat],
         known' \in [Session -> 0..NoKey],
         \A s \in Session : known'[s] <= known[s],
         \A e \in pending : e \in rest \/ e \in S,
         \A e \in pending : known'[SessionOf[e]] # known[SessionOf[e]] => e \in S
  PROVE  KeyInv'
<1>1. InboundTypeOK'
  BY DEF KeyInv, InboundTypeOK, attemptDecryption, addEventsToPendingList
<1>2. ASSUME NEW e \in Event
      PROVE  AttemptIsSeen(e)' /\ KeyQueuesRetry(e)' /\ GivenUp(e)' /\ Shown(e)'
  <2>1. /\ SessionOf[e] \in Session /\ IndexOf[e] \in Nat
        /\ known[SessionOf[e]] \in Int /\ known'[SessionOf[e]] \in Int
        /\ known'[SessionOf[e]] <= known[SessionOf[e]]
    BY MegolmInboundAssumption DEF KeyInv, InboundTypeOK, NoKey
  <2>2. AttemptIsSeen(e) /\ KeyQueuesRetry(e) /\ GivenUp(e) /\ Shown(e)
    BY DEF KeyInv
  <2>3. /\ est[e] \in {"new", "txn", "problems", "bad", "clear", "error"}
        /\ flag[e] \in BOOLEAN
    BY DEF KeyInv, InboundTypeOK
  <2>4. CASE e \in S /\ ~Busy(e) /\ est[e] # "clear"
    <3>1. est'[e] = "txn" /\ e \in pending'
      BY <2>4 DEF attemptDecryption, addEventsToPendingList
    <3> QED
      BY <3>1 DEF AttemptIsSeen, KeyQueuesRetry, GivenUp, Shown
  <2>5. CASE ~(e \in S /\ ~Busy(e) /\ est[e] # "clear")
    <3>1. est'[e] = est[e] /\ flag'[e] = (flag[e] \/ (e \in S /\ Busy(e)))
      BY <2>5 DEF attemptDecryption, addEventsToPendingList
    <3>2. e \in rest => e \in pending'
      BY DEF attemptDecryption, addEventsToPendingList
    <3>3. e \in pending => e \in S \/ (e \in rest /\ known'[SessionOf[e]] = known[SessionOf[e]])
      OBVIOUS
    <3>4. Busy(e)' = Busy(e)
      BY <3>1 DEF Busy
    <3>5. AttemptIsSeen(e)'
      BY <2>2, <3>1, <3>2, <3>3, <3>4 DEF AttemptIsSeen
    <3>6. KeyQueuesRetry(e)'
      BY <2>1, <2>2, <3>1, <3>3 DEF KeyQueuesRetry, AttemptIsSeen, Readable, Busy
    <3>7. GivenUp(e)'
      <4> SUFFICES ASSUME est'[e] = "bad"
                   PROVE  /\ e \in pending' \/ e \in WrongRoom
                          /\ Readable(e)' => Hopeless(e)'
        BY DEF GivenUp
      <4>1. est[e] = "bad" /\ ~Busy(e) /\ e \notin S
        BY <2>5, <3>1 DEF Busy
      <4>2. e \in pending \/ e \in WrongRoom
        BY <2>2, <4>1 DEF GivenUp
      <4>3. CASE e \in WrongRoom
        BY <4>3 DEF Hopeless
      <4>4. CASE e \in pending
        <5>1. e \in rest /\ known'[SessionOf[e]] = known[SessionOf[e]]
          BY <4>1, <4>4
        <5>2. Readable(e)' = Readable(e) /\ Hopeless(e)' = Hopeless(e)
          BY <5>1 DEF Readable, Hopeless, Duplicate, Slot
        <5> QED
          BY <2>2, <3>2, <4>1, <5>1, <5>2 DEF GivenUp
      <4> QED
        BY <4>2, <4>3, <4>4
    <3>8. Shown(e)'
      BY <2>1, <2>2, <3>1 DEF Shown, Readable, Slot
    <3> QED
      BY <3>5, <3>6, <3>7, <3>8
  <2> QED
    BY <2>4, <2>5
<1> QED
  BY <1>1, <1>2 DEF KeyInv

\* What the end of an event's loop leaves of the invariant.
LEMMA EndKeepsInv ==
  ASSUME KeyInv, NEW e \in Event, NEW r \in {"bad", "clear", "error"},
         NEW rest \in SUBSET Event, NEW asked \in SUBSET Session,
         EndLoop(e, r, rest, asked), UNCHANGED <<known, withheld>>,
         inboundUsed' \in [keys : Nat, problems : Nat, errors : Nat],
         indexSeen' \in [Session \X Index -> Event \cup {NoEvent}],
         rest = pending \/ rest = pending \ {e},
         \A f \in Event :
            f # e /\ indexSeen[Slot(f)] # NoEvent => indexSeen'[Slot(f)] = indexSeen[Slot(f)],
         r = "bad" => /\ e \in rest \/ e \in WrongRoom
                      /\ Readable(e) => Hopeless(e)',
         r = "clear" => Readable(e) /\ indexSeen'[Slot(e)] = e
  PROVE  KeyInv'
<1>1. InboundTypeOK'
  <2>1. batches' \subseteq [session : Session, wait : SUBSET Event]
    BY DEF KeyInv, InboundTypeOK, EndLoop
  <2>2. requested' \subseteq Session
    BY DEF KeyInv, InboundTypeOK, EndLoop
  <2> QED
    BY <2>1, <2>2 DEF KeyInv, InboundTypeOK, EndLoop
<1>2. ASSUME NEW f \in Event
      PROVE  AttemptIsSeen(f)' /\ KeyQueuesRetry(f)' /\ GivenUp(f)' /\ Shown(f)'
  <2>1. Readable(f)' = Readable(f)
    BY DEF Readable
  <2>2. CASE f = e
    <3>1. est'[f] = r /\ pending' = rest
      BY <2>2 DEF EndLoop, KeyInv, InboundTypeOK
    <3> QED
      BY <2>1, <2>2, <3>1 DEF AttemptIsSeen, KeyQueuesRetry, GivenUp, Shown, Busy, Slot
  <2>3. CASE f # e
    <3>1. /\ est'[f] = est[f] /\ flag'[f] = flag[f]
          /\ f \in pending' <=> f \in pending
      BY <2>3 DEF EndLoop, KeyInv, InboundTypeOK
    <3>2. AttemptIsSeen(f) /\ KeyQueuesRetry(f) /\ GivenUp(f) /\ Shown(f)
      BY DEF KeyInv
    <3>3. Busy(f)' = Busy(f)
      BY <3>1 DEF Busy
    <3>4. indexSeen[Slot(f)] # NoEvent => indexSeen'[Slot(f)] = indexSeen[Slot(f)]
      BY <2>3
    <3>5. Hopeless(f) => Hopeless(f)'
      BY <3>4 DEF Hopeless, Duplicate, Slot
    <3>6. Shown(f)'
      BY <2>1, <3>1, <3>2, <3>4, MegolmInboundAssumption DEF Shown, Slot
    <3> QED
      BY <2>1, <3>1, <3>2, <3>3, <3>5, <3>6 DEF AttemptIsSeen, KeyQueuesRetry, GivenUp
  <2> QED
    BY <2>2, <2>3
<1> QED
  BY <1>1, <1>2 DEF KeyInv

\* A DecryptionError leaves it, if without a queued retry the event may be given up.
LEMMA ErrorKeepsInv ==
  ASSUME KeyInv, NEW e \in Event, Busy(e),
         NEW rest \in SUBSET Event, NEW asked \in SUBSET Session,
         DecryptionError(e, rest, asked), UNCHANGED <<known, withheld>>,
         inboundUsed' \in [keys : Nat, problems : Nat, errors : Nat],
         indexSeen' \in [Session \X Index -> Event \cup {NoEvent}],
         rest = pending \/ rest = pending \ {e},
         \A f \in Event :
            f # e /\ indexSeen[Slot(f)] # NoEvent => indexSeen'[Slot(f)] = indexSeen[Slot(f)],
         ~flag[e] => /\ e \in rest \/ e \in WrongRoom
                     /\ Readable(e) => Hopeless(e)'
  PROVE  KeyInv'
<1>1. CASE ~flag[e] /\ EndLoop(e, "bad", rest, asked)
  BY <1>1, EndKeepsInv
<1>2. CASE /\ flag[e]
           /\ est' = [est EXCEPT ![e] = "txn"] /\ flag' = [flag EXCEPT ![e] = FALSE]
           /\ pending' = rest \cup {e}
           /\ requested' = requested \cup asked
           /\ UNCHANGED batches
  <2>1. InboundTypeOK'
    BY <1>2 DEF KeyInv, InboundTypeOK
  <2>2. ASSUME NEW f \in Event
        PROVE  AttemptIsSeen(f)' /\ KeyQueuesRetry(f)' /\ GivenUp(f)' /\ Shown(f)'
    <3>1. CASE f = e
      <4>1. est'[f] = "txn" /\ f \in pending'
        BY <1>2, <3>1 DEF KeyInv, InboundTypeOK
      <4> QED
        BY <4>1 DEF AttemptIsSeen, KeyQueuesRetry, GivenUp, Shown
    <3>2. CASE f # e
      <4>1. /\ est'[f] = est[f] /\ flag'[f] = flag[f]
            /\ f \in pending' <=> f \in pending
        BY <1>2, <3>2 DEF KeyInv, InboundTypeOK
      <4>2. AttemptIsSeen(f) /\ KeyQueuesRetry(f) /\ GivenUp(f) /\ Shown(f)
        BY DEF KeyInv
      <4>3. Busy(f)' = Busy(f) /\ Readable(f)' = Readable(f)
        BY <4>1 DEF Busy, Readable
      <4>4. indexSeen[Slot(f)] # NoEvent => indexSeen'[Slot(f)] = indexSeen[Slot(f)]
        BY <3>2
      <4>5. Hopeless(f) => Hopeless(f)'
        BY <4>4 DEF Hopeless, Duplicate, Slot
      <4>6. Shown(f)'
        BY <4>1, <4>2, <4>3, <4>4, MegolmInboundAssumption DEF Shown, Slot
      <4> QED
        BY <4>1, <4>2, <4>3, <4>5, <4>6 DEF AttemptIsSeen, KeyQueuesRetry, GivenUp
    <3> QED
      BY <3>1, <3>2
  <2> QED
    BY <2>1, <2>2 DEF KeyInv
<1> QED
  BY <1>1, <1>2 DEF DecryptionError, addEventsToPendingList

\* The initial state.
LEMMA InitKeyInv == InboundInit => KeyInv
<1> SUFFICES ASSUME InboundInit PROVE KeyInv
  OBVIOUS
<1>1. InboundTypeOK
  BY MegolmInboundAssumption DEF InboundInit, InboundTypeOK, NoKey, Index
<1>2. \A e \in Event : AttemptIsSeen(e) /\ KeyQueuesRetry(e) /\ GivenUp(e) /\ Shown(e)
  BY DEF InboundInit, AttemptIsSeen, KeyQueuesRetry, GivenUp, Shown, Busy
<1> QED
  BY <1>1, <1>2 DEF KeyInv

\* Every step.
LEMMA NextKeyInv == KeyInv /\ [InboundNext]_inboundVars => KeyInv'
<1> SUFFICES ASSUME KeyInv, [InboundNext]_inboundVars PROVE KeyInv'
  OBVIOUS
<1> USE MegolmInboundAssumption
<1>t. InboundTypeOK
  BY DEF KeyInv
<1>0. CASE UNCHANGED inboundVars
  BY <1>0 DEF inboundVars, KeyInv, InboundTypeOK, AttemptIsSeen, KeyQueuesRetry, GivenUp, Shown,
              Busy, Readable, Hopeless, Duplicate, Slot
<1>1. ASSUME NEW e \in Event, decryptEventIfNeeded(e) PROVE KeyInv'
  <2>1. \A s \in Session : known[s] <= known[s]
    BY <1>t DEF InboundTypeOK, NoKey
  <2> QED
    BY <1>1, <1>t, <2>1, AttemptKeepsInv DEF decryptEventIfNeeded, InboundTypeOK
<1>2. ASSUME NEW e \in Event, NoKeyForMessage(e) PROVE KeyInv'
  <2>1. Busy(e) /\ ~Readable(e) /\ UNCHANGED <<known, withheld, indexSeen, inboundUsed>>
    BY <1>2 DEF NoKeyForMessage, Busy
  <2>2. SessionOf[e] \in Session /\ (e \in pending \/ flag[e])
    BY <2>1 DEF KeyInv, AttemptIsSeen
  <2>3. CASE \E asked \in SUBSET Session : DecryptionError(e, pending, asked)
    BY <2>1, <2>2, <2>3, <1>t, ErrorKeepsInv DEF InboundTypeOK
  <2>4. CASE /\ est' = [est EXCEPT ![e] = "problems"]
             /\ requested' = requested \cup {SessionOf[e]}
             /\ UNCHANGED <<pending, flag, batches>>
    <3>1. InboundTypeOK'
      BY <1>t, <2>1, <2>2, <2>4 DEF InboundTypeOK
    <3>2. ASSUME NEW f \in Event
          PROVE  AttemptIsSeen(f)' /\ KeyQueuesRetry(f)' /\ GivenUp(f)' /\ Shown(f)'
      <4>1. AttemptIsSeen(f) /\ KeyQueuesRetry(f) /\ GivenUp(f) /\ Shown(f)
        BY DEF KeyInv
      <4>2. Readable(f)' = Readable(f) /\ Hopeless(f)' = Hopeless(f)
        BY <2>1 DEF Readable, Hopeless, Duplicate, Slot
      <4>3. est'[f] = IF f = e THEN "problems" ELSE est[f]
        BY <1>t, <2>4 DEF InboundTypeOK
      <4> QED
        BY <2>1, <2>2, <2>4, <4>1, <4>2, <4>3
        DEF AttemptIsSeen, KeyQueuesRetry, GivenUp, Shown, Busy, Slot
    <3> QED
      BY <3>1, <3>2 DEF KeyInv
  <2> QED
    BY <1>2, <2>2, <2>3, <2>4 DEF NoKeyForMessage
<1>3. ASSUME NEW e \in Event, decryptGroupMessage(e) PROVE KeyInv'
  <2>1. Busy(e) /\ Readable(e) /\ UNCHANGED <<known, withheld, inboundUsed>>
    BY <1>3 DEF decryptGroupMessage, Busy
  <2>2. e \in pending \/ flag[e]
    BY <2>1 DEF KeyInv, AttemptIsSeen
  <2>3. CASE Duplicate(e) /\ DecryptionError(e, pending, {}) /\ UNCHANGED indexSeen
    <3>1. Hopeless(e)'
      BY <2>3 DEF Hopeless, Duplicate, Slot
    <3> QED
      BY <2>1, <2>2, <2>3, <3>1, <1>t, ErrorKeepsInv DEF InboundTypeOK
  <2>4. CASE /\ ~Duplicate(e)
             /\ indexSeen' = [indexSeen EXCEPT ![Slot(e)] = e]
             /\ IF e \in WrongRoom
                THEN DecryptionError(e, pending \ {e}, {})
                ELSE EndLoop(e, "clear", pending \ {e}, {})
    <3>1. indexSeen' \in [Session \X Index -> Event \cup {NoEvent}] /\ indexSeen'[Slot(e)] = e
      BY <1>t, <2>4, SlotType DEF InboundTypeOK
    <3>2. ASSUME NEW f \in Event, f # e, indexSeen[Slot(f)] # NoEvent
          PROVE  indexSeen'[Slot(f)] = indexSeen[Slot(f)]
      <4>1. CASE Slot(f) = Slot(e)
        <5>1. indexSeen[Slot(f)] = e
          BY <2>4, <3>2, <4>1 DEF Duplicate
        <5> QED
          BY <3>1, <4>1, <5>1
      <4>2. CASE Slot(f) # Slot(e)
        BY <1>t, <2>4, <4>2, SlotType DEF InboundTypeOK
      <4> QED
        BY <4>1, <4>2
    <3>3. CASE e \in WrongRoom
      <4>1. DecryptionError(e, pending \ {e}, {}) /\ Hopeless(e)'
        BY <2>4, <3>3 DEF Hopeless
      <4>2. /\ pending \ {e} \in SUBSET Event /\ {} \in SUBSET Session
            /\ inboundUsed' \in [keys : Nat, problems : Nat, errors : Nat]
        BY <1>t, <2>1 DEF InboundTypeOK
      <4> QED
        BY <2>1, <3>1, <3>2, <3>3, <4>1, <4>2, ErrorKeepsInv
    <3>4. CASE e \notin WrongRoom
      BY <1>t, <2>1, <2>4, <3>1, <3>2, <3>4, EndKeepsInv DEF InboundTypeOK
    <3> QED
      BY <3>3, <3>4
  <2> QED
    BY <1>3, <2>3, <2>4 DEF decryptGroupMessage, removeEventFromPendingList
<1>4. ASSUME NEW e \in Event, sessionMayHaveProblems(e) PROVE KeyInv'
  <2>1. Busy(e) /\ est[e] = "problems" /\ UNCHANGED <<known, withheld, indexSeen>>
    BY <1>4 DEF sessionMayHaveProblems, Busy
  <2>2. (e \in pending \/ flag[e]) /\ (Readable(e) => flag[e])
    BY <2>1 DEF KeyInv, AttemptIsSeen, KeyQueuesRetry
  <2>3. CASE DecryptionError(e, pending, {}) /\ UNCHANGED inboundUsed
    BY <1>t, <2>1, <2>2, <2>3, ErrorKeepsInv DEF InboundTypeOK
  <2>4. CASE SpendInbound("errors") /\ EndLoop(e, "error", pending, {})
    <3>1. inboundUsed' \in [keys : Nat, problems : Nat, errors : Nat]
      BY <1>t, <2>4 DEF InboundTypeOK, SpendInbound
    <3> QED
      BY <1>t, <2>1, <2>4, <3>1, EndKeepsInv DEF InboundTypeOK
  <2> QED
    BY <1>4, <2>3, <2>4 DEF sessionMayHaveProblems
<1>5. ASSUME NEW s \in Session, NEW i \in Index,
             addInboundGroupSession(s, i), retryDecryption(s), SpendInbound("keys"),
             UNCHANGED <<withheld, indexSeen>>,
             \/ /\ requested' = requested \ {s} /\ UNCHANGED batches
             \/ /\ batches' = batches \cup
                     {[session |-> s, wait |-> {e \in pending : SessionOf[e] = s}]}
                /\ UNCHANGED requested
             \/ UNCHANGED <<batches, requested>>
      PROVE  KeyInv'
  <2>1. inboundUsed' \in [keys : Nat, problems : Nat, errors : Nat]
    BY <1>5, <1>t DEF InboundTypeOK, SpendInbound
  <2>2. \A t \in Session : known[t] \in Int
    BY <1>t DEF InboundTypeOK, NoKey
  <2>3. /\ known' \in [Session -> 0..NoKey]
        /\ \A t \in Session : known'[t] <= known[t] /\ (t # s => known'[t] = known[t])
    BY <1>5, <1>t, <2>2 DEF addInboundGroupSession, InboundTypeOK, NoKey, Index
  <2>4. pending \subseteq Event
    BY <1>t DEF InboundTypeOK
  <2>5. requested' \subseteq Session
    BY <1>5, <1>t DEF InboundTypeOK
  <2>6. batches' \subseteq [session : Session, wait : SUBSET Event]
    BY <1>5, <1>t, <2>4 DEF InboundTypeOK
  <2> QED
    BY <1>5, <2>1, <2>3, <2>4, <2>5, <2>6, AttemptKeepsInv DEF retryDecryption
<1>6. ASSUME NEW s \in Session, onRoomKeyWithheldEvent(s) PROVE KeyInv'
  BY <1>6 DEF onRoomKeyWithheldEvent, KeyInv, InboundTypeOK, AttemptIsSeen, KeyQueuesRetry,
              GivenUp, Shown, Busy, Readable, Hopeless, Duplicate, Slot
<1>7. CASE retryDecryptionFromSender
  <2>1. inboundUsed' \in [keys : Nat, problems : Nat, errors : Nat]
    BY <1>7, <1>t DEF InboundTypeOK, SpendInbound, retryDecryptionFromSender
  <2>2. \A s \in Session : known[s] <= known[s]
    BY <1>t DEF InboundTypeOK, NoKey
  <2> QED
    BY <1>7, <1>t, <2>1, <2>2, AttemptKeepsInv DEF retryDecryptionFromSender, InboundTypeOK
<1>8. ASSUME NEW s \in Session, NEW i \in Index, onRoomKeyEvent(s, i) \/ importRoomKey(s, i)
      PROVE  KeyInv'
  BY <1>8, <1>5 DEF onRoomKeyEvent, importRoomKey
<1> QED
  BY <1>0, <1>1, <1>2, <1>3, <1>4, <1>6, <1>7, <1>8 DEF InboundNext, LoopStep

\* The invariant holds in every behaviour of decryptionLoop, attemptDecryption,
\* retryDecryption and retryDecryptionFromSender.
THEOREM KeyInvariant == InboundSpec => []KeyInv
BY InitKeyInv, NextKeyInv, PTL DEF InboundSpec

\* decryptionLoop gives up an event only when its key is not there: the flag
\* retryDecryption loses no key that arrives during an attempt.
THEOREM NoKeyIsMissed == InboundSpec => []NoMissedKey
<1>1. KeyInv => NoMissedKey
  BY DEF KeyInv, GivenUp, NoMissedKey, Hopeless
<1> QED
  BY <1>1, KeyInvariant, PTL

\* Events that were given up stay in pendingEvents.
THEOREM GivenUpStaysPending == InboundSpec => []GivenUpIsPending
<1>1. KeyInv => GivenUpIsPending
  BY DEF KeyInv, GivenUp, GivenUpIsPending
<1> QED
  BY <1>1, KeyInvariant, PTL

\* inboundGroupSessionMessageIndexes lets one event at most be shown per index.
THEOREM NoEventIsReplayed == InboundSpec => []NoReplay
<1>1. KeyInv => NoReplay
  BY DEF KeyInv, Shown, NoReplay
<1> QED
  BY <1>1, KeyInvariant, PTL

\* addInboundGroupSession never makes an event that was decrypted unreadable.
THEOREM DecryptedIsReadable == InboundSpec => []DecryptedStaysReadable
<1>1. KeyInv => DecryptedStaysReadable
  BY DEF KeyInv, Shown, DecryptedStaysReadable
<1> QED
  BY <1>1, KeyInvariant, PTL
=============================================================================
