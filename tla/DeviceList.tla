----------------------------- MODULE DeviceList -----------------------------
(***************************************************************************)
(* crypto/DeviceList.ts: which users' devices are tracked, the downloads   *)
(* of their keys through DeviceListUpdateSerialiser, and the delayed saves *)
(* of the result, driven by the /sync loop of sync.ts through              *)
(* onSyncWillProcess, handleDeviceListChanges and onSyncCompleted of       *)
(* crypto/index.ts.                                                        *)
(*                                                                         *)
(* The server's changes of device lists are numbered.  A sync token is the *)
(* number of the last change before it, and the devices of a user as of    *)
(* change n are the number n.                                              *)
(***************************************************************************)
EXTENDS Integers, Sequences, FiniteSets

CONSTANTS
  Users, Own,       \* Own: the user whose client this is
  MaxChanges,       \* changes of device lists at the server
  MaxTroubles,      \* failures, omissions, exceptions and reloads, together
  MaxTxns           \* concurrent transactions of the crypto store

ASSUME DeviceListAssumption ==
  /\ Own \in Users
  /\ {MaxChanges, MaxTroubles, MaxTxns} \subseteq Nat

VARIABLES
  log,        \* external: the users whose lists changed, in order
  since,      \* the token the running /sync started from
  syncTok,    \* client.store's sync token
  phase,      \* where doSync() is
  tracking,   \* deviceTrackingStatus
  devices,    \* devices: the change as of which they are known
  inProgress, \* keyDownloadsInProgressByUser: "none", "active" or "queued"
  active,     \* the running key downloads (the serialiser allows one)
  queued,     \* keyDownloadsQueuedByUser
  dirty,      \* changes that are not saved
  timer,      \* is saveTimer set?
  timerWait,  \* does doSync() await its promise?
  storing,    \* the snapshots being written, in order
  disk,       \* the crypto store
  diskTok,    \* the sync token in the sync store
  used        \* failed queries, omitted users, responses whose processing threw, reloads

syncVars == <<since, syncTok, phase>>
listVars == <<tracking, devices, inProgress, active, queued>>
saveVars == <<dirty, timer, timerWait, storing, disk, diskTok>>
vars == <<log, syncVars, listVars, saveVars, used>>

None == -1     \* no token; no devices known
TrackingStatus == {"NotTracked", "PendingDownload", "DownloadInProgress", "UpToDate"}
Version == {None} \cup Nat
Snapshot == [tracking : [Users -> TrackingStatus], devices : [Users -> Version]]
Download == [users : SUBSET Users, asked : SUBSET Users, left : SUBSET Users,
             got : [Users -> Version]]
Trouble(kind) ==
  /\ used.failures + used.omissions + used.barfs + used.restarts < MaxTroubles
  /\ used' = [used EXCEPT ![kind] = @ + 1]

Init ==
  /\ log = <<>> /\ since = None /\ syncTok = None /\ phase = "idle"
  /\ tracking = [u \in Users |-> "NotTracked"]
  /\ devices = [u \in Users |-> None]
  /\ inProgress = [u \in Users |-> "none"]
  /\ active = {} /\ queued = {}
  /\ dirty = FALSE /\ timer = FALSE /\ timerWait = FALSE /\ storing = <<>>
  /\ disk = [tracking |-> tracking, devices |-> devices] /\ diskTok = None
  /\ used = [failures |-> 0, omissions |-> 0, barfs |-> 0, restarts |-> 0]

-----------------------------------------------------------------------------
(* Downloads.                                                              *)

NewDownload(us) == [users |-> us, asked |-> us, left |-> us,
                    got |-> [u \in Users |-> None]]

\* Mutant: a query is made at once, whatever is in flight.
updateDevicesForUsers_parallel(us) ==
  /\ active' = active \cup {NewDownload(us)}
  /\ UNCHANGED queued
  /\ inProgress' = [u \in Users |-> IF u \in us THEN "active" ELSE inProgress[u]]

\* updateDevicesForUsers: one query at a time, the others are queued.
updateDevicesForUsers(us) ==
  IF active = {}
  THEN /\ active' = {NewDownload(queued \cup us)}
       /\ queued' = {}
       /\ inProgress' = [u \in Users |-> IF u \in queued \cup us /\ (u \in us \/ inProgress[u] = "queued")
                                         THEN "active" ELSE inProgress[u]]
  ELSE /\ queued' = queued \cup us
       /\ UNCHANGED active
       /\ inProgress' = [u \in Users |-> IF u \in us THEN "queued" ELSE inProgress[u]]

\* doKeyDownload, on the tracking status st.
doKeyDownload(us, st) ==
  IF us = {}
  THEN tracking' = st /\ UNCHANGED <<inProgress, active, queued>>
  ELSE /\ updateDevicesForUsers(us)
       /\ tracking' = [u \in Users |-> IF u \in us /\ st[u] = "PendingDownload"
                                       THEN "DownloadInProgress" ELSE st[u]]

\* startTrackingDeviceList for the users us.
startTrackingDeviceList(st, us) ==
  [u \in Users |-> IF u \in us /\ st[u] = "NotTracked" THEN "PendingDownload" ELSE st[u]]

\* Mutant: only a list that is up to date is invalidated.
invalidateUserDeviceList_idle(st, us) ==
  [u \in Users |-> IF u \in us /\ st[u] = "UpToDate" THEN "PendingDownload" ELSE st[u]]

\* invalidateUserDeviceList: only a tracked user is flagged.
invalidateUserDeviceList(st, us) ==
  [u \in Users |-> IF u \in us /\ st[u] # "NotTracked" THEN "PendingDownload" ELSE st[u]]

\* A user joins an encrypted room, or encryption is enabled in one.
trackUser(u) ==
  /\ tracking[u] = "NotTracked"
  /\ tracking' = startTrackingDeviceList(tracking, {u})
  /\ dirty' = TRUE
  /\ UNCHANGED <<log, syncVars, devices, inProgress, active, queued,
                 timer, timerWait, storing, disk, diskTok, used>>

\* downloadKeys: a download that is under way is awaited.
downloadKeys(us, forceDownload) ==
  LET todo == {u \in us : inProgress[u] = "none" /\ (forceDownload \/ tracking[u] # "UpToDate")}
  IN  /\ todo # {}
      /\ doKeyDownload(todo, tracking)
      /\ UNCHANGED <<log, syncVars, devices, saveVars, used>>

\* External: the server answers for one user of a query, or leaves the user out
\* (its homeserver cannot be reached).
KeyQueryAnswer(d, u) ==
  /\ u \in d.asked
  /\ \/ /\ active' = (active \ {d}) \cup
                     {[d EXCEPT !.asked = @ \ {u}, !.got[u] = Len(log)]}
        /\ UNCHANGED used
     \/ /\ Trouble("omissions")
        /\ active' = (active \ {d}) \cup {[d EXCEPT !.asked = @ \ {u}]}
  /\ UNCHANGED <<log, syncVars, tracking, devices, inProgress, queued, saveVars>>

\* processQueryResponseForUser, one user after the other once all is answered;
\* an error is logged and the next user follows.
processQueryResponseForUser(d, u) ==
  /\ d.asked = {} /\ u \in d.left
  /\ \/ /\ devices' = [devices EXCEPT ![u] = d.got[u]]
        /\ UNCHANGED used
     \/ /\ Trouble("omissions")
        /\ UNCHANGED devices
  /\ active' = (active \ {d}) \cup {[d EXCEPT !.left = @ \ {u}]}
  /\ UNCHANGED <<log, syncVars, tracking, inProgress, queued, saveVars>>

\* finished(success) of every doKeyDownload that awaits this query.
finished(success) ==
  [u \in Users |-> IF inProgress[u] = "active" /\ tracking[u] = "DownloadInProgress"
                   THEN IF success THEN "UpToDate" ELSE "PendingDownload"
                   ELSE tracking[u]]

\* doQueuedQueries' success handler: the queued query starts at once.
DownloadSucceeds(d) ==
  /\ d.left = {}
  /\ tracking' = finished(TRUE)
  /\ active' = (active \ {d}) \cup IF queued = {} THEN {} ELSE {NewDownload(queued)}
  /\ queued' = {}
  /\ inProgress' = [u \in Users |-> IF inProgress[u] = "queued" THEN "active" ELSE "none"]
  /\ dirty' = TRUE /\ timer' = TRUE
  /\ UNCHANGED <<log, syncVars, devices, timerWait, storing, disk, diskTok, used>>

\* Its failure handler, which leaves the queued query alone.
DownloadFails(d) ==
  /\ d.asked # {}
  /\ Trouble("failures")
  /\ tracking' = finished(FALSE)
  /\ active' = active \ {d}
  /\ inProgress' = [u \in Users |-> IF inProgress[u] = "active" THEN "none" ELSE inProgress[u]]
  /\ dirty' = TRUE /\ timer' = TRUE
  /\ UNCHANGED <<log, syncVars, devices, queued, timerWait, storing, disk, diskTok>>

-----------------------------------------------------------------------------
(* The /sync loop.                                                         *)

\* A response arrives: the token is set at once, and onSyncWillProcess resets
\* the tracking when this is an initial sync.
SyncResponse ==
  /\ phase = "idle"
  /\ phase' = "got" /\ since' = syncTok /\ syncTok' = Len(log)
  /\ IF syncTok = None
     THEN /\ tracking' = startTrackingDeviceList([u \in Users |-> "NotTracked"], {Own})
          /\ dirty' = TRUE
     ELSE UNCHANGED <<tracking, dirty>>
  /\ UNCHANGED <<log, devices, inProgress, active, queued,
                 timer, timerWait, storing, disk, diskTok, used>>

Changed == {u \in Users : \E i \in (since + 1)..syncTok : i > 0 /\ log[i] = u}

\* handleDeviceListChanges; the check of who left the shared rooms waits.
handleDeviceListChanges ==
  /\ phase = "got"
  /\ phase' = "changed"
  /\ IF since = None
     THEN UNCHANGED <<tracking, dirty>>
     ELSE /\ tracking' = invalidateUserDeviceList(tracking, Changed)
          /\ dirty' = (dirty \/ \E u \in Changed : tracking[u] # "NotTracked")
  /\ UNCHANGED <<log, since, syncTok, devices, inProgress, active, queued,
                 timer, timerWait, storing, disk, diskTok, used>>

\* stopTrackingDeviceList for the users who share no tracked room any more.
stopTracking(gone) ==
  /\ phase = "changed"
  /\ since = None => gone = {}
  /\ phase' = "handled"
  /\ tracking' = [u \in Users |-> IF u \in gone THEN "NotTracked" ELSE tracking[u]]
  /\ dirty' = (dirty \/ \E u \in gone : tracking[u] # "NotTracked")
  /\ UNCHANGED <<log, since, syncTok, devices, inProgress, active, queued,
                 timer, timerWait, storing, disk, diskTok, used>>

\* processSyncResponse throws before it reaches the device lists.
SyncBarfs ==
  /\ phase = "got"
  /\ Trouble("barfs")
  /\ phase' = "handled"
  /\ UNCHANGED <<log, since, syncTok, listVars, saveVars>>

\* onSyncCompleted with refreshOutdatedDeviceLists.
onSyncCompleted ==
  /\ phase = "handled"
  /\ phase' = "completed"
  /\ LET st == startTrackingDeviceList(tracking, {Own})
     IN  /\ dirty' = (dirty \/ st # tracking)
         /\ timer' = (timer \/ dirty')
         /\ doKeyDownload({u \in Users : st[u] = "PendingDownload"}, st)
  /\ UNCHANGED <<log, since, syncTok, devices, timerWait, storing, disk, diskTok, used>>

\* The end of doSync: if the sync store wants to be saved, the device list is
\* saved first, unless it is not dirty.
SyncSave ==
  /\ phase = "completed"
  /\ \/ /\ phase' = "idle" /\ UNCHANGED <<timer, timerWait, diskTok>>
     \/ /\ dirty
        /\ phase' = "saving" /\ timer' = TRUE /\ timerWait' = TRUE
        /\ UNCHANGED diskTok
     \/ /\ ~dirty
        /\ phase' = "idle" /\ diskTok' = syncTok
        /\ UNCHANGED <<timer, timerWait>>
  /\ UNCHANGED <<log, since, syncTok, listVars, dirty, storing, disk, used>>

-----------------------------------------------------------------------------
(* Saving.                                                                 *)

\* The save timer fires: the state as it is now goes into a transaction.
SaveTimer ==
  /\ timer
  /\ Len(storing) < MaxTxns
  /\ storing' = Append(storing, [data |-> [tracking |-> tracking, devices |-> devices],
                                 wait |-> timerWait])
  /\ timer' = FALSE /\ timerWait' = FALSE
  /\ UNCHANGED <<log, syncVars, listVars, dirty, disk, diskTok, used>>

\* The transaction completes; a waiting doSync saves the sync store and goes on.
StoreDone ==
  /\ storing # <<>>
  /\ storing' = Tail(storing)
  /\ disk' = Head(storing).data
  /\ dirty' = FALSE
  /\ IF Head(storing).wait
     THEN phase' = "idle" /\ diskTok' = syncTok
     ELSE UNCHANGED <<phase, diskTok>>
  /\ UNCHANGED <<log, since, syncTok, listVars, timer, timerWait, used>>

\* External: the devices of a user change.
ServerChange(u) ==
  /\ Len(log) < MaxChanges
  /\ log' = Append(log, u)
  /\ UNCHANGED <<syncVars, listVars, saveVars, used>>

\* load: downloads that were under way are outdated lists.
Loaded(st) ==
  [u \in Users |-> IF st[u] = "DownloadInProgress" THEN "PendingDownload" ELSE st[u]]

\* The client stops and a new one loads its stores.
load ==
  /\ Trouble("restarts")
  /\ phase' = "idle" /\ since' = None /\ syncTok' = diskTok
  /\ tracking' = Loaded(disk.tracking)
  /\ devices' = disk.devices
  /\ inProgress' = [u \in Users |-> "none"] /\ active' = {} /\ queued' = {}
  /\ dirty' = FALSE /\ timer' = FALSE /\ timerWait' = FALSE /\ storing' = <<>>
  /\ UNCHANGED <<log, disk, diskTok>>

-----------------------------------------------------------------------------
Next ==
  \/ \E u \in Users : trackUser(u) \/ ServerChange(u)
  \/ \E us \in SUBSET Users, force \in BOOLEAN : downloadKeys(us, force)
  \/ \E d \in active, u \in Users : KeyQueryAnswer(d, u) \/ processQueryResponseForUser(d, u)
  \/ \E d \in active : DownloadSucceeds(d) \/ DownloadFails(d)
  \/ SyncResponse \/ handleDeviceListChanges \/ SyncBarfs
  \/ \E gone \in SUBSET Users : stopTracking(gone)
  \/ onSyncCompleted \/ SyncSave \/ SaveTimer \/ StoreDone \/ load

Spec == Init /\ [][Next]_vars

\* Requests are answered, timers fire, transactions complete and doSync() runs
\* on; a /sync request is answered at the latest when its timeout passes.
Fairness ==
  /\ WF_vars(\E d \in active, u \in Users : KeyQueryAnswer(d, u))
  /\ WF_vars(\E d \in active, u \in Users : processQueryResponseForUser(d, u))
  /\ WF_vars(\E d \in active : DownloadSucceeds(d))
  /\ WF_vars(SyncResponse) /\ WF_vars(handleDeviceListChanges)
  /\ WF_vars(\E gone \in SUBSET Users : stopTracking(gone))
  /\ WF_vars(onSyncCompleted) /\ WF_vars(SyncSave)
  /\ WF_vars(SaveTimer) /\ WF_vars(StoreDone)

FairSpec == Spec /\ Fairness

-----------------------------------------------------------------------------
\* Every part of the state has its type: the sync loop's, the lists', the saves'.
SyncType ==
  /\ log \in Seq(Users) /\ since \in Version /\ syncTok \in Version
  /\ phase \in {"idle", "got", "changed", "handled", "completed", "saving"}
  /\ used \in [failures : Nat, omissions : Nat, barfs : Nat, restarts : Nat]

ListType ==
  /\ tracking \in [Users -> TrackingStatus] /\ devices \in [Users -> Version]
  /\ inProgress \in [Users -> {"none", "active", "queued"}]
  /\ active \subseteq Download /\ queued \subseteq Users

SaveType ==
  /\ dirty \in BOOLEAN /\ timer \in BOOLEAN /\ timerWait \in BOOLEAN
  /\ storing \in Seq([data : Snapshot, wait : BOOLEAN])
  /\ disk \in Snapshot /\ diskTok \in Version

TypeOK == SyncType /\ ListType /\ SaveType

\* The changes up to this token have been handled.
Handled == IF phase = "got" THEN since ELSE syncTok

FreshAsOf(st, devs, tok) ==
  \A u \in Users : st[u] = "UpToDate"
    => \A i \in DOMAIN log : (i <= tok /\ log[i] = u) => devs[u] >= i

\* No answer left a user out, no processing of a /sync response threw and the
\* client was not reloaded.  Each of the three makes a stale list "up to date".
Smooth == used.omissions = 0 /\ used.barfs = 0 /\ used.restarts = 0

\* A list that is marked up to date reflects every change that a processed
\* /sync announced: no download that was under way when the change came, was
\* superseded, queued, forced or failed, marks the user up to date.
UpToDateIsFresh == Smooth => FreshAsOf(tracking, devices, Handled)

\* A user whose list is marked as being downloaded is in the download that is
\* running or queued: nobody else would ever ask for it again.
NoOrphanDownload ==
  \A u \in Users :
    /\ tracking[u] = "DownloadInProgress" => inProgress[u] # "none"
    /\ inProgress[u] = "queued" => u \in queued
    /\ inProgress[u] = "active" => \E d \in active : u \in d.users

\* Up to date means fresh, and being downloaded means that a download runs,
\* whatever syncs, queries, saves, failures and reloads interleave.
ListsAreSound == TypeOK /\ UpToDateIsFresh /\ NoOrphanDownload

\* Results of /keys/query are not overwritten by those of an earlier query.
DevicesAdvance ==
  [][Smooth' => \A u \in Users : devices'[u] >= devices[u]]_vars

\* A query that waits in the serialiser is started, so that the promise handed
\* to its callers settles.
QueuedQueryStarts ==
  \A u \in Users : u \in queued ~> u \notin queued

\* A tracked user's list that is being downloaded is brought up to date, unless
\* a query fails.
ListsCatchUp ==
  \A u \in Users : tracking[u] = "DownloadInProgress"
    ~> tracking[u] \in {"UpToDate", "NotTracked"} \/ used.failures > 0

\* Lists only move forward, and those being downloaded arrive.
ListsAdvance == DevicesAdvance /\ ListsCatchUp
=============================================================================
