----------------------------- MODULE KeyBackup -----------------------------
(***************************************************************************)
(* The backup of room keys on the server (crypto/backup.ts, BackupManager; *)
(* createKeyBackupVersion and deleteKeyBackupVersion of client.ts).        *)
(*                                                                         *)
(* A room key has revisions: a better copy of the same key (one that reads *)
(* from an earlier message) may arrive later.  needing is the persisted    *)
(* list of the keys that wait for the backup.  backupInfo and algorithm    *)
(* name a backup version (0: undefined); they are two fields, changed at   *)
(* different times.  One send loop runs at a time (sendingBackups), and it *)
(* runs among checks of the server's version that nothing serialises.      *)
(***************************************************************************)
EXTENDS Naturals, FiniteSets

CONSTANTS RoomKey, Check,
          KEY_BACKUP_KEYS_PER_REQUEST,
          BackupPlans      \* bounds of a run: versions, key revisions, checks, failures, restarts

ASSUME KeyBackupAssumption ==
    /\ KEY_BACKUP_KEYS_PER_REQUEST \in Nat \ {0}
    /\ "loop" \notin Check
    /\ BackupPlans \subseteq [versions : Nat \ {0}, revisions : Nat, failures : Nat, restarts : Nat,
                              creates : BOOLEAN, deletes : BOOLEAN]

VARIABLES revision, unflagged, needing, backupInfo, algorithm, sender, check, creating,
          current, versions, backup, backupPlan, failures, restarts

backupVars == <<revision, unflagged, needing, backupInfo, algorithm, sender, check, creating,
                current, versions, backup, backupPlan, failures, restarts>>

NoVersion == 0
NotSending == [at |-> "idle", batch |-> {}, key |-> NoVersion]
NoCheck == [at |-> "idle", found |-> NoVersion, switches |-> FALSE]
Checks == Check \cup {"loop"}
Held == {k \in RoomKey : revision[k] > 0}

\* Every part of the state has its type.
BackupTypeOK ==
    /\ revision \in [RoomKey -> 0 .. backupPlan.revisions]
    /\ unflagged \subseteq Held /\ needing \subseteq Held
    /\ {backupInfo, algorithm, current} \subseteq 0 .. backupPlan.versions
    /\ sender.at \in {"idle", "sleep", "read", "encrypt", "send", "wire", "unmark", "recheck"}
    /\ \A c \in Checks : check[c].at \in {"idle", "ask", "trust", "make", "flag"}
    /\ creating \in {"no", "post"}
    /\ \A b \in backup : b.version \in 1 .. versions /\ b.revision <= revision[b.key]

BackupInit ==
    /\ revision = [k \in RoomKey |-> 0] /\ unflagged = {} /\ needing = {}
    /\ backupInfo = NoVersion /\ algorithm = NoVersion
    /\ sender = NotSending
    /\ check = [c \in Checks |-> NoCheck]
    /\ creating = "no"
    /\ backupPlan \in BackupPlans
    /\ current \in 0 .. 1 /\ versions = current
    /\ backup = {}
    /\ failures = 0 /\ restarts = 0

world == <<current, versions, backup>>
bounds == <<backupPlan, failures, restarts>>
fail == failures < backupPlan.failures /\ failures' = failures + 1 /\ UNCHANGED <<backupPlan, restarts>>

----------------------------------------------------------------------------
\* Keys arrive

\* A room key, or a better copy of it, is saved by the decryptor ...
keySaved(k) ==
    /\ revision[k] < backupPlan.revisions
    /\ revision' = [revision EXCEPT ![k] = @ + 1]
    /\ unflagged' = unflagged \cup {k}
    /\ UNCHANGED <<needing, backupInfo, algorithm, sender, check, creating, world, bounds>>

\* scheduleKeyBackupSend does nothing while a send loop is running.
scheduleKeyBackupSend(s) == IF s.at = "idle" THEN [NotSending EXCEPT !.at = "sleep"] ELSE s

\* ... and flagged after that (backupGroupSession).
backupGroupSession(k) ==
    /\ k \in unflagged
    /\ unflagged' = unflagged \ {k}
    /\ needing' = needing \cup {k}
    /\ sender' = IF backupInfo # NoVersion THEN scheduleKeyBackupSend(sender) ELSE sender
    /\ UNCHANGED <<revision, backupInfo, algorithm, check, creating, world, bounds>>

----------------------------------------------------------------------------
\* The send loop

\* The head of the loop, after the delay, a round or a pause.
loopHead ==
    /\ sender.at = "sleep"
    /\ sender' = IF algorithm = NoVersion THEN NotSending ELSE [sender EXCEPT !.at = "read"]
    /\ UNCHANGED <<revision, unflagged, needing, backupInfo, algorithm, check, creating, world,
                   bounds>>

\* backupPendingKeys takes some of the keys, as they are in the store now.
getSessionsNeedingBackup(ks) ==
    /\ sender.at = "read"
    /\ ks \subseteq needing /\ (ks = {} <=> needing = {})
    /\ Cardinality(ks) <= KEY_BACKUP_KEYS_PER_REQUEST
    /\ sender' = IF ks = {} THEN NotSending
                 ELSE [sender EXCEPT !.at = "encrypt",
                                     !.batch = {[key |-> k, revision |-> revision[k]] : k \in ks}]
    /\ UNCHANGED <<revision, unflagged, needing, backupInfo, algorithm, check, creating, world,
                   bounds>>

pause == [NotSending EXCEPT !.at = "sleep"]

\* They are encrypted for the algorithm of this moment; without one, the call throws.
encryptSession ==
    /\ sender.at = "encrypt"
    /\ sender' = IF algorithm = NoVersion THEN pause
                 ELSE [sender EXCEPT !.at = "send", !.key = algorithm]
    /\ UNCHANGED <<revision, unflagged, needing, backupInfo, algorithm, check, creating, world,
                   bounds>>

\* The server keeps them under the version they are sent for.
kept == {[key |-> b.key, revision |-> b.revision, for |-> sender.key, version |-> backupInfo] :
           b \in sender.batch}

\* sendKeyBackup, for the version of this moment; the server refuses any but its own.
sendKeyBackup ==
    /\ sender.at = "send"
    /\ IF backupInfo = NoVersion
       THEN sender' = pause /\ UNCHANGED <<backup, check>>
       ELSE IF backupInfo # current
       THEN /\ sender' = [sender EXCEPT !.at = "recheck"]
            /\ check' = [check EXCEPT !["loop"] = [NoCheck EXCEPT !.at = "ask"]]
            /\ UNCHANGED backup
       ELSE /\ backup' = backup \cup kept
            /\ sender' = [sender EXCEPT !.at = "unmark"]
            /\ UNCHANGED check
    /\ UNCHANGED <<revision, unflagged, needing, backupInfo, algorithm, creating, current, versions,
                   bounds>>

\* The request fails, before or after the server took the keys: a pause, and again.
sendFailed(taken) ==
    /\ sender.at = "send" /\ backupInfo \notin {NoVersion} /\ backupInfo = current
    /\ fail
    /\ backup' = IF taken THEN backup \cup kept ELSE backup
    /\ sender' = pause
    /\ UNCHANGED <<revision, unflagged, needing, backupInfo, algorithm, check, creating, current,
                   versions>>

\* Mutant: whatever needs the backup is unflagged after a request.
unmarkSessionsNeedingBackup_all ==
    /\ sender.at = "unmark"
    /\ needing' = {}
    /\ sender' = pause
    /\ UNCHANGED <<revision, unflagged, backupInfo, algorithm, check, creating, world, bounds>>

\* The keys that were sent are unflagged, whatever was flagged meanwhile.
unmarkSessionsNeedingBackup ==
    /\ sender.at = "unmark"
    /\ needing' = needing \ {b.key : b \in sender.batch}
    /\ sender' = pause
    /\ UNCHANGED <<revision, unflagged, backupInfo, algorithm, check, creating, world, bounds>>

----------------------------------------------------------------------------
\* checkAndStart

checkKeyBackup(c) ==
    /\ check[c].at = "idle"
    /\ check' = [check EXCEPT ![c] = [NoCheck EXCEPT !.at = "ask"]]
    /\ UNCHANGED <<revision, unflagged, needing, backupInfo, algorithm, sender, creating, world,
                   bounds>>

\* A check ends; the loop that had asked for it throws, and is over.
checkEnds(c, s) ==
    /\ check' = [check EXCEPT ![c] = NoCheck]
    /\ sender' = IF c = "loop" THEN NotSending ELSE s

\* getKeyBackupVersion: without a backup on the server (404) nothing is done.
versionFound(c) ==
    /\ check[c].at = "ask"
    /\ IF current = NoVersion THEN checkEnds(c, sender)
       ELSE /\ check' = [check EXCEPT ![c].at = "trust", ![c].found = current]
            /\ UNCHANGED sender
    /\ UNCHANGED <<revision, unflagged, needing, backupInfo, algorithm, creating, world, bounds>>

\* isKeyBackupTrusted has answered: enable, disable, switch or leave the backup alone.
checkAndStart(c, usable) ==
    LET found == check[c].found
        enables == usable /\ backupInfo # found
        switches == enables /\ backupInfo # NoVersion
        disables == ~usable /\ backupInfo # NoVersion IN
    /\ check[c].at = "trust"
    /\ IF enables
       THEN /\ check' = [check EXCEPT ![c].at = "make", ![c].switches = switches]
            /\ UNCHANGED sender
       ELSE checkEnds(c, sender)
    /\ backupInfo' = IF enables THEN found ELSE IF disables THEN NoVersion ELSE backupInfo
    /\ algorithm' = IF switches \/ disables THEN NoVersion ELSE algorithm
    /\ UNCHANGED <<revision, unflagged, needing, creating, world, bounds>>

\* Mutant: a backup that is enabled waits for the next new key.
enableKeyBackup_waits(c) ==
    /\ check[c].at = "make"
    /\ algorithm' = check[c].found
    /\ IF check[c].switches
       THEN check' = [check EXCEPT ![c].at = "flag"] /\ UNCHANGED sender
       ELSE checkEnds(c, sender)
    /\ UNCHANGED <<revision, unflagged, needing, backupInfo, creating, world, bounds>>

\* enableKeyBackup goes on when the algorithm is ready, and schedules a send.
enableKeyBackup(c) ==
    /\ check[c].at = "make"
    /\ algorithm' = check[c].found
    /\ IF check[c].switches
       THEN /\ check' = [check EXCEPT ![c].at = "flag"]
            /\ sender' = scheduleKeyBackupSend(sender)
       ELSE checkEnds(c, scheduleKeyBackupSend(sender))
    /\ UNCHANGED <<revision, unflagged, needing, backupInfo, creating, world, bounds>>

\* scheduleAllGroupSessionsForBackup, after a switch.
scheduleAllGroupSessionsForBackup(c) ==
    /\ check[c].at = "flag"
    /\ needing' = Held
    /\ checkEnds(c, scheduleKeyBackupSend(sender))
    /\ UNCHANGED <<revision, unflagged, backupInfo, algorithm, creating, world, bounds>>

----------------------------------------------------------------------------
\* createKeyBackupVersion and deleteKeyBackupVersion, and the other devices of the user

createKeyBackupVersion ==
    /\ backupPlan.creates /\ creating = "no" /\ versions < backupPlan.versions
    /\ creating' = "post"
    /\ algorithm' = versions + 1
    /\ versions' = versions + 1
    /\ UNCHANGED <<revision, unflagged, needing, backupInfo, sender, check, current, backup, bounds>>

\* The version is on the server; it is checked as any other.
versionCreated(c) ==
    /\ creating = "post" /\ c \in Check /\ check[c].at = "idle"
    /\ creating' = "no"
    /\ current' = versions
    /\ check' = [check EXCEPT ![c] = [NoCheck EXCEPT !.at = "ask"]]
    /\ UNCHANGED <<revision, unflagged, needing, backupInfo, algorithm, sender, versions, backup,
                   bounds>>

deleteKeyBackupVersion ==
    /\ backupPlan.deletes /\ current # NoVersion
    /\ backupInfo' = NoVersion
    /\ algorithm' = IF backupInfo # NoVersion THEN NoVersion ELSE algorithm
    /\ current' = NoVersion
    /\ UNCHANGED <<revision, unflagged, needing, sender, check, creating, versions, backup, bounds>>

otherDeviceCreates ==
    /\ versions < backupPlan.versions /\ creating = "no"
    /\ versions' = versions + 1 /\ current' = versions + 1
    /\ UNCHANGED <<revision, unflagged, needing, backupInfo, algorithm, sender, check, creating,
                   backup, bounds>>

\* The page is reloaded: keys and flags have been saved.  start() checks the backup.
restart(c) ==
    /\ restarts < backupPlan.restarts /\ c \in Check
    /\ restarts' = restarts + 1
    /\ unflagged' = {} /\ sender' = NotSending /\ creating' = "no"
    /\ backupInfo' = NoVersion /\ algorithm' = NoVersion
    /\ check' = [x \in Checks |-> IF x = c THEN [NoCheck EXCEPT !.at = "ask"] ELSE NoCheck]
    /\ UNCHANGED <<revision, needing, world, backupPlan, failures>>

----------------------------------------------------------------------------
SendLoop ==
    \/ loopHead \/ \E ks \in SUBSET RoomKey : getSessionsNeedingBackup(ks)
    \/ encryptSession \/ sendKeyBackup \/ unmarkSessionsNeedingBackup

CheckSteps(c) ==
    versionFound(c) \/ (\E usable \in BOOLEAN : checkAndStart(c, usable)) \/ enableKeyBackup(c)
    \/ scheduleAllGroupSessionsForBackup(c)

BackupNext ==
    \/ \E k \in RoomKey : keySaved(k) \/ backupGroupSession(k)
    \/ SendLoop
    \/ \E taken \in BOOLEAN : sendFailed(taken)
    \/ \E c \in Check : checkKeyBackup(c) \/ versionCreated(c) \/ restart(c)
    \/ \E c \in Checks : CheckSteps(c)
    \/ createKeyBackupVersion \/ deleteKeyBackupVersion \/ otherDeviceCreates

BackupSpec == BackupInit /\ [][BackupNext]_backupVars

----------------------------------------------------------------------------
(* Properties.                                                             *)

\* One version at most, no better copies of a key, nothing deleted or reloaded:
\* each of them can lose a flag (see the README).
Undisturbed ==
    /\ backupPlan.versions <= 1 /\ backupPlan.revisions <= 1 /\ ~backupPlan.deletes
    /\ restarts = 0

\* The server's version has the key as the client has it, and can be read with
\* the version's own private key.
BackedUp(k) ==
    [key |-> k, revision |-> revision[k], for |-> current, version |-> current] \in backup

\* A key is no longer flagged only when the server has it: keys that arrive
\* while a batch is sent, batches whose answer is lost and sends that are taken
\* up again do not make the client forget one.
UnflaggedIsBackedUp ==
    /\ BackupTypeOK
    /\ Undisturbed => \A k \in Held : k \in unflagged \/ k \in needing \/ BackedUp(k)

\* The backup is in use, and is the server's.
Usable == backupInfo # NoVersion /\ algorithm = backupInfo /\ current = backupInfo

Sends(k) == <>(k \notin needing \/ ~Usable)

\* "schedule all the keys we have to be uploaded to the new backup": with a
\* backup in use, every flagged key is sent, whenever the flag was set.
FlaggedIsSent == \A k \in RoomKey : [](k \in needing /\ Usable => Sends(k))

\* ... which is so as long as the server has one version: a key flagged before
\* the backup was enabled, while the loop was ending, or after a failure.
NeedingIsSent ==
    \A k \in RoomKey : [](backupPlan.versions <= 1 /\ k \in needing /\ Usable => Sends(k))
=============================================================================
