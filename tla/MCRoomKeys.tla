---------------------------- MODULE MCRoomKeys ------------------------------
(***************************************************************************)
(* Small instances of KeyRequests, IncomingRequests and KeyBackup.  The    *)
(* three share no state; a behaviour is about one of them, and part says   *)
(* which.                                                                  *)
(***************************************************************************)
EXTENDS KeyRequests, IncomingRequests, KeyBackup

CONSTANTS tab1, key1, Parts

VARIABLE part

Plan(ver, rev, lost, reloads, creates, deletes) ==
  [versions |-> ver, revisions |-> rev, failures |-> lost, restarts |-> reloads,
   creates |-> creates, deletes |-> deletes]

\* A second version; one version with a failure and a restart; better copies of
\* the keys, a failure and the deletion of the version.
MCPlans == {Plan(2, 1, 0, 0, TRUE, FALSE), Plan(1, 1, 1, 1, TRUE, FALSE),
            Plan(1, 2, 1, 0, FALSE, TRUE)}

\* Another device of the user makes a second version.
SwitchPlan == {Plan(2, 1, 0, 0, FALSE, FALSE)}

allVars == <<part, vars, requestVars, backupVars>>

PartInit ==
  /\ part \in Parts /\ Init /\ IncomingInit /\ BackupInit
  /\ part # "incoming" => /\ asker = [r \in Request |-> "own device"]
                          /\ sharedTo = {} /\ trusted = {}
  /\ part # "backup" => backupPlan = (CHOOSE p \in BackupPlans : TRUE) /\ current = 0

PartNext ==
  \/ part = "outgoing" /\ Next /\ UNCHANGED <<part, requestVars, backupVars>>
  \/ part = "incoming" /\ IncomingNext /\ UNCHANGED <<part, vars, backupVars>>
  \/ part = "backup" /\ BackupNext /\ UNCHANGED <<part, vars, requestVars>>

\* Transactions of the store and HTTP requests end, timers fire, and /sync goes
\* on; a client that is stopped is started again.
OutgoingFairness ==
  /\ WF_vars(part = "outgoing" /\ (\E c \in calls : CallStep(c)))
  /\ WF_vars(part = "outgoing" /\ (\E m \in sends : MessageArrives(m) \/ MessageSent(m)))
  /\ \A t \in Tabs : /\ WF_vars(part = "outgoing" /\ sendOutgoingRoomKeyRequests(t))
                     /\ WF_vars(part = "outgoing" /\ sendQueuedRequests(t))
                     /\ WF_vars(part = "outgoing" /\ start(t))

\* Syncs go on, and lookups end.
IncomingFairness ==
  /\ SF_requestVars(part = "incoming" /\ processReceivedRoomKeyRequests
                  /\ receivedRoomKeyRequests \cup receivedRoomKeyRequestCancellations # {})
  /\ WF_requestVars(part = "incoming" /\ (\E r \in Request : processReceivedRoomKeyRequest(r)))
  /\ WF_requestVars(part = "incoming" /\ processReceivedRoomKeyRequestCancellation)

\* Delays pass, and requests and transactions end.
BackupFairness ==
  /\ WF_backupVars(part = "backup" /\ SendLoop)
  /\ \A c \in Checks : WF_backupVars(part = "backup" /\ CheckSteps(c))
  /\ WF_backupVars(part = "backup" /\ (\E k \in RoomKey : backupGroupSession(k)))

FairSpec ==
  PartInit /\ [][PartNext]_allVars /\ OutgoingFairness /\ IncomingFairness /\ BackupFairness
=============================================================================
