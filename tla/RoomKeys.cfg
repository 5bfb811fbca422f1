SPECIFICATION FairSpec
CONSTANTS
  tab1 = tab1
  key1 = key1
  Parts = {"outgoing", "incoming", "backup"}
  Tabs = {tab1}
  Bodies = {key1}
  Ops = {"queue", "resend", "resendAll", "unwedge", "cancel"}
  MaxCalls = 3
  MaxFailures = 2
  MaxReloads = 1
  MaxStops = 1
  Request = {"r1", "r2"}
  MaxStoreErrors = 1
  MaxTrustChanges = 1
  RoomKey = {"k1", "k2"}
  Check = {"c1"}
  KEY_BACKUP_KEYS_PER_REQUEST = 1
  BackupPlans <- MCPlans
INVARIANTS SentWasAccepted UnflaggedIsBackedUp
PROPERTIES RequestsSettle CancelledIsWithdrawn 
CHECK_DEADLOCK FALSE
