SPECIFICATION Spec
CONSTANTS
  MaxHead = 5
  Start = 2
  PageSize = 2
  SyncLimit = 1
  WindowLimit = 3
  RequestLimit = 1
  Plans <- MCPlans
  User = {u1, u2}
  Me = me
  MaxLog = 4
  MaxLimited = 1
  MaxReloads = 1
  MaxLoadFailures = 1
  StateKey = {k1, k2}
  AccountType = {"a"}
  MaxStream = 4
  SyncSize = 2
  maxTimelineEntries = 3
  MaxSaves = 2
  MaxRestarts = 1
INVARIANTS   MembersAreCurrent AccumulatedIsCurrent
SYMMETRY Symmetry
CHECK_DEADLOCK FALSE
