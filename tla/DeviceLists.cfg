SPECIFICATION FairSpec
CONSTANTS
  me = me
  bob = bob
  Users = {me}
  Own = me
  MaxChanges = 1
  MaxTroubles = 1
  MaxTxns = 1
INVARIANTS ListsAreSound
PROPERTIES ListsAdvance
CHECK_DEADLOCK FALSE
