SPECIFICATION Spec
CONSTANTS
  a = a
  b = b
  b2 = b2
  Devices = {a, b, b2}
  User <- MCUser
  Rank <- MCRank
  None = none
  MaxTries = 1
  MaxObjects = 2
  Scenarios <- MCScenarios
  MaxMediaChanges = 2
  MaxLostOffers = 1
INVARIANTS  StreamInUseIsLive NegotiationSettles
CHECK_DEADLOCK FALSE
