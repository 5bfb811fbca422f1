SPECIFICATION FairSpec
CONSTANTS
  alice = alice
  bob = bob
  none = none
  Initiator = alice
  Devices = {bob}
  None = none
  InitiatorIsSmaller = TRUE
  MaxTroubles = 1
INVARIANTS SidesAgree VerifiedIsConfirmed
PROPERTIES Completes
CHECK_DEADLOCK FALSE
