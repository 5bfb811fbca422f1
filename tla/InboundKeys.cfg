SPECIFICATION FairInboundSpec
CONSTANTS
  e1 = e1
  e2 = e2
  e3 = e3
  s1 = s1
  s2 = s2
  Event <- MCEvent
  Session <- MCSession
  SessionOf <- MCSessionOf
  IndexOf <- MCIndexOf
  WrongRoom = {e3}
  MaxIndex = 1
  MaxKeys = 2
  MaxProblems = 1
  MaxErrors = 1
  NoEvent = NoEvent
INVARIANTS  GivenUpIsPending NoReplay DecryptedStaysReadable
PROPERTIES KeyDecrypts
CHECK_DEADLOCK FALSE
