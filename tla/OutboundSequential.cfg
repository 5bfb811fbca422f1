SPECIFICATION FairSpec
CONSTANTS
  Device = {d1, d2}
  Call = {c1}
  Prep = Prep
  NoCall = NoCall
  RotationMsgs = 2
  MaxSessions = 4
  MaxMessages = 2
  MaxChanges = 1
  MaxFailures = 1
  MaxNoOlm = 1
  MaxDiscards = 0
  MaxPreps = 1
  MaxReshares = 0
  MaxOld = 0
INVARIANTS OnlyRecipientsReadWhenSmooth
PROPERTIES EncryptedForAll
CHECK_DEADLOCK FALSE
