SPECIFICATION Spec
CONSTANTS
  Device = {d1}
  Call = {c1, c2}
  Prep = Prep
  NoCall = NoCall
  RotationMsgs = 1
  MaxSessions = 3
  MaxMessages = 3
  MaxChanges = 2
  MaxFailures = 1
  MaxNoOlm = 0
  MaxDiscards = 1
  MaxPreps = 0
  MaxReshares = 1
  MaxOld = 1
INVARIANTS OutboundIsSound
SYMMETRY Symmetry
CHECK_DEADLOCK FALSE
