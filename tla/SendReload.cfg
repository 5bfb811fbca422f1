SPECIFICATION Spec
CONSTANTS
  msg = msg
  rel = rel
  dir = dir
  Events = {msg, rel, dir}
  Queueable = {msg, rel}
  Target <- RelatesTo
  Reactions = {rel}
  Encrypted = TRUE
  Detached = TRUE
  RetryLimit = 1
  MaxResends = 1
  MaxRateLimits = 0
  MaxResets = 1
  MaxRestarts = 1
INVARIANTS IInv AcceptedInOrder StoredIsPending
PROPERTIES ImplementsOutbox
CHECK_DEADLOCK FALSE
