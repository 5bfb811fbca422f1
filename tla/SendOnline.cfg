SPECIFICATION FairSpec
CONSTANTS
  msg = msg
  rel = rel
  dir = dir
  Events = {msg, rel, dir}
  Queueable = {msg, rel}
  Target <- RelatesTo
  Reactions = {}
  Encrypted = FALSE
  Detached = TRUE
  RetryLimit = 1
  MaxResends = 1
  MaxRateLimits = 1
  MaxResets = 1
  MaxRestarts = 0
INVARIANTS EchoAndRelationResolve
PROPERTIES ConfirmedIsFinal RelationSentAfterTarget SendSettles
CHECK_DEADLOCK FALSE
