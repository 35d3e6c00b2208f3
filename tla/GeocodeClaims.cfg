SPECIFICATION FairSpec
CONSTANTS
  Assets = {a1}
  Coordinates = {1}
  Near <- EqualOnly
  Workers = {w1, w2}
  MessageIds = {i1, i2}
  Limit = 2
  MaxAttempts = 2
  MaxMonth = 1
  NoLease = NoLease
  NoMessage = NoMessage
  NoAddress = NoAddress
INVARIANTS
  CallsCharged
  OneClaimant
PROPERTY JobsSettle
