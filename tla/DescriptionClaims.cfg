SPECIFICATION FairSpec
CONSTANTS
  Assets = {a1}
  Uploads = {u1}
  Claims = {}
  Workers = {w1, w2}
  MessageIds = {i1, i2}
  Limit = 2
  UsdLimit = 2
  Price = 1
  MaxAttempts = 2
  MaxMonth = 1
  None = None
INVARIANTS
  OneClaimant
PROPERTY JobsSettle
VIEW NoHistory
