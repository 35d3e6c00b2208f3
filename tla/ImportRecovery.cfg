SPECIFICATION FairSpec
CONSTANTS
  Imports = {m1}
  Workers = {w1, w2}
  MessageIds = {i1, i2}
  MaxAttempts = 2
  None = None
PROPERTY ImportsEnd
CHECK_DEADLOCK FALSE
