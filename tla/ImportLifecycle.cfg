SPECIFICATION Spec
CONSTANTS
  Imports = {m1, m2}
  Workers = {w1, w2}
  MessageIds = {i1}
  MaxAttempts = 2
  None = None
INVARIANTS
  TypeOK
  MergedOnce
  StagedKept
  ResultBacked
PROPERTY PromiseKept
SYMMETRY AllSymmetry
CHECK_DEADLOCK FALSE
