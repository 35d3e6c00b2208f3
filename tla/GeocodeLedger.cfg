SPECIFICATION Spec
CONSTANTS
  Assets = {a1}
  Coordinates = {1, 2}
  Near <- EqualOnly
  Workers = {w1, w2}
  MessageIds = {i1}
  Limit = 1
  MaxAttempts = 1
  MaxMonth = 2
  NoLease = NoLease
  NoMessage = NoMessage
  NoAddress = NoAddress
SYMMETRY WorkerSymmetry
INVARIANTS
  TypeOK
  LedgerMatchesHolders
  CeilingRespected
  
  
PROPERTY ImplementsBudget
