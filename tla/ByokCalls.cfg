SPECIFICATION FairSpec
CONSTANTS
  Jobs = {1, 2}
  Cap = 3
  Price = 2
  Costs = {2}
  MaxMonth = 2
  MaxRetries = 1
INVARIANTS
  JournalSound
  PaidOnRequest
PROPERTIES
  NoRepeatInference
  ResultsReach
