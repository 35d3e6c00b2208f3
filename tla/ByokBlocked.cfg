SPECIFICATION FairSpec
CONSTANTS
  Jobs = {1, 2}
  Cap = 4
  Price = 2
  Costs = {2}
  MaxMonth = 1
  MaxRetries = 0
PROPERTIES
  OwnRefusal
