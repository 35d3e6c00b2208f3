SPECIFICATION FairSpec
CONSTANTS
  Items = {x1}
  MaxRevision = 2
  MaxEdits = 2
  BatchIds = {b1, b2}
  Imports = {i1}
  Unacceptable <- OneUnacceptable
  None = None
  x1 = x1
PROPERTY
  Delivers
