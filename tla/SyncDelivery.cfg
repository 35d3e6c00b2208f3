SPECIFICATION Spec
CONSTANTS
  Items = {x1, x2}
  MaxRevision = 2
  MaxEdits = 1
  BatchIds = {b1, b2, b3}
  Imports = {i1, i2}
  Unacceptable <- OneUnacceptable
  None = None
  x1 = x1
INVARIANTS
  QueueSound
  KnownIsServed
SYMMETRY Symmetric
