SPECIFICATION Spec
CONSTANTS
  Slots <- OneSource
  Hashes = {h1, h2}
  Sizes = {z1, z2}
  Keys = {k1}
  Requests = {r1, r2}
  MaxRows = 2
  MaxMerges = 1
  NoSize = NoSize
  NoHash = NoHash
  None = None
  x1 = x1
  x2 = x2
INVARIANTS
  SourcesSound
  LiveWhileUsed
  AppliedOnce
  MergeAgrees
PROPERTY
  ChangesTold
SYMMETRY Symmetric
VIEW NoFeed
