SPECIFICATION Spec
CONSTANTS
  Assets = {a1}
  Uploads = {u1, u2}
  Claims = {c1}
  Workers = {w1}
  MessageIds = {i1}
  Limit = 2
  UsdLimit = 3
  Price = 2
  MaxAttempts = 1
  MaxMonth = 2
  None = None
INVARIANTS
  LeasesSound
  
  
  
  
  
SYMMETRY UploadSymmetry
VIEW NoHistory
