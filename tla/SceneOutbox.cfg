SPECIFICATION FairSpec
CONSTANTS
  Jobs = {j1}
  Sessions = {u1, u2, u3}
  Formats = {"Modern"}
  MaxFaults = 2
  None = None
INVARIANTS
  TasksSound
  OneOpenSession
PROPERTIES
  SentWasStaged
  Attended
  SentWatched
