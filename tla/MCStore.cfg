SPECIFICATION Spec
CONSTANTS
  Nicknames = {home, work}
  Windows = {w1, w2}
  MaxID = 3
  DiskFaults = {"denied", "torn"}
  NoFile = NoFile
  Corrupt = Corrupt
  Closed = Closed
SYMMETRY Symmetry
INVARIANTS
  TypeOK
  IDsIncrease
  NoneLeftSelected
  AsManyAsSelected
PROPERTIES
  RemovedOnRequest
  UnreadableKept
  KeepsInStep
  CountsAreTrue
