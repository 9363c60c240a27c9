SPECIFICATION Spec
CONSTANTS
  c1 = c1
  c2 = c2
  Connections = {c1, c2}
  Names <- MCNames
  Catalog <- MCTwoSchemas
  Rejected = {c2}
  Faults = {"open", "read"}
  Saved <- MCSaved
  NoFile = NoFile
  Loads = {l1, l2}
  LoginWindow = LoginWindow
SYMMETRY LoadSymmetry
INVARIANTS TypeOK TickGuard
PROPERTY NothingLost
