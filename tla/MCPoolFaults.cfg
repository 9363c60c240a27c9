SPECIFICATION Spec
CONSTANTS
  Users = {u1, u2}
  Conns = {c1, c2, c3, c4}
  minPoolSize = 1
  maxPoolSize = 2
  MaxTasks = 2
  Faults = {"connect", "validate", "reset", "gone"}
  NoConn = NoConn
SYMMETRY Symmetry
INVARIANTS
  TypeOK
  CountsAgree
PROPERTY ImplementsLeases
CHECK_DEADLOCK FALSE
