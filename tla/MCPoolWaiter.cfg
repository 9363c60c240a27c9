SPECIFICATION Spec
CONSTANTS
  Users = {u1, u2, u3}
  Conns = {c1, c2, c3, c4}
  minPoolSize = 1
  maxPoolSize = 3
  MaxTasks = 2
  Faults = {}
  NoConn = NoConn
SYMMETRY Symmetry
INVARIANT WaiterHasRequest
CHECK_DEADLOCK FALSE
