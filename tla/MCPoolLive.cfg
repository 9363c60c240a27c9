SPECIFICATION FairSpec
CONSTANTS
  Users = {u1, u2}
  Conns = {c1, c2}
  minPoolSize = 1
  maxPoolSize = 2
  MaxTasks = 1
  Faults = {"validate"}
  NoConn = NoConn
INVARIANT MinimumWanted
PROPERTY MinimumRestored
CHECK_DEADLOCK FALSE
