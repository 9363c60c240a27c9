SPECIFICATION Spec
CONSTANTS
  Queries = {"one", "two"}
  Count <- MCCount
  Columns <- MCColumns
  MaxActive = 2
  Full = 3
  Enough = 2
  MaxTasks = 2
  NoTable = NoTable NoStatus = NoStatus NoFile = NoFile Torn = Torn
INVARIANT StatusIsTrue
