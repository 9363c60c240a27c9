SPECIFICATION FairSpec
CONSTANTS
  Queries = {"none", "one", "two"}
  Count <- MCCount
  Columns <- MCColumns
  MaxActive = 1
  Full = 3
  Enough = 2
  MaxTasks = 2
  NoTable = NoTable NoStatus = NoStatus NoFile = NoFile Torn = Torn
INVARIANTS
  TypeOK
  StatusIsTrue
  BarIsTrue
PROPERTIES
  ProgressEnds
  ImplementsResultView
