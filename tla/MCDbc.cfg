SPECIFICATION Spec
CONSTANTS
  p1 = p1 v1 = v1 v2 = v2
  Prose = Prose Null = Null NoFile = NoFile NoFilter = NoFilter
  Missing = Missing Lost = Lost
  Paths <- OnePath
  Versions = {v1, v2}
  Definitions <- MCMixed
  WordSize = 4
  ByteSize = 2
  FloatText <- MCFloatText
  StringText <- MCStringText
  Files <- OneWithStrings
  Typed = {Prose, 1}
  Queries = {}
  DiskFaults = {"denied", "torn", "late"}
  MaxTabs = 2
  MaxRows = 1
INVARIANT TypeOK
PROPERTIES TornRefused SaveAllReport
