SPECIFICATION Spec
CONSTANTS
  p1 = p1 v1 = v1 v2 = v2
  Prose = Prose Null = Null NoFile = NoFile NoFilter = NoFilter
  Missing = Missing Lost = Lost
  Paths <- OnePath
  Versions = {v1, v2}
  Definitions <- MCUnsigned
  WordSize = 4
  ByteSize = 2
  FloatText <- MCFloatText
  StringText <- MCStringText
  Files <- OneByTwo
  Typed = {1}
  Queries <- HidesBlanks
  DiskFaults = {"torn"}
  MaxTabs = 1
  MaxRows = 2
PROPERTY ImplementsTableStore
