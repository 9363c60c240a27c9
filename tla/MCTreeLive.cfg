SPECIFICATION LoadSpec
CONSTANTS
  c1 = c1
  c2 = c2
  Connections = {c1, c2}
  Names <- MCNames
  Catalog <- MCBareCatalog
  Rejected = {}
  Faults = {"open"}
  Saved <- MCSavedOne
  NoFile = NoFile
  Loads = {l1, l2}
  LoginWindow = LoginWindow
PROPERTIES EveryLoadEnds TreeAppears
