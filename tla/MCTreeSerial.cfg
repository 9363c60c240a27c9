SPECIFICATION LoadSpec
CONSTANTS
  c1 = c1
  c2 = c2
  Connections = {c1, c2}
  Names <- MCNames
  Catalog <- MCCatalog
  Rejected = {}
  Faults = {"open", "read"}
  Saved <- MCSaved
  NoFile = NoFile
  Loads = {l1}
  LoginWindow = LoginWindow
INVARIANTS LoadedMeansAll EachUnderItsParent
PROPERTY ImplementsTreeView
