SPECIFICATION FairSpec
CONSTANTS
  Boxes = {b1, b2}
  c1 = c1 c2 = c2 s1 = s1 t1 = t1 k1 = k1
  Names <- MCNames
  Nodes <- MCNodes
  Typed = {mine}
  Selects = {a1, a2}
  Import = Import
  NoBox = NoBox NoName = NoName Blank = Blank
INVARIANTS TypeOK EveryTabHasABox
PROPERTIES KeepsPaired RunsWhatIsShown GlobalsFollowSelection LateTextInItsTab SelectionsEnd
