CONSTANTS
  mt = mt g = g a = a b = b c = c d = d
  None = None
  Main = mt
  Globals = g
  Objs = {mt, g, a, b, c}
  Kind <- TableKinds
  MaxRefs = 3
SPECIFICATION TableSpec
INVARIANTS
  NoDangling
  Colours
  FullCollects
