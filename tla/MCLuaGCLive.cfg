CONSTANTS
  mt = mt g = g a = a b = b c = c d = d
  None = None
  Main = mt
  Globals = g
  Objs = {mt, g, a, b}
  Kind <- FewKinds
  MaxRefs = 3
SPECIFICATION TableSpec
PROPERTIES
  GarbageGoes
