CONSTANTS
  mt = mt g = g a = a b = b c = c d = d
  None = None
  Main = mt
  Globals = g
  Objs = {mt, g, a, b, c, d}
  Kind <- UpvalKinds
  MaxRefs = 4
SPECIFICATION UpvalSpec
INVARIANTS
  NoDangling
  Colours
