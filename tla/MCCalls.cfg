CONSTANTS
  main = main a = a b = b
  Main = main
  Coroutines = {a, b}
  MaxCCalls = 3
  CCallsRoom = 1
  MaxCalls = 4
  BasicCiSize = 4
  MaxOpen = 1
  MaxFrames = 6
  MaxDepth = 4
SYMMETRY Symmetry
SPECIFICATION Spec
INVARIANTS
  CDepthExact
  CallersRestored
  YieldsCutNothing
  StatusIsTrue
