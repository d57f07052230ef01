CONSTANTS
  Sessions = {s1, s2}
  Programs <- MCPrograms
  MaxHops = 2
SPECIFICATION Spec
INVARIANTS
  DepthBounded
PROPERTIES
  CallResumesNext
  WaitersGoOn
CHECK_DEADLOCK FALSE
