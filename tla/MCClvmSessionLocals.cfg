CONSTANTS
  Sessions = {s1, s2}
  Programs <- MCPrograms
  MaxHops = 2
SPECIFICATION Spec
INVARIANTS
  LocalsSurvive
CHECK_DEADLOCK FALSE
