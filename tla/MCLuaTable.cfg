CONSTANTS
  s1 = s1 s2 = s2 v = v o1 = o1 o2 = o2
  Keys <- MCKeys
  Hash <- MCHash
  Values = {v}
  Objects = {o1, o2}
  nil = nil
  Absent = Absent
  MaxLog = 4
SPECIFICATION Spec
INVARIANTS
  HashSound
  TraversalComplete
  RefsHold
PROPERTY
  ImplementsMap
