CONSTANTS
  ABits = 1
  BBits = 2
  CBits = 2
  main = main f = f inner = inner g = g
  Protos <- ProtoSet
  Root = main
  Kids <- KidsOf
  Consts <- ConstsOf
  Values <- ValueSet
  Strings <- StringSet
  Hash <- HashOf
  Cases <- CaseSet
  MaxConversions = 2
SPECIFICATION Spec
INVARIANTS
  TypeOK
  ConstantsRight
  PausedOnlyAfterFailure
  ClosureIsTheScript
PROPERTIES
  CodeDecodes
CHECK_DEADLOCK FALSE
