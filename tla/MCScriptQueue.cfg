CONSTANTS
  MaxSubmits = 4
  MaxAborts = 3
SPECIFICATION MCSpec
INVARIANTS
  TypeOK
  DrainSafe
  LaunchesRight
PROPERTIES
  ImplementsMailbox
  ClickCompletes
  ListDrains
CHECK_DEADLOCK FALSE
