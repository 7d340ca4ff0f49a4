CONSTANTS
  WorkersOf <- MCWorkersOf
  Workqueues <- MCWorkqueues
  MaxWqCmds = 3
SPECIFICATION MCSpec
INVARIANTS   CoreExact  PropertiesExact FrameworkExact
PROPERTY WalksEnd
CHECK_DEADLOCK FALSE
