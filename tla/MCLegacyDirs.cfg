SPECIFICATION MigrationSpec
CONSTANTS
  NameOrder   <- MCNameOrder
  TargetOrder <- MCTargetOrder
  ShellOrder  <- MCShellOrder
  PairOrder   <- MCPairOrder
  None = None
  MaxRounds = 2
  MaxFaults = 1
PROPERTY DirsOutliveFailures
CHECK_DEADLOCK FALSE
