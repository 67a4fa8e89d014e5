CONSTANTS
  Body = {b1, b2}
  NoBody = NoBody
  NoFile = NoFile
  Torn = Torn
  StaleAfter = 1
  RemoveFails = FALSE
  MaxCommands = 2
  MaxTime = 2
SPECIFICATION Spec
INVARIANTS
  AtMostOnce
PROPERTIES
  DashboardStaysReadable
  LiveIsRecent
  DashboardCatchesUp
