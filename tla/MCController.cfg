CONSTANTS
  Capacity = 2
  StopAttempts = 2
  MaxSteps = 2
  MaxOffers = 3
  MaxRequests = 1
  Stop = Stop
  NoReport = NoReport
SPECIFICATION Spec
INVARIANT ReportIsComplete
PROPERTY DashboardStaysGone
PROPERTY ShutdownCompletes
