CONSTANTS
  Capacity = 1
  StopAttempts = 2
  MaxSteps = 2
  MaxOffers = 1
  MaxRequests = 2
  Stop = Stop
  NoReport = NoReport
SPECIFICATION Spec
PROPERTY SaturatedQueueCannotHang
