SPECIFICATION FairSpec
CONSTANTS
  Detached = TRUE
  Requests = 1
  Responses = 2
  Max = 1
  Low = 0
  CanCut = FALSE
PROPERTIES
  TargetReleased
  ResponseComplete
CHECK_DEADLOCK FALSE
