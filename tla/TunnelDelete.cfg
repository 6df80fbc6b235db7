SPECIFICATION FairSpec
CONSTANTS
  Detached = TRUE
  Requests = 1
  Responses = 1
  Max = 1
  Low = 0
  CanCut = FALSE
PROPERTIES
  DeleteClosesPeer
CHECK_DEADLOCK FALSE
