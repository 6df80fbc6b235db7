SPECIFICATION Spec
CONSTANTS
  Detached = TRUE
  Requests = 2
  Responses = 1
  Max = 1
  Low = 0
  CanCut = TRUE
INVARIANTS
  TypeOK
  TargetGetsPrefix
  LocalGetsPrefixOrError
  OnlyDeleteTruncates
  ClosesDrained
  DataAfterHandshake
  StreamInv
  ReplyInv
PROPERTIES
  RequestIsPipe
  ResponseIsPipe
CHECK_DEADLOCK FALSE
