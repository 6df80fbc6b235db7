SPECIFICATION Spec
CONSTANTS
  Session = {x1}
  Token = {"r", "0", "1", "2", "3"}
  Number <- MCNumber
  TargetLists <- MCOneTarget
  ListenLists <- MCListenLists
  Paths <- MCPaths
  None = none
INVARIANTS DeleteFindsConnection
CHECK_DEADLOCK FALSE
