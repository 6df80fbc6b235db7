SPECIFICATION FairSpec
CONSTANTS
  Session = {x1, x2}
  Token = {"r", "0", "1", "2", "3"}
  Number <- MCNumber
  TargetLists <- MCTargetLists
  ListenLists <- MCListenLists
  Paths <- MCPaths
  None = none
INVARIANTS TypeOK RangesServed DeleteOnce SignalingInv
PROPERTIES RequestsServed
CHECK_DEADLOCK FALSE
