SPECIFICATION FairSpec
CONSTANTS
  Low = 2
  Max = 4
  Chunk = 2
  MaxCall = 5
INVARIANTS
  TypeOK
  NoLostWakeup
  BufferBounded
  IInv
PROPERTIES
  CallReturns
CHECK_DEADLOCK FALSE
