SPECIFICATION FairSpec
CONSTANTS
  Call = {w1, w2}
  Length = 3
  Chunk = 2
  Buffer = 1
  Low = 0
  Tries = 1
  Dialled = "near"
  CanCut = TRUE
INVARIANTS TypeOK LostOnlyByGivingUp WritesWhole ConnInv BytesInv
PROPERTIES StreamIsPipe DrainEnds EndReachesReader
CHECK_DEADLOCK FALSE
