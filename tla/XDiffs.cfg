CONSTANTS
  PageBytes = 4
  ChunkBytes = 2
  LaneBytes = 2
  Vals <- MCVals
  Rounds = 2
SPECIFICATION DiffsSpec
INVARIANT DiffsTypeOK
INVARIANT MatchesNaive
CHECK_DEADLOCK FALSE
