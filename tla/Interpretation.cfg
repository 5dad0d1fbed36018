CONSTANTS
  Window = 1
  WindowSize = 2
  CatchUp = 1
  Late = 1
  MaxSeq = 4
  MaxTime = 2
SPECIFICATION FairSpec
INVARIANTS
  NothingLeftBehind
PROPERTIES
  AppliedOnce
  CatchesUp
CHECK_DEADLOCK FALSE
