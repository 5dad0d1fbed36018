CONSTANTS
  Drafts = TRUE
  Crashes = 0
  MaxSaid = 2
  MaxMoves = 2
  MaxAsked = 1
  MaxEdits = 0
SPECIFICATION Spec
INVARIANT FinalCompositionRuns
CHECK_DEADLOCK FALSE
