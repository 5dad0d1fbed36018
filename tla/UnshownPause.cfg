CONSTANTS
  Rooms = {a, b}
  Threshold = 2
  Window = 3
  OpenFor = 2
  MaxRetries = 1
  MaxNow = 5
  MaxTries = 5
SPECIFICATION Spec
INVARIANTS PauseShown
CHECK_DEADLOCK FALSE
