CONSTANTS
  Sittings = 2
  MaxRows = 1
  MaxChanges = 2
  MaxFaults = 0
SPECIFICATION Spec
INVARIANT EveryClosureConfirmed
CHECK_DEADLOCK FALSE
