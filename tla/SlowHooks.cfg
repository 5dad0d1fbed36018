CONSTANTS
  Callers = {c1, c2}
  Kinds = {"record", "stopRecord", "stream", "stopStream", "force", "restore"}
  Public = FALSE
  SlowHooks = TRUE
  Faults = {}
  MaxRequests = 4
  MaxFaults = 0
SPECIFICATION Spec
INVARIANT OneEgress
CHECK_DEADLOCK FALSE
