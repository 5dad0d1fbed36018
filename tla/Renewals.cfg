CONSTANTS
  Calls = {k1, k2}
  Passes = {p1}
  Vouchers = {v1, v2}
  Shelf = 1
  MaxNow = 2
  MaxRequests = 5
  MaxFaults = 0
SPECIFICATION Spec
INVARIANT InSync
CHECK_DEADLOCK FALSE
