CONSTANTS
  Retries = 2
  Crashes = 1
  Deaths = 1
  RedisFails = {"acquire", "release"}
  Items = {1, 2}
  Long = {2}
  Ids = {1, 2, 3, 4}
  HookTasks = {"hook"}
  Faults = {"lost", "dies", "create", "race"}
SPECIFICATION RunnersSpec
INVARIANTS OneAtATime InOrder
PROPERTIES AlwaysReview EveryItemComes ClosedStaysSilent
CHECK_DEADLOCK FALSE
