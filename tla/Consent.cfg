CONSTANTS
  p1 = p1
  p2 = p2
  c1 = c1
  c2 = c2
  People = {p1, p2}
  Calls = {c1, c2}
  Changes = 3
  Losses = 1
  Crashes = 1
  Talk = 1
SPECIFICATION FairSpec
PROPERTIES
  OptOutStands
  AgentFollows
CHECK_DEADLOCK FALSE
