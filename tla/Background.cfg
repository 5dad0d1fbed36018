CONSTANTS
  Callers = {c1, c2}
  ChannelKinds = {"stream", "stopStream"}
  ChannelFaults = {"ends", "dies", "start", "crash", "memory"}
  Crashes = 1
  Many = 2
  Few = 1
  N = 2
  MaxBatch = 2
  Outages = 1
  Losses = 1
SPECIFICATION FairSpec
PROPERTIES  MinutesKept ReachesReview SpeechKept VerdictComes
CHECK_DEADLOCK FALSE
