CONSTANTS
  QueueCap = 3
  MaxPosts = 2
  CloudModes <- BothModes

SPECIFICATION FairSpec
INVARIANT WaitedForComes
INVARIANT CalledOff
INVARIANT SilencedRunUnheard
PROPERTY WaitsEnd
