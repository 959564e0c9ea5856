\* One agent that may die once, two samples, two requests at once,
\* and a start that may not read its queue: liveness.
CONSTANTS
  a1 = a1
  r1 = r1
  r2 = r2
  None = None
  Agent <- OneAgent
  Request <- TwoRequests
  MaxSample = 2
  MaxTime = 1
  Reading = {0}
  MaxBatch = 1
  ReadFails = TRUE
  MaxSequence = 2
  MaxBoot = 2
SPECIFICATION FairSpec
INVARIANT NothingLost
 
