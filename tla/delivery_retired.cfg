\* A batch admitted just before its source is retired.
CONSTANTS
  a1 = a1
  r1 = r1
  r2 = r2
  None = None
  Agent <- OneAgent
  Request <- TwoRequests
  MaxSample = 1
  MaxTime = 1
  Reading = {1}
  MaxBatch = 2
  ReadFails = FALSE
  MaxSequence = 1
  MaxBoot = 1
SPECIFICATION FairSpec
PROPERTY RetiredAddsNothing
