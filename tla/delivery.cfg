\* One agent that may die twice, three samples, two requests at once: safety.
CONSTANTS
  a1 = a1
  r1 = r1
  r2 = r2
  None = None
  Agent <- OneAgent
  Request <- TwoRequests
  MaxSample = 3
  MaxTime = 1
  Reading = {1}
  MaxBatch = 2
  ReadFails = FALSE
  MaxSequence = 4
  MaxBoot = 3
SPECIFICATION Spec
SYMMETRY Interchangeable
INVARIANTS
  QueuedInOrder
  BootSequenceOrders
  OldestFirst
PROPERTY ImplementsLog
