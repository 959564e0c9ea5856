\* One worker that may die twice, two hooks: refinement and liveness.
CONSTANTS
  w1 = w1
  w2 = w2
  h1 = h1
  h2 = h2
  None = None
  Worker <- OneWorker
  Hook <- TwoHooks
  MaxExecution = 2
  MaxCrash = 2
  HookTimeout = 1
  Lease = 2
  Prompt = TRUE
SPECIFICATION FairSpec
CHECK_DEADLOCK FALSE
PROPERTIES
  ImplementsLedger
  EveryJobResolved
