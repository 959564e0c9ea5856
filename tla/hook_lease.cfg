\* A worker that waits for another run of its hook outlives its lease.
CONSTANTS
  w1 = w1
  w2 = w2
  h1 = h1
  h2 = h2
  None = None
  Worker <- TwoWorkers
  Hook <- OneHook
  MaxExecution = 3
  MaxCrash = 0
  HookTimeout = 2
  Lease = 3
  Prompt = TRUE
SPECIFICATION Spec
CHECK_DEADLOCK FALSE
INVARIANT HealthyJobKeepsLease
