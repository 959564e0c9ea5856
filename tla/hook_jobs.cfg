\* Two workers, one hook, three executions, one crash: safety.
CONSTANTS
  w1 = w1
  w2 = w2
  h1 = h1
  h2 = h2
  None = None
  Worker <- TwoWorkers
  Hook <- OneHook
  MaxExecution = 3
  MaxCrash = 1
  HookTimeout = 1
  Lease = 2
  Prompt = FALSE
SPECIFICATION Spec
SYMMETRY Interchangeable
INVARIANTS
  Inv
  HookRunsSerialized
  NoAutomaticRetry
  StateOnlyFromSuccess
PROPERTY ResolvedStaysResolved
CHECK_DEADLOCK FALSE
