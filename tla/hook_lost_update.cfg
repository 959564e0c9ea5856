\* Two workers run one hook twice: a success is lost from its state.
CONSTANTS
  w1 = w1
  w2 = w2
  h1 = h1
  h2 = h2
  None = None
  Worker <- TwoWorkers
  Hook <- OneHook
  MaxExecution = 2
  MaxCrash = 0
  HookTimeout = 1
  Lease = 2
  Prompt = TRUE
SPECIFICATION Spec
CHECK_DEADLOCK FALSE
INVARIANT NoLostUpdate
