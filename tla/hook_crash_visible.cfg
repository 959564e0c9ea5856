\* One worker dies between its claim and its first commit.
CONSTANTS
  w1 = w1
  w2 = w2
  h1 = h1
  h2 = h2
  None = None
  Worker <- OneWorker
  Hook <- OneHook
  MaxExecution = 1
  MaxCrash = 1
  HookTimeout = 1
  Lease = 2
  Prompt = TRUE
SPECIFICATION Spec
CHECK_DEADLOCK FALSE
INVARIANT RecoveredCrashIsVisible
