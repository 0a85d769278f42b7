SPECIFICATION Spec
CONSTANTS
  InitialDelay = 1
  RetryInterval = 1
  MinRenewInterval = 1
  Lifetimes = {3, 6}
  Backdates = {2}
  None = None
  ShutdownTimeout = 1
  Horizon = 5
  MaxStarts = 2
INVARIANTS
  OneAccount
  LapseNeedsFailures
  ShutdownBounded
PROPERTIES
  RunReturns
CHECK_DEADLOCK FALSE
