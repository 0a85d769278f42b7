SPECIFICATION NotifySpec
CONSTANTS
  Loads <- MCLoads
  Backoff <- DefaultBackoff
  Deadline = 10
  ExchangeTimeout = 2
INVARIANTS
  NotifiedOnce
  RetryBudget
CHECK_DEADLOCK FALSE
