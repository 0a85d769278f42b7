SPECIFICATION Spec
CONSTANTS
  n1 = n1
  n2 = n2
  all = all
  Names <- MCNames
  All = all
  Rate <- MCRate
  Window = 1
  Slip = 2
  LogOnly = FALSE
  Cap = 1
  Shard <- MCShard
  Handlers = {h1, h2}
  None = None
  MaxClock = 2
INVARIANTS
  RateBound
  RecoversInWindow
  TableSound
CHECK_DEADLOCK FALSE
