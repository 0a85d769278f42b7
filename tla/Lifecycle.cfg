SPECIFICATION Spec
CONSTANTS
  Procs = {p1, p2}
  Addrs <- MCAddrs
  Taken <- MCTaken
  Configured = {"api", "metrics", "doh"}
  None = None
  Foreign = Foreign
  Empty = Empty
  MaxHangups = 1
INVARIANTS
  PidFileTruth
  NothingLeftBehind
PROPERTIES
  StopsWhenTold
CHECK_DEADLOCK FALSE
