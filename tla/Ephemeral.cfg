SPECIFICATION Spec
CONSTANTS
  Names = {n1}
  Values = {v1, v2}
  TTLs = {0, 9}
  MinTTL = 1
  MaxTTL = 2
  Puts = {p1, p2}
  None = None
  MaxClock = 3
PROPERTIES
  OrderKept
  ImplementsTxtStore
  ExpiredReclaimed
CHECK_DEADLOCK FALSE
