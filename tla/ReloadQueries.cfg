SPECIFICATION Spec
CONSTANTS
  Queries = {q1}
  Puts = {p1}
  Zones = {z1}
  QLConfigs = {c1}
  Contents <- OppositeContents
  Signals = {"HUP"}
  None = None
  MaxAttempts = 2
INVARIANTS
  TypeOK
  Coherent
  GeoAlive
  LimiterNotNewer
  EphemeralCleared
CHECK_DEADLOCK FALSE
