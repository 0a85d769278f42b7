SPECIFICATION Spec
CONSTANTS
  Queries = {}
  Puts = {}
  Zones = {}
  QLConfigs = {}
  Contents <- LogContents
  Signals = {"HUP"}
  None = None
  MaxAttempts = 1
INVARIANT
  EverySighupLoads
CHECK_DEADLOCK FALSE
