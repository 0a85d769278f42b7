SPECIFICATION FairSpec
CONSTANTS
  Queries = {}
  Puts = {}
  Zones = {}
  QLConfigs = {c1, c2}
  Contents <- LogContents
  Signals = {"HUP", "USR1", "TERM"}
  None = None
  MaxAttempts = 2
INVARIANTS
  ActiveSinkOpen
  NoSinkLeak
PROPERTIES
  NoPublishAfterJoin
  ShutdownTerminates
  ReloadTerminates
CHECK_DEADLOCK FALSE
