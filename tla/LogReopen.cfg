SPECIFICATION RotationSpec
CONSTANTS
  Main = Main
  Closed = Closed
  MaxRotations = 4
  MaxReloads = 3
INVARIANTS
  MainFollowsRotation
  QueryLogFollowsRotation
PROPERTIES
  RotationHandled
CHECK_DEADLOCK FALSE
