SPECIFICATION Spec
CONSTANTS
  b1 = b1
  b2 = b2
  b3 = b3
  Origins = {o1}
  Bodies <- MCBodies
  Size <- MCSize
  NoSOA = {b3}
  Including = {b1}
  Fragments = {f1, f2}
  Modes = {"hash", "size", "none"}
  None = None
  MaxWrites = 4
INVARIANTS
  RolesMatchAliases
  ReuseIsSound
CHECK_DEADLOCK FALSE
