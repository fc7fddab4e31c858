SPECIFICATION Spec
CONSTANTS
  Wrappers = {w1, w2}
  Paths = {p1}
  OpenMayFail = FALSE
INVARIANTS
  LastUserCloses
CHECK_DEADLOCK FALSE
