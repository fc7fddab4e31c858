SPECIFICATION BothSpec
CONSTANTS
  Wrappers = {w1, w2, w3}
  Paths = {p1, p2}
  OpenMayFail = TRUE
  Keys = {k1, k2}
  Calls = {"put", "conditional", "nested", "remove", "clearAsync", "putSync", "removeSync", "clearSync", "abort"}
  MaxCalls = 3
SYMMETRY BothSymmetry
INVARIANTS
  TypeOK RegisteredAreOpen NothingLeftOpen
  CachingTypeOK CacheAgreesUnlessSpoilt PinnedIsInFlight
PROPERTIES
  ClosedForGood
CHECK_DEADLOCK FALSE
