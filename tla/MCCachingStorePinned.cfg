SPECIFICATION CachingSpec
CONSTANTS
  Keys = {k1, k2}
  Calls = {"put"}
  MaxCalls = 3
INVARIANT PinnedUntilCommitted
CHECK_DEADLOCK FALSE
