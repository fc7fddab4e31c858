SPECIFICATION Spec
CONSTANTS
  NSlots = 4
  MaxBuffers = 0
  EventTurnBatching = FALSE
  TxnStartThreshold = 1
  BatchStartThreshold = 0
  Calls = {"batch", "put"}
  ResolveEvery = 3
  CommitMayFail = FALSE
INVARIANTS
  InOrder BlocksAreAtomic SettlementIsTrue
PROPERTIES
  EventuallySettled
