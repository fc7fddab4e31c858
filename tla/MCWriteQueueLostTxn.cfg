SPECIFICATION Spec
CONSTANTS
  NSlots = 6
  MaxBuffers = 0
  EventTurnBatching = TRUE
  TxnStartThreshold = 5
  BatchStartThreshold = 1
  Calls = {"put"}
  ResolveEvery = 8
  CommitMayFail = TRUE
INVARIANTS
  SettlementIsTrue

