SPECIFICATION Spec
CONSTANTS
  NSlots = 7
  MaxBuffers = 1
  EventTurnBatching = TRUE
  TxnStartThreshold = 5
  BatchStartThreshold = 0
  Calls = {"put", "ifVersion"}
  ResolveEvery = 3
  CommitMayFail = TRUE
INVARIANTS
  WritePathInv OutstandingIsExact
PROPERTIES
  SettledOnce ImplementsCommitLog
