SPECIFICATION Spec
CONSTANTS
  NSlots = 6
  MaxBuffers = 0
  EventTurnBatching = TRUE
  TxnStartThreshold = 5
  BatchStartThreshold = 1
  Calls = {"batch", "transaction"}
  ResolveEvery = 8
  CommitMayFail = FALSE
INVARIANTS
  CallbackBeforeAnswer

