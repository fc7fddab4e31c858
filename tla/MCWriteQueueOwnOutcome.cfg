SPECIFICATION Spec
CONSTANTS
  NSlots = 5
  MaxBuffers = 0
  EventTurnBatching = FALSE
  TxnStartThreshold = 5
  BatchStartThreshold = 1
  Calls = {"put"}
  ResolveEvery = 8
  CommitMayFail = FALSE
INVARIANTS
  AnswersItsOwnWrite

