SPECIFICATION Spec
CONSTANTS
  NSlots = 6
  MaxBuffers = 0
  EventTurnBatching = TRUE
  TxnStartThreshold = 1
  BatchStartThreshold = 1
  Calls = {"putIf", "transaction"}
  ResolveEvery = 4
  CommitMayFail = TRUE
INVARIANTS
  TxnUsedByOne CallbackInItsTxn CallbackBeforeAnswer SettlementIsTrue
PROPERTIES
  EventuallySettled
