SPECIFICATION AllSpec
CONSTANTS
  Programs <- AllPrograms
  MaxCommits = 2
  MaxRanges = 3
  Keys = {k1, k2}
  Versions = {1, 2}
  MaxInstructions = 5
  EntryKeys = {1, 2, 3}
  EntryValues = {1, 2}
  Offsets = {0, 1}
  Limits = {2}
INVARIANTS
  TypeOK ExchangeInv HandlesAreLive BeginNeverBlocks StoredOnce SyncIsAtomic BlocksAreWhole OrderIsKept CompressedOnce
  ReadsTypeOK CountsAreExact NoReaderLeaked InUseIsOpen CursorsAreOwn ReadsAreCurrent
  CondInv RangeIsExact
PROPERTIES
  SyncReturns QueueDrains ImplementsConditionLog
