SPECIFICATION Spec
CONSTANT
  Programs <- LateSignal
PROPERTIES
  SyncReturns
\* JavaScript and the worker block each other: the system stops.
CHECK_DEADLOCK FALSE
