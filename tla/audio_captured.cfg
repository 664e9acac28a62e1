CONSTANTS
  Capture = TRUE
  OwnModule = TRUE
  Duties = {"KeepTransport"}
  MaxTasks = 3
SPECIFICATION Spec
INVARIANT
  MemorySafe
CHECK_DEADLOCK FALSE
