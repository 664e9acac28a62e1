CONSTANTS
  Producer = {p1}
  Consumer = {}
  None = None
  Duties = {"AwaitClose"}
  MaxMessages = 1
SPECIFICATION Spec
INVARIANT SendReaches
CHECK_DEADLOCK FALSE
