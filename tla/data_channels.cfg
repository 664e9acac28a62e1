CONSTANTS
  Producer = {p1}
  Consumer = {d1}
  None = None
  Duties = {"AwaitClose"}
  MaxMessages = 1
SPECIFICATION FairSpec
INVARIANTS
  TypeOK
  MemorySafe
  NothingLost
PROPERTY
  ClosureHeard
CHECK_DEADLOCK FALSE
