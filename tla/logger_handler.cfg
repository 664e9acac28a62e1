CONSTANTS
  Caller = {a1, a2}
  Logging = {w1, w2}
  Holder = {h1, h2, h3}
  NoHolder = NoHolder
  Duties = {"OneCaller", "QuietDefault"}
  MaxAdapters = 3
SPECIFICATION Spec
INVARIANTS
  MemorySafe
  LeadsToHandler
  NoStaleDelivery
PROPERTY
  NothingLost
CHECK_DEADLOCK FALSE
