CONSTANTS
  Thread = {app1, app2, signaling}
  Signal = signaling
  Media = {m1, m2, m3}
  DataMedia = {m2}
  NoMedia = NoMedia
  Rule = {"CloseBeforeDrop", "NoCloseWhileCreating", "NoCloseWhileClosing", "NoDisposeInCallback", "NoDisposeWhileCalling", "NoWaitOnSignal", "ConnectAlone", "ReleaseSafely"}
  MaxLevel = 3
  MaxRestarts = 1
SPECIFICATION FairSpec
INVARIANTS
  TypeOK
  MemorySafe
  ToldExactlyOnce
  ConnectsOnce
PROPERTIES
  SilentOnceDisposing
  CallsReturn
  ReleaseFrees
  ImplementsContract
CHECK_DEADLOCK FALSE
