CONSTANTS
  Thread = {app1, app2, signaling}
  Signal = signaling
  Media = {m1, m2}
  DataMedia = {m2}
  NoMedia = NoMedia
  Rule = {"CloseBeforeDrop", "NoCloseWhileClosing", "NoDisposeInCallback", "NoDisposeWhileCalling", "NoWaitOnSignal", "ConnectAlone", "ReleaseSafely"}
  MaxLevel = 2
  MaxRestarts = 1
SPECIFICATION Spec
INVARIANT
  DataProducersClosed
CHECK_DEADLOCK FALSE
