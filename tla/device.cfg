CONSTANTS
  Capture = FALSE
  OwnModule = TRUE
  Duties = {"KeepTransport"}
  MaxTasks = 3
  Thread = {t1, t2}
  Transports = {x1, x2}
  Capabilities = {a, b}
  None = None
  Idle = Idle
  DeviceDuties = {"LoadAlone", "SoundICEServers", "KeepDevice"}
SPECIFICATION DeviceFairSpec
INVARIANTS
  DeviceTypeOK
  MemorySafe
  LastCallWins
  OneTruth
  AdaptersOwned
  WorkerOutlives
PROPERTY
  ReleaseStops
CHECK_DEADLOCK FALSE
