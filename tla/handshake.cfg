CONSTANTS
  c1 = c1
  c2 = c2
  main = main
  worker = worker
  network = network
  Call = {c1, c2}
  DataCall = {c2}
  Id = {i1, i2}
  Nil = Nil
  None = None
  Queue = {main, worker, network}
  CallQueue <- MCCallQueue
  AnswerQueue <- MCSignaling
  MaxAnswers = 2
SPECIFICATION FairSpec
INVARIANTS
  TypeOK
  WaitsOnlyForApp
  FirstAnswerDecides
  AdapterHasOneOwner
  RefusalStopsSender
PROPERTIES
  CallReturns
  ImplementsAnswerSlot
CHECK_DEADLOCK FALSE
