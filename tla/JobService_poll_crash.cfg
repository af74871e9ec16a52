SPECIFICATION FairSpec
CONSTANTS
  h1 = h1
  h2 = h2
  j1 = j1
  j2 = j2
  Handlers = {h1, h2}
  Cancellers = {}
  Worker = worker
  Writers <- All
  Ids = {j1, j2}
  IdOf <- Own
  CancelOf <- CancelFirst
  Forced = {h2}
  EagerCancel = FALSE
  QueueCapacity = 1
  Steps = 1
  MaxClock = 0
  MaxIoFaults = 0
  MaxCrashes = 1
  MaxPanics = 0
  NoRecord = NoRecord
  NoId = NoId
  NoJob = NoJob
PROPERTIES
  PollingEnds
