SPECIFICATION FairSpec
CONSTANTS
  Games = {g1, g2, g3, g4}
  StageWorkers = {s1}
  RunWorkers = {r1, r2}
  NoGame = NoGame
  NoWorker = NoWorker
  MaxPanics = 2
  MaxUnfreed = 1
CHECK_DEADLOCK FALSE
INVARIANTS
  TypeOK
  GameInOnePlace
  OkIsComplete
  CancelHasCause
  StagingBound
PROPERTIES
  ImplementsContract
  ReturnsWhileDrained
