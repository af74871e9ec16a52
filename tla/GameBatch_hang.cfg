SPECIFICATION FairSpec
CONSTANTS
  Games = {g1, g2, g3}
  StageWorkers = {s1}
  RunWorkers = {r1}
  NoGame = NoGame
  NoWorker = NoWorker
  MaxPanics = 1
  MaxUnfreed = 0
CHECK_DEADLOCK FALSE
PROPERTIES
  AlwaysReturns
