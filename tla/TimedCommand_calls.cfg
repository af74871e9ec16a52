SPECIFICATION FairSpec
CONSTANTS
  Calls = {a, b}
  Timed = {a}
  MaxFaults = 2
INVARIANTS
  TypeOK
  NoLateKill
  OkIsClean
  NoOrphan
PROPERTIES
  TimedCallsReturn
