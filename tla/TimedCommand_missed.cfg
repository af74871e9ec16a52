SPECIFICATION FairSpec
CONSTANTS
  Calls = {a}
  Timed = {a}
  MaxFaults = 0
PROPERTIES
  TimeoutEndsCall
