SPECIFICATION FairSpec
CONSTANTS
  Ids = {a}
  Pids = {p1, p2}
  NSlots = 1
  MaxReqs = 2
  MaxPuts = 3
  MaxStarts = 1
  MaxCrashes = 1
  MaxStops = 0
  MaxFaults = 1
  MaxClock = 0
  DirSpan = 2
PROPERTIES JobsEnd
