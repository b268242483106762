SPECIFICATION Spec
CONSTANTS
  Ids = {a, b}
  Pids = {p1, p2}
  NSlots = 1
  MaxReqs = 5
  MaxPuts = 5
  MaxStarts = 0
  MaxCrashes = 0
  MaxStops = 0
  MaxFaults = 0
  MaxClock = 2
  DirSpan = 1
SYMMETRY AllSymmetry
VIEW QueueView
PROPERTIES OldestOfQueue
