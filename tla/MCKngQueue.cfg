SPECIFICATION Spec
CONSTANTS
  Ids = {a, b}
  Pids = {p1, p2}
  NSlots = 1
  MaxReqs = 3
  MaxPuts = 3
  MaxStarts = 1
  MaxCrashes = 1
  MaxStops = 1
  MaxFaults = 1
  MaxClock = 2
  DirSpan = 2
SYMMETRY AllSymmetry
VIEW QueueView
INVARIANTS SlotsUsed StartedAtMostOnce QueueFaithful
PROPERTIES OldestOfDirectory
