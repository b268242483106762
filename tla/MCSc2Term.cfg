SPECIFICATION FairSpec
CONSTANTS
  MaxReqs = 1
  Lifetime = 1
  Pids = {p1, p2}
  NoPid = NoPid
  ReusePids = FALSE
PROPERTIES TermStops
