SPECIFICATION FairSpec
CONSTANTS
  MaxReqs = 2
  Lifetime = 1
  Pids = {p1, p2, p3}
  NoPid = NoPid
  ReusePids = FALSE
INVARIANTS SlotTable NoAbort NoOvercommit
PROPERTIES SlotsReturn
