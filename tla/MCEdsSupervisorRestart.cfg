SPECIFICATION FairSpec
CONSTANTS
  NSvcs = 2
  NProcs <- MCNProcs
  MaxRestarts = 3
  Pids = {p1, p2, p3, p4}
  NoPid = NoPid
PROPERTIES AlwaysRestarted
