SPECIFICATION FairSpec
CONSTANTS
  NSvcs = 2
  NProcs <- MCNProcs
  MaxRestarts = 2
  Pids = {p1, p2, p3, p4}
  NoPid = NoPid
INVARIANTS ListenersReachable RestartRate
PROPERTIES DeadReplaced
