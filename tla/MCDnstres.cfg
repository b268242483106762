SPECIFICATION FairSpec
CONSTANTS
  a = a
  b = b
  c = c
  Requests <- MCRequests
  NHosts <- MCNHosts
  Threads = {t1, t2}
  Caller = Caller
  Freer = Freer
  NoOne = NoOne
INVARIANTS RequestsOwned
PROPERTIES Implements PoolDrains
