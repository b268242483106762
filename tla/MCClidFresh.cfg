CONSTANTS
  Clients = {0, 1, 2}
  Hosts <- MCHosts
  MaxFd = 10
  None = None
SPECIFICATION Spec
INVARIANT DoneMeansComplete
