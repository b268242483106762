CONSTANTS
  Clients = {1, 2}
  Hosts <- MCHosts
  MaxFd = 7
  None = None
SPECIFICATION Spec
INVARIANTS CompleteWhileNull DescriptorsOwned
PROPERTY ResolvingEnds
