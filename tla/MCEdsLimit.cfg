SPECIFICATION Spec
CONSTANTS
  NFds = 3
  MaxFd = 3
  MaxOps = 1
  MaxDepth = 3
  Transitions <- MCTransitions
PROPERTIES LimitKept
