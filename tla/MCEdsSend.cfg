SPECIFICATION Spec
CONSTANTS
  NFds = 2
  MaxFd = 1
  MaxOps = 2
  MaxDepth = 3
  Transitions <- MCTransitions
PROPERTIES SentDataKeepsWriter
