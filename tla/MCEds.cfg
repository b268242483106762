SPECIFICATION Spec
CONSTANTS
  NFds = 3
  MaxFd = 2
  MaxOps = 2
  MaxDepth = 4
  Transitions <- MCTransitions
VIEW LiveView
INVARIANTS ClientsConsistent NoEventSkipped
PROPERTIES CallbacksInLifetime
