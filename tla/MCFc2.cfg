CONSTANTS
  None = None
  MaxReqs = 1
  MaxFds = 2
  Scripts <- MCScripts
  MaxOut = 2
  Cap = 1
SPECIFICATION Spec
INVARIANTS ResponseExact StdinExact PairsLinked
PROPERTY RequestsEnd
