CONSTANTS
  i1 = i1
  i2 = i2
  f1 = f1
  f2 = f2
  Bad = Bad
  None = None
  MaxConns = 2
  Ids <- MCIds
  Names <- MCNames
  Cmds <- MCCmds
  SockCap = 1
  Disk0 <- MCDisk0
  Index0 <- MCIndex0
  MaxCmds = 2
  MaxFaults = 1
SPECIFICATION Spec
INVARIANTS AnswersOwn FdsReleased IndexExact
PROPERTY CommandsEnd
