CONSTANTS
  Confs <- MCConfs
  MaxClients = 2
  ConnectsPerTick = 2
  Timeout = 1
  WordBits = 3
SPECIFICATION Spec
INVARIANTS SlotsExact EachDestinationOnce ConnectRate
PROPERTY RunEnds
