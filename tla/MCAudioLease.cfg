SPECIFICATION MCSpec
CONSTANTS
  p1 = p1
  p2 = p2
  Producer <- MCProducer
  Resetter <- MCResetter
  server = server
  nobody = nobody
  Capacity = 2
  Block = 2
  MaxFrames = 2
  FewFrames = 2
  MaxMishaps = 1
  MaxClients = 1
INVARIANTS
  CellsApart
  OwnerIsHeard
PROPERTIES
  ImplementsChannel
  LeaseComesFree
