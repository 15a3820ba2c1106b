SPECIFICATION StartSpec
CONSTANTS
  Conns = {c1, c2, c3}
  Idle = {c2, c3}
  PoolSize = 2
  Limit = 3
  W = 5
  NoConn = NoConn
INVARIANTS
  CountExact
  LimitKept
  Teardown
  PortFreed
  HeldWhole
PROPERTIES
  WaitingAccepted
  StopEndsIfCounted
