SPECIFICATION FairSpec
CONSTANTS
  Conns = {c1, c2, c3}
  Idle = {c2}
  Limit = 2
  W = 4
  NoConn = NoConn
INVARIANTS
  NoUseAfterFree
  CountExact
  LimitKept
  Teardown
PROPERTIES
  WaitingAccepted
  StopEndsIfCounted
