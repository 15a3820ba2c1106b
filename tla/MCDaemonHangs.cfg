SPECIFICATION FairSpec
CONSTANTS
  Conns = {c1, c2}
  Idle = {}
  Limit = 2
  W = 4
  NoConn = NoConn
PROPERTIES
  StopReturns
