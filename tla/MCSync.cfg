SPECIFICATION Spec
CONSTANTS
  Peers = {p1, p2}
  Start = 1
  MaxBlock = 3
  Limit = 2
  MinPrefetch = 2
  PerPeer = 1
  MaxHandle = 1
  MaxPrefetch = 1
  MaxConnects = 2
  MaxRefusals = 1
CHECK_DEADLOCK FALSE
INVARIANTS TypeOK InOrder OneRequest
  
