SPECIFICATION FairSpec
CONSTANTS
  Events = {"e1", "e2"}
  PoolSize = 1
  MaxWait = 2
  MaxConns = 2
INVARIANTS TypeOK TimerClosesItsOwn HealthyConnectionIsKept
PROPERTIES DeadPeerIsNoticed
CHECK_DEADLOCK FALSE
