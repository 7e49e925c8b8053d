SPECIFICATION FairSpec
CONSTANTS
  Backends = {b1}
  Endpoints = {e1}
  MaxWeight = 2
  MaxPid = 3
  None = None
  Configs <- LifecycleConfigs
  OperatorWeights = {2}
PROPERTIES
  RecoveryEnds
  CustodyIsKept
