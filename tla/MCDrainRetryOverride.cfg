SPECIFICATION Spec
CONSTANTS
  Backends = {b1}
  Endpoints = {e1}
  MaxWeight = 2
  MaxPid = 2
  None = None
  Configs <- LifecycleConfigs
  OperatorWeights = {2}
PROPERTIES
  ReappliesOnlyInitialWeight
