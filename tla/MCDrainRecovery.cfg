SPECIFICATION Spec
CONSTANTS
  Backends = {b1}
  Endpoints = {e1}
  MaxWeight = 2
  MaxPid = 2
  None = None
  Configs <- AllConfigs
  OperatorWeights = {0, 2}
INVARIANTS
  TypeOK
  ZeroIsOwned
PROPERTIES
  RestoresOnlyOwnZero
  RestoreHonoursLatestConfig
