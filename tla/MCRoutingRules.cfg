SPECIFICATION BuildSpec
CONSTANTS
  None = None
  MaxRules = 3
  MaxOrdered = 4
  MaxSelected = 2
  MaxLines = 2
  MaxRepeated = 5
  DefaultConfig <- SomeDefaults
  Inputs <- AllInputs
  Ports <- PortOrder
  Protocol <- ProtocolOf
  LocalServices <- Local
  Environments <- AllEnvironments
  OwnRegion = "here"
  Services <- AllServices
  Formulate <- Formulated
INVARIANTS TypeOK InDocumentedOrder MergedTargetsComplete TargetsAsAsked RoutedByMatchingRule CustomLinesWritten DefaultsYield WeightsAsRuled
CHECK_DEADLOCK FALSE
