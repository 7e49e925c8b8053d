SPECIFICATION Spec
CONSTANTS
  e1 = e1
  e2 = e2
  tA = tA
  None = None
  Events = {e1, e2}
  Endpoints = {tA}
  Target <- SameTarget
  Parsable = {e1, e2}
PROPERTIES EndsOnCompletionOrTimeout
CHECK_DEADLOCK FALSE
