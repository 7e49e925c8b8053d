SPECIFICATION CompletionFairSpec
CONSTANTS
  e1 = e1
  e2 = e2
  s1 = s1
  tA = tA
  None = None
  Events = {e1, e2}
  Endpoints = {tA}
  Target <- SameTarget
  Parsable = {e1}
  Sessions = {s1}
  Serves <- SameEndpoint
  MaxPid = 2
INVARIANTS TypeOK NoOrphanDrain AnsweredAfterDrain CompletionTypeOK
PROPERTIES DrainEndsOrCompletes EveryEventAnswered CompleteWhenServed NotNeededWhenServed DrainCompletes
CHECK_DEADLOCK FALSE
