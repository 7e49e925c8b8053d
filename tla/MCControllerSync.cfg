SPECIFICATION FairSpec
CONSTANTS
  r1 = r1
  None = None
  Key = Key
  Keys = {Key}
  Callers <- OneRetrier
  Retriers = {r1}
  MaxVersion = 2
  MaxFailures = 1
INVARIANTS TypeOK NoLostWakeup NothingForgotten
PROPERTIES Coalesces Converges
CHECK_DEADLOCK FALSE
