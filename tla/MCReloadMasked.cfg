SPECIFICATION Spec
CONSTANTS
  good = good
  bad = bad
  x = x
  pem = pem
  Configs = {good, bad}
  Names = {x}
  Pems = {pem}
  Inputs <- MCInputs
  Accepted <- MCAccepted
  Absent = Absent
  Torn = Torn
INVARIANTS SuccessMeansLoaded
