SPECIFICATION MCSpec
CONSTANTS
  http = http
  https = https
  bad = bad
  s = s
  d = d
  Rules = {https, bad}
  CertSubdirs = {s}
  DefaultSubdirs = {d}
  Issues = {1, 2}
  MaxEvents = 2
  Missing = Missing
  Names = {s, d}
  Pems <- MCPems
  Configs <- MCConfigs
  Inputs <- MCInputs
  Accepted <- MCAccepted
  Absent = Absent
  Torn = Torn
INVARIANTS TypeOK DeliveryTypeOK SoundSuccess LaunchesComplete NothingLostOnTheWay
PROPERTIES CacheFollowsDisk RenewalArrives
