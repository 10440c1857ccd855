CONSTANTS
  Models = {m1, m2}
  MaxModels = 2
  Boots = {m1}
  Limits = {1}
  MaxCalls = 3
  MaxPort = 2
SPECIFICATION FairSpec
CHECK_DEADLOCK FALSE
INVARIANTS TypeOK QuietNamesAgree
PROPERTIES CallsEnd
