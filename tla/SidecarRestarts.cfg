CONSTANTS
  Ports = {p1}
  Stoppers = {s1}
  MaxEnsures = 1
  MaxRestarts = 2
  NoPort = NoPort
  NoChild = NoChild
SPECIFICATION FairSpec
CHECK_DEADLOCK FALSE
INVARIANTS SpawnBudget
PROPERTIES FallbackIsFinal StartsSettle
