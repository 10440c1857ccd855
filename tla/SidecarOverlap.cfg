CONSTANTS
  Ports = {p1, p2}
  Stoppers = {s1}
  MaxEnsures = 2
  MaxRestarts = 0
  NoPort = NoPort
  NoChild = NoChild
SYMMETRY Symmetry
SPECIFICATION Spec
CHECK_DEADLOCK FALSE
INVARIANTS ClientBehindRunning NothingStranded
PROPERTIES OrphansOnlyByOverwrite
