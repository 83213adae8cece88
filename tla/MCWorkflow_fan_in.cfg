SPECIFICATION Spec
CONSTANTS
  Node <- NodeIds
  Graphs <- FanInGraphs
  Replacements <- NoReplacements
  Concurrency = 5
INVARIANTS
  DependenciesFirst
CHECK_DEADLOCK FALSE
