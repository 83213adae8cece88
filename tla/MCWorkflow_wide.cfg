SPECIFICATION FairSpec
CONSTANTS
  Node <- NodeIds
  Graphs <- WideGraphs
  Replacements <- AllReplacements
  Concurrency = 3
INVARIANTS
  ConcurrencyBound
PROPERTIES
  BlockedNeverStarts
  Terminates
CHECK_DEADLOCK FALSE
