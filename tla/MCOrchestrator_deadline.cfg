SPECIFICATION OFairSpec
CONSTANTS
  Node <- Ids
  Graphs <- Plans
  Replacements <- Replans
  Concurrency = 3
PROPERTIES
  DeadlineStopsActions
CHECK_DEADLOCK FALSE
