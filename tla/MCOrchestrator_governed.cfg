SPECIFICATION OFairSpec
CONSTANTS
  Node <- Ids
  Graphs <- Plans
  Replacements <- Replans
  Concurrency = 3
INVARIANTS
  SubmissionEarned
  EditsReachApproval
  LateNodesBlock
PROPERTIES
  Settles
  KeepsBoundary
CHECK_DEADLOCK FALSE
