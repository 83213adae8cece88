SPECIFICATION Spec
CONSTANTS
  StageList <- TwoStages
  Deps <- Chain
  MaxAttempts <- Attempts
  Content = {a, b}
  Goals = {g}
  Answers = {"COMPLETED", "QUARANTINED", "AWAITING_APPROVAL"}
  MaxRuns = 3
  MaxEdits = 0
  None = None
INVARIANTS
  ReusedSucceeded
CHECK_DEADLOCK FALSE
