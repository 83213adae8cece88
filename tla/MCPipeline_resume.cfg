SPECIFICATION Spec
CONSTANTS
  StageList <- TwoStages
  Deps <- Chain
  MaxAttempts <- Attempts
  Content = {a, b}
  Goals = {g, h}
  Answers = {"COMPLETED"}
  MaxRuns = 3
  MaxEdits = 1
  None = None
SYMMETRY Symmetric
INVARIANTS
  TypeOK
  SideEffectsOnce
  ReusedIntact
CHECK_DEADLOCK FALSE
