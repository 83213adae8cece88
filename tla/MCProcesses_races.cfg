CONSTANTS
  Agents = {a1, a2}
  Planners = {b1}
  Untimed = {a2}
SPECIFICATION Spec
INVARIANTS
  SuccessIsFinal
  PlannerFilesGone
PROPERTIES
  InvocationReturns
  PromptRemoved
CHECK_DEADLOCK FALSE
