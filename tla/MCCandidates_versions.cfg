SPECIFICATION Spec
CONSTANTS
  Versions = {v1, v2}
  Evidence = {"human", "other"}
  Human = "human"
  MinWindow = 1
  MaxRows = 8
  MaxResults = 1
  MaxCrashes = 0
  None = None
SYMMETRY Symmetric
INVARIANTS
  PromotedVersionApproved
CHECK_DEADLOCK FALSE
