CONSTANTS
  Processes = {p1, p2}
  Sources = {1, 2}
  Markdown = {2}
  Contents = {c1, c2}
  MaxTime = 1
  MaxIngests = 3
  MaxPurges = 1
  MaxDeaths = 1
  Names = {"a"}
  Unnamed = "unnamed"
  Bodies = {c1, c2}
  MaxSaves = 4
  MaxLosses = 2
  SourceIds = {s1, s2}
  Urls = {u1, u2}
  Dois = {d1}
  NoDoi = none
  Texts = {c1, c2}
  MaxFetches = 3
  MaxRegisters = 2
  MaxCuts = 1
  Evaluations = {1, 2, 3, 4}
  EvaluatorVersions = {p1, p2}
  EvidenceCount = 2
  MaxFaults = 1
  Versions = {p1, p2}
  Evidence = {"human", "other"}
  Human = "human"
  MinWindow = 1
  MaxRows = 6
  MaxResults = 1
  MaxCrashes = 2
  None = None
INIT KeptInit
NEXT KeptNext
SYMMETRY Symmetry
INVARIANTS
  DamageConfined
  LastCallCounts
  MemoryKept
  ExtractionsKept
  ScoresAttached
  StrictVersions
  LegalLife
  LossBounded
  PromoteAsksHuman
CHECK_DEADLOCK FALSE
