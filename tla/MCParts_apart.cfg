CONSTANTS
  Clients = {p1, p2}
  Versions = {v1, v2}
  Honest = {v1, v2}
  MaxCalls = 6
  MaxCrashed = 1
  Ids = {x, y, z}
  MaxDepth = 2
  MaxRows = 3
  BuiltIns <- MCBuiltIns
  BuiltInIds <- MCBuiltInIds
  Declarations <- MCDeclarations
  Broken = Broken
  Requirements <- MCRequirements
  Happenings <- MCHappenings
  MaxChanges = 2
  MaxEvents = 2
  Node <- NodeIds
  Graphs <- SequentialGraphs
  Replacements <- AllReplacements
  Concurrency = 2
INIT ApartInit
NEXT ApartNext
SYMMETRY Symmetry
INVARIANTS
  InstalledStaysVerified
  LastRowTells
  NeighborsExact
  PathsComplete
  SelectionSettled
  TypeOK
  ReportHonest
  DependenciesFirst
  InvocationBudget
PROPERTIES
  WorkNotRepeated
  ImplementsPromise
CHECK_DEADLOCK FALSE
