SPECIFICATION Spec
CONSTANTS
  Environment <- MCEnvironment
  Adapted <- MCAdapted
  Version <- MCVersion
  Manifests <- MCManifests
  Hosts <- MCHosts
  Undetected <- MCUndetected
  Projects <- MCProjects
  LocalProjects <- MCLocalProjects
  AdapterResults = {"changed", "unchanged", "failed"}
  None = None
  Torn = Torn
  v1 = v1
  v2 = v2
  MaxCommands = 3
  MaxEdits = 1
  MaxCrashes = 1
INVARIANTS
  TypeOK
  LockedProjectsPresent
PROPERTIES
  LockTellsHost
  SecondRestoreSkips
  SyncUndoable
CHECK_DEADLOCK FALSE
