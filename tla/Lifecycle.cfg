SPECIFICATION LifecycleSpec
CHECK_DEADLOCK FALSE
CONSTANTS
  IDs = {"p"}
  Refs = {"v1", "v2"}
  Manifests <- MCManifests
  MinCores <- MCMinCores
  CoreVer <- MCCoreVer
  Contexts <- MCContexts
  MaxPackPaths = 2
  TrialTimeout = 1
  MaxTime = 2
  MaxEvents = 4
INVARIANTS
  HistoryIsWhole
  TriedBeforeUse
