\* One request at a time, once the daemon has started.
CONSTANTS
  Drivers = {d1, d2, d3, d4, d5}
  NoDriver = NoDriver
  Requests = {r1}
  Main = main
  Kinds = {"panic", "resume", "reset"}
  LateInstalls = FALSE
  EarlyClients = FALSE
SPECIFICATION Spec
INVARIANTS
  LatchedMeansStopped
  StatusTruth
