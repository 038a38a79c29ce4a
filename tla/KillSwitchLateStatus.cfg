\* An install that comes up after its timeout.
CONSTANTS
  Drivers = {d1, d2, d3}
  NoDriver = NoDriver
  Requests = {r1}
  Main = main
  Kinds = {"panic"}
  LateInstalls = TRUE
  EarlyClients = FALSE
SPECIFICATION Spec
INVARIANTS
  StatusTruth
