\* A resume or a reset during start-up.
CONSTANTS
  Drivers = {d1, d2, d3}
  NoDriver = NoDriver
  Requests = {r1}
  Main = main
  Kinds = {"resume", "reset"}
  LateInstalls = FALSE
  EarlyClients = TRUE
SPECIFICATION Spec
INVARIANTS
  StatusTruth
  AuditNamesTap
