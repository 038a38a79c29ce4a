\* Two requests of any kind at a time, with installs that
\* outlast their timeout.
CONSTANTS
  Drivers = {d1, d2}
  NoDriver = NoDriver
  Requests = {r1, r2}
  Main = main
  Kinds = {"panic", "resume", "reset"}
  LateInstalls = TRUE
  EarlyClients = FALSE
SPECIFICATION FairSpec
INVARIANTS
  TapHasFreshContext
  KillSwitchArmed
  BootLatchHolds
PROPERTIES
  StopCompletes
