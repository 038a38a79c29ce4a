SPECIFICATION Spec
CONSTANTS
  d1 = d1
  d2 = d2
  Procs = {d1, d2}
  Clients = {c1, c2}
  Edits = {e1, e2}
  Digits <- MCDigits
  None = None
INVARIANTS
  NoDeafDaemon
  SingleWriter
PROPERTIES
  ShutdownEnds
