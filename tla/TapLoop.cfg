\* Two callers, two starts; any timer may fire, any stop may be lost.
CONSTANTS
  Callers = {c1, c2}
  NoCaller = NoCaller
  Loops = {l1, l2}
  NoLoop = NoLoop
  Recoveries = {g1, g2}
  MaxReenables = 1
  LostStop = TRUE
SPECIFICATION FairSpec
CHECK_DEADLOCK FALSE
INVARIANTS
  TapDecides
  LiveIsTruthInTime
PROPERTIES
  KeepsContract
  StopReturns
