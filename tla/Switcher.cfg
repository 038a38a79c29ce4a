\* Two connections of the panel, three summons and commits, a queue of two.
CONSTANTS
  NoWindow = NoWindow
  w1 = w1
  w2 = w2
  w3 = w3
  Windows = {w1, w2, w3}
  FirstList <- TwoWindows
  Polls = {p1, p2}
  QueueMax = 2
  MaxJobs = 3
  MaxChanges = 1
SPECIFICATION Spec
CHECK_DEADLOCK FALSE
INVARIANTS
  TriggersAccounted
  OneFocusPerSummon
  FocusIsDrawnIfStill
PROPERTY
  TriggersAreRead
