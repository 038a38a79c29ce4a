SPECIFICATION Spec
CHECK_DEADLOCK FALSE
CONSTANTS
  Callers = {"a", "b"}
  Entries <- MCEntries
  Claims <- MCClaims
  CoreIDs <- MCCoreIDs
  MaxCalls = 4
  MaxStrays = 1
INVARIANTS
  AnswerIsMine
  ReportsAreTrue
PROPERTIES
  StopReturns
