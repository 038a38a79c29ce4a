\* Three keys, one edit of what decisions read.
CONSTANTS
  Builtins <- SmallBuiltins
  Picks <- MCPicks
  Apps = {"editor", "shell"}
  Terminals = {"shell"}
  Keys <- SmallKeys
  BuiltinGrants <- MCGrants
  CopyChord <- MCCopyChord
  QueueSize = 2
  MaxKeys = 3
  MaxEdits = 1
SPECIFICATION Spec
CHECK_DEADLOCK FALSE
INVARIANTS
  DecisionIsAMoment
  ClaimsAccounted
  RowNamesThePick
PROPERTY
  EveryClaimIsTried
