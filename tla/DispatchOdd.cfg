\* A user rule for the chord translateCopy posts, and Alt+F4, which is
\* claimed and closes nothing.
CONSTANTS
  Builtins <- MCBuiltins
  Picks <- WinCopies
  Apps = {"editor", "shell"}
  Terminals = {"shell"}
  Keys <- MCKeys
  BuiltinGrants <- MCGrants
  CopyChord <- MCCopyChord
  QueueSize = 1
  MaxKeys = 3
  MaxEdits = 1
SPECIFICATION Spec
CHECK_DEADLOCK FALSE
INVARIANTS
  InjectedNeverMatched
  NeverClaimedInVain
