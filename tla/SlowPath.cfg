CONSTANTS
  Apps <- MCApps
  MaxQueries = 3
  MaxChanges = 3
  Readers <- MCReaders
  Writers <- MCWriters
  Names <- MCNames
  HasResolver = TRUE
  MaxUpdates = 1
  Deciders <- MCDeciders
  Drainers <- MCDrainers
  Secret <- MCSecret
  Acting <- MCActing
  Cap = 2
  TraceRowLimit = 1
  MaxOutcomes = 4
  MaxToggles = 1
  Windows <- MCWindows
  Visible <- MCVisible
  DockHeight = 0
  Moves <- MCMoves
  Places <- MCPlaces
  HistoryCap = 2
  MaxPresses = 2
  MaxActs = 4
CHECK_DEADLOCK FALSE
SPECIFICATION SlowSpec
INVARIANTS
  OrderedIfOneDrains
  RestoreUndoes
PROPERTIES
  CacheNeverGoesBack
  CallsEnd
