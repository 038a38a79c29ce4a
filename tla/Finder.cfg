\* Two connections, two presets, three names, one end of the process.
CONSTANTS
  Requests = {r1, r2}
  Seeds <- MCSeeds
  Edits <- MCEdits
  Orders <- MCOrders
  Menu = {"newFile", "copyPath"}
  Exts <- MCExts
  Paths <- MCPaths
  NameMax = 5
  MaxAsked = 3
  MaxMeddled = 1
  MaxCrashes = 1
SYMMETRY Connections
SPECIFICATION Spec
CHECK_DEADLOCK FALSE
INVARIANTS
  StagingIsPrivate
  CatalogKeepsItsRows
  RestartChangesNoRow
PROPERTY
  OnlyTheWindowReplaces
