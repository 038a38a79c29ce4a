\* Two presets share an extension, and paths have empty or dot segments.
CONSTANTS
  Requests = {r1, r2}
  Seeds <- MCTwins
  Edits <- MCEdits
  Orders <- MCOrders
  Menu = {"newFile", "copyPath"}
  Exts <- MCExts
  Paths <- MCLoosePaths
  NameMax = 5
  MaxAsked = 3
  MaxMeddled = 1
  MaxCrashes = 1
SYMMETRY Connections
SPECIFICATION Spec
CHECK_DEADLOCK FALSE
INVARIANTS
  RelativeResolves
  OfferedIsAccepted
