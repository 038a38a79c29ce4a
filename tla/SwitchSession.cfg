\* Three windows that come, go, move and are minimized.
CONSTANTS
  NoWindow = NoWindow
  Windows = {w1, w2, w3}
SYMMETRY Symmetry
SPECIFICATION SessionSpec
INVARIANTS
  ArrivalsMoveNothing
PROPERTY
  CommitmentFollowed
