SPECIFICATION Spec
CONSTANTS
  Nodes = {"W+", "W-", "A+", "A-", "B+", "B-", "C+", "C-",
           "S+", "S-", "M+", "M-", "D+", "D-", "E+", "E-"}
  NodeType <- MCNodeType
  Reverse <- MCReverse
  Dest <- MCDest
  Dist <- MCDist
  ReverseEdge <- MCReverseEdge
  Trains = {"t41", "t35"}
  BranchSafety <- MCBranchSafety
  Lengths = {1, 8}
  Offsets = {0, 3}
  SEGMENTS_PER_TRAIN = 10
  MAX_RESERVATION_LENGTH = 9
INVARIANTS
  ListsMatchTables
  ForwardAndReverse
  NoCollision
  ClearOfSwitches
  ReservationsFollowTurnouts
PROPERTIES
  KeepsItsPromise
