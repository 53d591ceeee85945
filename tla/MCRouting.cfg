SPECIFICATION QueriesSpec
CONSTANTS
  Nodes = {"E+", "E-", "U+", "U-", "T+", "T-", "P+", "P-",
           "Q+", "Q-", "R+", "R-", "S+", "S-", "X+", "X-"}
  NodeType <- MCNodeType
  Reverse <- MCReverse
  Dest <- MCDest
  Dist <- MCDist
  ReverseEdge <- MCReverseEdge
  REVERSE_WEIGHT = 8
  UNREACHED = 1000
  TRACK_MAX = 16
  MaxTaken = 2
  Leftovers = {"U+", "E-", "R+", "T-"}
  StartOffsets = {0, 1, 4}
  GoalOffsets = {0, 3}
  StopDists = {2, 7, 15}
  MaxDistance = 20
INVARIANTS
  HeapHoldsReached
  RouteIsDrivable
  ShortestUnlessLost
  SearchEnds
  WalksTellTheWay
PROPERTY WalksEnd
