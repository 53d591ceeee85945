SPECIFICATION FairSpec
CONSTANTS
  Turnouts = 1
  LeftOver = 1
  MaxPreemptions = 2
INVARIANTS
  AssertionsHold
PROPERTIES
  StartupEnds
