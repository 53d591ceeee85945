SPECIFICATION Spec
CONSTANTS
  cab_descriptors <- MCCabs
  NUM_REQUESTS = 4
INVARIANTS
  CabsAccounted
PROPERTY RequestsAnswered
CHECK_DEADLOCK FALSE
