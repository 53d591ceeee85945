SPECIFICATION Spec
CONSTANTS
  cab_descriptors <- MCCabs
  NUM_REQUESTS = 10
INVARIANT DispatchFreedOnce
CHECK_DEADLOCK FALSE
