SPECIFICATION FairSpec
CONSTANTS
  MAX_NUM_TASKS = 4
  PRIORITY_HIGHEST = 2
  IrqSources <- MCIrqSources
INVARIANTS
  OneQueuePerTask
  NeverHaltsWithWork
  PriorityRespected
PROPERTIES
  MessagePassingSpec
  TopPriorityRuns
