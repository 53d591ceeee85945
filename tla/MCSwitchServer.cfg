SPECIFICATION FairSpec
CONSTANTS
  Switches = {s1}
  MAX_EVENT_QUEUE_SIZE = 5
INVARIANTS
  CopiesGoStaleOnlyWhileAway
PROPERTIES
  CommandsAnswered
  SolenoidReleased
