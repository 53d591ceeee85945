SPECIFICATION FairSpec
CONSTANTS
  Getters = {worker, helper}
  Worker = worker
  Helper = helper
  Capacity = 2
  NoByte = none
  NumSensors = 2
  Couriers = {main}
  MAX_EVENT_QUEUE_SIZE = 5
INVARIANTS
  BytesWhenReady
PROPERTIES
  ReportsAreTrips
  ReadingsGoOn
