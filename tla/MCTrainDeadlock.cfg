SPECIFICATION Spec
CONSTANTS
  TrainMap <- OneTrain
  MaxSpeed = 2
  DefaultSpeed = 2
  MaxErrors = 2
  MaxReversals = 1
INVARIANT NoCircularWait
CHECK_DEADLOCK FALSE
