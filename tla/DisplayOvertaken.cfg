CONSTANTS
  QueueLen = 2
  Overtakes = 1
SPECIFICATION Spec
INVARIANT WaitsOnlyForUpdate
