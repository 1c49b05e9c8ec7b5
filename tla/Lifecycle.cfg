SPECIFICATION Spec
CONSTANTS
  gc_numWorkers = 3
  MaxWorkers = 5
  MaxRequests = 3
INVARIANTS
  WorkersBounded
  OneMoreJob
PROPERTIES
  RequestsServed
  UnloadEnds
  StartReturns
  JoinAdvances
CHECK_DEADLOCK FALSE
