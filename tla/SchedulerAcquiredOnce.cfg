SPECIFICATION Spec
CONSTANTS
  Jobs = {j1, j2}
  Workers = {w1, w2}
  Results = {r1}
  NoJob = NoJob
  NoResult = NoResult
  NoWorker = NoWorker
PROPERTIES
  AcquiredOnce
