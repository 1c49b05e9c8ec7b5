SPECIFICATION Spec
CONSTANTS
  Jobs = {j1}
  Workers = {w1}
  Results = {r1}
  NoJob = NoJob
  NoResult = NoResult
  NoWorker = NoWorker
PROPERTIES
  FinishedIsDisposed
