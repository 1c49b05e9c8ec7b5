SPECIFICATION Spec
CONSTANTS
  Scripts = {s1}
  Workers = {w1}
  Responses <- MCSlicedResponses
  OutputSize = 3
  Nobody = Nobody
  NoWorker = NoWorker
  NoResponse = NoResponse
PROPERTIES
  SlicedCallReturns
