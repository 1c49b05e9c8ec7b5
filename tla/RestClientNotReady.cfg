SPECIFICATION Spec
CONSTANTS
  Scripts = {s1, s2}
  Workers = {w1, w2}
  Responses <- MCSlicedResponses
  OutputSize = 3
  Nobody = Nobody
  NoWorker = NoWorker
  NoResponse = NoResponse
INVARIANTS
  CompleteJobIsReady
