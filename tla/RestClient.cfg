SPECIFICATION Spec
CONSTANTS
  Scripts = {s1, s2}
  Workers = {w1, w2}
  Responses <- MCResponses
  OutputSize = 3
  Nobody = Nobody
  NoWorker = NoWorker
  NoResponse = NoResponse
INVARIANTS
  TypeOK
  AnswersOwnCall
  NextSliceIsSafe
  OffsetTracksText
PROPERTIES
  CallReturns
  ImplementsService
  FetchAdvances
