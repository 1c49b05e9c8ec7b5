SPECIFICATION Spec
CONSTANTS
  Jobs = {j1, j2, j3}
  Workers = {w1, w2}
  Results = {r1}
  NoJob = NoJob
  NoResult = NoResult
  NoWorker = NoWorker
INVARIANTS
  TypeOK
  TableMatchesIds
  OnlyAddingLacksId
  SingleCustody
  
PROPERTIES
  
  ResultStable
  OldestFirst
  ImplementsPool
