SPECIFICATION LiveSpec
CONSTANTS
  Workers = {w1, w2}
  MAX_REDIRECTS = 2
  Application = TRUE
INVARIANTS
  TypeOK
  RedirectsBounded
  ContextHasOwner
  ResultOfLastAnswer
PROPERTIES
  RequestEnds
  RequestAdvances
  ImplementsExecution
