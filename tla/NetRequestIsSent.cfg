SPECIFICATION Spec
CONSTANTS
  Workers = {w1}
  MAX_REDIRECTS = 2
  Application = FALSE
INVARIANTS
  RequestIsSent
