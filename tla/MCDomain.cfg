SPECIFICATION DomSpec
CONSTANTS
  d1 = d1
  d2 = d2
  rr = rr
  Workers = {d1, d2}
  Receivers = {rr}
  Jobs = {1}
  MaxAttempts = 2
  Backoff <- MCDelays
  StaleAfter = 2
  Prompt = TRUE
  MaxTime = 4
  MaxFaults = 1
SYMMETRY MCDomainSymmetry
CHECK_DEADLOCK FALSE
INVARIANTS RowsParse DoneIsSent
PROPERTIES DomainDelivers
