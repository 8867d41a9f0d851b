SPECIFICATION Spec
CONSTANTS
  w1 = w1
  w2 = w2
  Workers <- MCTwoWorkers
  Jobs <- MCOneJob
  MaxAttempts = 2
  Backoff <- MCBackoff
  StaleAfter = 3
  BatchLimit = 2
  Prompt = TRUE
  MaxTime = 6
  MaxFaults = 1
SYMMETRY MCSymmetry
CHECK_DEADLOCK FALSE
INVARIANT DoneMeansSent
