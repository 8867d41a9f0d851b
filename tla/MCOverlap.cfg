SPECIFICATION Spec
CONSTANTS
  w1 = w1
  w2 = w2
  Workers <- MCTwoWorkers
  Jobs <- MCOneJob
  MaxAttempts = 2
  Backoff <- MCBackoff
  StaleAfter = 2
  BatchLimit = 2
  Prompt = FALSE
  MaxTime = 4
  MaxFaults = 1
SYMMETRY MCSymmetry
CHECK_DEADLOCK FALSE
INVARIANT WaNeverFailed
