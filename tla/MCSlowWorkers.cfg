SPECIFICATION MSpec
CONSTANTS
  w1 = w1
  w2 = w2
  r1 = r1
  r2 = r2
  Workers <- MCTwoWorkers
  Receivers = {r1, r2}
  Jobs <- MCOneJob
  MaxAttempts = 2
  Backoff <- MCBackoff
  StaleAfter = 2
  BatchLimit = 2
  Prompt = FALSE
  MaxTime = 4
  MaxFaults = 1
SYMMETRY MCSymmetry
CHECK_DEADLOCK FALSE
INVARIANT SuccessHasWa
PROPERTIES WaKept
