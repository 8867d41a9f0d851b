SPECIFICATION MSpec
CONSTANTS
  w1 = w1
  w2 = w2
  r1 = r1
  r2 = r2
  Workers <- MCOneWorker
  Receivers = {r1}
  Jobs <- MCTwoJobs
  MaxAttempts = 2
  Backoff <- MCBackoff
  StaleAfter = 2
  BatchLimit = 2
  Prompt = FALSE
  MaxTime = 3
  MaxFaults = 1
SYMMETRY MCSymmetry
CHECK_DEADLOCK FALSE
INVARIANTS MTypeOK DoneIsShown FailureShown
PROPERTIES ClaimOnlyReady StatusMachine ReceiptsKept
