SPECIFICATION LiveSpec
CONSTANTS
  w1 = w1
  w2 = w2
  Workers <- MCOneWorker
  Jobs <- MCTwoJobs
  MaxAttempts = 2
  Backoff <- MCBackoff
  StaleAfter = 2
  BatchLimit = 1
  Prompt = TRUE
  MaxTime = 20
  MaxFaults = 2
CHECK_DEADLOCK FALSE
PROPERTIES EventuallySettled EventuallyShown
