\* A schedule that happens once and whose runs fail, left alone.
SPECIFICATION Spec
CONSTANTS
  recurring = recurring
  once = once
  Schedules = {once}
  Sweepers = {w1}
  None = None
  Interval <- MCInterval
  MaxAttempts <- MCMaxAttempts
  RetryDelay = 1
  BatchSize = 1
  MaxDispatches = 1
  MaxTime = 2
  MaxFaults = 0
  MaxRequests = 0
  MaxRuns = 2
CHECK_DEADLOCK FALSE
INVARIANTS
  AttemptsAreLimited
