\* A finished schedule and the sweep or run that was under way for it.
SPECIFICATION Spec
CONSTANTS
  recurring = recurring
  once = once
  Schedules = {once}
  Sweepers = {w1}
  None = None
  Interval <- MCInterval
  MaxAttempts <- MCMaxAttempts
  RetryDelay = 1
  BatchSize = 1
  MaxDispatches = 1
  MaxTime = 2
  MaxFaults = 0
  MaxRequests = 1
  MaxRuns = 2
CHECK_DEADLOCK FALSE
PROPERTIES
  FinishedFiresNoMore
