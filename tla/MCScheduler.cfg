\* Users and one failure beside sweeps that dispatch one schedule at a time, with two due.
SPECIFICATION FairSpec
CONSTANTS
  recurring = recurring
  once = once
  Schedules = {recurring, once}
  Sweepers = {w1}
  None = None
  Interval <- MCInterval
  MaxAttempts <- MCMaxAttempts
  RetryDelay = 1
  BatchSize = 2
  MaxDispatches = 1
  MaxTime = 1
  MaxFaults = 1
  MaxRequests = 1
  MaxRuns = 1
CHECK_DEADLOCK FALSE
INVARIANTS
  NoOccurrenceSkipped
PROPERTIES
  CancelHoldsWhenQuiet
  EveryScheduleFires
