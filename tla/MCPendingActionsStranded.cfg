SPECIFICATION FairSpec
CONSTANTS
  Actions = {a1}
  Requests = {r1}
  None = None
  Origin <- MCOrigin
  Lifetime = 0
  MaxTime = 0
  MaxFaults = 1
CHECK_DEADLOCK FALSE
PROPERTIES
  EveryConfirmedIsExecuted
