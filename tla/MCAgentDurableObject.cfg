\* Two messages and one fault: everything accepted is finished.
SPECIFICATION FairObjectSpec
CONSTANTS
  EventIds = {e1, e2}
  Instances <- MCInstances
  None = None
  MaxAttempts = 2
  LeaseMs = 1
  StaleMs = 3
  RetentionMs = 2
  CleanupBatch = 1
  DelayMs = 1
  MaxFaults = 1
  MaxSlow = 2
  MaxTime = 12
CHECK_DEADLOCK FALSE
INVARIANTS
  OneHandlerAtATime
  NoWorkIsStranded
  HandledOnceWithoutFaults
PROPERTIES
  ImplementsMailbox
  AckedIsAccepted
  EveryEventIsFinished
