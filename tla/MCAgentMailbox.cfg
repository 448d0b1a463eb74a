\* Two events and two instances: order, the running slot and its fence, retention.
SPECIFICATION Spec
CONSTANTS
  EventIds = {e1, e2}
  Instances = {i1, i2}
  None = None
  MaxAttempts = 2
  LeaseMs = 1
  StaleMs = 2
  RetentionMs = 1
  CleanupBatch = 1
  MaxTime = 1
SYMMETRY Symmetry
CHECK_DEADLOCK FALSE
INVARIANTS
  IndexAgreesWithQueue
PROPERTIES
  ImplementsSerialQueue
  SettledByItsHolder
  OutcomeIsFinalUntilExpiry
