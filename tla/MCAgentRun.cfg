\* Two tries of one event; limits that a model reaches in the middle of an answer.
SPECIFICATION FairSpec
CONSTANTS
  None = None
  MaxAttempts = 2
  MaxToolCalls = 2
  MaxModelSteps = 2
  MaxBatch = 2
  MaxFaults = 2
CHECK_DEADLOCK FALSE
INVARIANTS
  OutcomeIsTold
  EveryCallIsAnswered
  RepeatedByFaultsOnly
PROPERTIES
  KeepsPromise
  EveryRunIsClosed
