\* One action that three requests confirm and reject, with one fault.
SPECIFICATION FairSpec
CONSTANTS
  Actions = {a1}
  Requests = {r1, r2, r3}
  None = None
  Origin <- MCOrigin
  Lifetime = 0
  MaxTime = 1
  MaxFaults = 1
CHECK_DEADLOCK FALSE
INVARIANTS
  TablesAgree
  ButtonTellsDecision
PROPERTIES
  ImplementsOneDecision
  ExecutedUnlessRequestFails
