\* A conversation whose administrators change models, settings and policies.
SPECIFICATION TurnSpec
CONSTANTS
  None = None
  Env = Env
  Providers = {"p1", "p2"}
  Models = {"m1", "m2"}
  ProviderOf <- MCProviderOf
  Admins = {a1, a2}
  MaxRequests = 2
  MaxFaults = 1
  MaxRoutes = 1
  ScanLimit = 4
  HistoryLimits = {1, 2}
  MaxMessages = 6
  NoPolicy = NoPolicy
  Subjects <- MCSubjects
  Baseline <- MCBaseline
  Grants <- MCGrants
  Needed <- MCNeeded
  PolicyAdmins = {b1, b2}
  MaxPolicyRequests = 3
SYMMETRY Symmetry
CONSTRAINT Bounded
CHECK_DEADLOCK FALSE
INVARIANTS
  ChoicesAreKept
  CheckedIsCalled
  ContextIsComplete
  SummaryReachesItsEnd
  ExecutedIsEntitled
  DeniedIsNotEntitled
  PoliciesAreAsAsked
