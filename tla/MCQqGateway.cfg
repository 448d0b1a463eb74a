\* A bot whose sockets, sessions and instance fail while requests come in.
SPECIFICATION FairSpec
CONSTANTS
  None = None
  Objects = {o1, o2}
  Sockets = {s1, s2}
  Requests = {r1}
  Timers = {t1}
  MaxSessions = 3
  MaxEvents = 2
  MaxCalls = 2
  MaxFaults = 1
CHECK_DEADLOCK FALSE
INVARIANTS
  NeverForgotten
  KeptAliveOrReplaced
  NothingSkipped
PROPERTIES
  ComesBack
