\* A bot that logs in, polls and is disconnected while requests come in and steps fail.
SPECIFICATION FairSpec
CONSTANTS
  None = None
  Requests = {r1}
  MaxExpired = 1
  MaxCodes = 2
  MaxMessages = 2
  MaxCalls = 3
  MaxFaults = 1
CHECK_DEADLOCK FALSE
INVARIANTS
  CursorIsHonest
  PollsForEver
  LogoutHolds
PROPERTIES
  EveryMessageArrives
