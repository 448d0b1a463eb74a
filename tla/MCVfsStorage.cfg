\* Two requests side by side, four in all, and one failure at any statement.
SPECIFICATION Spec
CONSTANTS
  None = None
  Procs = {p1, p2}
  Paths <- MCPaths
  Small = {"text"}
  Large = {"blob"}
  Requested <- MCRequested
  MaxOps = 4
  MaxFaults = 1
CHECK_DEADLOCK FALSE
INVARIANTS
  CleanPathsReadBack
  BlobsAreKept
  VersionsAreUnique
