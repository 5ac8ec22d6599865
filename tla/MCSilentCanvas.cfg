SPECIFICATION Spec
CONSTANTS
  c1 = c1  g1 = g1
  Context = {c1}
  Group = {}
  TokenDays <- MCTokenDays
  DashDays <- MCDashDays
  Drives = {"ok", "graph_auth"}
  Spaces = {"low", "80", "full"}
  Faults = {"gone", "exhausted"}
  Unrecorded = Unrecorded
  Configured = {TRUE}
  CriticalEvery = 1
  WarnEvery = 2
  StaleAfter = 2
  MaxTime = 3
  MaxChanges = 1
INVARIANT StaleIsReported
CHECK_DEADLOCK FALSE
