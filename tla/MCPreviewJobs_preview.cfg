SPECIFICATION FairSpec
CONSTANTS
  Jobs = {j1}
  Clients = {c1, c2}
  None = None
  Faults = {"rpc", "disk", "abandon"}
INVARIANTS NothingLeftBehind FoundJobsLive ClosedCancelsAll
PROPERTIES StatusMovesForward PreviewsEnd JobsForgotten
CHECK_DEADLOCK FALSE
