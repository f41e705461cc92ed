SPECIFICATION FairSpec
CONSTANTS
  Workers = {w1, w2, w3}
  Jobs = {j1, j2}
  Callers = {c1, c2}
  None = None
CHECK_DEADLOCK FALSE
INVARIANTS NoLostWakeup AwakeAfterCancel
PROPERTIES ImplementsQueue StopCompletes
