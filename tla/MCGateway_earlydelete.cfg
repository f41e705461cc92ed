SPECIFICATION Spec
CONSTANTS
  Tasks = {t1}
  RetryIds = {}
  Magnets = {}
  CleanupTasks = {}
  Faults = {}
  Workers = {w1}
  Handlers = {h1, h2}
  Boot = boot
  None = None
  DuringCreate = {"delete"}
INVARIANTS NoTransferDuringDelete
