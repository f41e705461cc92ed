SPECIFICATION Spec
CONSTANTS
  Tasks = {t1}
  RetryIds = {}
  Magnets = {}
  CleanupTasks = {}
  Faults = {}
  Workers = {w1, w2}
  Handlers = {h1}
  Boot = boot
  None = None
  DuringCreate = {}
INVARIANTS PendingIsOwned
