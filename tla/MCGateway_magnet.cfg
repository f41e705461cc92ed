SPECIFICATION Spec
CONSTANTS
  Tasks = {t1}
  RetryIds = {}
  Magnets = {t1}
  CleanupTasks = {}
  Faults = {"rpc"}
  Workers = {w1}
  Handlers = {h1, h2}
  Boot = boot
  None = None
  DuringCreate = {"hook"}
SYMMETRY Symmetry
INVARIANTS CompletedMeansUploaded PendingIsOwned EraseStopsDownloads
