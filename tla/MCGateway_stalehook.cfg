SPECIFICATION Spec
CONSTANTS
  Tasks = {t1}
  RetryIds = {}
  Magnets = {t1}
  CleanupTasks = {}
  Faults = {}
  Workers = {w1}
  Handlers = {h1, h2}
  Boot = boot
  None = None
  DuringCreate = {}
PROPERTIES CompletedStaysDownloaded
