SPECIFICATION FairSpec
CONSTANTS
  Tasks = {t1, t2}
  RetryIds = {t2}
  Magnets = {t1}
  CleanupTasks = {t1}
  Faults = {"abandon"}
  Workers = {w1}
  Handlers = {h1}
  Boot = boot
  None = None
  DuringCreate = {}
PROPERTIES DeleteCompletes PendingSettles
