SPECIFICATION Spec
CONSTANTS
  Tasks = {t1}
  RetryIds = {}
  Magnets = {}
  CleanupTasks = {t1}
  Faults = {"rpc", "lostReply", "disk", "store", "destination", "crash"}
  Workers = {w1, w2}
  Handlers = {h1, h2}
  Boot = boot
  None = None
  DuringCreate = {"hook"}
SYMMETRY Symmetry
INVARIANTS TypeOK NoTransferDuringDelete OneRunPerTask FilesKept JobsHaveFiles
PROPERTIES ImplementsContract
