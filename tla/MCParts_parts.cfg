SPECIFICATION Spec
CONSTANTS
  Files = {d1, d2, extra, control}
  Selected = {d1, d2}
  Metadata = {control}
  FileFaults = {"network", "disk", "crash", "damage"}
  Calls <- SmallCalls
  Broken = broken
  MaxCalls = 3
  TaskIds = {t1, t2}
  NewIds = {n1, n2}
  Names = {g1, g2}
  Blank = blank
  MaxNames = 3
  Ids = {1, 2, 3}
  LastTime = 4
INVARIANTS KeptUntilSent CompletedIsRemote NothingHollow
INVARIANTS RepliesMatchCalls DoneExactlyOnce
INVARIANTS ReportedOnce ReportsAreTrue PagesComplete SecondsDescend
PROPERTIES CutFilesFail
CHECK_DEADLOCK FALSE
