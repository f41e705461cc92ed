SPECIFICATION Spec
CONSTANTS
  Dests = {d1, d2, d3}
  Providers = {openlist, rclone}
  Tasks = {t1, t2}
  Creators = {c1, c2}
  Failures = {"default", "crash"}
  None = None
SYMMETRY Symmetry
INVARIANTS ReferencesResolve DefaultHasRow CacheCoherent
