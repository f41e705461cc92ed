SPECIFICATION Spec
CONSTANTS
  Dests = {d1, d2}
  Providers = {rclone}
  Tasks = {t1}
  Creators = {c1}
  Failures = {"list"}
  None = None
INVARIANT ReferencesResolve
