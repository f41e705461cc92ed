SPECIFICATION FairSpec
CONSTANTS
  a = a
  b = b
  c = c
  Trackers = {a, b, c}
  Hash = Hash
  Junk = Junk
  Bodies <- SmallBodies
  UserOptions <- SmallUserOptions
  NoOption = NoOption
  MaxTrackers = 2
  Interval = 1440
  MinRetryDelay = 1
  MaxRetryDelay = 60
  MaxFaults = 2
  MaxFailures = 7
CHECK_DEADLOCK FALSE
INVARIANTS CacheIsParsed DownloadsGetTrackers BackOff DaemonKnown
PROPERTIES KeepsList DaemonFollows
