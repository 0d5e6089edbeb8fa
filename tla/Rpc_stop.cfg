CONSTANTS
  s1 = s1
  a = a
  b = b
  None = None
  Servers = {s1}
  Calls = {a, b}
  Casts = {b}
  CacheSize = 1
  MaxTroubles = 1
SPECIFICATION FairSpec

PROPERTY PendingTasksRun
CHECK_DEADLOCK FALSE
