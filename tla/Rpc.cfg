CONSTANTS
  s1 = s1
  s2 = s2
  a = a
  b = b
  None = None
  Servers = {s1, s2}
  Calls = {a, b}
  Casts = {b}
  CacheSize = 1
  MaxTroubles = 1
SPECIFICATION FairSpec
INVARIANTS TypeOK AtMostOnce NoRequestLost
PROPERTY EverythingEnds
CHECK_DEADLOCK FALSE
