CONSTANTS
  r1 = r1
  w1 = w1
  w2 = w2
  None = None
  Routers = {r1}
  Workers = {w1, w2}
  MaxVersion = 2
  Foreign = {1}
  MaxTroubles = 1
VIEW View
SPECIFICATION FairSpec
INVARIANTS TypeOK ExclusiveProcessing NoLostUpdate
PROPERTY Converges
CHECK_DEADLOCK FALSE
