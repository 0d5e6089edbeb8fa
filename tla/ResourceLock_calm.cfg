CONSTANTS
  e1 = e1
  e2 = e2
  w1 = w1
  w2 = w2
  w3 = w3
  Engines = {e1, e2}
  Workers = {w1, w2, w3}
  EngineOf <- PairInFirst
  None = None
  Mortal = {}
  Slow = {}
  Messages = 3
  Touches = 1
SPECIFICATION Spec
INVARIANTS TypeOK MutualExclusion
PROPERTIES OnlyTheDeadLoseTheirLock
CHECK_DEADLOCK FALSE
