CONSTANTS
  e1 = e1
  e2 = e2
  w1 = w1
  w2 = w2
  w3 = w3
  Engines = {e1, e2}
  Workers = {w1, w2, w3}
  EngineOf <- PairInSecond
  None = None
  Mortal = {e1}
  Slow = {}
  Messages = 3
  Touches = 0
SPECIFICATION Spec
PROPERTIES OnlyTheDeadLoseTheirLock
CHECK_DEADLOCK FALSE
