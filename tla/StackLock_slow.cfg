CONSTANTS
  e1 = e1
  e2 = e2
  c1 = c1
  c2 = c2
  c3 = c3
  c4 = c4
  Engines = {e1, e2}
  Calls = {c1, c2, c3}
  KindOf <- SlowKinds
  EngineOf <- SlowEngines
  None = None
  NoRow = NoRow
  Mortal = {e1}
  Slow = {e1, e2}
SPECIFICATION Spec
INVARIANTS LockHasHolder
PROPERTIES EveryCallEnds
CHECK_DEADLOCK FALSE
