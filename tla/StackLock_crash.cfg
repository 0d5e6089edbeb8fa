CONSTANTS
  e1 = e1
  e2 = e2
  c1 = c1
  c2 = c2
  c3 = c3
  c4 = c4
  Engines = {e1, e2}
  Calls = {c1, c2, c3, c4}
  KindOf <- CrashKinds
  EngineOf <- CrashEngines
  None = None
  NoRow = NoRow
  Mortal = {e1, e2}
  Slow = {}
SPECIFICATION Spec
INVARIANTS TypeOK MutualExclusion UnlockedIsSettled
PROPERTIES OnlyHolderWrites
CHECK_DEADLOCK FALSE
