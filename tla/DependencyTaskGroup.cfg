CONSTANTS
  a = a
  b = b
  c = c
  d = d
  Thrown = Thrown
  Tasks = {a, b, c, d}
  Plans <- MCPlans
  MaxPeriod = 2
SPECIFICATION FairSpec
INVARIANTS TypeOK InOrder TruthfulOutcome
PROPERTIES NothingStartsAfterAnError AnErrorEndsTheGroup
