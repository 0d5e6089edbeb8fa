SPECIFICATION FairSpec
CONSTANTS
  w1 = w1
  w2 = w2
  u1 = u1
  u2 = u2
  creator = creator
  A = A
  B = B
  empty = empty
  fragile = fragile
  plain = plain
  replacing = replacing
  changing = changing
  dropping = dropping
  None = None
  Workers = {w1, w2}
  Creator = creator
  Callers = {u1, u2}
  Plans <- OneRequest
  Empty = empty
  Def <- MCDef
  Breaks <- Creations
  RollbackOn = FALSE
  Quick <- Shut
  Prompt = TRUE
CHECK_DEADLOCK FALSE
INVARIANTS
  TypeOK
  CompleteMeansInService
  NothingLeaks
PROPERTIES
  RequirementsFirst
  ConsumersFirst
  Finishes
