SPECIFICATION BudgetSpec
CONSTANTS
  p1 = p1
  p2 = p2
  env = env
  dist = dist
  data = data
  Nobody = Nobody
  Process = {p1, p2}
  File = {env, dist, data}
  Op <- All
  MaxRuns = 2
  MaxCrashes = 2
  MaxMeddles = 1
INVARIANTS
  AllOrNothing
  OnlyMeddlingBlocks
  NoStageLeft
  NoEditOverwritten
PROPERTIES
  PreImageKept
  JournalSettles
CHECK_DEADLOCK FALSE
