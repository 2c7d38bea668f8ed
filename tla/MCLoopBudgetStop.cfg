CONSTANTS
  Logicals <- PairLogicals
  Targets <- SpareTargets
  SourceEdges <- PairEdges
  TargetEdges <- SpareEdges
  WorkLimits <- TightLimits
  MaxSessions = 1
  MaxCandidates = 1
  WideCandidates = 2
  NoBatch = NoBatch
  None = None
  Tries = 2
  MaxTransitions = 3
  MaxLocalRepairs = 1
  ScorerQueries = 2
  HasTimeout = TRUE
  Values = {0, 1}
  a = a
  b = b
  t1 = t1
  t2 = t2
  t3 = t3
SYMMETRY LoopSymmetry
SPECIFICATION LoopSpec
CHECK_DEADLOCK FALSE
INVARIANTS
  BudgetStopReturns
