CONSTANTS
  Logicals <- PairLogicals
  Targets <- SpareTargets
  SourceEdges <- PairEdges
  TargetEdges <- SpareEdges
  WorkLimits <- LongLimits
  MaxSessions = 1
  MaxCandidates = 1
  WideCandidates = 2
  NoBatch = NoBatch
  None = None
  Tries = 2
  MaxTransitions = 4
  MaxLocalRepairs = 1
  ScorerQueries = 0
  HasTimeout = FALSE
  Values = {0}
  a = a
  b = b
  t1 = t1
  t2 = t2
  t3 = t3
SPECIFICATION FairLoopSpec
CHECK_DEADLOCK FALSE
PROPERTIES
  Terminates
