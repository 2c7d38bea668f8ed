CONSTANTS
  Logicals <- PairLogicals
  Targets <- PathTargets
  SourceEdges <- PairEdges
  TargetEdges <- PathEdges
  WorkLimits <- OneSessionLimits
  MaxSessions = 1
  MaxCandidates = 1
  WideCandidates = 2
  NoBatch = NoBatch
  a = a
  b = b
  t1 = t1
  t2 = t2
  t3 = t3
SYMMETRY PathSymmetry
SPECIFICATION Spec
CHECK_DEADLOCK FALSE
INVARIANTS
  TypeOK
  OccupancyCountsClaimants
  ValidityIsEmbedding
  WithinLimits
  OutstandingIsAffordable
  OutstandingIsFresh
  ConsumedIsDead
PROPERTIES
  GenerationTracksState
  AppliedReachesNeighbors
