CONSTANTS
  Logicals <- LoneLogical
  Targets <- LoneTarget
  SourceEdges <- NoEdges
  TargetEdges <- NoEdges
  WorkLimits <- ForkLimits
  MaxSessions = 2
  MaxCandidates = 1
  WideCandidates = 2
  NoBatch = NoBatch
  a = a
  b = b
  t1 = t1
  t2 = t2
  t3 = t3
SPECIFICATION Spec
CHECK_DEADLOCK FALSE
INVARIANTS
  DecisionsCountResolutions
