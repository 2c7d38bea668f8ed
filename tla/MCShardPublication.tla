------------------------- MODULE MCShardPublication --------------------------
(* Two planners, two attempts at two shards, one merger, two failures.    *)
EXTENDS ShardPublication, TLC

CONSTANTS p1, p2, w1, w2, m1

MCPlanners == {p1, p2}
MCWorkers == {w1, w2}
MCMergers == {m1}
Symmetry == Permutations(MCPlanners) \cup Permutations(MCWorkers)
=============================================================================
