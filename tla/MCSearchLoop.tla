---------------------------- MODULE MCSearchLoop ----------------------------
(***************************************************************************)
(* Small searches: a coupled pair on an edge with an isolated target, so   *)
(* that valid states, conflicts and variables without candidates occur.    *)
(***************************************************************************)
EXTENDS SearchLoop, TLC

Limits(decisions, routes, built, validations, restarts, features) ==
  [k \in Coordinates |->
     CASE k = "decisions"        -> decisions
       [] k = "route_expansions" -> routes
       [] k = "materializations" -> built
       [] k = "validator_calls"  -> validations
       [] k = "restart_work"     -> restarts
       [] k = "feature_work"     -> features]

\* More than the options of the search can spend (work_cap=None), except that
\* the second try's repair is one too many.
AmpleLimits == Limits(9, 99, 99, 99, 2, 999)

\* Enough for a transition or two; each coordinate can be the one that ends
\* the search.
TightLimits == Limits(2, 4, 3, 10, 1, 170)

\* Enough for both tries to spend their repairs and restarts.
LongLimits == Limits(4, 16, 8, 16, 3, 240)

CONSTANTS a, b, t1, t2, t3

PairLogicals == {a, b}
PairEdges == {{a, b}}
SpareTargets == {t1, t2, t3}
SpareEdges == {{t1, t2}}

LoopSymmetry == Permutations(PairLogicals) \cup Permutations({t1, t2})
=============================================================================
