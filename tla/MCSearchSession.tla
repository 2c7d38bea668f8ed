--------------------------- MODULE MCSearchSession ---------------------------
(***************************************************************************)
(* Small graphs and ledgers for the search session.                        *)
(***************************************************************************)
EXTENDS SearchSession, TLC

Limits(decisions, routes, built, validations, restarts, features) ==
  [k \in Coordinates |->
     CASE k = "decisions"        -> decisions
       [] k = "route_expansions" -> routes
       [] k = "materializations" -> built
       [] k = "validator_calls"  -> validations
       [] k = "restart_work"     -> restarts
       [] k = "feature_work"     -> features]

\* One session: two decisions and a disturbance; settlements, successors and
\* features for two narrow proposals, or for one wide one or a snapshot; and one settlement
\* more, so that a third can be stopped inside the router.
OneSessionLimits == Limits(2, 7, 2, 1, 1, 16)

\* Two sessions, the second a fork or an independent one.
ForkLimits == Limits(2, 0, 1, 0, 1, 5)

CONSTANTS a, b, t1, t2, t3

\* A coupled pair of logicals.
PairLogicals == {a, b}
PairEdges == {{a, b}}

\* A path of three target nodes, where two nodes can be out of reach.
PathTargets == {t1, t2, t3}
PathEdges == {{t1, t2}, {t2, t3}}

\* One isolated logical with one place to go: only the protocol is left.
LoneLogical == {a}
LoneTarget == {t1}
NoEdges == {}

\* Exchanging the logicals, or the two ends of the path, is an automorphism
\* of both graphs and changes no verdict.
PathSymmetry == Permutations(PairLogicals) \cup Permutations({t1, t3})
=============================================================================
