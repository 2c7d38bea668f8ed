---------------------------- MODULE MCTrainingRun ----------------------------
(* Two trainers and updates of two outcomes; the cfgs bound the updates    *)
(* and the failures.                                                       *)
EXTENDS TrainingRun, TLC

CONSTANTS t1, t2, a, b

MCTrainers == {t1, t2}
MCOutcomes == {a, b}
Symmetry == Permutations(MCTrainers) \cup Permutations(MCOutcomes)
=============================================================================
