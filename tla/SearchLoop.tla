----------------------------- MODULE SearchLoop -----------------------------
(***************************************************************************)
(* find_embedding: one native session driven by run_search and             *)
(* SearchOrchestrator.transition until a verdict, then answered through    *)
(* the independent validator.                                              *)
(*                                                                         *)
(* The loop is the only client of its session.  Its steps are the native   *)
(* calls, each of which may stop on the work ledger (WorkBudgetExceeded),  *)
(* and the replaceable policies, whose answers and exceptions are free.    *)
(* The clock is read where the code reads it and may have passed the       *)
(* deadline at any reading.                                                *)
(***************************************************************************)
EXTENDS SearchSession, Sequences

CONSTANTS
  Tries,            \* restarts of the search
  MaxTransitions,   \* transitions over all tries
  MaxLocalRepairs,  \* perturbations per try
  ScorerQueries,    \* bound: native queries a scorer makes about one batch
  HasTimeout,       \* a deadline was given
  Values,           \* what a terminal scorer may answer
  None

ASSUME LoopAssumption ==
  /\ MaxSessions >= 1
  /\ Tries \in Nat \ {0}
  /\ MaxTransitions \in Nat
  /\ MaxLocalRepairs \in Nat
  /\ ScorerQueries \in Nat
  /\ HasTimeout \in BOOLEAN
  /\ Values \subseteq Int
  /\ None \notin Coordinates /\ None \notin Assignments

VARIABLES
  pc,             \* the next native call or policy decision
  anytime,        \* keep searching after a valid state
  attempt,
  transitions,
  local_repairs,  \* of this attempt
  logical,        \* the variable under repair
  batch,          \* the handle of its proposal
  offered,        \* its proposal had candidates
  queries,        \* what the scorer has asked of this batch
  incumbents,     \* the valid states retained, with their terminal values
  best,           \* best_incumbent_index, from one; zero is none
  success,
  reason,
  coordinate,     \* work_budget_exhausted_coordinate
  answer          \* the embedding returned, None when it is empty

turn == <<logical, batch, offered, queries>>
retained == <<incumbents, best, success>>
verdict == <<reason, coordinate>>
loop_vars == <<pc, anytime, attempt, transitions, local_repairs, turn, retained,
               verdict, answer>>
all_vars == <<vars, loop_vars>>

Main == 1

LoopInit ==
  /\ Init
  /\ pc = "open"
  /\ anytime \in BOOLEAN
  /\ attempt = 0 /\ transitions = 0 /\ local_repairs = 0
  /\ logical = None /\ batch = None /\ offered = FALSE /\ queries = 0
  /\ incumbents = <<>> /\ best = 0 /\ success = FALSE
  /\ reason = "TRIES_EXHAUSTED" /\ coordinate = None
  /\ answer = None

(***************************************************************************)
(* Common endings of a step.                                               *)
(***************************************************************************)
Terminate(why) == reason' = why /\ pc' = "finish" /\ UNCHANGED coordinate

Goto(label) == pc' = label /\ UNCHANGED verdict

Exceeded(charge) == {k \in Coordinates : work[Main][k] + charge[k] > WorkLimits[k]}

\* A refused call changes nothing but the verdict; which of several
\* exhausted coordinates is named is left open.
StopForBudget(charge) ==
  /\ coordinate' \in Exceeded(charge)
  /\ reason' = "WORK_BUDGET_EXHAUSTED"
  /\ pc' = "finish"
  /\ UNCHANGED <<vars, anytime, attempt, transitions, local_repairs, turn, retained, answer>>

Valid == ReportedValid(chains[Main], occupancy[Main])

KnownState == \E i \in DOMAIN incumbents : incumbents[i].chains = chains[Main]

\* Mutant: an equally good later state replaces the best one.
RetainLatest ==
  IF KnownState
    THEN UNCHANGED retained
    ELSE \E v \in Values :
           /\ incumbents' = Append(incumbents, [chains |-> chains[Main], value |-> v])
           /\ success' = TRUE
           /\ best' = IF best = 0 THEN 1
                      ELSE IF v >= incumbents[best].value THEN Len(incumbents) + 1 ELSE best

\* retain_incumbent: a state is retained once; a later one is best only if
\* it is strictly better.
Retain ==
  IF KnownState
    THEN UNCHANGED retained
    ELSE \E v \in Values :
           /\ incumbents' = Append(incumbents, [chains |-> chains[Main], value |-> v])
           /\ success' = TRUE
           /\ best' = IF best = 0 THEN 1
                      ELSE IF v > incumbents[best].value THEN Len(incumbents) + 1 ELSE best

(***************************************************************************)
(* The attempt loop.                                                       *)
(***************************************************************************)
\* A source with nowhere to go is answered at once.
OpenSession ==
  /\ pc = "open"
  /\ Open
  /\ IF Logicals # {} /\ Targets = {}
       THEN reason' = "EMPTY_TARGET" /\ pc' = "answered" /\ UNCHANGED coordinate
       ELSE Goto("attempt")
  /\ UNCHANGED <<anytime, attempt, transitions, local_repairs, turn, retained, answer>>

BeginAttempt ==
  /\ pc = "attempt"
  /\ attempt < Tries
  /\ attempt' = attempt + 1
  /\ local_repairs' = 0
  /\ IF attempt = 0 THEN UNCHANGED vars ELSE Restart(Main)
  /\ reason' = "TRIES_EXHAUSTED" /\ pc' = "first" /\ UNCHANGED coordinate
  /\ UNCHANGED <<anytime, transitions, turn, retained, answer>>

\* The failed restart belongs to the attempt it would have begun.
RestartOverBudget ==
  /\ pc = "attempt"
  /\ attempt < Tries /\ attempt > 0
  /\ attempt' = attempt + 1
  /\ local_repairs' = 0
  /\ coordinate' \in Exceeded(Unit("restart_work"))
  /\ reason' = "WORK_BUDGET_EXHAUSTED"
  /\ pc' = "finish"
  /\ UNCHANGED <<vars, anytime, transitions, turn, retained, answer>>

AttemptsExhausted ==
  /\ pc = "attempt"
  /\ attempt = Tries
  /\ Goto("finish")
  /\ UNCHANGED <<vars, anytime, attempt, transitions, local_repairs, turn, retained, answer>>

FirstSnapshot ==
  /\ pc = "first"
  /\ Snapshot(Main)
  /\ Goto("poll")
  /\ UNCHANGED <<anytime, attempt, transitions, local_repairs, turn, retained, answer>>

\* Mutant: a stopped snapshot passes for a transition without effect.
SnapshotOverBudgetIgnored ==
  /\ pc \in {"first", "poll", "before", "after", "repaired"}
  /\ Exceeded(SnapshotCharge(Main)) # {}
  /\ Goto("control")
  /\ UNCHANGED <<vars, anytime, attempt, transitions, local_repairs, turn, retained, answer>>

\* Any snapshot of the loop, when the ledger does not cover it.
SnapshotOverBudget ==
  /\ pc \in {"first", "poll", "before", "after", "repaired"}
  /\ StopForBudget(SnapshotCharge(Main))

Eligible == EligibleVariables(chains[Main], occupancy[Main])

\* Anytime mode refines a valid state: then any variable may be chosen.
Selectable == IF Eligible = {} /\ anytime /\ Valid THEN Logicals ELSE Eligible

NextAttempt(why) == reason' = why /\ pc' = "attempt" /\ UNCHANGED coordinate

\* Mutant: the last transition is not counted against the limit.
ContinueLate ==
  IF Valid /\ ~anytime
    THEN Terminate("SUCCESS")
  ELSE IF transitions > MaxTransitions
    THEN Terminate("TRANSITION_LIMIT")
  ELSE IF Selectable = {}
    THEN IF Valid THEN Terminate("SUCCESS") ELSE NextAttempt("NO_CANDIDATE")
  ELSE Goto("before")

\* What the loop does with the state it has just seen, before a transition.
Continue ==
  IF Valid /\ ~anytime
    THEN Terminate("SUCCESS")
  ELSE IF transitions >= MaxTransitions
    THEN Terminate("TRANSITION_LIMIT")
  ELSE IF Selectable = {}
    THEN IF Valid THEN Terminate("SUCCESS") ELSE NextAttempt("NO_CANDIDATE")
  ELSE Goto("before")

Poll ==
  /\ pc = "poll"
  /\ Snapshot(Main)
  /\ \/ HasTimeout /\ Terminate("TIMEOUT") /\ UNCHANGED retained
     \/ Continue /\ IF Valid THEN Retain ELSE UNCHANGED retained
  /\ UNCHANGED <<anytime, attempt, transitions, local_repairs, turn, answer>>

(***************************************************************************)
(* One transition.                                                         *)
(***************************************************************************)
\* transition() takes its own snapshot, then the selector chooses.
Before ==
  /\ pc = "before"
  /\ Snapshot(Main)
  /\ \E l \in Selectable : logical' = l
  /\ Goto("propose")
  /\ UNCHANGED <<anytime, attempt, transitions, local_repairs, batch, offered, queries,
                 retained, answer>>

\* The provider asks for the decision width or for a wider applicable batch.
ProposeBatch ==
  /\ pc = "propose"
  /\ Propose(Main, logical) \/ ProposeApplicable(Main, logical)
  /\ batch' = Handle(Main, logical, next_token[Main])
  /\ offered' = (outstanding'[Main].candidates # {})
  /\ queries' = 0
  /\ Goto(IF offered' THEN "score" ELSE "resolve")
  /\ UNCHANGED <<anytime, attempt, transitions, local_repairs, logical, retained, answer>>

ProposeStopsForBudget ==
  /\ pc = "propose"
  /\ \/ StopForBudget(Unit("decisions"))
     \/ \E stop \in Stops(chains[Main], logical) :
          /\ ProposeOverBudget(Main, logical, stop)
          /\ coordinate' \in Exceeded(stop[2])
          /\ reason' = "WORK_BUDGET_EXHAUSTED"
          /\ pc' = "finish"
          /\ UNCHANGED <<anytime, attempt, transitions, local_repairs, turn, retained,
                         answer>>

\* quality_v2 compares the session with the snapshot it was given and asks
\* for the validity of every candidate.
ScorerAsks ==
  /\ pc = "score"
  /\ queries < ScorerQueries
  /\ Snapshot(Main) \/ CandidateIsValid(Main, batch)
  /\ queries' = queries + 1
  /\ Goto("score")
  /\ UNCHANGED <<anytime, attempt, transitions, local_repairs, logical, batch, offered,
                 retained, answer>>

\* Mutant: the proposal is left to the caller.
ScorerKeepsProposal ==
  /\ pc = "score"
  /\ queries < ScorerQueries
  /\ StopForBudget(SnapshotCharge(Main))

\* The scorer's budget error: the proposal is discarded, which pays its
\* decision, and the error ends the search.
ScorerOverBudget ==
  /\ pc = "score"
  /\ queries < ScorerQueries
  /\ coordinate' \in Exceeded(SnapshotCharge(Main)) \cup Exceeded(Unit("validator_calls"))
  /\ Discard(Main, batch)
  /\ reason' = "WORK_BUDGET_EXHAUSTED"
  /\ pc' = "finish"
  /\ UNCHANGED <<anytime, attempt, transitions, local_repairs, turn, retained, answer>>

\* Any other exception of the scorer or of the acceptance policy.
PolicyRaises ==
  /\ pc = "score"
  /\ Discard(Main, batch)
  /\ Goto("raised")
  /\ UNCHANGED <<anytime, attempt, transitions, local_repairs, turn, retained, answer>>

\* Without candidates there is nothing to choose; otherwise the policy may
\* take one or none.
Choose ==
  /\ \/ pc \in {"score", "resolve"} /\ Discard(Main, batch)
     \/ pc = "score" /\ Apply(Main, batch)
  /\ Goto("after")
  /\ UNCHANGED <<anytime, attempt, transitions, local_repairs, turn, retained, answer>>

\* Mutant: a batch without candidates is not counted as a transition.
AfterCandidatesOnly ==
  /\ pc = "after"
  /\ Snapshot(Main)
  /\ transitions' = transitions + (IF offered THEN 1 ELSE 0)
  /\ \/ HasTimeout /\ Terminate("TIMEOUT") /\ UNCHANGED retained
     \/ /\ IF Valid THEN Retain ELSE UNCHANGED retained
        /\ IF Valid /\ ~anytime THEN Terminate("SUCCESS") ELSE Goto("control")
  /\ UNCHANGED <<anytime, attempt, local_repairs, turn, answer>>

\* The snapshot that ends a transition; only now is the transition counted.
After ==
  /\ pc = "after"
  /\ Snapshot(Main)
  /\ transitions' = transitions + 1
  /\ \/ HasTimeout /\ Terminate("TIMEOUT") /\ UNCHANGED retained
     \/ /\ IF Valid THEN Retain ELSE UNCHANGED retained
        /\ IF Valid /\ ~anytime THEN Terminate("SUCCESS") ELSE Goto("control")
  /\ UNCHANGED <<anytime, attempt, local_repairs, turn, answer>>

(***************************************************************************)
(* Control and repair.                                                     *)
(***************************************************************************)
\* The control policy says continue, restart or stop; a restart, or a batch
\* without candidates, is repaired locally while repairs are left.
Control ==
  /\ pc = "control"
  /\ \E decision \in {"continue", "restart", "stop"} :
       LET wants_repair == decision = "restart" \/ ~offered
           repairs_left == local_repairs < MaxLocalRepairs
       IN
       \/ decision = "stop" /\ Terminate("CONTROL_STOP")
       \/ decision # "stop" /\ wants_repair /\ repairs_left /\ Goto("repair")
       \/ /\ decision # "stop" /\ wants_repair /\ ~repairs_left
          /\ IF offered THEN Goto("attempt") ELSE NextAttempt("NO_CANDIDATE")
       \/ decision = "continue" /\ ~wants_repair /\ Goto("poll")
  /\ UNCHANGED <<vars, anytime, attempt, transitions, local_repairs, turn, retained, answer>>

Repair ==
  /\ pc = "repair"
  /\ \E selected \in SUBSET Logicals : Perturb(Main, selected)
  /\ Goto("repaired")
  /\ UNCHANGED <<anytime, attempt, transitions, local_repairs, turn, retained, answer>>

RepairOverBudget == pc = "repair" /\ StopForBudget(Unit("restart_work"))

Repaired ==
  /\ pc = "repaired"
  /\ Snapshot(Main)
  /\ local_repairs' = local_repairs + 1
  /\ Goto("poll")
  /\ UNCHANGED <<anytime, attempt, transitions, turn, retained, answer>>

(***************************************************************************)
(* The verdict.                                                            *)
(***************************************************************************)
\* run_search compares the two counts of consumed decisions and raises
\* when they differ.
Finish ==
  /\ pc = "finish"
  /\ Goto(IF work[Main]["decisions"] # transitions THEN "disagreed" ELSE "report")
  /\ UNCHANGED <<vars, anytime, attempt, transitions, local_repairs, turn, retained, answer>>

\* Mutant: the last validation is not compared with the ledger.
ReportUnpaid ==
  /\ pc = "report"
  /\ UNCHANGED <<retained, verdict>>
  /\ answer' = IF success THEN incumbents[best].chains ELSE None
  /\ pc' = "answered"
  /\ UNCHANGED <<vars, anytime, attempt, transitions, local_repairs, turn>>

\* find_embedding pays for one more validation and returns the best state,
\* unless the ledger has none left or the validator refuses it.
Report ==
  /\ pc = "report"
  /\ IF success /\ work[Main]["validator_calls"] >= WorkLimits["validator_calls"]
       THEN /\ success' = FALSE /\ best' = 0 /\ UNCHANGED incumbents
            /\ reason' = "WORK_BUDGET_EXHAUSTED" /\ coordinate' = "validator_calls"
            /\ pc' = "answered"
            /\ UNCHANGED answer
       ELSE /\ UNCHANGED <<retained, verdict>>
            /\ answer' = IF success /\ IsEmbedding(incumbents[best].chains)
                           THEN incumbents[best].chains ELSE None
            /\ pc' = IF success /\ answer' = None THEN "raised" ELSE "answered"
  /\ UNCHANGED <<vars, anytime, attempt, transitions, local_repairs, turn>>

LoopNext ==
  \/ OpenSession
  \/ BeginAttempt \/ RestartOverBudget \/ AttemptsExhausted
  \/ FirstSnapshot \/ SnapshotOverBudget \/ Poll
  \/ Before \/ ProposeBatch \/ ProposeStopsForBudget
  \/ ScorerAsks \/ ScorerOverBudget \/ PolicyRaises \/ Choose \/ After
  \/ Control \/ Repair \/ RepairOverBudget \/ Repaired
  \/ Finish \/ Report

LoopSpec == LoopInit /\ [][LoopNext]_all_vars

\* A single thread runs the search: while it can take a step it does.
FairLoopSpec == LoopSpec /\ WF_all_vars(LoopNext)

(***************************************************************************)
(* Properties.                                                             *)
(***************************************************************************)
Labels == {"open", "attempt", "first", "poll", "before", "propose", "score", "resolve",
           "after", "control", "repair", "repaired", "finish", "report",
           "answered", "raised", "disagreed"}

Reasons == {"SUCCESS", "TIMEOUT", "TRANSITION_LIMIT", "EMPTY_TARGET", "NO_CANDIDATE",
            "TRIES_EXHAUSTED", "CONTROL_STOP", "WORK_BUDGET_EXHAUSTED"}

Incumbents == [chains : Assignments, value : Values]

\* Every variable of the loop has its type; the counters respect the options.
LoopTypeOK ==
  /\ TypeOK
  /\ pc \in Labels
  /\ anytime \in BOOLEAN /\ offered \in BOOLEAN /\ success \in BOOLEAN
  /\ attempt \in 0 .. Tries
  /\ transitions \in 0 .. MaxTransitions
  /\ local_repairs \in 0 .. MaxLocalRepairs
  /\ logical \in Logicals \cup {None}
  /\ batch \in Handles \cup {None}
  /\ queries \in 0 .. ScorerQueries
  /\ incumbents \in Seq(Incumbents)
  /\ best \in 0 .. Len(incumbents)
  /\ reason \in Reasons
  /\ coordinate \in Coordinates \cup {None}
  /\ answer \in Assignments \cup {None}

Ended == pc \in {"answered", "raised", "disagreed"}

\* The loop holds an outstanding proposal exactly while it scores or
\* resolves one, and its handle is the accepted one: every other ending,
\* the budget and policy errors included, has consumed it.
ProposalOwned ==
  /\ outstanding[Main] # NoBatch <=> pc \in {"score", "resolve"}
  /\ pc \in {"score", "resolve"} => Accepts(Main, batch)

\* The ledger's decisions run ahead of the counted transitions by at most
\* the transition in progress, and only an error may end the search so.
DecisionsLead ==
  LET lead == work[Main]["decisions"] - transitions IN
  /\ lead \in {0, 1}
  /\ lead = 1 => \/ pc \in {"after", "raised"}
                 \/ pc \in {"finish", "disagreed"} /\ reason = "WORK_BUDGET_EXHAUSTED"

\* Validator calls are linear in the decisions taken, whatever the number of
\* tries and repairs: two snapshots to start, four around each decision, and
\* what the scorer asks.
ValidationsBounded ==
  work[Main]["validator_calls"] <=
    2 + (4 + ScorerQueries) * work[Main]["decisions"] + (1 + ScorerQueries)

\* What the caller is told agrees: an embedding if and only if success, a
\* named coordinate if and only if the budget ended it, room for the last
\* validation; and a state that was retained is lost only to that validation.
AnswerConsistent ==
  pc = "answered" =>
    /\ success <=> answer # None
    /\ reason = "WORK_BUDGET_EXHAUSTED" <=> coordinate # None
    /\ success => work[Main]["validator_calls"] < WorkLimits["validator_calls"]
    /\ incumbents # <<>> /\ ~success => coordinate = "validator_calls"
    /\ ~anytime => (success <=> reason = "SUCCESS")

\* The contract: distinct embeddings are collected and the answer is the
\* first of the best, or a refusal.
Status == CASE pc = "answered" -> "answered"
            [] pc \in {"raised", "disagreed"} -> "raised"
            [] OTHER -> "searching"

Contract == INSTANCE EmbeddingContract
  WITH Embeddings <- {c \in Assignments : IsEmbedding(c)},
       NoAnswer <- None, found <- incumbents, status <- Status

MeetsContract == Contract!ContractSpec

\* The RuntimeError of find_embedding never happens: however long ago a state was
\* retained, the independent validator accepts the one that is reported.
ValidatorAgrees == [][pc = "report" => pc' = "answered"]_all_vars

\* Every search ends: in an answer or in an exception of a policy.
Terminates == <>Ended

\* A search that the work budget stops returns its diagnostics with the
\* named coordinate; it does not fail on its own count of decisions.
BudgetStopReturns == pc # "disagreed"
=============================================================================
