------------------------- MODULE SearchLoop_proofs -------------------------
(***************************************************************************)
(* What every search satisfies, for every pair of finite graphs, every     *)
(* limit and every option.  The loop's steps are steps of its session, so  *)
(* the session's invariant IInv is inherited.                              *)
(***************************************************************************)
EXTENDS SearchLoop, SearchSession_proofs, SequenceTheorems

session_rest == <<next_session, chains, occupancy, generation, next_token,
                  outstanding, handles, resolved, inherited>>

LEMMA MainExists == Main \in SessionIds
BY LoopAssumption, SessionAssumption DEF Main, SessionIds

LEMMA SelectableType == Selectable \subseteq Logicals
BY DEF Selectable, Eligible, EligibleVariables

(***************************************************************************)
(* The phases of the loop.                                                 *)
(***************************************************************************)
\* Where the loop holds a session, a variable and a proposal.
Holding ==
  /\ next_session = IF pc = "open" THEN 1 ELSE 2
  /\ pc = "propose" => logical \in Logicals
  /\ pc \in {"score", "resolve"} => batch \in handles

LEMMA MainLive == ASSUME Holding, pc # "open" PROVE Main \in Live
BY DEF Holding, Main, Live

\* Every step of the loop is a step of the session or leaves it alone.
LEMMA LoopStepIsSessionStep ==
  ASSUME IInv, Holding, [LoopNext]_all_vars
  PROVE  [Next]_vars /\ Holding'
<1> USE DEF Terminate, Goto, NextAttempt
<1>1. CASE OpenSession
  <2>1. pc = "open" /\ pc' \in {"attempt", "answered"} /\ Open
    BY <1>1 DEF OpenSession
  <2>2. next_session' = next_session + 1
    BY <2>1 DEF Open, Create
  <2>3. QED
    BY <2>1, <2>2 DEF Next, Holding
<1>2. CASE BeginAttempt
  <2>1. CASE UNCHANGED vars
    BY <1>2, <2>1 DEF BeginAttempt, Holding, vars
  <2>2. CASE Restart(Main)
    BY <1>2, <2>2, MainLive DEF BeginAttempt, Restart, Reassign, Next, Holding
  <2>3. QED
    BY <1>2, <2>1, <2>2 DEF BeginAttempt
<1>3. CASE \/ RestartOverBudget \/ AttemptsExhausted \/ SnapshotOverBudget
           \/ RepairOverBudget \/ Control \/ Finish \/ Report
  <2>1. UNCHANGED vars
    <3>1. CASE RestartOverBudget \/ AttemptsExhausted \/ Finish
      BY <3>1 DEF RestartOverBudget, AttemptsExhausted, Finish
    <3>2. CASE SnapshotOverBudget \/ RepairOverBudget
      BY <3>2 DEF SnapshotOverBudget, RepairOverBudget, StopForBudget
    <3>3. CASE Control
      BY <3>3 DEF Control
    <3>4. CASE Report
      BY <3>4 DEF Report
    <3>5. QED
      BY <1>3, <3>1, <3>2, <3>3, <3>4
  <2>2. CASE Control
    BY <2>1, <2>2 DEF Control, Holding, vars
  <2>3. CASE ~Control
    <3>1. pc # "open" /\ pc' \notin {"open", "propose", "score", "resolve"}
      BY <1>3, <2>3
         DEF RestartOverBudget, AttemptsExhausted, SnapshotOverBudget, RepairOverBudget,
             StopForBudget, Finish, Report
    <3>2. QED
      BY <2>1, <3>1 DEF Holding, vars
  <2>4. QED
    BY <2>2, <2>3
<1>4. CASE FirstSnapshot \/ Poll \/ Before \/ After \/ Repaired
  <2>1. Snapshot(Main) /\ pc # "open"
    BY <1>4 DEF FirstSnapshot, Poll, Before, After, Repaired
  <2>2. pc' \notin {"open", "score", "resolve"}
    BY <1>4 DEF FirstSnapshot, Poll, Continue, Before, After, Repaired
  <2>3. pc' = "propose" => logical' \in Logicals
    BY <1>4, SelectableType DEF FirstSnapshot, Poll, Continue, Before, After, Repaired
  <2>4. QED
    BY <2>1, <2>2, <2>3, MainLive DEF Snapshot, Next, Holding
<1>5. CASE ProposeBatch
  <2>1. pc = "propose" /\ logical \in Logicals /\ Main \in Live
    BY <1>5, MainLive DEF ProposeBatch, Holding
  <2>2. Next
    BY <1>5, <2>1 DEF ProposeBatch, Next
  <2>3. next_session' = next_session /\ batch' \in handles'
    BY <1>5 DEF ProposeBatch, Propose, ProposeApplicable, Offer, Issue
  <2>4. QED
    BY <1>5, <2>1, <2>2, <2>3 DEF ProposeBatch, Holding
<1>6. CASE ProposeStopsForBudget
  <2>1. pc = "propose" /\ logical \in Logicals /\ Main \in Live /\ pc' = "finish"
    BY <1>6, MainLive DEF ProposeStopsForBudget, StopForBudget, Holding
  <2>2. CASE UNCHANGED vars
    BY <2>1, <2>2 DEF Holding, vars
  <2>3. CASE \E stop \in Stops(chains[Main], logical) : ProposeOverBudget(Main, logical, stop)
    BY <2>1, <2>3 DEF ProposeOverBudget, Next, Holding
  <2>4. QED
    BY <1>6, <2>2, <2>3 DEF ProposeStopsForBudget, StopForBudget
<1>7. CASE ScorerAsks
  <2>1. pc = "score" /\ pc' = "score" /\ batch \in handles /\ Main \in Live /\ batch' = batch
    BY <1>7, MainLive DEF ScorerAsks, Holding
  <2>2. CASE Snapshot(Main)
    BY <2>1, <2>2 DEF Snapshot, Next, Holding
  <2>3. CASE CandidateIsValid(Main, batch)
    BY <2>1, <2>3 DEF CandidateIsValid, Next, Holding
  <2>4. QED
    BY <1>7, <2>2, <2>3 DEF ScorerAsks
<1>8. CASE ScorerOverBudget \/ PolicyRaises \/ Choose
  <2>1. /\ pc \in {"score", "resolve"} /\ batch \in handles /\ Main \in Live
        /\ pc' \in {"finish", "raised", "after"}
    BY <1>8, MainLive DEF ScorerOverBudget, PolicyRaises, Choose, Holding
  <2>2. CASE Discard(Main, batch)
    BY <2>1, <2>2 DEF Discard, Next, Holding
  <2>3. CASE Apply(Main, batch)
    BY <2>1, <2>3 DEF Apply, Next, Holding
  <2>4. QED
    BY <1>8, <2>2, <2>3 DEF ScorerOverBudget, PolicyRaises, Choose
<1>9. CASE Repair
  BY <1>9, MainLive DEF Repair, Perturb, Reassign, Next, Holding
<1>10. CASE UNCHANGED all_vars
  BY <1>10 DEF all_vars, vars, loop_vars, turn, retained, verdict, Holding
<1>11. QED
  BY <1>1, <1>2, <1>3, <1>4, <1>5, <1>6, <1>7, <1>8, <1>9, <1>10 DEF LoopNext

LEMMA LoopSessionInvariant == LoopSpec => [](IInv /\ Holding)
<1>1. LoopInit => IInv /\ Holding
  BY InitInvariant DEF LoopInit, Init, Holding
<1>2. IInv /\ Holding /\ [LoopNext]_all_vars => IInv' /\ Holding'
  BY LoopStepIsSessionStep, StepInvariant
<1>3. QED
  BY <1>1, <1>2, PTL DEF LoopSpec

\* run_search uses its session only through the public operations, and with
\* handles it was given: every search is a behaviour of the session.
THEOREM LoopImplementsSession == LoopSpec => Spec
<1>1. LoopInit => Init
  BY DEF LoopInit
<1>2. IInv /\ Holding /\ [LoopNext]_all_vars => [Next]_vars
  BY LoopStepIsSessionStep
<1>3. QED
  BY <1>1, <1>2, LoopSessionInvariant, PTL DEF LoopSpec, Spec

(***************************************************************************)
(* What a native call does to the ledger and to the proposal.              *)
(***************************************************************************)
Spent(k) == work[Main][k]

LEMMA SpentType == ASSUME IInv PROVE \A k \in Coordinates : Spent(k) \in Nat
BY MainExists DEF IInv, TypeOK, Spent

LEMMA ChargeEffect ==
  ASSUME IInv, NEW charge \in Ledgers, Charge(Main, charge)
  PROVE  \A k \in Coordinates : Spent(k)' = Spent(k) + charge[k]
<1>1. work'[Main] = [k \in Coordinates |-> work[Main][k] + charge[k]]
  BY MainExists, ChargeType DEF IInv
<1>2. QED
  BY <1>1 DEF Spent

LEMMA SnapshotEffect ==
  ASSUME IInv, Snapshot(Main)
  PROVE  /\ UNCHANGED session_rest
         /\ Spent("decisions")' = Spent("decisions")
         /\ Spent("validator_calls")' = Spent("validator_calls") + 1
<1>1. /\ SnapshotCharge(Main)["decisions"] = 0
      /\ SnapshotCharge(Main)["validator_calls"] = 1
  BY CoordinatesNamed DEF SnapshotCharge, NoCharge, Coordinates
<1>2. \A k \in Coordinates : Spent(k)' = Spent(k) + SnapshotCharge(Main)[k]
  BY SnapshotChargeType, ChargeEffect DEF Snapshot
<1>3. QED
  BY <1>1, <1>2, SpentType, CoordinatesNamed DEF Snapshot, session_rest

LEMMA UnitEffect ==
  ASSUME IInv, NEW k \in Coordinates, Charge(Main, Unit(k))
  PROVE  /\ Spent(k)' = Spent(k) + 1
         /\ \A j \in Coordinates \ {k} : Spent(j)' = Spent(j)
<1>1. \A j \in Coordinates : Spent(j)' = Spent(j) + Unit(k)[j]
  BY UnitCharge, ChargeEffect
<1>2. \A j \in Coordinates : Unit(k)[j] = IF j = k THEN 1 ELSE 0
  BY DEF Unit, NoCharge
<1>3. QED
  BY <1>1, <1>2, SpentType

LEMMA AskEffect ==
  ASSUME IInv, CandidateIsValid(Main, batch)
  PROVE  /\ UNCHANGED session_rest
         /\ Spent("decisions")' = Spent("decisions")
         /\ Spent("validator_calls")' = Spent("validator_calls") + 1
BY UnitEffect, CoordinatesNamed DEF CandidateIsValid, session_rest

LEMMA ResolveEffect ==
  ASSUME IInv, Discard(Main, batch) \/ Apply(Main, batch)
  PROVE  /\ outstanding'[Main] = NoBatch
         /\ Spent("decisions")' = Spent("decisions") + 1
         /\ Spent("validator_calls")' = Spent("validator_calls")
<1>1. Charge(Main, Unit("decisions")) /\ outstanding' = [outstanding EXCEPT ![Main] = NoBatch]
  BY DEF Discard, Apply
<1>2. outstanding'[Main] = NoBatch
  BY <1>1, MainExists DEF IInv, TypeOK
<1>3. QED
  BY <1>1, <1>2, UnitEffect, CoordinatesNamed

LEMMA ReassignEffect ==
  ASSUME IInv, NEW c, NEW occ, Reassign(Main, c, occ)
  PROVE  /\ outstanding'[Main] = NoBatch
         /\ Spent("decisions")' = Spent("decisions")
         /\ Spent("validator_calls")' = Spent("validator_calls")
<1>1. Charge(Main, Unit("restart_work")) /\ outstanding' = [outstanding EXCEPT ![Main] = NoBatch]
  BY DEF Reassign
<1>2. outstanding'[Main] = NoBatch
  BY <1>1, MainExists DEF IInv, TypeOK
<1>3. QED
  BY <1>1, <1>2, UnitEffect, CoordinatesNamed

LEMMA PaidValidatesNothing ==
  \A routes, built, ranked : Paid(routes, built, ranked)["validator_calls"] = 0
BY CoordinatesNamed DEF Paid, NoCharge, Coordinates

\* A proposal pays neither decisions nor validations; its handle is the one
\* the session accepts.
LEMMA ProposeEffect ==
  ASSUME IInv, logical \in Logicals, Propose(Main, logical) \/ ProposeApplicable(Main, logical),
         batch' = Handle(Main, logical, next_token[Main])
  PROVE  /\ outstanding'[Main] # NoBatch
         /\ Accepts(Main, batch)'
         /\ Spent("decisions")' = Spent("decisions")
         /\ Spent("validator_calls")' = Spent("validator_calls")
<1>0. PICK F \in FoundChains(chains[Main], logical) :
        /\ Charge(Main, ProposalCharge(chains[Main], logical, F))
        /\ \E B \in SUBSET F : Issue(Main, logical, B)
  BY DEF Propose, ProposeApplicable, Offer, Truncations
<1>1. PICK B \in SUBSET F :
        /\ Charge(Main, ProposalCharge(chains[Main], logical, F))
        /\ Issue(Main, logical, B)
  BY <1>0
<1>2. \A k \in Coordinates :
        Spent(k)' = Spent(k) + ProposalCharge(chains[Main], logical, F)[k]
  BY <1>1, ProposalChargeType, ChargeEffect
<1>3. /\ ProposalCharge(chains[Main], logical, F)["decisions"] = 0
      /\ ProposalCharge(chains[Main], logical, F)["validator_calls"] = 0
  BY NoDecision, PaidValidatesNothing DEF ProposalCharge
<1>4. outstanding'[Main] = [generation |-> generation[Main], token |-> next_token[Main],
                            logical |-> logical, candidates |-> B]
  BY <1>1, MainExists DEF Issue, IInv, TypeOK
<1>5. outstanding'[Main] \in Batches
  <2>1. B \subseteq Chains
    BY <1>1, SingletonIsChain DEF FoundChains, RoutedChains
  <2>2. generation[Main] \in Nat /\ next_token[Main] \in Nat
    BY MainExists DEF IInv, TypeOK
  <2>3. QED
    BY <1>4, <2>1, <2>2 DEF Batches
<1>6. outstanding'[Main] # NoBatch
  BY <1>5, SessionAssumption
<1>7. Accepts(Main, batch)'
  BY <1>4, <1>6 DEF Accepts, Handle
<1>8. QED
  BY <1>2, <1>3, <1>6, <1>7, SpentType, CoordinatesNamed

LEMMA StopEffect ==
  ASSUME IInv, logical \in Logicals, NEW stop \in Stops(chains[Main], logical),
         ProposeOverBudget(Main, logical, stop)
  PROVE  /\ UNCHANGED session_rest
         /\ Spent("decisions")' = Spent("decisions")
         /\ Spent("validator_calls")' = Spent("validator_calls")
<1>1. CASE stop[1] = NoCharge
  <2>1. NoCharge \in Ledgers /\ NoCharge["decisions"] = 0 /\ NoCharge["validator_calls"] = 0
    BY CoordinatesNamed DEF NoCharge, Ledgers
  <2>2. \A k \in Coordinates : Spent(k)' = Spent(k) + NoCharge[k]
    BY <1>1, <2>1, ChargeEffect DEF ProposeOverBudget
  <2>3. QED
    BY <2>1, <2>2, SpentType, CoordinatesNamed DEF ProposeOverBudget, session_rest
<1>2. ASSUME NEW n \in Nat, NEW built \in Nat, NEW ranked \in Nat,
             stop[1] = Paid(n, built, ranked)
      PROVE  /\ UNCHANGED session_rest
             /\ Spent("decisions")' = Spent("decisions")
             /\ Spent("validator_calls")' = Spent("validator_calls")
  <2>1. \A k \in Coordinates : Spent(k)' = Spent(k) + Paid(n, built, ranked)[k]
    BY <1>2, PaidCharge, ChargeEffect DEF ProposeOverBudget
  <2>2. QED
    BY <2>1, NoDecision, PaidValidatesNothing, SpentType, CoordinatesNamed
       DEF ProposeOverBudget, session_rest
<1>3. QED
  BY <1>1, <1>2, StopType

(***************************************************************************)
(* Types and options.                                                      *)
(***************************************************************************)
\* The counters are below their options wherever they may still grow.
Bounded ==
  /\ pc = "open" => transitions = 0
  /\ pc \in {"before", "propose", "score", "resolve", "after"} => transitions < MaxTransitions
  /\ pc \in {"repair", "repaired"} => local_repairs < MaxLocalRepairs
  /\ success => best # 0

LEMMA RetainType ==
  ASSUME IInv, LoopTypeOK, success => best # 0, Retain \/ UNCHANGED retained
  PROVE  /\ incumbents' \in Seq(Incumbents)
         /\ best' \in 0 .. Len(incumbents')
         /\ success' \in BOOLEAN
         /\ success' => best' # 0
<1>1. CASE UNCHANGED retained
  BY <1>1 DEF retained, LoopTypeOK
<1>2. ASSUME NEW v \in Values,
             incumbents' = Append(incumbents, [chains |-> chains[Main], value |-> v]),
             success' = TRUE,
             best' = IF best = 0 THEN 1
                     ELSE IF v > incumbents[best].value THEN Len(incumbents) + 1 ELSE best
      PROVE  /\ incumbents' \in Seq(Incumbents)
             /\ best' \in 0 .. Len(incumbents')
             /\ success' \in BOOLEAN
             /\ success' => best' # 0
  <2>1. [chains |-> chains[Main], value |-> v] \in Incumbents
    BY MainExists DEF Incumbents, IInv, TypeOK
  <2>2. incumbents \in Seq(Incumbents) /\ best \in 0 .. Len(incumbents)
    BY DEF LoopTypeOK
  <2>3. incumbents' \in Seq(Incumbents) /\ Len(incumbents') = Len(incumbents) + 1
    BY <1>2, <2>1, <2>2
  <2>4. best' \in 1 .. Len(incumbents')
    BY <1>2, <2>2, <2>3
  <2>5. QED
    BY <1>2, <2>3, <2>4
<1>3. QED
  BY <1>1, <1>2 DEF Retain

LEMMA LoopTypeStep ==
  ASSUME IInv, IInv', Holding, Holding', LoopTypeOK, Bounded, [LoopNext]_all_vars
  PROVE  LoopTypeOK' /\ Bounded'
<1> USE DEF LoopTypeOK, Bounded, Terminate, Goto, NextAttempt, Labels, Reasons, verdict, turn,
            retained
<1>0. /\ TypeOK' /\ Tries \in Nat \ {0} /\ MaxTransitions \in Nat
      /\ MaxLocalRepairs \in Nat /\ ScorerQueries \in Nat
  BY LoopAssumption DEF IInv
<1>1. CASE OpenSession
  BY <1>0, <1>1 DEF OpenSession
<1>2. CASE BeginAttempt \/ AttemptsExhausted
  BY <1>0, <1>2 DEF BeginAttempt, AttemptsExhausted
<1>3. CASE RestartOverBudget
  BY <1>0, <1>3 DEF RestartOverBudget, Exceeded
<1>4. CASE FirstSnapshot \/ Repair \/ Repaired
  BY <1>0, <1>4 DEF FirstSnapshot, Repair, Repaired
<1>5. CASE SnapshotOverBudget \/ RepairOverBudget
  BY <1>0, <1>5 DEF SnapshotOverBudget, RepairOverBudget, StopForBudget, Exceeded
<1>6. CASE Poll
  <2>1. Retain \/ UNCHANGED retained
    BY <1>6 DEF Poll
  <2>2. /\ incumbents' \in Seq(Incumbents)
        /\ best' \in 0 .. Len(incumbents')
        /\ success' \in BOOLEAN
        /\ success' => best' # 0
    BY <2>1, RetainType
  <2>3. /\ pc' \in {"finish", "attempt", "before"} /\ reason' \in Reasons
        /\ pc' = "before" => transitions < MaxTransitions
        /\ UNCHANGED coordinate
    BY <1>0, <1>6 DEF Poll, Continue
  <2>4. QED
    BY <1>0, <1>6, <2>2, <2>3 DEF Poll
<1>7. CASE Before
  BY <1>0, <1>7, SelectableType DEF Before
<1>8. CASE ProposeBatch
  <2>1. offered' \in BOOLEAN
    <3>1. offered' = (outstanding'[Main].candidates # {})
      BY <1>8 DEF ProposeBatch
    <3>2. QED
      BY <3>1, Zenon
  <2>2. pc = "propose" /\ pc' \in {"score", "resolve"} /\ UNCHANGED verdict
    BY <1>8 DEF ProposeBatch
  <2>3. batch' \in Handles
    BY <1>0, <2>2 DEF Holding, TypeOK
  <2>4. QED
    BY <1>0, <1>8, <2>1, <2>2, <2>3 DEF ProposeBatch
<1>9. CASE ProposeStopsForBudget
  BY <1>0, <1>9 DEF ProposeStopsForBudget, StopForBudget, Exceeded
<1>10. CASE ScorerAsks
  BY <1>0, <1>10 DEF ScorerAsks
<1>11. CASE ScorerOverBudget
  BY <1>0, <1>11 DEF ScorerOverBudget, Exceeded
<1>12. CASE PolicyRaises \/ Choose
  BY <1>0, <1>12 DEF PolicyRaises, Choose
<1>13. CASE After
  <2>1. Retain \/ UNCHANGED retained
    BY <1>13 DEF After
  <2>2. /\ incumbents' \in Seq(Incumbents)
        /\ best' \in 0 .. Len(incumbents')
        /\ success' \in BOOLEAN
        /\ success' => best' # 0
    BY <2>1, RetainType
  <2>3. /\ pc' \in {"finish", "control"} /\ reason' \in Reasons
        /\ UNCHANGED coordinate
    BY <1>0, <1>13 DEF After
  <2>4. QED
    BY <1>0, <1>13, <2>2, <2>3 DEF After
<1>14. CASE Control
  BY <1>0, <1>14 DEF Control
<1>15. CASE Finish
  BY <1>0, <1>15 DEF Finish
<1>16. CASE Report
  <2>1. success => incumbents[best].chains \in Assignments
    <3>1. SUFFICES ASSUME success PROVE incumbents[best].chains \in Assignments
      OBVIOUS
    <3>2. best \in 1 .. Len(incumbents)
      BY <3>1
    <3>3. incumbents[best] \in Incumbents
      BY <3>2
    <3>4. QED
      BY <3>3 DEF Incumbents
  <2>2. CASE success /\ work[Main]["validator_calls"] >= WorkLimits["validator_calls"]
    <3>1. /\ success' = FALSE /\ best' = 0 /\ UNCHANGED <<incumbents, answer>>
          /\ reason' = "WORK_BUDGET_EXHAUSTED" /\ coordinate' = "validator_calls"
          /\ pc' = "answered"
          /\ UNCHANGED <<anytime, attempt, transitions, local_repairs, turn>>
      BY <1>16, <2>2 DEF Report
    <3>2. best' \in 0 .. Len(incumbents')
      BY <3>1
    <3>3. QED
      BY <1>0, <3>1, <3>2, CoordinatesNamed
  <2>3. CASE ~(success /\ work[Main]["validator_calls"] >= WorkLimits["validator_calls"])
    <3>1. /\ UNCHANGED <<incumbents, best, success, reason, coordinate>>
          /\ UNCHANGED <<anytime, attempt, transitions, local_repairs, turn>>
          /\ answer' = IF success /\ IsEmbedding(incumbents[best].chains)
                         THEN incumbents[best].chains ELSE None
          /\ pc' \in {"raised", "answered"}
      BY <1>16, <2>3 DEF Report
    <3>2. answer' \in Assignments \cup {None}
      BY <2>1, <3>1
    <3>3. QED
      BY <1>0, <3>1, <3>2
  <2>4. QED
    BY <2>2, <2>3
<1>17. CASE UNCHANGED all_vars
  BY <1>0, <1>17 DEF all_vars, loop_vars
<1>18. QED
  BY <1>1, <1>2, <1>3, <1>4, <1>5, <1>6, <1>7, <1>8, <1>9, <1>10, <1>11, <1>12, <1>13,
     <1>14, <1>15, <1>16, <1>17 DEF LoopNext

(***************************************************************************)
(* The invariant the loop keeps.                                           *)
(***************************************************************************)
LEMMA LoopInitTyped == LoopInit => LoopTypeOK /\ Bounded
<1> SUFFICES ASSUME LoopInit PROVE LoopTypeOK /\ Bounded
  OBVIOUS
<1>1. TypeOK
  BY InitInvariant DEF LoopInit, IInv
<1>2. /\ pc = "open" /\ anytime \in BOOLEAN /\ attempt = 0 /\ transitions = 0
      /\ local_repairs = 0 /\ logical = None /\ batch = None /\ offered = FALSE
      /\ queries = 0 /\ incumbents = <<>> /\ best = 0 /\ success = FALSE
      /\ reason = "TRIES_EXHAUSTED" /\ coordinate = None /\ answer = None
  BY DEF LoopInit
<1>3. /\ incumbents \in Seq(Incumbents) /\ best \in 0 .. Len(incumbents)
  BY <1>2
<1>4. /\ attempt \in 0 .. Tries /\ transitions \in 0 .. MaxTransitions
      /\ local_repairs \in 0 .. MaxLocalRepairs /\ queries \in 0 .. ScorerQueries
  BY <1>2, LoopAssumption
<1>5. pc \in Labels /\ reason \in Reasons
  BY <1>2 DEF Labels, Reasons
<1>6. offered \in BOOLEAN /\ success \in BOOLEAN
  BY <1>2
<1>7. LoopTypeOK
  BY <1>1, <1>2, <1>3, <1>4, <1>5, <1>6 DEF LoopTypeOK
<1>8. Bounded
  BY <1>2 DEF Bounded
<1>9. QED
  BY <1>7, <1>8

LEMMA LoopInvariance == LoopSpec => [](IInv /\ Holding /\ LoopTypeOK /\ Bounded)
<1>1. LoopInit => IInv /\ Holding
  BY InitInvariant DEF LoopInit, Init, Holding
<1>2. LoopInit => LoopTypeOK /\ Bounded
  BY LoopInitTyped
<1>3. IInv /\ Holding /\ [LoopNext]_all_vars => IInv' /\ Holding'
  BY LoopStepIsSessionStep, StepInvariant
<1>4. IInv /\ Holding /\ LoopTypeOK /\ Bounded /\ [LoopNext]_all_vars
        => LoopTypeOK' /\ Bounded'
  BY <1>3, LoopTypeStep
<1>5. QED
  BY <1>1, <1>2, <1>3, <1>4, PTL DEF LoopSpec

\* The search respects its options on every path: its counters stop at Tries,
\* MaxTransitions and MaxLocalRepairs, and the best index names a retained
\* state (run_search's loop tests, _search_loop.py).
THEOREM LoopTypeCorrect == LoopSpec => []LoopTypeOK
BY LoopInvariance, PTL

(***************************************************************************)
(* Proposals and decisions.                                                *)
(***************************************************************************)
\* What the two counts of decisions say at each phase: while the closing
\* snapshot of a transition is due the ledger is ahead by exactly one.
Paced ==
  /\ ProposalOwned
  /\ DecisionsLead
  /\ pc = "after" => Spent("decisions") = transitions + 1
  /\ pc = "open" => Spent("decisions") = 0

LEMMA Balanced ==
  ASSUME Paced, IInv, LoopTypeOK, pc \notin {"after", "raised", "finish", "disagreed"}
  PROVE  Spent("decisions") = transitions
<1>1. Spent("decisions") \in Nat /\ transitions \in Nat
  BY SpentType, CoordinatesNamed DEF LoopTypeOK
<1>2. QED
  BY <1>1 DEF Paced, DecisionsLead, Spent

\* A step that leaves both counts alone, between phases without a proposal.
LEMMA QuietStep ==
  ASSUME Paced, IInv, LoopTypeOK, LoopTypeOK',
         Spent("decisions")' = Spent("decisions"), transitions' = transitions,
         pc \notin {"open", "score", "resolve", "after", "raised", "finish", "disagreed"},
         outstanding'[Main] = NoBatch,
         pc' \notin {"open", "score", "resolve", "after"}
  PROVE  Paced'
<1>1. Spent("decisions")' = transitions' /\ transitions' \in Nat
  BY Balanced DEF LoopTypeOK
<1>2. ProposalOwned'
  BY DEF ProposalOwned
<1>3. DecisionsLead'
  BY <1>1 DEF DecisionsLead, Spent
<1>4. QED
  BY <1>2, <1>3 DEF Paced

LEMMA PacedStep ==
  ASSUME Paced, IInv, IInv', Holding, LoopTypeOK, LoopTypeOK', Bounded,
         [LoopNext]_all_vars
  PROVE  Paced'
<1> USE DEF Terminate, Goto, NextAttempt, turn, verdict
<1>a. /\ Spent("decisions") \in Nat /\ Spent("decisions")' \in Nat
      /\ transitions \in Nat /\ transitions' \in Nat
  <2>1. Spent("decisions") \in Nat
    BY SpentType, CoordinatesNamed
  <2>2. work' \in [SessionIds -> [Coordinates -> Nat]]
    BY DEF IInv, TypeOK
  <2>3. Spent("decisions")' \in Nat
    BY <2>2, CoordinatesNamed, MainExists DEF Spent
  <2>4. transitions \in Nat /\ transitions' \in Nat
    BY LoopAssumption DEF LoopTypeOK
  <2>5. QED
    BY <2>1, <2>3, <2>4
<1>b. pc \notin {"score", "resolve"} => outstanding[Main] = NoBatch
  BY DEF Paced, ProposalOwned
<1>1. CASE OpenSession
  <2>1. /\ pc = "open" /\ pc' \in {"attempt", "answered"} /\ transitions' = 0
        /\ next_session = Main
    BY <1>1 DEF OpenSession, Bounded, Holding, Main
  <2>2. work'[Main] = NoCharge /\ outstanding'[Main] = NoBatch
    BY <1>1, <2>1, MainExists DEF OpenSession, Open, Create, IInv, TypeOK
  <2>3. Spent("decisions")' = 0
    BY <2>2, CoordinatesNamed DEF Spent, NoCharge
  <2>4. QED
    BY <2>1, <2>2, <2>3 DEF Paced, ProposalOwned, DecisionsLead, Spent
<1>2. CASE BeginAttempt
  <2>1. /\ pc = "attempt" /\ pc' = "first" /\ transitions' = transitions
        /\ UNCHANGED vars \/ Restart(Main)
    BY <1>2 DEF BeginAttempt
  <2>2. Spent("decisions")' = Spent("decisions") /\ outstanding'[Main] = NoBatch
    BY <1>b, <2>1, ReassignEffect DEF Restart, vars, Spent
  <2>3. QED
    BY <2>1, <2>2, QuietStep
<1>3. CASE RestartOverBudget \/ AttemptsExhausted \/ RepairOverBudget \/ Control \/ Report
  <2>1. UNCHANGED vars /\ transitions' = transitions
    BY <1>3 DEF RestartOverBudget, AttemptsExhausted, RepairOverBudget, StopForBudget, Control,
                Report
  <2>2. /\ pc \in {"attempt", "repair", "control", "report"}
        /\ pc' \in {"finish", "repair", "attempt", "poll", "answered", "raised"}
    BY <1>3 DEF RestartOverBudget, AttemptsExhausted, RepairOverBudget, StopForBudget, Control,
                Report
  <2>3. Spent("decisions")' = Spent("decisions") /\ outstanding'[Main] = NoBatch
    BY <1>b, <2>1, <2>2 DEF vars, Spent
  <2>4. QED
    BY <2>1, <2>2, <2>3, QuietStep
<1>4. CASE FirstSnapshot \/ Poll \/ Before \/ Repaired
  <2>1. /\ Snapshot(Main) /\ transitions' = transitions
        /\ pc \in {"first", "poll", "before", "repaired"}
    BY <1>4 DEF FirstSnapshot, Poll, Before, Repaired
  <2>2. pc' \in {"poll", "finish", "attempt", "before", "propose"}
    BY <1>4 DEF FirstSnapshot, Poll, Continue, Before, Repaired
  <2>3. Spent("decisions")' = Spent("decisions") /\ outstanding'[Main] = NoBatch
    BY <1>b, <2>1, SnapshotEffect DEF session_rest
  <2>4. QED
    BY <2>1, <2>2, <2>3, QuietStep
<1>5. CASE SnapshotOverBudget
  <2>1. /\ UNCHANGED vars /\ transitions' = transitions /\ pc' = "finish"
        /\ reason' = "WORK_BUDGET_EXHAUSTED"
        /\ pc \in {"first", "poll", "before", "after", "repaired"}
    BY <1>5 DEF SnapshotOverBudget, StopForBudget
  <2>2. ProposalOwned'
    BY <1>b, <2>1 DEF ProposalOwned, vars
  <2>3. DecisionsLead'
    BY <2>1 DEF Paced, DecisionsLead, vars
  <2>4. QED
    BY <2>1, <2>2, <2>3 DEF Paced
<1>6. CASE ProposeBatch
  <2>1. /\ pc = "propose" /\ pc' \in {"score", "resolve"} /\ transitions' = transitions
        /\ logical \in Logicals
        /\ Propose(Main, logical) \/ ProposeApplicable(Main, logical)
        /\ batch' = Handle(Main, logical, next_token[Main])
    BY <1>6 DEF ProposeBatch, Holding
  <2>2. /\ outstanding'[Main] # NoBatch /\ Accepts(Main, batch)'
        /\ Spent("decisions")' = Spent("decisions")
    BY <2>1, ProposeEffect
  <2>3. Spent("decisions")' = transitions'
    BY <2>1, <2>2, Balanced
  <2>4. ProposalOwned'
    BY <2>1, <2>2 DEF ProposalOwned
  <2>5. DecisionsLead'
    BY <1>a, <2>3 DEF DecisionsLead, Spent
  <2>6. QED
    BY <2>1, <2>4, <2>5 DEF Paced
<1>7. CASE ProposeStopsForBudget
  <2>1. pc = "propose" /\ pc' = "finish" /\ transitions' = transitions /\ logical \in Logicals
    BY <1>7 DEF ProposeStopsForBudget, StopForBudget, Holding
  <2>2. CASE UNCHANGED vars
    BY <1>b, <2>1, <2>2, QuietStep DEF vars, Spent
  <2>3. ASSUME NEW stop \in Stops(chains[Main], logical),
               ProposeOverBudget(Main, logical, stop)
        PROVE  Paced'
    <3>1. UNCHANGED session_rest /\ Spent("decisions")' = Spent("decisions")
      BY <2>1, <2>3, StopEffect
    <3>2. QED
      BY <1>b, <2>1, <3>1, QuietStep DEF session_rest
  <2>4. QED
    BY <1>7, <2>2, <2>3 DEF ProposeStopsForBudget, StopForBudget
<1>8. CASE ScorerAsks
  <2>1. /\ Snapshot(Main) \/ CandidateIsValid(Main, batch)
        /\ pc = "score" /\ pc' = "score" /\ batch' = batch /\ transitions' = transitions
    BY <1>8 DEF ScorerAsks
  <2>2. UNCHANGED session_rest /\ Spent("decisions")' = Spent("decisions")
    BY <2>1, SnapshotEffect, AskEffect
  <2>3. ProposalOwned'
    BY <2>1, <2>2 DEF Paced, ProposalOwned, Accepts, session_rest
  <2>4. DecisionsLead'
    BY <1>a, <2>1, <2>2, Balanced DEF DecisionsLead, Spent
  <2>5. QED
    BY <2>1, <2>3, <2>4 DEF Paced
<1>9. CASE ScorerOverBudget \/ PolicyRaises \/ Choose
  <2>1. /\ Discard(Main, batch) \/ Apply(Main, batch)
        /\ pc \in {"score", "resolve"} /\ transitions' = transitions
        /\ \/ pc' = "finish" /\ reason' = "WORK_BUDGET_EXHAUSTED"
           \/ pc' \in {"raised", "after"}
    BY <1>9 DEF ScorerOverBudget, PolicyRaises, Choose
  <2>2. /\ outstanding'[Main] = NoBatch
        /\ Spent("decisions")' = transitions' + 1
    BY <2>1, ResolveEffect, Balanced
  <2>3. ProposalOwned'
    BY <2>1, <2>2 DEF ProposalOwned
  <2>4. DecisionsLead'
    BY <1>a, <2>1, <2>2 DEF DecisionsLead, Spent
  <2>5. QED
    BY <2>1, <2>2, <2>3, <2>4 DEF Paced
<1>10. CASE After
  <2>1. /\ Snapshot(Main) /\ pc = "after" /\ transitions' = transitions + 1
        /\ pc' \in {"finish", "control"}
    BY <1>10 DEF After
  <2>2. UNCHANGED session_rest /\ Spent("decisions")' = Spent("decisions")
    BY <2>1, SnapshotEffect
  <2>3. Spent("decisions")' = transitions'
    BY <2>1, <2>2 DEF Paced
  <2>4. ProposalOwned'
    BY <1>b, <2>1, <2>2 DEF ProposalOwned, session_rest
  <2>5. DecisionsLead'
    BY <1>a, <2>3 DEF DecisionsLead, Spent
  <2>6. QED
    BY <2>1, <2>4, <2>5 DEF Paced
<1>11. CASE Repair
  <2>1. /\ pc = "repair" /\ pc' = "repaired" /\ transitions' = transitions
        /\ \E selected \in SUBSET Logicals : Perturb(Main, selected)
    BY <1>11 DEF Repair
  <2>2. Spent("decisions")' = Spent("decisions") /\ outstanding'[Main] = NoBatch
    BY <2>1, ReassignEffect DEF Perturb
  <2>3. QED
    BY <2>1, <2>2, QuietStep
<1>12. CASE Finish
  <2>1. /\ UNCHANGED vars /\ transitions' = transitions /\ reason' = reason /\ pc = "finish"
        /\ pc' = IF work[Main]["decisions"] # transitions THEN "disagreed" ELSE "report"
    BY <1>12 DEF Finish
  <2>2. ProposalOwned'
    BY <1>b, <2>1 DEF ProposalOwned, vars
  <2>3. DecisionsLead'
    BY <1>a, <2>1 DEF Paced, DecisionsLead, vars, Spent
  <2>4. QED
    BY <2>1, <2>2, <2>3 DEF Paced
<1>13. CASE UNCHANGED all_vars
  BY <1>13 DEF all_vars, loop_vars, vars, Paced, ProposalOwned, DecisionsLead, Accepts, Spent
<1>14. QED
  BY <1>1, <1>2, <1>3, <1>4, <1>5, <1>6, <1>7, <1>8, <1>9, <1>10, <1>11, <1>12, <1>13
     DEF LoopNext

LEMMA PacedInvariance == LoopSpec => []Paced
<1>1. LoopInit => Paced
  <2> SUFFICES ASSUME LoopInit PROVE Paced
    OBVIOUS
  <2>1. pc = "open" /\ transitions = 0 /\ work[Main] = NoCharge /\ outstanding[Main] = NoBatch
    BY MainExists DEF LoopInit, Init
  <2>2. Spent("decisions") = 0
    BY <2>1, CoordinatesNamed DEF Spent, NoCharge
  <2>3. QED
    BY <2>1, <2>2 DEF Paced, ProposalOwned, DecisionsLead, Spent
<1>2. /\ IInv /\ Holding /\ LoopTypeOK /\ Bounded /\ IInv' /\ LoopTypeOK'
      /\ Paced /\ [LoopNext]_all_vars
      => Paced'
  BY PacedStep
<1>3. QED
  BY <1>1, <1>2, LoopInvariance, PTL DEF LoopSpec

\* Every path out of a transition, the scorer's and the policies' errors
\* included, resolves the proposal it took (_discard_safely and the selected
\* path of SearchOrchestrator.transition).
THEOREM ProposalResolved == LoopSpec => []ProposalOwned
<1>1. Paced => ProposalOwned
  BY DEF Paced
<1>2. QED
  BY <1>1, PacedInvariance, PTL

\* The comparison at the end of run_search can fail only on the way out of a
\* transition that the work budget stopped.
THEOREM CountsAgree == LoopSpec => []DecisionsLead
<1>1. Paced => DecisionsLead
  BY DEF Paced
<1>2. QED
  BY <1>1, PacedInvariance, PTL

(***************************************************************************)
(* Validations.                                                            *)
(***************************************************************************)
\* A state without eligible variables is valid: the counters are exact.
LEMMA NothingEligible == ASSUME IInv, Eligible = {} PROVE Valid
<1>1. /\ chains[Main] \in Assignments
      /\ occupancy[Main] = CountOccupancy(chains[Main])
  BY MainExists DEF IInv, TypeOK, OccupancyCountsClaimants
<1>2. IsEmbedding(chains[Main])
  BY <1>1, NothingLeftIsEmbedding DEF Eligible
<1>3. QED
  BY <1>1, <1>2, VerdictFromCounters DEF Valid

\* The validations of one decision: four snapshots and the scorer's queries.
PerDecision == 4 + ScorerQueries

\* Validations the current transition has taken before its decision is paid;
\* once it is paid, the closing snapshot is owed.
Slack ==
  CASE pc \in {"open", "attempt", "first", "control", "repair", "repaired"} -> 0
    [] pc = "poll" -> 1
    [] pc = "before" -> 2
    [] pc \in {"propose", "resolve"} -> 3
    [] pc = "score" -> 3 + queries
    [] pc = "after" -> -1
    [] OTHER -> 3 + ScorerQueries

Metered ==
  /\ Spent("validator_calls") <= PerDecision * Spent("decisions") + Slack
  /\ pc = "open" => Spent("validator_calls") = 0 /\ Spent("decisions") = 0

LEMMA OneMoreDecision ==
  \A d \in Nat : /\ PerDecision * d \in Nat
                 /\ PerDecision * (d + 1) = PerDecision * d + PerDecision
BY LoopAssumption DEF PerDecision

LEMMA MeteredStep ==
  ASSUME Metered, IInv, IInv', Holding, LoopTypeOK, LoopTypeOK', [LoopNext]_all_vars
  PROVE  Metered'
<1> DEFINE D == Spent("decisions")
           V == Spent("validator_calls")
           P == PerDecision * D
<1> USE DEF Terminate, Goto, NextAttempt, turn, verdict
<1>a. /\ D \in Nat /\ V \in Nat /\ D' \in Nat /\ V' \in Nat
      /\ ScorerQueries \in Nat /\ queries \in 0 .. ScorerQueries
      /\ queries' \in 0 .. ScorerQueries
      /\ P \in Nat /\ V <= P + Slack
  <2>1. D \in Nat /\ V \in Nat
    BY SpentType, CoordinatesNamed
  <2>2. D' \in Nat /\ V' \in Nat
    BY MainExists, CoordinatesNamed DEF Spent, IInv, TypeOK
  <2>3. /\ ScorerQueries \in Nat /\ queries \in 0 .. ScorerQueries
        /\ queries' \in 0 .. ScorerQueries
    BY LoopAssumption DEF LoopTypeOK
  <2>4. P \in Nat
    BY <2>1, OneMoreDecision
  <2>5. QED
    BY <2>1, <2>2, <2>3, <2>4 DEF Metered
<1>b. ASSUME D' = D, pc' # "open", V' <= P + Slack' PROVE Metered'
  BY <1>b DEF Metered, PerDecision
<1> HIDE DEF D, V, P
<1>1. CASE OpenSession
  <2>1. /\ pc = "open" /\ pc' \in {"attempt", "answered"} /\ next_session = Main
    BY <1>1 DEF OpenSession, Holding, Main
  <2>2. work'[Main] = NoCharge
    BY <1>1, <2>1, MainExists DEF OpenSession, Open, Create, IInv, TypeOK
  <2>3. D' = 0 /\ V' = 0
    BY <2>2, CoordinatesNamed DEF Spent, NoCharge, D, V
  <2>4. D = 0
    BY <2>1 DEF Metered, D
  <2>5. Slack' >= 0
    BY <1>a, <2>1 DEF Slack
  <2>6. QED
    BY <1>a, <1>b, <2>1, <2>3, <2>4, <2>5 DEF Slack
<1>2. CASE BeginAttempt
  <2>1. pc = "attempt" /\ pc' = "first" /\ (UNCHANGED vars \/ Restart(Main))
    BY <1>2 DEF BeginAttempt
  <2>2. D' = D /\ V' = V
    BY <2>1, ReassignEffect DEF Restart, vars, Spent, D, V
  <2>3. QED
    BY <1>a, <1>b, <2>1, <2>2 DEF Slack
<1>3. CASE RestartOverBudget \/ AttemptsExhausted \/ RepairOverBudget \/ SnapshotOverBudget
  <2>1. UNCHANGED vars /\ pc' = "finish"
        /\ pc \in {"attempt", "repair", "first", "poll", "before", "after", "repaired"}
    BY <1>3 DEF RestartOverBudget, AttemptsExhausted, RepairOverBudget, SnapshotOverBudget,
                StopForBudget
  <2>2. D' = D /\ V' = V
    BY <2>1 DEF vars, Spent, D, V
  <2>3. QED
    BY <1>a, <1>b, <2>1, <2>2 DEF Slack
<1>4. CASE Control
  <2>1. UNCHANGED vars /\ pc = "control" /\ pc' \in {"finish", "repair", "attempt", "poll"}
    BY <1>4 DEF Control
  <2>2. D' = D /\ V' = V
    BY <2>1 DEF vars, Spent, D, V
  <2>3. QED
    BY <1>a, <1>b, <2>1, <2>2 DEF Slack
<1>5. CASE Finish \/ Report
  <2>1. UNCHANGED vars /\ pc \in {"finish", "report"}
        /\ pc' \in {"disagreed", "report", "raised", "answered"}
    BY <1>5 DEF Finish, Report
  <2>2. D' = D /\ V' = V
    BY <2>1 DEF vars, Spent, D, V
  <2>3. QED
    BY <1>a, <1>b, <2>1, <2>2 DEF Slack
<1>6. CASE FirstSnapshot \/ Before \/ Repaired
  <2>1. /\ Snapshot(Main)
        /\ \/ pc \in {"first", "repaired"} /\ pc' = "poll"
           \/ pc = "before" /\ pc' = "propose"
    BY <1>6 DEF FirstSnapshot, Before, Repaired
  <2>2. D' = D /\ V' = V + 1
    BY <2>1, SnapshotEffect DEF D, V
  <2>3. QED
    BY <1>a, <1>b, <2>1, <2>2 DEF Slack
<1>7. CASE Poll
  <2>1. pc = "poll" /\ Snapshot(Main)
    BY <1>7 DEF Poll
  <2>2. pc' \in {"finish", "before"}
    <3>1. Selectable = {} => Valid
      BY NothingEligible DEF Selectable
    <3>2. QED
      BY <1>7, <3>1 DEF Poll, Continue
  <2>3. D' = D /\ V' = V + 1
    BY <2>1, SnapshotEffect DEF D, V
  <2>4. QED
    BY <1>a, <1>b, <2>1, <2>2, <2>3 DEF Slack
<1>8. CASE ProposeBatch
  <2>1. /\ pc = "propose" /\ pc' \in {"score", "resolve"} /\ logical \in Logicals
        /\ Propose(Main, logical) \/ ProposeApplicable(Main, logical)
        /\ batch' = Handle(Main, logical, next_token[Main])
        /\ queries' = 0
    BY <1>8 DEF ProposeBatch, Holding
  <2>2. D' = D /\ V' = V
    BY <2>1, ProposeEffect DEF D, V
  <2>3. QED
    BY <1>a, <1>b, <2>1, <2>2 DEF Slack
<1>9. CASE ProposeStopsForBudget
  <2>1. pc = "propose" /\ pc' = "finish" /\ logical \in Logicals
    BY <1>9 DEF ProposeStopsForBudget, StopForBudget, Holding
  <2>2. D' = D /\ V' = V
    <3>1. CASE UNCHANGED vars
      BY <3>1 DEF vars, Spent, D, V
    <3>2. CASE \E stop \in Stops(chains[Main], logical) :
                 ProposeOverBudget(Main, logical, stop)
      BY <2>1, <3>2, StopEffect DEF D, V
    <3>3. QED
      BY <1>9, <3>1, <3>2 DEF ProposeStopsForBudget, StopForBudget
  <2>3. QED
    BY <1>a, <1>b, <2>1, <2>2 DEF Slack
<1>10. CASE ScorerAsks
  <2>1. /\ Snapshot(Main) \/ CandidateIsValid(Main, batch)
        /\ pc = "score" /\ pc' = "score" /\ queries' = queries + 1
    BY <1>10 DEF ScorerAsks
  <2>2. D' = D /\ V' = V + 1
    BY <2>1, SnapshotEffect, AskEffect DEF D, V
  <2>3. QED
    BY <1>a, <1>b, <2>1, <2>2 DEF Slack
<1>11. CASE ScorerOverBudget \/ PolicyRaises \/ Choose
  <2>1. /\ Discard(Main, batch) \/ Apply(Main, batch)
        /\ pc \in {"score", "resolve"} /\ pc' \in {"finish", "raised", "after"}
    BY <1>11 DEF ScorerOverBudget, PolicyRaises, Choose
  <2>2. D' = D + 1 /\ V' = V
    BY <2>1, ResolveEffect DEF D, V
  <2>3. PerDecision * D' = P + 4 + ScorerQueries
    BY <1>a, <2>2, OneMoreDecision DEF P, PerDecision
  <2>4. V' <= P + 3 + ScorerQueries
    BY <1>a, <2>1, <2>2 DEF Slack
  <2>5. Slack' >= -1
    BY <1>a, <2>1 DEF Slack
  <2>6. V' <= PerDecision * D' + Slack'
    BY <1>a, <2>1, <2>3, <2>4 DEF Slack
  <2>7. QED
    BY <2>1, <2>6 DEF Metered, D, V, PerDecision
<1>12. CASE After
  <2>1. Snapshot(Main) /\ pc = "after" /\ pc' \in {"finish", "control"}
    BY <1>12 DEF After
  <2>2. D' = D /\ V' = V + 1
    BY <2>1, SnapshotEffect DEF D, V
  <2>3. QED
    BY <1>a, <1>b, <2>1, <2>2 DEF Slack
<1>13. CASE Repair
  <2>1. /\ pc = "repair" /\ pc' = "repaired"
        /\ \E selected \in SUBSET Logicals : Perturb(Main, selected)
    BY <1>13 DEF Repair
  <2>2. D' = D /\ V' = V
    BY <2>1, ReassignEffect DEF Perturb, D, V
  <2>3. QED
    BY <1>a, <1>b, <2>1, <2>2 DEF Slack
<1>14. CASE UNCHANGED all_vars
  BY <1>14 DEF all_vars, loop_vars, vars, Metered, Slack, Spent, PerDecision
<1>15. QED
  BY <1>1, <1>2, <1>3, <1>4, <1>5, <1>6, <1>7, <1>8, <1>9, <1>10, <1>11, <1>12, <1>13,
     <1>14 DEF LoopNext

\* The validations of a search are linear in its decisions, whatever its
\* tries and repairs: only a decision opens a new transition, because a state
\* with nothing to repair is valid and ends the search or is refined.
THEOREM ValidationsLinear == LoopSpec => []ValidationsBounded
<1>1. LoopInit => Metered
  <2> SUFFICES ASSUME LoopInit PROVE Metered
    OBVIOUS
  <2>1. pc = "open" /\ work[Main] = NoCharge
    BY MainExists DEF LoopInit, Init
  <2>2. Spent("decisions") = 0 /\ Spent("validator_calls") = 0
    BY <2>1, CoordinatesNamed DEF Spent, NoCharge
  <2>3. QED
    BY <2>1, <2>2, OneMoreDecision DEF Metered, Slack
<1>2. /\ IInv /\ Holding /\ LoopTypeOK /\ IInv' /\ LoopTypeOK'
      /\ Metered /\ [LoopNext]_all_vars
      => Metered'
  BY MeteredStep
<1>3. IInv /\ LoopTypeOK /\ Metered => ValidationsBounded
  <2> SUFFICES ASSUME IInv, LoopTypeOK, Metered PROVE ValidationsBounded
    OBVIOUS
  <2>1. /\ Spent("decisions") \in Nat /\ Spent("validator_calls") \in Nat
        /\ ScorerQueries \in Nat /\ queries \in 0 .. ScorerQueries
    BY SpentType, CoordinatesNamed, LoopAssumption DEF LoopTypeOK
  <2>2. Slack <= 3 + ScorerQueries /\ Slack \in Int
    BY <2>1 DEF Slack
  <2>3. QED
    BY <2>1, <2>2, OneMoreDecision DEF Metered, ValidationsBounded, Spent, PerDecision
<1>4. QED
  BY <1>1, <1>2, <1>3, LoopInvariance, PTL DEF LoopSpec

(***************************************************************************)
(* The contract of find_embedding.                                         *)
(***************************************************************************)
\* While the search runs nothing is answered and best names the earliest of
\* the best retained states, zero when there is none.
Ranked ==
  ~Ended => /\ answer = None
            /\ best = 0 => incumbents = <<>>
            /\ best # 0 => Contract!IsBest(best)

LEMMA ValuesOrdered == \A v \in Values : v \in Int
BY LoopAssumption

LEMMA StatusFacts ==
  /\ pc \notin {"answered", "raised", "disagreed"} <=> Status = "searching"
  /\ pc = "answered" => Status = "answered"
  /\ pc \in {"raised", "disagreed"} => Status = "raised"
BY DEF Status

\* What the native state reports valid is an embedding the validator accepts.
LEMMA RetainedIsEmbedding ==
  ASSUME IInv, Valid
  PROVE  chains[Main] \in {c \in Assignments : IsEmbedding(c)}
<1>1. /\ chains[Main] \in Assignments
      /\ occupancy[Main] = CountOccupancy(chains[Main])
  BY MainExists DEF IInv, TypeOK, OccupancyCountsClaimants
<1>2. QED
  BY <1>1, VerdictFromCounters DEF Valid

LEMMA BestKept ==
  ASSUME IInv, LoopTypeOK, Ranked, ~Ended, NEW v \in Values,
         incumbents' = Append(incumbents, [chains |-> chains[Main], value |-> v]),
         best' = IF best = 0 THEN 1
                 ELSE IF v > incumbents[best].value THEN Len(incumbents) + 1 ELSE best
  PROVE  best' # 0 /\ Contract!IsBest(best)'
<1> DEFINE n == Len(incumbents)
<1>1. /\ n \in Nat /\ incumbents \in Seq(Incumbents) /\ best \in 0 .. n
      /\ DOMAIN incumbents = 1 .. n
  BY DEF LoopTypeOK
<1>2. [chains |-> chains[Main], value |-> v] \in Incumbents
  BY MainExists DEF Incumbents, IInv, TypeOK
<1>3. /\ DOMAIN incumbents' = 1 .. n + 1
      /\ \A i \in 1 .. n : incumbents'[i] = incumbents[i]
      /\ incumbents'[n + 1].value = v
  BY <1>1, <1>2
<1>4. v \in Int /\ \A i \in 1 .. n : incumbents[i].value \in Int
  <2>1. \A i \in 1 .. n : incumbents[i] \in Incumbents
    BY <1>1
  <2>2. \A x \in Incumbents : x.value \in Values
    BY DEF Incumbents
  <2>3. \A i \in 1 .. n : incumbents[i].value \in Values
    BY <2>1, <2>2
  <2>4. QED
    BY <2>3, ValuesOrdered
<1>5. CASE best = 0
  <2>1. n = 0 /\ best' = 1
    BY <1>5 DEF Ranked
  <2>2. QED
    BY <1>3, <1>4, <2>1 DEF Contract!IsBest
<1>6. CASE best # 0
  <2>1. \A j \in 1 .. n : /\ incumbents[j].value <= incumbents[best].value
                          /\ j < best => incumbents[j].value < incumbents[best].value
    BY <1>1, <1>6 DEF Ranked, Contract!IsBest
  <2>2. CASE v > incumbents[best].value
    <3>1. best' = n + 1
      BY <1>6, <2>2
    <3>2. \A j \in 1 .. n : incumbents[j].value < v
      BY <1>1, <1>4, <1>6, <2>1, <2>2
    <3>3. QED
      BY <1>1, <1>3, <1>4, <3>1, <3>2 DEF Contract!IsBest
  <2>3. CASE ~(v > incumbents[best].value)
    <3>1. best' = best /\ best \in 1 .. n
      BY <1>1, <1>6, <2>3
    <3>2. QED
      BY <1>1, <1>3, <1>4, <2>1, <2>3, <3>1 DEF Contract!IsBest
  <2>4. QED
    BY <2>2, <2>3
<1>7. QED
  BY <1>5, <1>6

\* Retaining a valid state is Find, or nothing when the state is known.
LEMMA RetainFinds ==
  ASSUME IInv, LoopTypeOK, Ranked, ~Ended, ~Ended', answer' = answer,
         (Valid /\ Retain) \/ UNCHANGED retained
  PROVE  [Contract!ContractNext]_(Contract!contract_vars) /\ Ranked'
<1>0. Status = "searching" /\ Status' = "searching" /\ answer = None
  BY StatusFacts DEF Ended, Ranked, Status
<1>1. CASE UNCHANGED retained
  BY <1>0, <1>1 DEF Contract!contract_vars, retained, Ranked, Contract!IsBest
<1>2. CASE Valid /\ ~KnownState /\ Retain
  <2>1. PICK v \in Values :
          /\ incumbents' = Append(incumbents, [chains |-> chains[Main], value |-> v])
          /\ best' = IF best = 0 THEN 1
                     ELSE IF v > incumbents[best].value THEN Len(incumbents) + 1 ELSE best
    BY <1>2 DEF Retain
  <2>2. \A i \in DOMAIN incumbents : incumbents[i].chains # chains[Main]
    BY <1>2 DEF KnownState
  <2>3. Contract!Find
    BY <1>0, <1>2, <2>1, <2>2, RetainedIsEmbedding DEF Contract!Find
  <2>4. best' # 0 /\ Contract!IsBest(best)'
    BY <2>1, BestKept
  <2>5. QED
    BY <1>0, <2>3, <2>4 DEF Contract!ContractNext, Ranked
<1>3. CASE Valid /\ KnownState /\ Retain
  BY <1>0, <1>3 DEF Retain, retained, Contract!contract_vars, Ranked, Contract!IsBest
<1>4. QED
  BY <1>1, <1>2, <1>3

LEMMA ContractStep ==
  ASSUME IInv, LoopTypeOK, Bounded, Ranked, [LoopNext]_all_vars
  PROVE  [Contract!ContractNext]_(Contract!contract_vars) /\ Ranked'
<1> USE DEF Terminate, Goto, NextAttempt
<1>1. CASE OpenSession
  <2>1. /\ pc = "open" /\ UNCHANGED <<incumbents, best, answer>>
        /\ pc' \in {"attempt", "answered"}
    BY <1>1 DEF OpenSession, retained
  <2>2. CASE pc' = "answered"
    <3>1. Contract!Decline
      BY <2>1, <2>2 DEF Contract!Decline, Status
    <3>2. QED
      BY <2>2, <3>1 DEF Contract!ContractNext, Ranked, Ended
  <2>3. CASE pc' = "attempt"
    BY <2>1, <2>3 DEF Contract!contract_vars, Status, Ranked, Ended, Contract!IsBest
  <2>4. QED
    BY <2>1, <2>2, <2>3
<1>2. CASE Poll
  <2>1. /\ pc = "poll" /\ pc' \in {"finish", "before", "attempt"} /\ answer' = answer
        /\ (Valid /\ Retain) \/ UNCHANGED retained
    BY <1>2 DEF Poll, Continue
  <2>2. QED
    BY <2>1, RetainFinds DEF Ended
<1>3. CASE After
  <2>1. /\ pc = "after" /\ pc' \in {"finish", "control"} /\ answer' = answer
        /\ (Valid /\ Retain) \/ UNCHANGED retained
    BY <1>3 DEF After
  <2>2. QED
    BY <2>1, RetainFinds DEF Ended
<1>4. CASE PolicyRaises
  <2>1. pc = "score" /\ pc' = "raised" /\ UNCHANGED <<incumbents, best, answer>>
    BY <1>4 DEF PolicyRaises, retained
  <2>2. Contract!Raise
    BY <2>1 DEF Contract!Raise, Status
  <2>3. QED
    BY <2>1, <2>2 DEF Contract!ContractNext, Ranked, Ended
<1>5. CASE Finish
  <2>1. /\ pc = "finish" /\ pc' \in {"disagreed", "report"}
        /\ UNCHANGED <<incumbents, best, answer>>
    BY <1>5 DEF Finish, retained
  <2>2. CASE pc' = "disagreed"
    <3>1. Contract!Raise
      BY <2>1, <2>2 DEF Contract!Raise, Status
    <3>2. QED
      BY <2>2, <3>1 DEF Contract!ContractNext, Ranked, Ended
  <2>3. CASE pc' = "report"
    BY <2>1, <2>3 DEF Contract!contract_vars, Status, Ranked, Ended, Contract!IsBest
  <2>4. QED
    BY <2>1, <2>2, <2>3
<1>6. CASE Report
  <2>1. /\ pc = "report" /\ pc' \in {"raised", "answered"} /\ incumbents' = incumbents
        /\ answer = None
    BY <1>6 DEF Report, retained, Ranked, Ended
  <2>2. CASE pc' = "raised"
    <3>1. answer' = None
      BY <1>6, <2>2 DEF Report
    <3>2. Contract!Raise
      BY <2>1, <2>2, <3>1 DEF Contract!Raise, Status
    <3>3. QED
      BY <2>2, <3>2 DEF Contract!ContractNext, Ranked, Ended
  <2>3. CASE pc' = "answered" /\ answer' = None
    <3>1. Contract!Decline
      BY <2>1, <2>3 DEF Contract!Decline, Status
    <3>2. QED
      BY <2>3, <3>1 DEF Contract!ContractNext, Ranked, Ended
  <2>4. CASE pc' = "answered" /\ answer' # None
    <3>1. success /\ answer' = incumbents[best].chains
      BY <1>6, <2>1, <2>4 DEF Report
    <3>2. Contract!IsBest(best)
      BY <2>1, <3>1 DEF Bounded, Ranked, Ended
    <3>3. Contract!Answer
      BY <2>1, <2>4, <3>1, <3>2 DEF Contract!Answer, Contract!IsBest, Status
    <3>4. QED
      BY <2>4, <3>3 DEF Contract!ContractNext, Ranked, Ended
  <2>5. QED
    BY <2>1, <2>2, <2>3, <2>4
<1>7. CASE \/ BeginAttempt \/ RestartOverBudget \/ AttemptsExhausted \/ FirstSnapshot
           \/ SnapshotOverBudget \/ Before \/ ProposeBatch \/ ProposeStopsForBudget
  <2>1. ~Ended /\ ~Ended' /\ UNCHANGED retained /\ answer' = answer
    BY <1>7 DEF BeginAttempt, RestartOverBudget, AttemptsExhausted, FirstSnapshot,
                SnapshotOverBudget, Before, ProposeBatch, ProposeStopsForBudget,
                StopForBudget, Ended
  <2>2. QED
    BY <2>1, RetainFinds
<1>8. CASE \/ ScorerAsks \/ ScorerOverBudget \/ Choose \/ Control \/ Repair
           \/ RepairOverBudget \/ Repaired
  <2>1. ~Ended /\ ~Ended' /\ UNCHANGED retained /\ answer' = answer
    BY <1>8 DEF ScorerAsks, ScorerOverBudget, Choose, Control, Repair, RepairOverBudget,
                Repaired, StopForBudget, Ended
  <2>2. QED
    BY <2>1, RetainFinds
<1>9. CASE UNCHANGED all_vars
  BY <1>9 DEF all_vars, loop_vars, retained, Contract!contract_vars, Status, Ranked, Ended,
              Contract!IsBest
<1>10. QED
  BY <1>1, <1>2, <1>3, <1>4, <1>5, <1>6, <1>7, <1>8, <1>9 DEF LoopNext

\* Whatever the policies, the clock and the ledger do, the caller gets the
\* earliest of the best of the distinct embeddings the search retained, or a
\* refusal, once (retain_incumbent and find_embedding's last validation).
THEOREM ImplementsContract == LoopSpec => MeetsContract
<1>1. LoopInit => Contract!ContractInit /\ Ranked
  BY DEF LoopInit, Contract!ContractInit, Status, Ranked
<1>2. IInv /\ LoopTypeOK /\ Bounded /\ Ranked /\ [LoopNext]_all_vars
        => [Contract!ContractNext]_(Contract!contract_vars) /\ Ranked'
  BY ContractStep
<1>3. QED
  BY <1>1, <1>2, LoopInvariance, PTL DEF LoopSpec, MeetsContract, Contract!ContractSpec

(***************************************************************************)
(* The diagnostics.                                                        *)
(***************************************************************************)
\* While the search runs: a coordinate is named exactly for a budget stop,
\* only an ending names one or claims success, and outside anytime mode the
\* first retained state is that ending.
Told ==
  ~Ended => /\ reason = "WORK_BUDGET_EXHAUSTED" <=> coordinate # None
            /\ success <=> incumbents # <<>>
            /\ pc \notin {"finish", "report"} => coordinate = None /\ reason # "SUCCESS"
            /\ ~anytime => (success <=> reason = "SUCCESS")
            /\ pc = "open" => incumbents = <<>>

LEMMA ExceededNamed == ASSUME NEW charge PROVE Exceeded(charge) \subseteq Coordinates \ {None}
BY LoopAssumption DEF Exceeded

\* A budget stop names its coordinate and keeps what was retained.
LEMMA BudgetStopTold ==
  ASSUME Told, LoopTypeOK, pc \notin {"finish", "report"}, ~Ended, pc' = "finish",
         coordinate' \in Coordinates \ {None}, reason' = "WORK_BUDGET_EXHAUSTED",
         UNCHANGED <<anytime, retained>>
  PROVE  Told' /\ AnswerConsistent'
BY DEF Told, AnswerConsistent, Ended, retained

\* A step between two phases of the search that leaves the verdict alone, or
\* only gives a new reason to try again.
LEMMA OngoingTold ==
  ASSUME Told, pc \notin {"finish", "report"}, ~Ended, ~Ended', pc' # "open",
         UNCHANGED <<coordinate, anytime, retained>>,
         reason' \in {reason, "TRIES_EXHAUSTED", "NO_CANDIDATE", "TIMEOUT",
                      "TRANSITION_LIMIT", "CONTROL_STOP"}
  PROVE  Told' /\ AnswerConsistent'
BY DEF Told, AnswerConsistent, Ended, retained

LEMMA RetainTold ==
  ASSUME Retain, LoopTypeOK, success <=> incumbents # <<>>
  PROVE  success' /\ incumbents' # <<>>
<1>1. CASE KnownState
  <2>1. UNCHANGED retained
    BY <1>1 DEF Retain
  <2>2. incumbents # <<>>
    BY <1>1 DEF KnownState
  <2>3. QED
    BY <2>1, <2>2 DEF retained
<1>2. ASSUME NEW v \in Values,
             incumbents' = Append(incumbents, [chains |-> chains[Main], value |-> v]),
             success' = TRUE
      PROVE  success' /\ incumbents' # <<>>
  <2>1. incumbents \in Seq(Incumbents) /\ Len(incumbents) \in Nat
    BY DEF LoopTypeOK
  <2>2. Len(incumbents') = Len(incumbents) + 1
    BY <1>2, <2>1
  <2>3. QED
    BY <1>2, <2>1, <2>2
<1>3. QED
  BY <1>1, <1>2 DEF Retain

\* Seeing a valid state: outside anytime mode it ends the search at once.
LEMMA ValidTold ==
  ASSUME Told, LoopTypeOK, pc \notin {"finish", "report"}, ~Ended, ~Ended', pc' # "open",
         Valid, Retain, UNCHANGED <<coordinate, anytime>>,
         ~anytime => pc' = "finish" /\ reason' = "SUCCESS",
         reason' = "SUCCESS" => pc' = "finish",
         reason' \in {reason, "SUCCESS", "TRANSITION_LIMIT"}
  PROVE  Told' /\ AnswerConsistent'
<1>1. success' /\ incumbents' # <<>>
  BY RetainTold DEF Told
<1>2. coordinate' = None /\ reason' # "WORK_BUDGET_EXHAUSTED"
  BY DEF Told
<1>3. QED
  BY <1>1, <1>2 DEF Told, AnswerConsistent, Ended

LEMMA ToldStep ==
  ASSUME IInv, LoopTypeOK, LoopTypeOK', Ranked, Told, AnswerConsistent,
         [LoopNext]_all_vars
  PROVE  Told' /\ AnswerConsistent'
<1> USE DEF Terminate, Goto, NextAttempt, verdict
<1>1. CASE OpenSession
  <2>1. /\ pc = "open" /\ UNCHANGED <<coordinate, anytime, retained, answer>>
        /\ \/ pc' = "answered" /\ reason' = "EMPTY_TARGET"
           \/ pc' = "attempt" /\ reason' = reason
    BY <1>1 DEF OpenSession
  <2>2. CASE pc' = "answered"
    <3>1. /\ ~success /\ incumbents = <<>> /\ coordinate = None /\ answer = None
          /\ reason' = "EMPTY_TARGET"
      BY <2>1, <2>2 DEF Told, Ranked, Ended
    <3>2. QED
      BY <2>1, <2>2, <3>1 DEF Told, AnswerConsistent, Ended, retained
  <2>3. CASE pc' = "attempt"
    BY <2>1, <2>3, OngoingTold DEF Ended
  <2>4. QED
    BY <2>1, <2>2, <2>3
<1>2. CASE \/ RestartOverBudget \/ SnapshotOverBudget \/ ProposeStopsForBudget
           \/ ScorerOverBudget \/ RepairOverBudget
  <2>1. /\ pc \notin {"open", "finish", "report"} /\ ~Ended /\ pc' = "finish"
        /\ \E charge : coordinate' \in Exceeded(charge)
        /\ reason' = "WORK_BUDGET_EXHAUSTED" /\ UNCHANGED <<anytime, retained>>
    <3>1. CASE RestartOverBudget
      BY <3>1 DEF RestartOverBudget, Ended
    <3>2. CASE SnapshotOverBudget \/ RepairOverBudget
      BY <3>2 DEF SnapshotOverBudget, RepairOverBudget, StopForBudget, Ended
    <3>3. CASE ProposeStopsForBudget
      BY <3>3 DEF ProposeStopsForBudget, StopForBudget, Ended
    <3>4. CASE ScorerOverBudget
      BY <3>4 DEF ScorerOverBudget, Ended
    <3>5. QED
      BY <1>2, <3>1, <3>2, <3>3, <3>4
  <2>2. coordinate' \in Coordinates \ {None}
    BY <2>1, ExceededNamed
  <2>3. QED
    BY <2>1, <2>2, BudgetStopTold
<1>3. CASE Poll
  <2>1. /\ pc = "poll" /\ pc' \in {"finish", "before", "attempt"}
        /\ UNCHANGED <<coordinate, anytime>>
    BY <1>3 DEF Poll, Continue
  <2>2. CASE UNCHANGED retained /\ reason' \in {"TIMEOUT", "TRANSITION_LIMIT", "NO_CANDIDATE", reason}
    BY <2>1, <2>2, OngoingTold DEF Ended
  <2>3. CASE Continue /\ Valid /\ Retain
    <3>1. /\ ~anytime => pc' = "finish" /\ reason' = "SUCCESS"
          /\ reason' \in {reason, "SUCCESS", "TRANSITION_LIMIT"}
      BY <2>3 DEF Continue
    <3>2. reason' = "SUCCESS" => pc' = "finish"
      BY <2>1, <2>3 DEF Continue, Told, Ended
    <3>3. QED
      BY <2>1, <2>3, <3>1, <3>2, ValidTold DEF Ended
  <2>4. CASE Continue /\ ~Valid /\ UNCHANGED retained
    BY <2>2, <2>4 DEF Continue
  <2>5. QED
    BY <1>3, <2>2, <2>3, <2>4 DEF Poll
<1>4. CASE After
  <2>1. /\ pc = "after" /\ pc' \in {"finish", "control"} /\ UNCHANGED <<coordinate, anytime>>
    BY <1>4 DEF After
  <2>2. CASE UNCHANGED retained /\ reason' \in {"TIMEOUT", reason}
    BY <2>1, <2>2, OngoingTold DEF Ended
  <2>3. CASE /\ Valid /\ Retain
             /\ IF ~anytime THEN Terminate("SUCCESS") ELSE Goto("control")
    <3>1. /\ ~anytime => pc' = "finish" /\ reason' = "SUCCESS"
          /\ reason' \in {reason, "SUCCESS", "TRANSITION_LIMIT"}
      BY <2>3
    <3>2. reason' = "SUCCESS" => pc' = "finish"
      BY <2>1, <2>3 DEF Told, Ended
    <3>3. QED
      BY <2>1, <2>3, <3>1, <3>2, ValidTold DEF Ended
  <2>4. CASE ~Valid /\ UNCHANGED retained /\ Goto("control")
    BY <2>2, <2>4
  <2>5. QED
    BY <1>4, <2>2, <2>3, <2>4 DEF After
<1>5. CASE \/ BeginAttempt \/ AttemptsExhausted \/ FirstSnapshot \/ Before \/ ProposeBatch
           \/ ScorerAsks \/ Choose \/ Control \/ Repair \/ Repaired
  <2>1. /\ pc \notin {"finish", "report"} /\ ~Ended /\ ~Ended' /\ pc' # "open"
        /\ UNCHANGED <<coordinate, anytime, retained>>
        /\ reason' \in {reason, "TRIES_EXHAUSTED", "NO_CANDIDATE", "CONTROL_STOP"}
    BY <1>5 DEF BeginAttempt, AttemptsExhausted, FirstSnapshot, Before, ProposeBatch,
                ScorerAsks, Choose, Control, Repair, Repaired, Ended
  <2>2. QED
    BY <2>1, OngoingTold
<1>6. CASE PolicyRaises
  BY <1>6 DEF PolicyRaises, Told, AnswerConsistent, Ended
<1>7. CASE Finish
  <2>1. /\ pc = "finish" /\ pc' \in {"disagreed", "report"}
        /\ UNCHANGED <<coordinate, reason, anytime, retained>>
    BY <1>7 DEF Finish
  <2>2. QED
    BY <2>1 DEF Told, AnswerConsistent, Ended, retained
<1>8. CASE Report
  <2>1. pc = "report" /\ Ended' /\ UNCHANGED <<incumbents, anytime>> /\ answer = None
    BY <1>8 DEF Report, retained, Ranked, Ended
  <2>2. Told'
    BY <2>1 DEF Told
  <2>3. CASE success /\ work[Main]["validator_calls"] >= WorkLimits["validator_calls"]
    <3>1. /\ success' = FALSE /\ reason' = "WORK_BUDGET_EXHAUSTED"
          /\ coordinate' = "validator_calls" /\ answer' = None
      BY <1>8, <2>1, <2>3 DEF Report
    <3>2. "validator_calls" # None
      BY LoopAssumption, CoordinatesNamed
    <3>3. QED
      BY <2>2, <3>1, <3>2 DEF AnswerConsistent
  <2>4. CASE ~(success /\ work[Main]["validator_calls"] >= WorkLimits["validator_calls"])
    <3>1. /\ UNCHANGED <<success, reason, coordinate, work>>
          /\ answer' = IF success /\ IsEmbedding(incumbents[best].chains)
                         THEN incumbents[best].chains ELSE None
          /\ pc' = IF success /\ answer' = None THEN "raised" ELSE "answered"
      BY <1>8, <2>4 DEF Report, retained, vars
    <3>2. /\ success => ~(work[Main]["validator_calls"] >= WorkLimits["validator_calls"])
          /\ work[Main]["validator_calls"] \in Nat
          /\ WorkLimits["validator_calls"] \in Nat
      BY <2>4, MainExists, CoordinatesNamed, SessionAssumption DEF IInv, TypeOK
    <3>3. /\ reason = "WORK_BUDGET_EXHAUSTED" <=> coordinate # None
          /\ success <=> incumbents # <<>>
          /\ ~anytime => (success <=> reason = "SUCCESS")
      BY <2>1 DEF Told, Ended
    <3>4. pc' = "answered" => (success <=> answer' # None)
      BY <3>1
    <3>5. success' => work'[Main]["validator_calls"] < WorkLimits["validator_calls"]
      BY <3>1, <3>2
    <3>6. QED
      BY <2>1, <2>2, <3>1, <3>3, <3>4, <3>5 DEF AnswerConsistent
  <2>5. QED
    BY <2>3, <2>4
<1>9. CASE UNCHANGED all_vars
  BY <1>9 DEF all_vars, loop_vars, vars, retained, Told, AnswerConsistent, Ended
<1>10. QED
  BY <1>1, <1>2, <1>3, <1>4, <1>5, <1>6, <1>7, <1>8, <1>9 DEF LoopNext

\* The caller is told one story: an embedding if and only if success, a
\* coordinate if and only if the ledger ended the search, and a retained
\* state is withdrawn only for want of its last validation.
THEOREM AnswerTold == LoopSpec => []AnswerConsistent
<1>1. LoopInit => Ranked /\ Told /\ AnswerConsistent
  BY LoopAssumption DEF LoopInit, Ranked, Told, AnswerConsistent, Ended
<1>2. /\ IInv /\ LoopTypeOK /\ LoopTypeOK' /\ Bounded
      /\ Ranked /\ Told /\ AnswerConsistent /\ [LoopNext]_all_vars
      => Ranked' /\ Told' /\ AnswerConsistent'
  BY ContractStep, ToldStep
<1>3. QED
  BY <1>1, <1>2, LoopInvariance, PTL DEF LoopSpec

(***************************************************************************)
(* The independent validator.                                              *)
(***************************************************************************)
\* Every retained state is an embedding, not only the one reported.
RetainedSound ==
  \A i \in DOMAIN incumbents :
    incumbents[i].chains \in {c \in Assignments : IsEmbedding(c)}

LEMMA RetainedSoundStep ==
  ASSUME RetainedSound, LoopTypeOK, [Contract!ContractNext]_(Contract!contract_vars)
  PROVE  RetainedSound'
<1>1. CASE Contract!Find
  <2>1. PICK c \in {e \in Assignments : IsEmbedding(e)}, v \in Values :
          incumbents' = Append(incumbents, [chains |-> c, value |-> v])
    BY <1>1 DEF Contract!Find
  <2>2. incumbents \in Seq(Incumbents) /\ [chains |-> c, value |-> v] \in Incumbents
    BY DEF LoopTypeOK, Incumbents
  <2>3. /\ DOMAIN incumbents = 1 .. Len(incumbents)
        /\ DOMAIN incumbents' = 1 .. Len(incumbents) + 1
        /\ \A i \in 1 .. Len(incumbents) : incumbents'[i] = incumbents[i]
        /\ incumbents'[Len(incumbents) + 1].chains = c
    BY <2>1, <2>2
  <2> HIDE <2>1
  <2>4. ASSUME NEW i \in DOMAIN incumbents'
        PROVE  incumbents'[i].chains \in {e \in Assignments : IsEmbedding(e)}
    <3>1. i \in 1 .. Len(incumbents) \/ i = Len(incumbents) + 1
      BY <2>2, <2>3
    <3>2. QED
      BY <2>3, <3>1 DEF RetainedSound
  <2>5. QED
    BY <2>4 DEF RetainedSound
<1>2. CASE incumbents' = incumbents
  BY <1>2 DEF RetainedSound
<1>3. QED
  BY <1>1, <1>2 DEF Contract!ContractNext, Contract!contract_vars, Contract!Answer,
                    Contract!Decline, Contract!Raise

LEMMA ReportAnswers ==
  ASSUME RetainedSound, LoopTypeOK, Bounded, LoopNext, pc = "report"
  PROVE  pc' = "answered"
<1>1. Report
  BY DEF LoopNext, OpenSession, BeginAttempt, RestartOverBudget, AttemptsExhausted,
         FirstSnapshot, SnapshotOverBudget, Poll, Before, ProposeBatch,
         ProposeStopsForBudget, ScorerAsks, ScorerOverBudget, PolicyRaises, Choose, After,
         Control, Repair, RepairOverBudget, Repaired, Finish
<1>2. CASE success
  <2>1. best \in DOMAIN incumbents
    BY <1>2 DEF Bounded, LoopTypeOK
  <2>2. /\ IsEmbedding(incumbents[best].chains)
        /\ incumbents[best].chains # None
    BY <2>1, LoopAssumption DEF RetainedSound
  <2>3. QED
    BY <1>1, <2>2 DEF Report
<1>3. CASE ~success
  BY <1>1, <1>3 DEF Report
<1>4. QED
  BY <1>2, <1>3

\* The RuntimeError of find_embedding is unreachable for all graphs, policies
\* and limits: the counters were exact when each incumbent was retained, and
\* nothing the search did since has changed the copy it kept.
THEOREM ReportIsAccepted == LoopSpec => ValidatorAgrees
<1>1. LoopInit => Ranked /\ RetainedSound
  BY DEF LoopInit, Ranked, RetainedSound
<1>2. IInv /\ LoopTypeOK /\ Bounded /\ Ranked /\ RetainedSound /\ [LoopNext]_all_vars
        => Ranked' /\ RetainedSound'
  BY ContractStep, RetainedSoundStep
<1>3. LoopTypeOK /\ Bounded /\ RetainedSound /\ [LoopNext]_all_vars
        => [pc = "report" => pc' = "answered"]_all_vars
  BY ReportAnswers
<1>4. QED
  BY <1>1, <1>2, <1>3, LoopInvariance, PTL DEF LoopSpec, ValidatorAgrees

(***************************************************************************)
(* Termination.                                                            *)
(***************************************************************************)
\* Rounds still allowed: a transition and a try are each counted once.
RoundsLeft == (MaxTransitions - transitions) + (Tries - attempt)

\* Steps the current round can still take before one of the two is counted.
PhaseLeft ==
  CASE pc = "open"                  -> ScorerQueries + 14
    [] pc = "control"               -> ScorerQueries + 13
    [] pc = "repair"                -> ScorerQueries + 12
    [] pc \in {"repaired", "first"} -> ScorerQueries + 11
    [] pc = "poll"                  -> ScorerQueries + 10
    [] pc = "before"                -> ScorerQueries + 9
    [] pc = "propose"               -> ScorerQueries + 8
    [] pc = "score"                 -> ScorerQueries - queries + 7
    [] pc = "resolve"               -> 6
    [] pc = "after"                 -> 5
    [] pc = "attempt"               -> 4
    [] pc = "finish"                -> 3
    [] pc = "report"                -> 2
    [] OTHER                        -> 0

StepsLeft == RoundsLeft * (ScorerQueries + 15) + PhaseLeft

LEMMA Remaining == \A m \in Nat : \A x \in 0 .. m : m - x \in Nat
OBVIOUS

LEMMA MeasureTypes ==
  ASSUME LoopTypeOK
  PROVE  RoundsLeft \in Nat /\ PhaseLeft \in 0 .. ScorerQueries + 14 /\ StepsLeft \in Nat
<1>1. /\ ScorerQueries \in Nat /\ queries \in 0 .. ScorerQueries
      /\ Tries \in Nat /\ attempt \in 0 .. Tries
      /\ MaxTransitions \in Nat /\ transitions \in 0 .. MaxTransitions
  BY LoopAssumption DEF LoopTypeOK
<1>2. RoundsLeft \in Nat
  <2>1. MaxTransitions - transitions \in Nat
    BY <1>1, Remaining
  <2>2. Tries - attempt \in Nat
    BY <1>1, Remaining
  <2>3. QED
    BY <2>1, <2>2 DEF RoundsLeft
<1>3. PhaseLeft \in 0 .. ScorerQueries + 14
  BY <1>1 DEF PhaseLeft
<1>4. RoundsLeft * (ScorerQueries + 15) \in Nat
  BY <1>1, <1>2
<1>5. QED
  BY <1>1, <1>2, <1>3, <1>4 DEF StepsLeft

\* The same of the state after a step.
LEMMA MeasureTypesNext ==
  ASSUME LoopTypeOK'
  PROVE  RoundsLeft' \in Nat /\ PhaseLeft' \in 0 .. ScorerQueries + 14
<1>1. /\ ScorerQueries \in Nat /\ queries' \in 0 .. ScorerQueries
      /\ Tries \in Nat /\ attempt' \in 0 .. Tries
      /\ MaxTransitions \in Nat /\ transitions' \in 0 .. MaxTransitions
  BY LoopAssumption DEF LoopTypeOK
<1>2. RoundsLeft' \in Nat
  <2>1. MaxTransitions - transitions' \in Nat
    BY <1>1, Remaining
  <2>2. Tries - attempt' \in Nat
    BY <1>1, Remaining
  <2>3. QED
    BY <2>1, <2>2 DEF RoundsLeft
<1>3. PhaseLeft' \in 0 .. ScorerQueries + 14
  BY <1>1 DEF PhaseLeft
<1>4. QED
  BY <1>2, <1>3

LEMMA SameRound ==
  ASSUME LoopTypeOK, LoopTypeOK', transitions' = transitions, attempt' = attempt,
         PhaseLeft' < PhaseLeft
  PROVE  StepsLeft' < StepsLeft
<1>1. RoundsLeft' = RoundsLeft
  BY DEF RoundsLeft
<1>2. PhaseLeft \in Int /\ PhaseLeft' \in Int
  BY MeasureTypes, MeasureTypesNext, LoopAssumption
<1>3. RoundsLeft * (ScorerQueries + 15) \in Nat
  BY MeasureTypes, LoopAssumption
<1>4. QED
  BY <1>1, <1>2, <1>3 DEF StepsLeft

\* However far the new round reaches, the round spent to open it was longer.
LEMMA NextRound ==
  ASSUME LoopTypeOK, LoopTypeOK',
         \/ transitions' = transitions + 1 /\ attempt' = attempt
         \/ transitions' = transitions /\ attempt' = attempt + 1
  PROVE  StepsLeft' < StepsLeft
<1> DEFINE C == ScorerQueries + 15
<1>1. C \in Nat /\ ScorerQueries \in Nat
  BY LoopAssumption
<1>2. RoundsLeft \in Nat /\ RoundsLeft' \in Nat
  BY MeasureTypes, MeasureTypesNext
<1>3. RoundsLeft = RoundsLeft' + 1
  <2>1. /\ Tries \in Nat /\ attempt \in Nat /\ attempt' \in Nat
        /\ MaxTransitions \in Nat /\ transitions \in Nat /\ transitions' \in Nat
    BY LoopAssumption DEF LoopTypeOK
  <2>2. /\ RoundsLeft = (MaxTransitions - transitions) + (Tries - attempt)
        /\ RoundsLeft' = (MaxTransitions - transitions') + (Tries - attempt')
    BY DEF RoundsLeft
  <2>3. CASE transitions' = transitions + 1 /\ attempt' = attempt
    <3>1. MaxTransitions - transitions = (MaxTransitions - transitions') + 1
      BY <2>1, <2>3
    <3>2. QED
      BY <2>1, <2>2, <2>3, <3>1
  <2>4. CASE transitions' = transitions /\ attempt' = attempt + 1
    <3>1. Tries - attempt = (Tries - attempt') + 1
      BY <2>1, <2>4
    <3>2. QED
      BY <2>1, <2>2, <2>4, <3>1
  <2>5. QED
    BY <2>3, <2>4
<1>4. \A r, c \in Nat : r * c \in Nat /\ (r + 1) * c = r * c + c
  OBVIOUS
<1>5. RoundsLeft * C = RoundsLeft' * C + C /\ RoundsLeft' * C \in Nat
  BY <1>1, <1>2, <1>3, <1>4
<1>6. PhaseLeft \in 0 .. ScorerQueries + 14 /\ PhaseLeft' \in 0 .. ScorerQueries + 14
  BY MeasureTypes, MeasureTypesNext
<1>7. StepsLeft = RoundsLeft * C + PhaseLeft /\ StepsLeft' = RoundsLeft' * C + PhaseLeft'
  BY DEF StepsLeft
<1>8. C = ScorerQueries + 15
  OBVIOUS
<1> HIDE DEF C
<1>9. QED
  BY <1>1, <1>5, <1>6, <1>7, <1>8

LEMMA ShortensStep ==
  ASSUME IInv, LoopTypeOK, LoopTypeOK', LoopNext
  PROVE  StepsLeft' < StepsLeft
<1> USE DEF Terminate, Goto, NextAttempt, turn, verdict
<1>a. ScorerQueries \in Nat /\ queries \in 0 .. ScorerQueries /\ queries' \in 0 .. ScorerQueries
  BY LoopAssumption DEF LoopTypeOK
<1>b. ASSUME transitions' = transitions, attempt' = attempt,
             \/ pc = "open" /\ pc' \in {"attempt", "answered"}
             \/ pc = "attempt" /\ pc' = "finish"
             \/ pc \in {"first", "repaired"} /\ pc' \in {"poll", "finish"}
             \/ pc = "poll" /\ pc' \in {"before", "finish"}
             \/ pc = "before" /\ pc' \in {"propose", "finish"}
             \/ pc = "propose" /\ pc' \in {"resolve", "finish"}
             \/ pc = "propose" /\ pc' = "score"
             \/ pc = "score" /\ pc' \in {"after", "finish", "raised"}
             \/ pc = "resolve" /\ pc' = "after"
             \/ pc = "after" /\ pc' = "finish"
             \/ pc = "control" /\ pc' \in {"repair", "attempt", "poll", "finish"}
             \/ pc = "repair" /\ pc' \in {"repaired", "finish"}
             \/ pc = "finish" /\ pc' \in {"report", "disagreed"}
             \/ pc = "report" /\ pc' \in {"raised", "answered"}
      PROVE  StepsLeft' < StepsLeft
  <2>1. PhaseLeft' < PhaseLeft
    BY <1>a, <1>b DEF PhaseLeft
  <2>2. QED
    BY <1>b, <2>1, SameRound
<1>1. CASE OpenSession \/ AttemptsExhausted
  BY <1>1, <1>b DEF OpenSession, AttemptsExhausted
<1>2. CASE BeginAttempt \/ RestartOverBudget
  BY <1>2, NextRound DEF BeginAttempt, RestartOverBudget
<1>3. CASE FirstSnapshot \/ Before \/ ProposeBatch
  BY <1>3, <1>b DEF FirstSnapshot, Before, ProposeBatch
<1>4. CASE SnapshotOverBudget \/ ProposeStopsForBudget \/ RepairOverBudget
  BY <1>4, <1>b DEF SnapshotOverBudget, ProposeStopsForBudget, RepairOverBudget, StopForBudget
<1>5. CASE Poll
  <2>1. Selectable = {} => Valid
    BY NothingEligible DEF Selectable
  <2>2. pc = "poll" /\ pc' \in {"before", "finish"}
    BY <1>5, <2>1 DEF Poll, Continue
  <2>3. transitions' = transitions /\ attempt' = attempt
    BY <1>5 DEF Poll
  <2>4. QED
    BY <1>b, <2>2, <2>3
<1>6. CASE ScorerAsks
  <2>1. /\ transitions' = transitions /\ attempt' = attempt
        /\ pc = "score" /\ pc' = "score" /\ queries' = queries + 1
    BY <1>6 DEF ScorerAsks
  <2>2. PhaseLeft' < PhaseLeft
    BY <1>a, <2>1 DEF PhaseLeft
  <2>3. QED
    BY <2>1, <2>2, SameRound
<1>7. CASE ScorerOverBudget \/ PolicyRaises \/ Choose
  BY <1>7, <1>b DEF ScorerOverBudget, PolicyRaises, Choose
<1>8. CASE After
  BY <1>8, NextRound DEF After
<1>9. CASE Control \/ Repair \/ Repaired
  <2>1. CASE Control
    BY <1>b, <2>1 DEF Control
  <2>2. CASE Repair \/ Repaired
    BY <1>b, <2>2 DEF Repair, Repaired
  <2>3. QED
    BY <1>9, <2>1, <2>2
<1>10. CASE Finish \/ Report
  BY <1>10, <1>b DEF Finish, Report
<1>11. QED
  BY <1>1, <1>2, <1>3, <1>4, <1>5, <1>6, <1>7, <1>8, <1>9, <1>10 DEF LoopNext

\* The safety half of termination: whatever the policies, the clock and the
\* ledger answer, every step of the search (run_search's loops over tries,
\* transitions and repairs) uses up one of a number of steps fixed by its
\* options, so no order of repairs, restarts and refused batches can cycle.
THEOREM SearchShortens ==
  LoopSpec => [](StepsLeft \in Nat) /\ [][StepsLeft' < StepsLeft]_all_vars
<1>1. LoopTypeOK => StepsLeft \in Nat
  BY MeasureTypes
<1>2. IInv /\ LoopTypeOK /\ LoopTypeOK' /\ [LoopNext]_all_vars
        => [StepsLeft' < StepsLeft]_all_vars
  BY ShortensStep
<1>3. QED
  BY <1>1, <1>2, LoopInvariance, PTL DEF LoopSpec

(***************************************************************************)
(* The answer.                                                             *)
(***************************************************************************)
\* An embedding that was returned is the earliest of the best of everything
\* that was retained, then and for ever.
AnsweredBest ==
  answer # None =>
    /\ Status = "answered"
    /\ \E i \in DOMAIN incumbents : Contract!IsBest(i) /\ answer = incumbents[i].chains

LEMMA AnsweredBestStep ==
  ASSUME Ranked, AnsweredBest, [Contract!ContractNext]_(Contract!contract_vars)
  PROVE  AnsweredBest'
<1>1. CASE Contract!Answer
  <2>1. PICK i \in DOMAIN incumbents : Contract!IsBest(i) /\ answer' = incumbents[i].chains
    BY <1>1 DEF Contract!Answer
  <2>2. incumbents' = incumbents /\ Status' = "answered"
    BY <1>1 DEF Contract!Answer
  <2>3. Contract!IsBest(i)'
    BY <2>1, <2>2 DEF Contract!IsBest
  <2>4. QED
    BY <2>1, <2>2, <2>3 DEF AnsweredBest
<1>2. CASE Contract!Find \/ Contract!Decline \/ Contract!Raise
  <2>1. Status = "searching" /\ answer' = answer
    BY <1>2 DEF Contract!Find, Contract!Decline, Contract!Raise
  <2>2. answer = None
    BY <2>1 DEF AnsweredBest
  <2>3. QED
    BY <2>1, <2>2 DEF AnsweredBest
<1>3. CASE UNCHANGED Contract!contract_vars
  <2>1. incumbents' = incumbents /\ Status' = Status /\ answer' = answer
    BY <1>3 DEF Contract!contract_vars
  <2>2. \A i : Contract!IsBest(i)' <=> Contract!IsBest(i)
    BY <2>1 DEF Contract!IsBest
  <2>3. QED
    BY <2>1, <2>2 DEF AnsweredBest
<1>4. QED
  BY <1>1, <1>2, <1>3 DEF Contract!ContractNext

\* What find_embedding returns is an embedding, and none that the search
\* retained has a better terminal value; of the equally good ones it is the
\* one retained first.
THEOREM AnswerIsBest ==
  LoopSpec =>
    [](answer # None =>
         /\ IsEmbedding(answer)
         /\ \E i \in DOMAIN incumbents :
              /\ answer = incumbents[i].chains
              /\ \A j \in DOMAIN incumbents :
                   /\ incumbents[j].value <= incumbents[i].value
                   /\ j < i => incumbents[j].value < incumbents[i].value)
<1>1. LoopInit => Ranked /\ RetainedSound /\ AnsweredBest
  BY DEF LoopInit, Ranked, RetainedSound, AnsweredBest
<1>2. IInv /\ LoopTypeOK /\ Bounded /\ Ranked /\ RetainedSound /\ AnsweredBest
        /\ [LoopNext]_all_vars
        => Ranked' /\ RetainedSound' /\ AnsweredBest'
  BY ContractStep, RetainedSoundStep, AnsweredBestStep
<1>3. RetainedSound /\ AnsweredBest =>
        (answer # None =>
           /\ IsEmbedding(answer)
           /\ \E i \in DOMAIN incumbents :
                /\ answer = incumbents[i].chains
                /\ \A j \in DOMAIN incumbents :
                     /\ incumbents[j].value <= incumbents[i].value
                     /\ j < i => incumbents[j].value < incumbents[i].value)
  BY DEF RetainedSound, AnsweredBest, Contract!IsBest
<1>4. QED
  BY <1>1, <1>2, <1>3, LoopInvariance, PTL DEF LoopSpec
=============================================================================
