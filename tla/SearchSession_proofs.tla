------------------------ MODULE SearchSession_proofs ------------------------
(***************************************************************************)
(* What every behaviour of a search session satisfies, for every pair of   *)
(* finite graphs and every limit.                                          *)
(***************************************************************************)
EXTENDS SearchSession, MinorEmbedding_proofs

Ledgers == [Coordinates -> Nat]

(***************************************************************************)
(* The charges are ledgers.                                                *)
(***************************************************************************)
LEMMA CoordinatesNamed ==
  /\ "decisions" \in Coordinates
  /\ "route_expansions" \in Coordinates
  /\ "materializations" \in Coordinates
  /\ "validator_calls" \in Coordinates
  /\ "restart_work" \in Coordinates
  /\ "feature_work" \in Coordinates
BY DEF Coordinates

LEMMA GraphSizes ==
  /\ Cardinality(Logicals) \in Nat
  /\ Cardinality(Targets) \in Nat
BY GraphAssumption, FS_CardinalityType

LEMMA UnitCharge == \A k \in Coordinates : Unit(k) \in Ledgers
BY DEF Unit, NoCharge, Ledgers

LEMMA PaidCharge ==
  ASSUME NEW routes \in Nat, NEW built \in Nat, NEW ranked \in Nat
  PROVE  Paid(routes, built, ranked) \in Ledgers
<1>1. Cardinality(Targets) + 5 * ranked \in Nat
  BY GraphSizes
<1>2. QED
  BY <1>1, CoordinatesNamed DEF Paid, NoCharge, Ledgers

LEMMA MaterializeChargeType ==
  ASSUME NEW built \in Nat, NEW ranked \in Nat
  PROVE  MaterializeCharge(built, ranked) \in Ledgers
BY CoordinatesNamed DEF MaterializeCharge, NoCharge, Ledgers

LEMMA PlacedNodesType == \A c : PlacedNodes(c) \in Nat
<1>1. IsFiniteSet(Logicals \X Targets)
  BY GraphAssumption, FS_Product
<1>2. QED
  BY <1>1, FS_Subset, FS_CardinalityType DEF PlacedNodes

LEMMA SnapshotChargeType == \A s : SnapshotCharge(s) \in Ledgers
BY PlacedNodesType, GraphSizes, CoordinatesNamed
   DEF SnapshotCharge, NoCharge, Ledgers

LEMMA ProposalSizes ==
  ASSUME NEW c, NEW l \in Logicals
  PROVE  /\ Settlements(c, l) \in Nat
         /\ IsFiniteSet(Roots(c, l))
         /\ Cardinality(Roots(c, l)) \in Nat
         /\ IsFiniteSet(RoutedChains(c, l))
<1>1. IsFiniteSet(Neighbors(l) \X Targets)
  BY GraphAssumption, FS_Product, FS_Subset DEF Neighbors
<1>2. Settlements(c, l) \in Nat
  BY <1>1, GraphSizes, FS_Subset, FS_CardinalityType DEF Settlements
<1>3. IsFiniteSet(Roots(c, l))
  BY GraphAssumption, FS_Subset DEF Roots
<1>4. RoutedChains(c, l) \subseteq SUBSET Targets
  BY DEF RoutedChains, Chains
<1>5. IsFiniteSet(RoutedChains(c, l))
  BY <1>4, GraphAssumption, FS_SUBSET, FS_Subset
<1>6. QED
  BY <1>2, <1>3, <1>5, FS_CardinalityType

LEMMA ProposalChargeType ==
  ASSUME NEW c, NEW l \in Logicals, NEW F \in FoundChains(c, l)
  PROVE  ProposalCharge(c, l, F) \in Ledgers
<1>1. Cardinality(F) \in Nat
  BY ProposalSizes, FS_Subset, FS_CardinalityType DEF FoundChains
<1>2. QED
  BY <1>1, ProposalSizes, PaidCharge DEF ProposalCharge

\* What was paid at a stop is a ledger without decisions.
LEMMA StopType ==
  ASSUME NEW c, NEW l \in Logicals, NEW stop \in Stops(c, l)
  PROVE  stop[1] = NoCharge \/ \E n, built, ranked \in Nat : stop[1] = Paid(n, built, ranked)
<1>1. CASE Neighbors(l) = {}
  BY <1>1, GraphSizes DEF Stops
<1>2. CASE Neighbors(l) # {}
  BY <1>2, ProposalSizes DEF Stops
<1>3. QED
  BY <1>1, <1>2

LEMMA ChargeType ==
  ASSUME TypeOK, NEW s \in SessionIds, NEW charge \in Ledgers, Charge(s, charge)
  PROVE  /\ work' \in [SessionIds -> Ledgers]
         /\ work'[s] = [k \in Coordinates |-> work[s][k] + charge[k]]
         /\ \A r \in SessionIds \ {s} : work'[r] = work[r]
         /\ \A k \in Coordinates : work'[s][k] <= WorkLimits[k]
BY DEF Charge, LimitsAllow, TypeOK, Ledgers

\* Nothing but a resolution pays a decision.
LEMMA NoDecision ==
  /\ \A routes, built, ranked : Paid(routes, built, ranked)["decisions"] = 0
  /\ \A built, ranked : MaterializeCharge(built, ranked)["decisions"] = 0
  /\ \A s : SnapshotCharge(s)["decisions"] = 0
  /\ NoCharge["decisions"] = 0
  /\ Unit("validator_calls")["decisions"] = 0
  /\ Unit("restart_work")["decisions"] = 0
  /\ Unit("decisions")["decisions"] = 1
BY CoordinatesNamed
   DEF Paid, MaterializeCharge, SnapshotCharge, NoCharge, Unit, Coordinates

(***************************************************************************)
(* The shapes of a step.  Every action is one of six: it creates a         *)
(* session, issues a proposal, only pays, applies, discards, or reassigns  *)
(* the chains.                                                             *)
(***************************************************************************)
Free(charge) == charge["decisions"] = 0

Created ==
  \E c \in Assignments, gen \in Nat, token \in Nat \ {0}, ledger \in Ledgers :
    /\ \A k \in Coordinates : ledger[k] <= WorkLimits[k]
    /\ Create(c, CountOccupancy(c), gen, token, ledger, ledger["decisions"])

Issued(s, l) ==
  /\ CanPropose(s)
  /\ \E charge \in Ledgers : Free(charge) /\ Charge(s, charge)
  /\ \E B \in SUBSET ConnectingChains(chains[s], l) : Issue(s, l, B)
  /\ handles \subseteq handles'
  /\ handles' \subseteq handles \cup {Handle(s, l, 0), Handle(s, l, next_token[s])}

PaidOnly(s) ==
  /\ \E charge \in Ledgers : Free(charge) /\ Charge(s, charge)
  /\ UNCHANGED <<next_session, chains, occupancy, generation, next_token,
                 outstanding, handles, resolved, inherited>>

Reassigned(s) == \E c \in Assignments : Reassign(s, c, CountOccupancy(c))

Shaped ==
  \/ Created
  \/ \E s \in Live :
       \/ \E l \in Logicals : Issued(s, l)
       \/ PaidOnly(s)
       \/ \E h \in handles : Apply(s, h) \/ Discard(s, h)
       \/ Reassigned(s)

LEMMA LiveIds == ASSUME TypeOK PROVE Live \subseteq SessionIds
BY SessionAssumption DEF TypeOK, Live, SessionIds

LEMMA UnitFacts ==
  /\ Unit("decisions") \in Ledgers
  /\ Unit("validator_calls") \in Ledgers
  /\ Unit("restart_work") \in Ledgers
  /\ NoCharge \in Ledgers
BY CoordinatesNamed DEF Unit, NoCharge, Ledgers

LEMMA SingletonsType == Singletons \subseteq Assignments
<1>1. Unplaced \in Assignments
  BY UnplacedType DEF Unplaced
<1>2. ASSUME NEW f \in [Logicals -> Targets]
      PROVE  [l \in Logicals |-> {f[l]}] \in Assignments
  BY SingletonIsChain DEF Assignments
<1>3. QED
  BY <1>1, <1>2 DEF Singletons

LEMMA RestoredType == [Logicals -> Chains] \subseteq Assignments
BY DEF Assignments

\* A fresh ledger fits every limit.
LEMMA FreshLedger ==
  \A k \in Coordinates : NoCharge[k] <= WorkLimits[k]
BY SessionAssumption DEF NoCharge

\* The candidates the generator keeps connect their logical.
LEMMA OfferedConnect ==
  ASSUME NEW c \in Assignments, NEW l \in Logicals, NEW F \in FoundChains(c, l),
         NEW B \in SUBSET F
  PROVE  B \in SUBSET ConnectingChains(c, l)
<1>1. F \subseteq RoutedChains(c, l)
  BY DEF FoundChains
<1>2. QED
  BY <1>1, RoutedConnects

LEMMA OfferShape ==
  ASSUME TypeOK, NEW s \in SessionIds, NEW l \in Logicals, NEW width,
         Offer(s, l, width)
  PROVE  Issued(s, l)
<1>1. PICK F \in FoundChains(chains[s], l) :
         /\ Charge(s, ProposalCharge(chains[s], l, F))
         /\ \E B \in Truncations(F, width) : Issue(s, l, B)
  BY DEF Offer
<1>2. PICK B \in SUBSET F : Issue(s, l, B)
  BY <1>1 DEF Truncations
<1>3. chains[s] \in Assignments
  BY DEF TypeOK
<1>4. B \in SUBSET ConnectingChains(chains[s], l)
  BY <1>2, <1>3, OfferedConnect
<1>5. ProposalCharge(chains[s], l, F) \in Ledgers
  BY ProposalChargeType
<1>6. Free(ProposalCharge(chains[s], l, F))
  BY NoDecision DEF Free, ProposalCharge
<1>7. QED
  BY <1>1, <1>2, <1>4, <1>5, <1>6 DEF Issued, Offer

LEMMA AuditShape ==
  ASSUME TypeOK, NEW s \in SessionIds, NEW l \in Logicals, ProposeWithAudit(s, l)
  PROVE  Issued(s, l)
<1>1. PICK F \in FoundChains(chains[s], l) :
         /\ Charge(s, ProposalCharge(chains[s], l, F))
         /\ \E A \in Truncations(F, WideCandidates) :
              \E B \in Truncations(A, MaxCandidates) : Issue(s, l, B)
  BY DEF ProposeWithAudit
<1>2. PICK B \in SUBSET F : Issue(s, l, B)
  BY <1>1 DEF Truncations
<1>3. chains[s] \in Assignments
  BY DEF TypeOK
<1>4. B \in SUBSET ConnectingChains(chains[s], l)
  BY <1>2, <1>3, OfferedConnect
<1>5. ProposalCharge(chains[s], l, F) \in Ledgers
  BY ProposalChargeType
<1>6. Free(ProposalCharge(chains[s], l, F))
  BY NoDecision DEF Free, ProposalCharge
<1>7. QED
  BY <1>1, <1>2, <1>4, <1>5, <1>6 DEF Issued, ProposeWithAudit

LEMMA MaterializeShape ==
  ASSUME TypeOK, NEW s \in SessionIds, NEW l \in Logicals, Materialize(s, l)
  PROVE  Issued(s, l)
<1>1. PICK B \in SUBSET ConnectingChains(chains[s], l) :
         /\ Cardinality(B) <= MaxCandidates
         /\ Charge(s, MaterializeCharge(Cardinality(B), Cardinality(B)))
         /\ Issue(s, l, B)
  BY DEF Materialize
<1>2. ConnectingChains(chains[s], l) \subseteq SUBSET Targets
  BY DEF ConnectingChains, Chains
<1>3. IsFiniteSet(SUBSET Targets)
  BY GraphAssumption, FS_SUBSET
<1>4. Cardinality(B) \in Nat
  BY <1>2, <1>3, FS_Subset, FS_CardinalityType
<1>5. MaterializeCharge(Cardinality(B), Cardinality(B)) \in Ledgers
  BY <1>4, MaterializeChargeType
<1>6. QED
  BY <1>1, <1>5, NoDecision DEF Issued, Materialize, Free

LEMMA OverBudgetShape ==
  ASSUME TypeOK, NEW s \in SessionIds, NEW l \in Logicals,
         NEW stop \in Stops(chains[s], l), ProposeOverBudget(s, l, stop)
  PROVE  PaidOnly(s)
<1>1. Charge(s, stop[1])
  BY DEF ProposeOverBudget
<1>2. stop[1] \in Ledgers /\ Free(stop[1])
  <2>1. CASE stop[1] = NoCharge
    BY <2>1, NoDecision, UnitFacts DEF Free
  <2>2. ASSUME NEW n \in Nat, NEW built \in Nat, NEW ranked \in Nat,
               stop[1] = Paid(n, built, ranked)
        PROVE  stop[1] \in Ledgers /\ Free(stop[1])
    BY <2>2, NoDecision, PaidCharge DEF Free
  <2>3. QED
    BY <2>1, <2>2, StopType
<1>3. QED
  BY <1>1, <1>2 DEF PaidOnly, ProposeOverBudget

LEMMA MaterializeFailsShape ==
  ASSUME TypeOK, NEW s \in SessionIds, NEW l \in Logicals, MaterializeFails(s, l)
  PROVE  PaidOnly(s)
<1>1. PICK built \in Nat, ranked \in Nat : Charge(s, MaterializeCharge(built, ranked))
  BY SessionAssumption DEF MaterializeFails
<1>2. MaterializeCharge(built, ranked) \in Ledgers
  BY MaterializeChargeType
<1>3. QED
  BY <1>1, <1>2, NoDecision DEF PaidOnly, Free, MaterializeFails

LEMMA PerturbShape ==
  ASSUME TypeOK, OccupancyCountsClaimants, NEW s \in SessionIds,
         NEW selected \in SUBSET Logicals, Perturb(s, selected)
  PROVE  Reassigned(s)
<1>1. PICK place \in [selected -> Targets] :
         Reassign(s,
            [l \in Logicals |-> IF l \in selected THEN {place[l]} ELSE chains[s][l]],
            [q \in Targets |-> Released(s, selected, q) + Uses(place, selected, q)])
  BY DEF Perturb
<1> DEFINE c == [l \in Logicals |-> IF l \in selected THEN {place[l]} ELSE chains[s][l]]
           occ == [q \in Targets |-> Released(s, selected, q) + Uses(place, selected, q)]
<1>2. chains[s] \in Assignments
  BY DEF TypeOK
<1>3. c \in Assignments
  BY <1>2, PlacedAssignment
<1>4. ASSUME NEW q \in Targets
      PROVE  occ[q] = Cardinality(Claimants(c, q))
  <2>1. occupancy[s][q] = Cardinality(Claimants(chains[s], q))
    BY DEF OccupancyCountsClaimants, CountOccupancy
  <2>2. Cardinality(Claimants(c, q)) =
           Cardinality(Claimants(chains[s], q))
             - Cardinality({l \in selected : q \in chains[s][l]})
             + Cardinality({l \in selected : place[l] = q})
    BY <1>2, PlacementCount
  <2>3. QED
    BY <2>1, <2>2 DEF Released, Uses
<1>5. occ = CountOccupancy(c)
  BY <1>4 DEF CountOccupancy
<1>6. QED
  BY <1>1, <1>3, <1>5 DEF Reassigned

LEMMA ForkShape ==
  ASSUME TypeOK, OccupancyCountsClaimants, WithinLimits,
         NEW s \in SessionIds, Fork(s)
  PROVE  Created
<1>1. occupancy[s] = CountOccupancy(chains[s])
  BY DEF OccupancyCountsClaimants
<1>2. /\ chains[s] \in Assignments
      /\ generation[s] \in Nat
      /\ next_token[s] \in Nat \ {0}
      /\ work[s] \in Ledgers
  BY DEF TypeOK, Ledgers
<1>3. \A k \in Coordinates : work[s][k] <= WorkLimits[k]
  BY DEF WithinLimits
<1>4. QED
  BY <1>1, <1>2, <1>3 DEF Fork, Created

LEMMA OpenShape ==
  ASSUME Open \/ Restore
  PROVE  Created
<1>1. PICK c \in Assignments, gen \in Nat :
         Create(c, CountOccupancy(c), gen, 1, NoCharge, 0)
  BY SingletonsType, RestoredType DEF Open, Restore
<1>2. QED
  BY <1>1, UnitFacts, FreshLedger, NoDecision DEF Created

LEMMA StepShape ==
  ASSUME TypeOK, OccupancyCountsClaimants, WithinLimits, Next
  PROVE  Shaped
<1>1. CASE Open \/ Restore
  BY <1>1, OpenShape DEF Shaped
<1>2. ASSUME NEW s \in Live, Fork(s)
      PROVE  Shaped
  BY <1>2, ForkShape, LiveIds DEF Shaped
<1>3. ASSUME NEW s \in Live, Snapshot(s)
      PROVE  Shaped
  <2>1. PaidOnly(s)
    BY <1>3, SnapshotChargeType, NoDecision DEF Snapshot, PaidOnly, Free
  <2>2. QED
    BY <2>1 DEF Shaped
<1>4. ASSUME NEW s \in Live, Restart(s)
      PROVE  Shaped
  BY <1>4, SingletonsType DEF Restart, Reassigned, Shaped
<1>5. ASSUME NEW s \in Live, NEW selected \in SUBSET Logicals, Perturb(s, selected)
      PROVE  Shaped
  BY <1>5, PerturbShape, LiveIds DEF Shaped
<1>6. ASSUME NEW s \in Live, NEW l \in Logicals, MaterializeFails(s, l)
      PROVE  Shaped
  BY <1>6, MaterializeFailsShape, LiveIds DEF Shaped
<1>7. ASSUME NEW s \in Live, NEW l \in Logicals, Propose(s, l) \/ ProposeApplicable(s, l)
      PROVE  Shaped
  BY <1>7, OfferShape, LiveIds DEF Propose, ProposeApplicable, Shaped
<1>8. ASSUME NEW s \in Live, NEW l \in Logicals, ProposeWithAudit(s, l)
      PROVE  Shaped
  BY <1>8, AuditShape, LiveIds DEF Shaped
<1>9. ASSUME NEW s \in Live, NEW l \in Logicals,
             NEW stop \in Stops(chains[s], l), ProposeOverBudget(s, l, stop)
      PROVE  Shaped
  BY <1>9, OverBudgetShape, LiveIds DEF Shaped
<1>10. ASSUME NEW s \in Live, NEW l \in Logicals, Materialize(s, l)
       PROVE  Shaped
  BY <1>10, MaterializeShape, LiveIds DEF Shaped
<1>11. ASSUME NEW s \in Live, NEW h \in handles, CandidateIsValid(s, h)
       PROVE  Shaped
  <2>1. PaidOnly(s)
    BY <1>11, UnitFacts, NoDecision DEF CandidateIsValid, PaidOnly, Free
  <2>2. QED
    BY <2>1 DEF Shaped
<1>12. ASSUME NEW s \in Live, NEW h \in handles, Apply(s, h) \/ Discard(s, h)
       PROVE  Shaped
  BY <1>12 DEF Shaped
<1>13. QED
  BY <1>1, <1>2, <1>3, <1>4, <1>5, <1>6, <1>7, <1>8, <1>9, <1>10, <1>11, <1>12
     DEF Next

(***************************************************************************)
(* The inductive invariant.                                                *)
(***************************************************************************)
\* Every handle is of a live session and older than its next token.
TokensIssued ==
  \A h \in handles : h.session < next_session /\ h.token < next_token[h.session]

\* The outstanding token is newer than every consumed one of its session.
ResolvedBehind ==
  \A s \in SessionIds : outstanding[s] # NoBatch =>
    /\ outstanding[s].token > 0
    /\ \A h \in resolved : h.session = s => h.token < outstanding[s].token

ResolvedFinite == IsFiniteSet(resolved)

IInv ==
  /\ TypeOK
  /\ OccupancyCountsClaimants
  /\ WithinLimits
  /\ OutstandingIsAffordable
  /\ OutstandingIsFresh
  /\ TokensIssued
  /\ ResolvedBehind
  /\ ResolvedFinite
  /\ DecisionsCountResolutions

\* A fork allocates an id no session has had.
LEMMA NewId ==
  ASSUME TypeOK, next_session <= MaxSessions
  PROVE  next_session \in SessionIds /\ next_session + 1 \in 1 .. MaxSessions + 1
BY SessionAssumption DEF TypeOK, SessionIds

LEMMA CreatedType ==
  ASSUME TypeOK, Created
  PROVE  TypeOK'
<1>1. PICK c \in Assignments, gen \in Nat, token \in Nat \ {0}, ledger \in Ledgers :
         Create(c, CountOccupancy(c), gen, token, ledger, ledger["decisions"])
  BY DEF Created
<1>2. CountOccupancy(c) \in [Targets -> Nat]
  BY CountOccupancyType
<1>3. ledger["decisions"] \in Nat
  BY CoordinatesNamed DEF Ledgers
<1>4. QED
  BY <1>1, <1>2, <1>3, NewId DEF Create, TypeOK, Ledgers

LEMMA HandleType ==
  ASSUME TypeOK, NEW s \in SessionIds, NEW l \in Logicals
  PROVE  Handle(s, l, 0) \in Handles /\ Handle(s, l, next_token[s]) \in Handles
BY DEF Handle, Handles, TypeOK

LEMMA IssuedType ==
  ASSUME TypeOK, NEW s \in SessionIds, NEW l \in Logicals, Issued(s, l)
  PROVE  TypeOK'
<1>1. PICK B \in SUBSET ConnectingChains(chains[s], l) : Issue(s, l, B)
  BY DEF Issued
<1>2. work' \in [SessionIds -> Ledgers]
  BY ChargeType DEF Issued
<1>3. B \in SUBSET Chains
  BY DEF ConnectingChains
<1>4. outstanding' \in [SessionIds -> Batches \cup {NoBatch}]
  BY <1>1, <1>3 DEF Issue, TypeOK, Batches
<1>5. handles' \subseteq Handles /\ resolved' \subseteq handles'
  <2>1. Handle(s, l, 0) \in Handles /\ Handle(s, l, next_token[s]) \in Handles
    BY HandleType
  <2>2. handles \subseteq Handles /\ resolved \subseteq handles
    BY DEF TypeOK
  <2>3. resolved' = resolved
    BY <1>1 DEF Issue
  <2>4. QED
    BY <2>1, <2>2, <2>3 DEF Issued
<1>6. next_token' \in [SessionIds -> Nat \ {0}]
  BY <1>1 DEF Issue, TypeOK
<1>7. QED
  BY <1>1, <1>2, <1>4, <1>5, <1>6 DEF Issue, TypeOK, Ledgers

LEMMA PaidType ==
  ASSUME TypeOK, NEW s \in SessionIds, PaidOnly(s)
  PROVE  TypeOK'
<1>1. work' \in [SessionIds -> Ledgers]
  BY ChargeType DEF PaidOnly
<1>2. QED
  BY <1>1 DEF PaidOnly, TypeOK, Ledgers

\* The counters after an apply, from the counters before it.
LEMMA ReoccupyCounts ==
  ASSUME NEW c \in Assignments, NEW l \in Logicals, NEW S \in Chains
  PROVE  Reoccupy(CountOccupancy(c), c[l], S) = CountOccupancy([c EXCEPT ![l] = S])
<1>1. ASSUME NEW q \in Targets
      PROVE  CountOccupancy([c EXCEPT ![l] = S])[q] =
               CountOccupancy(c)[q] - In(q, c[l]) + In(q, S)
  BY ReplacementCount DEF CountOccupancy, In
<1>2. QED
  BY <1>1 DEF Reoccupy, CountOccupancy

LEMMA AppliedCounts ==
  ASSUME TypeOK, OccupancyCountsClaimants, NEW s \in SessionIds, NEW h, Apply(s, h)
  PROVE  \E S \in outstanding[s].candidates :
           LET c == [chains[s] EXCEPT ![outstanding[s].logical] = S] IN
           /\ outstanding[s] \in Batches
           /\ c \in Assignments
           /\ chains' = [chains EXCEPT ![s] = c]
           /\ occupancy' = [occupancy EXCEPT ![s] = CountOccupancy(c)]
<1>1. outstanding[s] \in Batches
  BY DEF Apply, Accepts, TypeOK
<1> DEFINE l == outstanding[s].logical
<1>2. PICK S \in outstanding[s].candidates :
         /\ chains' = [chains EXCEPT ![s][l] = S]
         /\ occupancy' = [occupancy EXCEPT ![s] = Reoccupy(@, chains[s][l], S)]
  BY DEF Apply
<1>3. l \in Logicals /\ S \in Chains /\ chains[s] \in Assignments
  BY <1>1 DEF Batches, TypeOK
<1>4. Reoccupy(occupancy[s], chains[s][l], S) = CountOccupancy([chains[s] EXCEPT ![l] = S])
  BY <1>3, ReoccupyCounts DEF OccupancyCountsClaimants
<1>5. QED
  BY <1>1, <1>2, <1>3, <1>4, AssignedChain

LEMMA AppliedType ==
  ASSUME TypeOK, OccupancyCountsClaimants, NEW s \in SessionIds,
         NEW h \in handles, Apply(s, h)
  PROVE  TypeOK'
<1>1. PICK c \in Assignments :
         /\ chains' = [chains EXCEPT ![s] = c]
         /\ occupancy' = [occupancy EXCEPT ![s] = CountOccupancy(c)]
  BY AppliedCounts
<1>2. work' \in [SessionIds -> Ledgers]
  BY ChargeType, UnitFacts DEF Apply
<1>3. chains' \in [SessionIds -> Assignments]
      /\ occupancy' \in [SessionIds -> [Targets -> Nat]]
  BY <1>1, CountOccupancyType DEF TypeOK
<1>4. QED
  BY <1>2, <1>3 DEF Apply, TypeOK, Ledgers

LEMMA DiscardedType ==
  ASSUME TypeOK, NEW s \in SessionIds, NEW h \in handles, Discard(s, h)
  PROVE  TypeOK'
<1>1. work' \in [SessionIds -> Ledgers]
  BY ChargeType, UnitFacts DEF Discard
<1>2. QED
  BY <1>1 DEF Discard, TypeOK, Ledgers

LEMMA ReassignedType ==
  ASSUME TypeOK, NEW s \in SessionIds, Reassigned(s)
  PROVE  TypeOK'
<1>1. PICK c \in Assignments : Reassign(s, c, CountOccupancy(c))
  BY DEF Reassigned
<1>2. work' \in [SessionIds -> Ledgers]
  BY <1>1, ChargeType, UnitFacts DEF Reassign
<1>3. CountOccupancy(c) \in [Targets -> Nat]
  BY CountOccupancyType
<1>4. /\ chains' \in [SessionIds -> Assignments]
      /\ occupancy' \in [SessionIds -> [Targets -> Nat]]
  BY <1>1, <1>3 DEF Reassign, TypeOK
<1>5. /\ generation' \in [SessionIds -> Nat]
      /\ outstanding' \in [SessionIds -> Batches \cup {NoBatch}]
  BY <1>1 DEF Reassign, TypeOK
<1>6. UNCHANGED <<next_session, next_token, handles, resolved, inherited>>
  BY <1>1 DEF Reassign
<1>7. QED
  BY <1>2, <1>4, <1>5, <1>6 DEF TypeOK, Ledgers

LEMMA TypeStep ==
  ASSUME TypeOK, OccupancyCountsClaimants, Shaped
  PROVE  TypeOK'
<1>1. CASE Created
  BY <1>1, CreatedType
<1>2. ASSUME NEW s \in SessionIds, NEW l \in Logicals, Issued(s, l)
      PROVE  TypeOK'
  BY <1>2, IssuedType
<1>3. ASSUME NEW s \in SessionIds, PaidOnly(s)
      PROVE  TypeOK'
  BY <1>3, PaidType
<1>4. ASSUME NEW s \in SessionIds, NEW h \in handles, Apply(s, h)
      PROVE  TypeOK'
  BY <1>4, AppliedType
<1>5. ASSUME NEW s \in SessionIds, NEW h \in handles, Discard(s, h)
      PROVE  TypeOK'
  BY <1>5, DiscardedType
<1>6. ASSUME NEW s \in SessionIds, Reassigned(s)
      PROVE  TypeOK'
  BY <1>6, ReassignedType
<1>7. QED
  BY <1>1, <1>2, <1>3, <1>4, <1>5, <1>6, LiveIds DEF Shaped

LEMMA CountsStep ==
  ASSUME TypeOK, OccupancyCountsClaimants, Shaped
  PROVE  OccupancyCountsClaimants'
<1> USE DEF OccupancyCountsClaimants
<1>1. CASE Created
  BY <1>1, NewId DEF Created, Create, TypeOK
<1>2. ASSUME NEW s \in SessionIds, NEW l \in Logicals, Issued(s, l)
      PROVE  OccupancyCountsClaimants'
  BY <1>2 DEF Issued, Issue
<1>3. ASSUME NEW s \in SessionIds, PaidOnly(s)
      PROVE  OccupancyCountsClaimants'
  BY <1>3 DEF PaidOnly
<1>4. ASSUME NEW s \in SessionIds, NEW h \in handles, Apply(s, h)
      PROVE  OccupancyCountsClaimants'
  <2>1. PICK c \in Assignments :
           /\ chains' = [chains EXCEPT ![s] = c]
           /\ occupancy' = [occupancy EXCEPT ![s] = CountOccupancy(c)]
    BY <1>4, AppliedCounts
  <2>2. QED
    BY <2>1 DEF TypeOK
<1>5. ASSUME NEW s \in SessionIds, NEW h \in handles, Discard(s, h)
      PROVE  OccupancyCountsClaimants'
  BY <1>5 DEF Discard
<1>6. ASSUME NEW s \in SessionIds, Reassigned(s)
      PROVE  OccupancyCountsClaimants'
  BY <1>6 DEF Reassigned, Reassign, TypeOK
<1>7. QED
  BY <1>1, <1>2, <1>3, <1>4, <1>5, <1>6, LiveIds DEF Shaped

LEMMA LimitsStep ==
  ASSUME TypeOK, WithinLimits, Shaped
  PROVE  WithinLimits'
<1> USE DEF WithinLimits
<1>1. CASE Created
  BY <1>1, NewId DEF Created, Create, TypeOK
<1>2. ASSUME NEW s \in SessionIds, NEW charge \in Ledgers, Charge(s, charge)
      PROVE  WithinLimits'
  BY <1>2, ChargeType
<1>3. ASSUME NEW s \in SessionIds, NEW l \in Logicals, Issued(s, l)
      PROVE  WithinLimits'
  BY <1>2, <1>3 DEF Issued
<1>4. ASSUME NEW s \in SessionIds, PaidOnly(s)
      PROVE  WithinLimits'
  BY <1>2, <1>4 DEF PaidOnly
<1>5. ASSUME NEW s \in SessionIds, NEW h \in handles, Apply(s, h) \/ Discard(s, h)
      PROVE  WithinLimits'
  BY <1>2, <1>5, UnitFacts DEF Apply, Discard
<1>6. ASSUME NEW s \in SessionIds, Reassigned(s)
      PROVE  WithinLimits'
  BY <1>2, <1>6, UnitFacts DEF Reassigned, Reassign
<1>7. QED
  BY <1>1, <1>3, <1>4, <1>5, <1>6, LiveIds DEF Shaped

\* Paying for anything but a resolution leaves the decisions as they were.
LEMMA FreeCharge ==
  ASSUME TypeOK, NEW s \in SessionIds, NEW charge \in Ledgers, Free(charge),
         Charge(s, charge)
  PROVE  \A r \in SessionIds : work'[r]["decisions"] = work[r]["decisions"]
<1>1. ASSUME NEW r \in SessionIds
      PROVE  work'[r]["decisions"] = work[r]["decisions"]
  <2>1. CASE r = s
    <3>1. work'[s]["decisions"] = work[s]["decisions"] + charge["decisions"]
      <4>1. work'[s] = [k \in Coordinates |-> work[s][k] + charge[k]]
        BY ChargeType
      <4>2. QED
        BY <4>1, CoordinatesNamed
    <3>2. work[s]["decisions"] \in Nat
      BY CoordinatesNamed DEF TypeOK
    <3>3. QED
      BY <2>1, <3>1, <3>2 DEF Free
  <2>2. CASE r # s
    BY <2>2, ChargeType
  <2>3. QED
    BY <2>1, <2>2
<1>2. QED
  BY <1>1

LEMMA AffordableStep ==
  ASSUME TypeOK, OutstandingIsAffordable, Shaped
  PROVE  OutstandingIsAffordable'
<1> USE DEF OutstandingIsAffordable
<1>1. CASE Created
  BY <1>1, NewId DEF Created, Create, TypeOK
<1>2. ASSUME NEW s \in SessionIds, NEW l \in Logicals, Issued(s, l)
      PROVE  OutstandingIsAffordable'
  <2>1. \A r \in SessionIds : work'[r]["decisions"] = work[r]["decisions"]
    BY <1>2, FreeCharge DEF Issued
  <2>2. work[s]["decisions"] + 1 <= WorkLimits["decisions"]
    BY <1>2, CoordinatesNamed, NoDecision DEF Issued, CanPropose, LimitsAllow
  <2>3. work[s]["decisions"] < WorkLimits["decisions"]
    BY <2>2, CoordinatesNamed, SessionAssumption DEF TypeOK
  <2>4. \A r \in SessionIds \ {s} : outstanding'[r] = outstanding[r]
    BY <1>2 DEF Issued, Issue, TypeOK
  <2>5. QED
    BY <2>1, <2>3, <2>4
<1>3. ASSUME NEW s \in SessionIds, PaidOnly(s)
      PROVE  OutstandingIsAffordable'
  BY <1>3, FreeCharge DEF PaidOnly
<1>4. ASSUME NEW s \in SessionIds, NEW h \in handles, Apply(s, h) \/ Discard(s, h)
      PROVE  OutstandingIsAffordable'
  BY <1>4, ChargeType, UnitFacts DEF Apply, Discard, TypeOK
<1>5. ASSUME NEW s \in SessionIds, Reassigned(s)
      PROVE  OutstandingIsAffordable'
  BY <1>5, ChargeType, UnitFacts DEF Reassigned, Reassign, TypeOK
<1>6. QED
  BY <1>1, <1>2, <1>3, <1>4, <1>5, LiveIds DEF Shaped

LEMMA FreshStep ==
  ASSUME TypeOK, OutstandingIsFresh, Shaped
  PROVE  OutstandingIsFresh'
<1> USE DEF OutstandingIsFresh
<1>1. CASE Created
  BY <1>1, NewId DEF Created, Create, TypeOK
<1>2. ASSUME NEW s \in SessionIds, NEW l \in Logicals, Issued(s, l)
      PROVE  OutstandingIsFresh'
  <2>1. PICK B \in SUBSET ConnectingChains(chains[s], l) : Issue(s, l, B)
    BY <1>2 DEF Issued
  <2>2. /\ outstanding'[s].generation = generation'[s]
        /\ outstanding'[s].token = next_token'[s] - 1
        /\ outstanding'[s].candidates \subseteq
             ConnectingChains(chains'[s], outstanding'[s].logical)
    <3>1. outstanding'[s] = [generation |-> generation[s], token |-> next_token[s],
                             logical |-> l, candidates |-> B]
      BY <2>1 DEF Issue, TypeOK
    <3>2. next_token'[s] = next_token[s] + 1 /\ next_token[s] \in Nat
      BY <2>1 DEF Issue, TypeOK
    <3>3. generation' = generation /\ chains' = chains
      BY <2>1 DEF Issue
    <3>4. QED
      BY <3>1, <3>2, <3>3
  <2>3. \A r \in SessionIds \ {s} :
          /\ outstanding'[r] = outstanding[r]
          /\ next_token'[r] = next_token[r]
    BY <2>1 DEF Issue, TypeOK
  <2>4. QED
    BY <2>1, <2>2, <2>3 DEF Issue
<1>3. ASSUME NEW s \in SessionIds, PaidOnly(s)
      PROVE  OutstandingIsFresh'
  BY <1>3 DEF PaidOnly
<1>4. ASSUME NEW s \in SessionIds, NEW h \in handles, Apply(s, h)
      PROVE  OutstandingIsFresh'
  <2>1. \A r \in SessionIds \ {s} :
          /\ chains'[r] = chains[r]
          /\ generation'[r] = generation[r]
          /\ outstanding'[r] = outstanding[r]
    BY <1>4 DEF Apply, TypeOK
  <2>2. outstanding'[s] = NoBatch
    BY <1>4 DEF Apply, TypeOK
  <2>3. QED
    BY <1>4, <2>1, <2>2 DEF Apply
<1>5. ASSUME NEW s \in SessionIds, NEW h \in handles, Discard(s, h)
      PROVE  OutstandingIsFresh'
  BY <1>5 DEF Discard, TypeOK
<1>6. ASSUME NEW s \in SessionIds, Reassigned(s)
      PROVE  OutstandingIsFresh'
  BY <1>6 DEF Reassigned, Reassign, TypeOK
<1>7. QED
  BY <1>1, <1>2, <1>3, <1>4, <1>5, <1>6, LiveIds DEF Shaped

LEMMA TokensStep ==
  ASSUME TypeOK, TokensIssued, Shaped
  PROVE  TokensIssued'
<1> USE DEF TokensIssued
<1>0. \A h \in handles : h.session \in SessionIds /\ h.token \in Nat
  BY DEF TypeOK, Handles
<1>1. CASE Created
  <2>1. \A r \in SessionIds \ {next_session} : next_token'[r] = next_token[r]
    BY <1>1 DEF Created, Create, TypeOK
  <2>2. handles' = handles /\ next_session' = next_session + 1
    BY <1>1 DEF Created, Create
  <2>3. next_session \in Nat
    BY SessionAssumption DEF TypeOK
  <2>4. ASSUME NEW h \in handles
        PROVE  h.session < next_session' /\ h.token < next_token'[h.session]
    <3>1. h.session \in SessionIds /\ h.session \in Nat /\ h.session < next_session
      BY <1>0 DEF SessionIds
    <3>2. QED
      BY <2>1, <2>2, <2>3, <3>1
  <2>5. QED
    BY <2>2, <2>4
<1>2. ASSUME NEW s \in Live, NEW l \in Logicals, Issued(s, l)
      PROVE  TokensIssued'
  <2>1. PICK B \in SUBSET ConnectingChains(chains[s], l) : Issue(s, l, B)
    BY <1>2 DEF Issued
  <2>2. s \in SessionIds /\ s < next_session
    BY LiveIds DEF Live, TypeOK
  <2>3. next_session' = next_session /\ next_token' = [next_token EXCEPT ![s] = @ + 1]
    BY <2>1 DEF Issue
  <2>4. \A r \in SessionIds : next_token[r] \in Nat \ {0} /\ next_token'[r] >= next_token[r]
    BY <2>2, <2>3 DEF TypeOK
  <2>5. next_token'[s] = next_token[s] + 1
    BY <2>2, <2>3 DEF TypeOK
  <2>6. ASSUME NEW h \in handles'
        PROVE  h.session < next_session' /\ h.token < next_token'[h.session]
    <3>1. CASE h \in handles
      BY <1>0, <2>3, <2>4, <3>1
    <3>2. CASE h \in {Handle(s, l, 0), Handle(s, l, next_token[s])}
      BY <2>2, <2>3, <2>4, <2>5, <3>2 DEF Handle
    <3>3. QED
      BY <1>2, <3>1, <3>2 DEF Issued
  <2>7. QED
    BY <2>6
<1>3. ASSUME NEW s \in SessionIds, PaidOnly(s)
      PROVE  TokensIssued'
  BY <1>3 DEF PaidOnly
<1>4. ASSUME NEW s \in SessionIds, NEW h \in handles, Apply(s, h) \/ Discard(s, h)
      PROVE  TokensIssued'
  BY <1>4 DEF Apply, Discard
<1>5. ASSUME NEW s \in SessionIds, Reassigned(s)
      PROVE  TokensIssued'
  BY <1>5 DEF Reassigned, Reassign
<1>6. QED
  BY <1>1, <1>2, <1>3, <1>4, <1>5, LiveIds DEF Shaped

LEMMA BehindStep ==
  ASSUME TypeOK, OutstandingIsFresh, TokensIssued, ResolvedBehind, Shaped
  PROVE  ResolvedBehind'
<1> USE DEF ResolvedBehind
<1>0. \A h \in handles : h.session \in SessionIds /\ h.token \in Nat
  BY DEF TypeOK, Handles
<1>1. CASE Created
  BY <1>1, NewId DEF Created, Create, TypeOK
<1>2. ASSUME NEW s \in SessionIds, NEW l \in Logicals, Issued(s, l)
      PROVE  ResolvedBehind'
  <2>1. PICK B \in SUBSET ConnectingChains(chains[s], l) : Issue(s, l, B)
    BY <1>2 DEF Issued
  <2>2. resolved' = resolved /\ resolved \subseteq handles
    BY <2>1 DEF Issue, TypeOK
  <2>3. outstanding'[s].token = next_token[s] /\ next_token[s] \in Nat \ {0}
    BY <2>1 DEF Issue, TypeOK
  <2>4. \A r \in SessionIds \ {s} : outstanding'[r] = outstanding[r]
    BY <2>1 DEF Issue, TypeOK
  <2>5. \A h \in resolved : h.session = s => h.token < next_token[s]
    BY <2>2 DEF TokensIssued
  <2>6. QED
    BY <2>2, <2>3, <2>4, <2>5
<1>3. ASSUME NEW s \in SessionIds, PaidOnly(s)
      PROVE  ResolvedBehind'
  BY <1>3 DEF PaidOnly
<1>4. ASSUME NEW s \in SessionIds, NEW h \in handles, Apply(s, h) \/ Discard(s, h)
      PROVE  ResolvedBehind'
  <2>1. outstanding' = [outstanding EXCEPT ![s] = NoBatch] /\ resolved' = resolved \cup {h}
    BY <1>4 DEF Apply, Discard
  <2>2. h.session = s
    BY <1>4 DEF Apply, Discard, Accepts
  <2>3. QED
    BY <2>1, <2>2 DEF TypeOK
<1>5. ASSUME NEW s \in SessionIds, Reassigned(s)
      PROVE  ResolvedBehind'
  BY <1>5 DEF Reassigned, Reassign, TypeOK
<1>6. QED
  BY <1>1, <1>2, <1>3, <1>4, <1>5, LiveIds DEF Shaped

\* An accepted handle has not been consumed.
LEMMA AcceptedIsNew ==
  ASSUME TypeOK, ResolvedBehind, NEW s \in SessionIds, NEW h \in handles, Accepts(s, h)
  PROVE  h \notin resolved /\ h.token > 0
<1>1. h.session = s /\ h.token = outstanding[s].token /\ outstanding[s] # NoBatch
  BY DEF Accepts
<1>2. h.token \in Nat
  BY DEF TypeOK, Handles
<1>3. QED
  BY <1>1, <1>2 DEF ResolvedBehind

\* The resolutions of one session.
Own(s) == {h \in resolved : h.session = s}

LEMMA ResolutionsStep ==
  ASSUME TypeOK, TokensIssued, ResolvedBehind, ResolvedFinite,
         DecisionsCountResolutions, Shaped
  PROVE  ResolvedFinite' /\ DecisionsCountResolutions'
<1> USE DEF ResolvedFinite, DecisionsCountResolutions
<1>0. \A s \in SessionIds : IsFiniteSet(Own(s)) /\ Cardinality(Own(s)) \in Nat
  BY FS_Subset, FS_CardinalityType DEF Own
<1>1. CASE Created
  <2>1. PICK c \in Assignments, gen \in Nat, token \in Nat \ {0}, ledger \in Ledgers :
           Create(c, CountOccupancy(c), gen, token, ledger, ledger["decisions"])
    BY <1>1 DEF Created
  <2>2. resolved' = resolved
    BY <2>1 DEF Create
  <2>3. \A r \in SessionIds \ {next_session} :
          work'[r] = work[r] /\ inherited'[r] = inherited[r]
    BY <2>1 DEF Create, TypeOK
  <2>4. next_session \in SessionIds
    BY <2>1, NewId DEF Create
  <2>5. work'[next_session]["decisions"] = ledger["decisions"]
        /\ inherited'[next_session] = ledger["decisions"]
    BY <2>1, <2>4 DEF Create, TypeOK
  <2>6. Own(next_session) = {}
    BY <2>4 DEF Own, TypeOK, TokensIssued, SessionIds
  <2>7. ledger["decisions"] \in Nat
    BY CoordinatesNamed DEF Ledgers
  <2>8. Cardinality(Own(next_session)) = 0
    BY <2>6, FS_EmptySet
  <2>9. work'[next_session]["decisions"] =
          inherited'[next_session] + Cardinality(Own(next_session))
    BY <2>5, <2>7, <2>8
  <2>10. QED
    BY <2>2, <2>3, <2>4, <2>9 DEF Own
<1>2. ASSUME NEW s \in SessionIds, NEW l \in Logicals, Issued(s, l)
      PROVE  ResolvedFinite' /\ DecisionsCountResolutions'
  BY <1>2, FreeCharge DEF Issued, Issue
<1>3. ASSUME NEW s \in SessionIds, PaidOnly(s)
      PROVE  ResolvedFinite' /\ DecisionsCountResolutions'
  BY <1>3, FreeCharge DEF PaidOnly
<1>4. ASSUME NEW s \in SessionIds, NEW h \in handles, Apply(s, h) \/ Discard(s, h)
      PROVE  ResolvedFinite' /\ DecisionsCountResolutions'
  <2>1. resolved' = resolved \cup {h} /\ inherited' = inherited
    BY <1>4 DEF Apply, Discard
  <2>2. Charge(s, Unit("decisions")) /\ Accepts(s, h)
    BY <1>4 DEF Apply, Discard
  <2>3. h \notin resolved /\ h.session = s
    BY <2>2, AcceptedIsNew DEF Accepts
  <2>4. Own(s)' = Own(s) \cup {h} /\ h \notin Own(s)
    BY <2>1, <2>3 DEF Own
  <2>5. Cardinality(Own(s)') = Cardinality(Own(s)) + 1
    BY <1>0, <2>4, FS_AddElement
  <2>6. work'[s]["decisions"] = work[s]["decisions"] + 1
    <3>1. work'[s] = [k \in Coordinates |-> work[s][k] + Unit("decisions")[k]]
      BY <2>2, ChargeType, UnitFacts
    <3>2. QED
      BY <3>1, CoordinatesNamed, NoDecision
  <2>7. \A r \in SessionIds \ {s} : work'[r] = work[r]
    BY <2>2, ChargeType, UnitFacts
  <2>8. \A r \in SessionIds \ {s} : Own(r)' = Own(r)
    BY <2>1, <2>3 DEF Own
  <2>9. work'[s]["decisions"] = inherited'[s] + Cardinality(Own(s)')
    <3>1. work[s]["decisions"] = inherited[s] + Cardinality(Own(s))
      BY DEF Own
    <3>2. inherited[s] \in Nat /\ Cardinality(Own(s)) \in Nat
      BY <1>0 DEF TypeOK
    <3>3. inherited'[s] = inherited[s]
      BY <2>1
    <3>4. QED
      BY <2>5, <2>6, <3>1, <3>2, <3>3
  <2>10. \A r \in SessionIds \ {s} :
           work'[r]["decisions"] = inherited'[r] + Cardinality(Own(r)')
    BY <2>1, <2>7, <2>8 DEF Own
  <2>11. ResolvedFinite'
    BY <2>1, FS_AddElement
  <2>12. QED
    BY <2>9, <2>10, <2>11 DEF Own
<1>5. ASSUME NEW s \in SessionIds, Reassigned(s)
      PROVE  ResolvedFinite' /\ DecisionsCountResolutions'
  <2>1. PICK c \in Assignments : Reassign(s, c, CountOccupancy(c))
    BY <1>5 DEF Reassigned
  <2>2. \A r \in SessionIds : work'[r]["decisions"] = work[r]["decisions"]
    BY <2>1, FreeCharge, UnitFacts, NoDecision DEF Reassign, Free
  <2>3. QED
    BY <2>1, <2>2 DEF Reassign
<1>6. QED
  BY <1>1, <1>2, <1>3, <1>4, <1>5, LiveIds DEF Shaped

(***************************************************************************)
(* The theorems.                                                           *)
(***************************************************************************)
LEMMA InitInvariant == Init => IInv
<1> SUFFICES ASSUME Init PROVE IInv
  OBVIOUS
<1> USE DEF Init
<1>1. TypeOK
  <2>1. [l \in Logicals |-> {}] \in Assignments
    BY UnplacedType
  <2>2. 1 \in 1 .. MaxSessions + 1
    BY SessionAssumption
  <2>3. QED
    BY <2>1, <2>2, UnitFacts DEF TypeOK, Unplaced, Ledgers
<1>2. OccupancyCountsClaimants
  <2>1. ASSUME NEW q \in Targets
        PROVE  CountOccupancy(Unplaced)[q] = 0
    <3>1. Claimants(Unplaced, q) = {}
      BY DEF Claimants, Unplaced
    <3>2. QED
      BY <3>1, FS_EmptySet DEF CountOccupancy
  <2>2. CountOccupancy(Unplaced) = [q \in Targets |-> 0]
    BY <2>1 DEF CountOccupancy
  <2>3. QED
    BY <2>2 DEF OccupancyCountsClaimants
<1>3. WithinLimits
  BY FreshLedger DEF WithinLimits
<1>4. ResolvedFinite /\ DecisionsCountResolutions
  <2>1. \A s \in SessionIds : Cardinality({h \in resolved : h.session = s}) = 0
    <3>1. \A s \in SessionIds : {h \in resolved : h.session = s} = {}
      OBVIOUS
    <3>2. QED
      BY <3>1, FS_EmptySet
  <2>2. QED
    BY <2>1, FS_EmptySet, NoDecision DEF ResolvedFinite, DecisionsCountResolutions
<1>5. QED
  BY <1>1, <1>2, <1>3, <1>4
     DEF IInv, OutstandingIsAffordable, OutstandingIsFresh, TokensIssued, ResolvedBehind

LEMMA StepInvariant == IInv /\ [Next]_vars => IInv'
<1>1. ASSUME IInv, Next
      PROVE  IInv'
  <2>1. Shaped
    BY <1>1, StepShape DEF IInv
  <2>2. TypeOK' /\ OccupancyCountsClaimants'
    BY <1>1, <2>1, TypeStep, CountsStep DEF IInv
  <2>3. WithinLimits' /\ OutstandingIsAffordable'
    BY <1>1, <2>1, LimitsStep, AffordableStep DEF IInv
  <2>4. OutstandingIsFresh'
    BY <1>1, <2>1, FreshStep DEF IInv
  <2>5. TokensIssued' /\ ResolvedBehind'
    BY <1>1, <2>1, TokensStep, BehindStep DEF IInv
  <2>6. ResolvedFinite' /\ DecisionsCountResolutions'
    BY <1>1, <2>1, ResolutionsStep DEF IInv
  <2>7. QED
    BY <2>2, <2>3, <2>4, <2>5, <2>6 DEF IInv
<1>2. ASSUME IInv, UNCHANGED vars
      PROVE  IInv'
  BY <1>2
     DEF vars, IInv, TypeOK, OccupancyCountsClaimants, WithinLimits,
         OutstandingIsAffordable, OutstandingIsFresh, TokensIssued,
         ResolvedBehind, ResolvedFinite, DecisionsCountResolutions
<1>3. QED
  BY <1>1, <1>2

LEMMA Invariance == Spec => []IInv
BY InitInvariant, StepInvariant, PTL DEF Spec

\* Every variable has its type, whatever the clients call and in whichever
\* order.
THEOREM TypeCorrect == Spec => []TypeOK
<1>1. IInv => TypeOK
  BY DEF IInv
<1>2. QED
  BY <1>1, Invariance, PTL

\* EmbeddingState's incremental occupancy counters are exact.
THEOREM CountersExact == Spec => []OccupancyCountsClaimants
<1>1. IInv => OccupancyCountsClaimants
  BY DEF IInv
<1>2. QED
  BY <1>1, Invariance, PTL

\* The verdict a session reports is the independent validator's.
THEOREM VerdictCorrect == Spec => []ValidityIsEmbedding
<1>1. IInv => ValidityIsEmbedding
  <2>1. SUFFICES ASSUME IInv, NEW s \in Live
                 PROVE  ReportedValid(chains[s], occupancy[s]) <=> IsEmbedding(chains[s])
    BY DEF ValidityIsEmbedding
  <2>2. s \in SessionIds
    BY <2>1, LiveIds DEF IInv
  <2>3. occupancy[s] = CountOccupancy(chains[s]) /\ chains[s] \in Assignments
    BY <2>1, <2>2 DEF IInv, OccupancyCountsClaimants, TypeOK
  <2>4. QED
    BY <2>3, VerdictFromCounters
<1>2. QED
  BY <1>1, Invariance, PTL

\* NativeWorkCounters never exceed their limits.
THEOREM LimitsHold == Spec => []WithinLimits
<1>1. IInv => WithinLimits
  BY DEF IInv
<1>2. QED
  BY <1>1, Invariance, PTL

\* A proposal that was issued can be paid for when it is resolved.
THEOREM ResolutionAffordable == Spec => []OutstandingIsAffordable
<1>1. IInv => OutstandingIsAffordable
  BY DEF IInv
<1>2. QED
  BY <1>1, Invariance, PTL

\* The candidates of an outstanding proposal fit the state it will be
\* applied to.
THEOREM ProposalFresh == Spec => []OutstandingIsFresh
<1>1. IInv => OutstandingIsFresh
  BY DEF IInv
<1>2. QED
  BY <1>1, Invariance, PTL

\* One decision is paid for each consumed handle, across forks.
THEOREM DecisionsExact == Spec => []DecisionsCountResolutions
<1>1. IInv => DecisionsCountResolutions
  BY DEF IInv
<1>2. QED
  BY <1>1, Invariance, PTL

\* Handles are one-shot.
THEOREM HandlesOneShot == Spec => []ConsumedIsDead
<1>1. IInv => ConsumedIsDead
  BY AcceptedIsNew, LiveIds DEF IInv, ConsumedIsDead
<1>2. QED
  BY <1>1, Invariance, PTL

(***************************************************************************)
(* What a step may never do.                                               *)
(***************************************************************************)
GenerationStep(s) ==
  /\ generation'[s] >= generation[s]
  /\ chains'[s] # chains[s] => generation'[s] > generation[s]
  /\ generation'[s] > generation[s] => outstanding'[s] = NoBatch

LEMMA LiveOnes == ASSUME TypeOK PROVE next_session \notin Live
BY SessionAssumption DEF TypeOK, Live

\* Chains never change behind an unchanged generation, and every change of
\* generation invalidates what was proposed before it.
THEOREM GenerationSound == Spec => GenerationTracksState
<1>1. ASSUME IInv, Shaped, NEW s \in Live
      PROVE  GenerationStep(s)
  <2> USE DEF GenerationStep
  <2>0. TypeOK /\ s \in SessionIds /\ s # next_session /\ generation[s] \in Nat
    BY <1>1, LiveIds, LiveOnes DEF IInv, TypeOK
  <2>1. CASE Created
    BY <2>0, <2>1 DEF Created, Create, TypeOK
  <2>2. ASSUME NEW r \in SessionIds, NEW l \in Logicals, Issued(r, l)
        PROVE  GenerationStep(s)
    BY <2>0, <2>2 DEF Issued, Issue
  <2>3. ASSUME NEW r \in SessionIds, PaidOnly(r)
        PROVE  GenerationStep(s)
    BY <2>0, <2>3 DEF PaidOnly
  <2>4. ASSUME NEW r \in SessionIds, NEW h \in handles, Apply(r, h)
        PROVE  GenerationStep(s)
    BY <2>0, <2>4 DEF Apply, TypeOK
  <2>5. ASSUME NEW r \in SessionIds, NEW h \in handles, Discard(r, h)
        PROVE  GenerationStep(s)
    BY <2>0, <2>5 DEF Discard
  <2>6. ASSUME NEW r \in SessionIds, Reassigned(r)
        PROVE  GenerationStep(s)
    BY <2>0, <2>6 DEF Reassigned, Reassign, TypeOK
  <2>7. QED
    BY <1>1, <2>0, <2>1, <2>2, <2>3, <2>4, <2>5, <2>6, LiveIds DEF Shaped
<1>2. IInv /\ [Next]_vars =>
        [\A s \in Live : GenerationStep(s)]_vars
  BY <1>1, StepShape DEF IInv
<1>3. QED
  BY <1>2, Invariance, PTL DEF Spec, GenerationTracksState, GenerationStep

AppliedStep(s, h) ==
  h \in resolved' \ resolved /\ h.session = s /\ chains'[s] # chains[s] =>
    /\ ReachesNeighbors(chains'[s], h.logical)
    /\ \A m \in Logicals \ {h.logical} : chains'[s][m] = chains[s][m]

\* An applied candidate realises every edge of its logical in the state it
\* is applied to.
THEOREM AppliedSound == Spec => AppliedReachesNeighbors
<1>1. ASSUME IInv, Shaped, NEW s \in Live, NEW h \in handles
      PROVE  AppliedStep(s, h)
  <2>0. TypeOK /\ s \in SessionIds
    BY <1>1, LiveIds DEF IInv
  <2>1. CASE resolved' = resolved
    BY <2>1 DEF AppliedStep
  <2>2. ASSUME NEW r \in SessionIds, NEW g \in handles, Apply(r, g)
        PROVE  AppliedStep(s, h)
    <3>1. SUFFICES ASSUME h = g, h.session = s
                   PROVE  AppliedStep(s, h)
      BY <2>2 DEF AppliedStep, Apply
    <3>2. r = s /\ outstanding[s] # NoBatch /\ outstanding[s].logical = h.logical
      BY <2>2, <3>1 DEF Apply, Accepts
    <3>3. PICK S \in outstanding[s].candidates :
             chains' = [chains EXCEPT ![s][h.logical] = S]
      BY <2>2, <3>2 DEF Apply
    <3>4. S \in ConnectingChains(chains[s], h.logical)
      BY <1>1, <2>0, <3>2 DEF IInv, OutstandingIsFresh
    <3>5. chains'[s] = [chains[s] EXCEPT ![h.logical] = S]
      BY <2>0, <3>3 DEF TypeOK
    <3>6. ReachesNeighbors(chains'[s], h.logical)
      BY <3>4, <3>5 DEF ConnectingChains
    <3>7. \A m \in Logicals \ {h.logical} : chains'[s][m] = chains[s][m]
      BY <2>0, <3>5 DEF TypeOK, Assignments
    <3>8. QED
      BY <3>6, <3>7 DEF AppliedStep
  <2>3. ASSUME NEW r \in SessionIds, NEW g \in handles, Discard(r, g)
        PROVE  AppliedStep(s, h)
    BY <2>3 DEF AppliedStep, Discard
  <2>4. QED
    BY <1>1, <2>0, <2>1, <2>2, <2>3, LiveIds
       DEF Shaped, Created, Create, Issued, Issue, PaidOnly, Reassigned, Reassign
<1>2. IInv /\ [Next]_vars =>
        [\A s \in Live : \A h \in handles : AppliedStep(s, h)]_vars
  BY <1>1, StepShape DEF IInv
<1>3. QED
  BY <1>2, Invariance, PTL DEF Spec, AppliedReachesNeighbors, AppliedStep

(***************************************************************************)
(* Handles.                                                                *)
(***************************************************************************)
\* A session numbers its proposals: a token names one handle of it.  Audit
\* handles share the token zero.
TokensNameHandles ==
  \A g, h \in handles :
    g.session = h.session /\ g.token = h.token /\ g.token # 0 => g = h

LEMMA UniqueStep ==
  ASSUME TypeOK, TokensIssued, TokensNameHandles, Shaped
  PROVE  TokensNameHandles'
<1> USE DEF TokensNameHandles
<1>1. CASE handles' = handles
  BY <1>1
<1>2. ASSUME NEW s \in SessionIds, NEW l \in Logicals, Issued(s, l)
      PROVE  TokensNameHandles'
  <2> DEFINE new == Handle(s, l, next_token[s])
             audit == Handle(s, l, 0)
  <2>1. handles' \subseteq handles \cup {audit, new}
    BY <1>2 DEF Issued
  <2>2. /\ new.session = s /\ new.token = next_token[s]
        /\ audit.session = s /\ audit.token = 0
        /\ next_token[s] \in Nat \ {0}
    BY DEF Handle, TypeOK
  <2>3. ASSUME NEW h \in handles, h.session = s PROVE h.token # next_token[s]
    <3>1. h.token < next_token[s] /\ h.token \in Nat
      BY <2>3 DEF TokensIssued, TypeOK, Handles
    <3>2. QED
      BY <2>2, <3>1
  <2> HIDE DEF new, audit
  <2>4. ASSUME NEW g \in handles', NEW h \in handles',
               g.session = h.session, g.token = h.token, g.token # 0
        PROVE  g = h
    <3>1. (g \in handles \/ g = new) /\ (h \in handles \/ h = new)
      BY <2>1, <2>2, <2>4
    <3>2. QED
      BY <2>2, <2>3, <2>4, <3>1
  <2>5. QED
    BY <2>4
<1>3. QED
  BY <1>1, <1>2, LiveIds
     DEF Shaped, Created, Create, PaidOnly, Apply, Discard, Reassigned, Reassign

\* No two proposals of a session share a token, so that validate_handle's
\* comparison tells the outstanding one from every other, forks and restored
\* sessions included.
THEOREM HandlesUnique == Spec => []TokensNameHandles
<1>1. Init => TokensNameHandles
  BY DEF Init, TokensNameHandles
<1>2. IInv /\ TokensNameHandles /\ [Next]_vars => TokensNameHandles'
  <2>1. CASE Next
    BY <2>1, StepShape, UniqueStep DEF IInv
  <2>2. CASE UNCHANGED vars
    BY <2>2 DEF vars, TokensNameHandles
  <2>3. QED
    BY <2>1, <2>2
<1>3. QED
  BY <1>1, <1>2, Invariance, PTL DEF Spec

\* A handle that was issued and is not accepted now, because it was
\* consumed, dropped by a restart or a perturbation, overtaken by a later
\* proposal or issued by another session, is never accepted again.
THEOREM StaleStaysStale ==
  Spec => [][\A s \in Live : \A h \in handles : Accepts(s, h)' => Accepts(s, h)]_vars
<1>1. ASSUME IInv, Shaped, NEW s \in Live, NEW h \in handles, Accepts(s, h)'
      PROVE  Accepts(s, h)
  <2> USE DEF Accepts
  <2>0. TypeOK /\ s \in SessionIds /\ s # next_session
    BY <1>1, LiveIds, LiveOnes DEF IInv
  <2>1. CASE outstanding'[s] = outstanding[s]
    BY <1>1, <2>1
  <2>2. CASE Created
    <3>1. outstanding'[s] = outstanding[s]
      BY <2>0, <2>2 DEF Created, Create, TypeOK
    <3>2. QED
      BY <2>1, <3>1
  <2>3. ASSUME NEW r \in SessionIds, NEW l \in Logicals, Issued(r, l)
        PROVE  Accepts(s, h)
    <3>1. PICK B \in SUBSET ConnectingChains(chains[r], l) : Issue(r, l, B)
      BY <2>3 DEF Issued
    <3>2. CASE r = s
      <4>1. outstanding'[s].token = next_token[s] /\ next_token[s] \in Nat
        BY <2>0, <3>1, <3>2 DEF Issue, TypeOK
      <4>2. h.session = s => h.token < next_token[s] /\ h.token \in Nat
        BY <1>1, <2>0 DEF IInv, TokensIssued, TypeOK, Handles
      <4>3. QED
        BY <1>1, <4>1, <4>2
    <3>3. CASE r # s
      BY <2>0, <2>1, <3>1, <3>3 DEF Issue, TypeOK
    <3>4. QED
      BY <3>2, <3>3
  <2>4. ASSUME NEW r \in SessionIds, PaidOnly(r)
        PROVE  Accepts(s, h)
    BY <2>1, <2>4 DEF PaidOnly
  <2>5. ASSUME NEW r \in SessionIds, outstanding' = [outstanding EXCEPT ![r] = NoBatch]
        PROVE  Accepts(s, h)
    <3>1. outstanding'[s] = outstanding[s] \/ outstanding'[s] = NoBatch
      BY <2>0, <2>5 DEF TypeOK
    <3>2. QED
      BY <1>1, <2>1, <3>1
  <2>6. QED
    BY <1>1, <2>0, <2>2, <2>3, <2>4, <2>5, LiveIds
       DEF Shaped, Apply, Discard, Reassigned, Reassign
<1>2. IInv /\ [Next]_vars =>
        [\A s \in Live : \A h \in handles : Accepts(s, h)' => Accepts(s, h)]_vars
  BY <1>1, StepShape DEF IInv
<1>3. QED
  BY <1>2, Invariance, PTL DEF Spec
=============================================================================
