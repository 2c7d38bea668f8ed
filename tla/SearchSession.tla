---------------------------- MODULE SearchSession ----------------------------
(***************************************************************************)
(* The native search session: a mutable assignment of chains that clients  *)
(* change only through one-shot proposals, a prospective work ledger and   *)
(* forks that carry both away.                                             *)
(*                                                                         *)
(* Every public operation of a session holds its mutex from the first line *)
(* to the last, so each is one action, and any client may call any         *)
(* operation on any session with any handle it was ever given.  A call     *)
(* that throws before it changes anything is a stuttering step and has no  *)
(* action of its own; the calls that throw after paying for some of their  *)
(* work are ProposeOverBudget and MaterializeFails.                        *)
(***************************************************************************)
EXTENDS MinorEmbedding

CONSTANTS
  MaxSessions,     \* bound: sessions one behaviour may create
  MaxCandidates,   \* size of a decision batch
  WideCandidates,  \* the width asked of propose_applicable and propose_with_audit
  WorkLimits,      \* the prospective limit of each coordinate
  NoBatch          \* a session without an outstanding proposal

\* compiler_calls, cut_edge_visits and evaluator_reads stay zero in a session.
Coordinates == {"decisions", "route_expansions", "materializations",
                "validator_calls", "restart_work", "feature_work"}

SessionIds == 1 .. MaxSessions

Handles == [session : SessionIds, generation : Nat, token : Nat, logical : Logicals]

\* An outstanding batch; its session is the one that holds it.
Batches == [generation : Nat, token : Nat, logical : Logicals,
            candidates : SUBSET Chains]

ASSUME SessionAssumption ==
  /\ MaxSessions \in Nat
  /\ MaxCandidates \in Nat \ {0}
  /\ WideCandidates \in Nat /\ WideCandidates >= MaxCandidates
  /\ WorkLimits \in [Coordinates -> Nat]
  /\ NoBatch \notin Batches

VARIABLES
  next_session,  \* allocate_session_id's counter; smaller ids are live
  chains,        \* each session's EmbeddingState::chains_
  occupancy,     \* its EmbeddingState::occupancy_
  generation,
  next_token,
  outstanding,
  work,
  handles,       \* every batch handle a client was given
  resolved,      \* history: the handles an apply or a discard consumed
  inherited      \* history: decisions its ancestors had taken when a session was forked

vars == <<next_session, chains, occupancy, generation, next_token,
          outstanding, work, handles, resolved, inherited>>

Live == 1 .. (next_session - 1)

(***************************************************************************)
(* The work ledger.                                                        *)
(***************************************************************************)
NoCharge == [k \in Coordinates |-> 0]

Unit(k) == [NoCharge EXCEPT ![k] = 1]

\* Mutant: the limit is compared before the amount is added.
LimitsAllowLate(s, charge) ==
  \A k \in Coordinates : charge[k] > 0 => work[s][k] <= WorkLimits[k]

\* NativeWorkCounters::require, over every coordinate at once.
LimitsAllow(s, charge) ==
  \A k \in Coordinates : work[s][k] + charge[k] <= WorkLimits[k]

Charge(s, charge) ==
  /\ LimitsAllow(s, charge)
  /\ work' = [work EXCEPT ![s] = [k \in Coordinates |-> @[k] + charge[k]]]

PlacedNodes(c) == Cardinality({x \in Logicals \X Targets : x[2] \in c[x[1]]})

SnapshotCharge(s) ==
  [NoCharge EXCEPT !["validator_calls"] = 1,
                   !["feature_work"] = Cardinality(Targets)
                     + 2 * Cardinality(Logicals) + 5 + PlacedNodes(chains[s])]

\* What one proposal has paid after `routes` settlements, `built` successor
\* chains and `ranked` ranks of five features each.
Paid(routes, built, ranked) ==
  [NoCharge EXCEPT !["route_expansions"] = routes,
                   !["materializations"] = built,
                   !["feature_work"] = Cardinality(Targets) + 5 * ranked]

Reachable(S) == UNION {T \in Chains : T \cap S # {}}

\* A router run from each neighbour's chain settles what it reaches.
Settlements(c, l) ==
  IF Neighbors(l) = {}
    THEN Cardinality(Targets)
    ELSE Cardinality({x \in Neighbors(l) \X Targets : x[2] \in Reachable(c[x[1]])})

Roots(c, l) ==
  {q \in Targets : \A m \in Neighbors(l) : q \notin c[m] /\ q \in Reachable(c[m])}

\* Each root yields one chain; equal chains of different roots are merged.
\* An isolated logical has one candidate per target.
FoundChains(c, l) ==
  LET routed == RoutedChains(c, l)
      roots == Cardinality(Roots(c, l))
  IN {F \in SUBSET routed :
        /\ Cardinality(F) <= roots
        /\ roots > 0 => F # {}
        /\ Neighbors(l) = {} => F = routed}

ProposalCharge(c, l, F) ==
  Paid(Settlements(c, l), Cardinality(Roots(c, l)), Cardinality(F))

\* Where a proposal can stop: what it has paid and what it needs next.  After
\* the features of the cost vector come the settlements, then one successor
\* per root, ranked unless it is a duplicate; an isolated logical pays for
\* a settlement, a successor and its rank at once.
Stops(c, l) ==
  {<<NoCharge, Paid(0, 0, 0)>>} \cup
  IF Neighbors(l) = {}
    THEN {<<Paid(n, n, n), Paid(n + 1, n + 1, n + 1)>> : n \in 0 .. Cardinality(Targets) - 1}
    ELSE LET settled == Settlements(c, l)
             roots == Cardinality(Roots(c, l))
         IN {<<Paid(n, 0, 0), Paid(n + 1, 0, 0)>> : n \in 0 .. settled - 1}
              \cup {<<Paid(settled, x[1], x[2]), Paid(settled, x[1] + 1, x[2])>> :
                      x \in {y \in (0 .. roots - 1) \X (0 .. roots) :
                               y[2] <= y[1] /\ (y[1] > 0 => y[2] > 0)}}
              \cup {<<Paid(settled, x[1], x[2]), Paid(settled, x[1], x[2] + 1)>> :
                      x \in {y \in (1 .. roots) \X (0 .. roots) :
                               y[2] < y[1] /\ (y[1] > 1 => y[2] > 0)}}

MaterializeCharge(built, ranked) ==
  [NoCharge EXCEPT !["materializations"] = built, !["feature_work"] = 5 * ranked]

(***************************************************************************)
(* Creating sessions.                                                      *)
(***************************************************************************)
Unplaced == [l \in Logicals |-> {}]

\* restart(): one random target for every logical, unless there is none.
Singletons ==
  IF Targets = {} THEN {Unplaced}
                  ELSE {[l \in Logicals |-> {f[l]}] : f \in [Logicals -> Targets]}

Init ==
  /\ next_session = 1
  /\ chains = [s \in SessionIds |-> Unplaced]
  /\ occupancy = [s \in SessionIds |-> [q \in Targets |-> 0]]
  /\ generation = [s \in SessionIds |-> 0]
  /\ next_token = [s \in SessionIds |-> 1]
  /\ outstanding = [s \in SessionIds |-> NoBatch]
  /\ work = [s \in SessionIds |-> NoCharge]
  /\ handles = {}
  /\ resolved = {}
  /\ inherited = [s \in SessionIds |-> 0]

\* A constructor allocates the next id; the caller says what it holds.
Create(c, occ, gen, token, ledger, decided) ==
  /\ next_session <= MaxSessions
  /\ next_session' = next_session + 1
  /\ chains' = [chains EXCEPT ![next_session] = c]
  /\ occupancy' = [occupancy EXCEPT ![next_session] = occ]
  /\ generation' = [generation EXCEPT ![next_session] = gen]
  /\ next_token' = [next_token EXCEPT ![next_session] = token]
  /\ outstanding' = [outstanding EXCEPT ![next_session] = NoBatch]
  /\ work' = [work EXCEPT ![next_session] = ledger]
  /\ inherited' = [inherited EXCEPT ![next_session] = decided]
  /\ UNCHANGED <<handles, resolved>>

\* The constructor's own restart is not charged and makes generation one.
Open == \E c \in Singletons : Create(c, CountOccupancy(c), 1, 1, NoCharge, 0)

\* from_chains accepts any connected chains, overlapping or not.
Restore ==
  \E c \in [Logicals -> Chains] :
    Create(c, CountOccupancy(c), 0, 1, NoCharge, 0)

\* fork copies generation, token and ledger; only the id is new.
Fork(s) ==
  /\ outstanding[s] = NoBatch
  /\ Create(chains[s], occupancy[s], generation[s], next_token[s], work[s],
            work[s]["decisions"])

(***************************************************************************)
(* Proposals.                                                              *)
(***************************************************************************)
\* Mutant: a proposal is issued with no decision left to resolve it.
CanProposeUnchecked(s) == outstanding[s] = NoBatch

CanPropose(s) ==
  /\ outstanding[s] = NoBatch
  /\ LimitsAllow(s, Unit("decisions"))

Handle(s, l, token) ==
  [session |-> s, generation |-> generation[s], token |-> token, logical |-> l]

\* Mutant: the token is not consumed.
IssueSameToken(s, l, candidates) ==
  /\ outstanding' = [outstanding EXCEPT ![s] =
       [generation |-> generation[s], token |-> next_token[s],
        logical |-> l, candidates |-> candidates]]
  /\ UNCHANGED <<next_session, chains, occupancy, generation, next_token,
                 resolved, inherited>>

Issue(s, l, candidates) ==
  /\ outstanding' = [outstanding EXCEPT ![s] =
       [generation |-> generation[s], token |-> next_token[s],
        logical |-> l, candidates |-> candidates]]
  /\ next_token' = [next_token EXCEPT ![s] = @ + 1]
  /\ UNCHANGED <<next_session, chains, occupancy, generation, resolved, inherited>>

\* The first `width` of the found chains, in rank order.
Truncations(F, width) ==
  {B \in SUBSET F : \/ Cardinality(B) = width
                    \/ Cardinality(F) < width /\ B = F}

Offer(s, l, width) ==
  /\ CanPropose(s)
  /\ \E F \in FoundChains(chains[s], l) :
       /\ Charge(s, ProposalCharge(chains[s], l, F))
       /\ \E B \in Truncations(F, width) : Issue(s, l, B)
  /\ handles' = handles \cup {Handle(s, l, next_token[s])}

Propose(s, l) == Offer(s, l, MaxCandidates)

ProposeApplicable(s, l) == Offer(s, l, WideCandidates)

\* The audit batch is wider than the decision batch and carries token zero.
ProposeWithAudit(s, l) ==
  /\ CanPropose(s)
  /\ \E F \in FoundChains(chains[s], l) :
       /\ Charge(s, ProposalCharge(chains[s], l, F))
       /\ \E A \in Truncations(F, WideCandidates) :
            \E B \in Truncations(A, MaxCandidates) : Issue(s, l, B)
  /\ handles' = handles \cup {Handle(s, l, 0), Handle(s, l, next_token[s])}

\* WorkBudgetExceeded from inside the generator: what was paid stays paid
\* and no batch is issued.
ProposeOverBudget(s, l, stop) ==
  /\ CanPropose(s)
  /\ ~LimitsAllow(s, stop[2])
  /\ Charge(s, stop[1])
  /\ UNCHANGED <<next_session, chains, occupancy, generation, next_token,
                 outstanding, handles, resolved, inherited>>

\* The client supplies the chains itself.
Materialize(s, l) ==
  /\ CanPropose(s)
  /\ \E B \in SUBSET ConnectingChains(chains[s], l) :
       /\ Cardinality(B) <= MaxCandidates
       /\ Charge(s, MaterializeCharge(Cardinality(B), Cardinality(B)))
       /\ Issue(s, l, B)
  /\ handles' = handles \cup {Handle(s, l, next_token[s])}

\* The chain after the first `ranked` ones is refused before it is paid for,
\* or is paid for and then a duplicate, or one whose rank does not fit.
MaterializeFails(s, l) ==
  /\ CanPropose(s)
  /\ LET connecting == Cardinality(ConnectingChains(chains[s], l)) IN
     \E ranked \in 0 .. MaxCandidates - 1 :
       /\ ranked <= connecting
       /\ \/ Charge(s, MaterializeCharge(ranked, ranked))
          \/ /\ Charge(s, MaterializeCharge(ranked + 1, ranked))
             /\ \/ ranked > 0
                \/ connecting > 0 /\ ~LimitsAllow(s, MaterializeCharge(1, 1))
  /\ UNCHANGED <<next_session, chains, occupancy, generation, next_token,
                 outstanding, handles, resolved, inherited>>

\* Mutant: the session id of a handle is not compared.
AcceptsForeign(s, h) ==
  /\ outstanding[s] # NoBatch
  /\ h.generation = outstanding[s].generation
  /\ h.token = outstanding[s].token
  /\ h.logical = outstanding[s].logical

\* validate_handle: is h the proposal s has outstanding?
Accepts(s, h) ==
  /\ outstanding[s] # NoBatch
  /\ h.session = s
  /\ h.generation = outstanding[s].generation
  /\ h.token = outstanding[s].token
  /\ h.logical = outstanding[s].logical

\* A candidate is tried on a copy of the state; only the ledger changes.
CandidateIsValid(s, h) ==
  /\ Accepts(s, h)
  /\ outstanding[s].candidates # {}
  /\ Charge(s, Unit("validator_calls"))
  /\ UNCHANGED <<next_session, chains, occupancy, generation, next_token,
                 outstanding, handles, resolved, inherited>>

In(q, S) == IF q \in S THEN 1 ELSE 0

\* Mutant: increments and decrements are swapped.
ReoccupySwapped(occ, old, new) ==
  [q \in Targets |-> occ[q] - In(q, new) + In(q, old)]

\* EmbeddingState::replace_chain's incremental counters.
Reoccupy(occ, old, new) == [q \in Targets |-> occ[q] - In(q, old) + In(q, new)]

\* Mutant: an apply does not advance the generation.
ApplySameGeneration(s, h) ==
  /\ Accepts(s, h)
  /\ Charge(s, Unit("decisions"))
  /\ \E S \in outstanding[s].candidates :
       LET l == outstanding[s].logical IN
       /\ chains' = [chains EXCEPT ![s][l] = S]
       /\ occupancy' = [occupancy EXCEPT ![s] = Reoccupy(@, chains[s][l], S)]
  /\ outstanding' = [outstanding EXCEPT ![s] = NoBatch]
  /\ resolved' = resolved \cup {h}
  /\ UNCHANGED <<next_session, generation, next_token, handles, inherited>>

Apply(s, h) ==
  /\ Accepts(s, h)
  /\ Charge(s, Unit("decisions"))
  /\ \E S \in outstanding[s].candidates :
       LET l == outstanding[s].logical IN
       /\ chains' = [chains EXCEPT ![s][l] = S]
       /\ occupancy' = [occupancy EXCEPT ![s] = Reoccupy(@, chains[s][l], S)]
  /\ outstanding' = [outstanding EXCEPT ![s] = NoBatch]
  /\ generation' = [generation EXCEPT ![s] = @ + 1]
  /\ resolved' = resolved \cup {h}
  /\ UNCHANGED <<next_session, next_token, handles, inherited>>

Discard(s, h) ==
  /\ Accepts(s, h)
  /\ Charge(s, Unit("decisions"))
  /\ outstanding' = [outstanding EXCEPT ![s] = NoBatch]
  /\ resolved' = resolved \cup {h}
  /\ UNCHANGED <<next_session, chains, occupancy, generation, next_token,
                 handles, inherited>>

(***************************************************************************)
(* Observing and disturbing the state.                                     *)
(***************************************************************************)
Snapshot(s) ==
  /\ Charge(s, SnapshotCharge(s))
  /\ UNCHANGED <<next_session, chains, occupancy, generation, next_token,
                 outstanding, handles, resolved, inherited>>

\* Mutant: the proposal computed for the old chains survives.
ReassignKeepingProposal(s, c, occ) ==
  /\ Charge(s, Unit("restart_work"))
  /\ chains' = [chains EXCEPT ![s] = c]
  /\ occupancy' = [occupancy EXCEPT ![s] = occ]
  /\ generation' = [generation EXCEPT ![s] = @ + 1]
  /\ UNCHANGED <<next_session, next_token, outstanding, handles, resolved,
                 inherited>>

\* Both perturb and restart drop an outstanding proposal without a decision.
Reassign(s, c, occ) ==
  /\ Charge(s, Unit("restart_work"))
  /\ chains' = [chains EXCEPT ![s] = c]
  /\ occupancy' = [occupancy EXCEPT ![s] = occ]
  /\ outstanding' = [outstanding EXCEPT ![s] = NoBatch]
  /\ generation' = [generation EXCEPT ![s] = @ + 1]
  /\ UNCHANGED <<next_session, next_token, handles, resolved, inherited>>

Restart(s) == \E c \in Singletons : Reassign(s, c, CountOccupancy(c))

\* Mutant: the perturbed chains are not taken out of the counters.
ReleasedNothing(s, selected, q) == occupancy[s][q]

Released(s, selected, q) ==
  occupancy[s][q] - Cardinality({l \in selected : q \in chains[s][l]})

Uses(place, selected, q) == Cardinality({l \in selected : place[l] = q})

\* Targets are dealt out in rounds, the least occupied first.
DealtByOccupancy(s, selected, place) ==
  \A q, r \in Targets :
    /\ Uses(place, selected, q) <= Uses(place, selected, r) + 1
    /\ Released(s, selected, r) < Released(s, selected, q) =>
         Uses(place, selected, q) <= Uses(place, selected, r)

Perturb(s, selected) ==
  /\ selected # {}
  /\ Targets # {}
  /\ \E place \in [selected -> Targets] :
       /\ DealtByOccupancy(s, selected, place)
       /\ Reassign(s,
            [l \in Logicals |-> IF l \in selected THEN {place[l]} ELSE chains[s][l]],
            [q \in Targets |-> Released(s, selected, q) + Uses(place, selected, q)])

Next ==
  \/ Open
  \/ Restore
  \/ \E s \in Live :
       \/ Fork(s)
       \/ Snapshot(s)
       \/ Restart(s)
       \/ \E selected \in SUBSET Logicals : Perturb(s, selected)
       \/ \E l \in Logicals :
            \/ Propose(s, l)
            \/ ProposeApplicable(s, l)
            \/ ProposeWithAudit(s, l)
            \/ \E stop \in Stops(chains[s], l) : ProposeOverBudget(s, l, stop)
            \/ Materialize(s, l)
            \/ MaterializeFails(s, l)
       \/ \E h \in handles :
            \/ CandidateIsValid(s, h)
            \/ Apply(s, h)
            \/ Discard(s, h)

Spec == Init /\ [][Next]_vars

(***************************************************************************)
(* Properties.                                                             *)
(***************************************************************************)
\* Every variable has its type.
TypeOK ==
  /\ next_session \in 1 .. MaxSessions + 1
  /\ chains \in [SessionIds -> Assignments]
  /\ occupancy \in [SessionIds -> [Targets -> Nat]]
  /\ generation \in [SessionIds -> Nat]
  /\ next_token \in [SessionIds -> Nat \ {0}]
  /\ outstanding \in [SessionIds -> Batches \cup {NoBatch}]
  /\ work \in [SessionIds -> [Coordinates -> Nat]]
  /\ handles \subseteq Handles
  /\ resolved \subseteq handles
  /\ inherited \in [SessionIds -> Nat]

\* The incremental occupancy counters (replace_chain, remove_chain) count
\* exactly the chains that hold each target, whatever was applied,
\* perturbed, restarted, restored or forked before.
OccupancyCountsClaimants ==
  \A s \in SessionIds : occupancy[s] = CountOccupancy(chains[s])

\* The native verdict, read from the counters, is the independent
\* validator's: api.py raises "native validity disagreed" otherwise.
ValidityIsEmbedding ==
  \A s \in Live : ReportedValid(chains[s], occupancy[s]) <=> IsEmbedding(chains[s])

\* A session never exceeds a limit: the charge comes before the operation,
\* also when a proposal fails half-way or a fork starts on a spent ledger.
WithinLimits ==
  \A s \in SessionIds, k \in Coordinates : work[s][k] <= WorkLimits[k]

\* Whoever holds the outstanding proposal can still afford the decision
\* that resolves it, so no session is stuck with one it cannot discard.
OutstandingIsAffordable ==
  \A s \in SessionIds :
    outstanding[s] # NoBatch => work[s]["decisions"] < WorkLimits["decisions"]

\* The outstanding candidates were computed for the state the session holds
\* now: applying any of them realises every edge of its logical.
OutstandingIsFresh ==
  \A s \in SessionIds :
    outstanding[s] # NoBatch =>
      /\ outstanding[s].generation = generation[s]
      /\ outstanding[s].token = next_token[s] - 1
      /\ outstanding[s].candidates \subseteq
           ConnectingChains(chains[s], outstanding[s].logical)

\* The decisions of a ledger are the ones it was born with plus one for each
\* handle of its own session that was consumed: no handle is consumed twice,
\* by another session, or after a restart or perturbation dropped it.
DecisionsCountResolutions ==
  \A s \in SessionIds :
    work[s]["decisions"] =
      inherited[s] + Cardinality({h \in resolved : h.session = s})

\* A consumed handle and an audit handle are never accepted again.
ConsumedIsDead ==
  \A s \in Live : \A h \in handles :
    h \in resolved \/ h.token = 0 => ~Accepts(s, h)

\* A client that compares generations sees every change: chains change only
\* with a higher generation, which never falls and always drops the
\* proposal computed before it.
GenerationTracksState ==
  [][\A s \in Live :
       /\ generation'[s] >= generation[s]
       /\ chains'[s] # chains[s] => generation'[s] > generation[s]
       /\ generation'[s] > generation[s] => outstanding'[s] = NoBatch]_vars

\* Applying a proposal leaves its logical connected to every neighbour and
\* every other chain as it was.
AppliedReachesNeighbors ==
  [][\A s \in Live : \A h \in handles :
       h \in resolved' \ resolved /\ h.session = s /\ chains'[s] # chains[s] =>
         /\ ReachesNeighbors(chains'[s], h.logical)
         /\ \A m \in Logicals \ {h.logical} : chains'[s][m] = chains[s][m]]_vars
=============================================================================
