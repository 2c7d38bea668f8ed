--------------------------- MODULE MinorEmbedding ---------------------------
(***************************************************************************)
(* The data every search state is made of: a source graph of logical       *)
(* variables, a target graph of hardware nodes and an assignment of one    *)
(* chain (a set of target nodes) to each logical variable.                 *)
(*                                                                         *)
(* The native code keeps, next to the chains, an occupancy counter for     *)
(* every target node and answers "is this a valid embedding?" from that    *)
(* counter.  IsEmbedding is the independent validator, which reads only    *)
(* the chains.                                                             *)
(***************************************************************************)
EXTENDS Integers, FiniteSets

CONSTANTS
  Logicals,      \* nodes of the source graph
  Targets,       \* nodes of the target graph
  SourceEdges,   \* its edges, each a set of two logicals
  TargetEdges    \* its edges, each a set of two targets

\* Graph::Graph refuses endpoints outside the graph and self-loops.
ASSUME GraphAssumption ==
  /\ IsFiniteSet(Logicals)
  /\ IsFiniteSet(Targets)
  /\ \A e \in SourceEdges : \E l, m \in Logicals : l # m /\ e = {l, m}
  /\ \A e \in TargetEdges : \E p, q \in Targets : p # q /\ e = {p, q}

Neighbors(l) == {m \in Logicals : {l, m} \in SourceEdges}

Adjacent(p, q) == {p, q} \in TargetEdges

\* Every way of cutting S in two is crossed by an edge.
Connected(S) ==
  \A X \in SUBSET S :
    X # {} /\ X # S => \E p \in X, q \in S \ X : Adjacent(p, q)

\* What canonical_chain lets through: nonempty, inside the target, connected.
Chains == {S \in SUBSET Targets : S # {} /\ Connected(S)}

\* An empty chain is a logical that has not been placed.
Assignments == [Logicals -> Chains \cup {{}}]

Claimants(c, q) == {l \in Logicals : q \in c[l]}

CountOccupancy(c) == [q \in Targets |-> Cardinality(Claimants(c, q))]

EdgeRealized(c, l, m) == \E p \in c[l], q \in c[m] : Adjacent(p, q)

ReachesNeighbors(c, l) == \A m \in Neighbors(l) : EdgeRealized(c, l, m)

(***************************************************************************)
(* Verdicts read from the occupancy counters `occ`, as the native state    *)
(* gives them.                                                             *)
(***************************************************************************)
\* Mutant: one overlap is tolerated.
ReportedValidLoose(c, occ) ==
  /\ \A l \in Logicals : c[l] # {} /\ ReachesNeighbors(c, l)
  /\ \A q \in Targets : occ[q] <= 2

\* Mutant: chains that do not overlap pass, whatever source edges they realize.
ReportedValidUncoupled(c, occ) ==
  /\ \A l \in Logicals : c[l] # {}
  /\ \A q \in Targets : occ[q] <= 1

ReportedValid(c, occ) ==
  /\ \A l \in Logicals : c[l] # {} /\ ReachesNeighbors(c, l)
  /\ \A q \in Targets : occ[q] <= 1

\* Mutant: a missing source edge makes nothing eligible.
EligibleOverlapping(c, occ) ==
  {l \in Logicals : c[l] = {} \/ \E q \in c[l] : occ[q] > 1}

EligibleVariables(c, occ) ==
  {l \in Logicals : \/ c[l] = {}
                    \/ \E q \in c[l] : occ[q] > 1
                    \/ ~ReachesNeighbors(c, l)}

\* The independent validator: coverage, connectivity, disjointness, edges.
IsEmbedding(c) ==
  /\ \A l \in Logicals : c[l] \in Chains
  /\ \A l, m \in Logicals : l # m => c[l] \cap c[m] = {}
  /\ \A l \in Logicals : ReachesNeighbors(c, l)

(***************************************************************************)
(* Candidate chains for one logical.                                       *)
(***************************************************************************)
\* A shortest-path walk from `root` that stops before the chain of m: it
\* avoids that chain and its last node touches it.  Node costs are the
\* client's, so the model does not say which walk is the shortest: it allows
\* every connected set of this kind, the walks among them.
Routes(c, root, m) ==
  {R \in Chains : /\ root \in R
                  /\ R \cap c[m] = {}
                  /\ \E p \in R, q \in c[m] : Adjacent(p, q)}

\* CandidateGenerator::propose before truncation: a logical without
\* neighbours may sit anywhere; otherwise one root outside every neighbour's
\* chain, and the union of one route per neighbour.
RoutedChains(c, l) ==
  IF Neighbors(l) = {}
    THEN {{q} : q \in Targets}
    ELSE {S \in Chains :
            \E root \in S :
              \E f \in [Neighbors(l) -> {R \in Chains : R \subseteq S}] :
                /\ \A m \in Neighbors(l) :
                     root \notin c[m] /\ f[m] \in Routes(c, root, m)
                /\ S = UNION {f[m] : m \in Neighbors(l)}}

\* CandidateGenerator::materialize: a supplied chain is kept only if it
\* reaches every neighbour.
ConnectingChains(c, l) ==
  {S \in Chains : ReachesNeighbors([c EXCEPT ![l] = S], l)}
=============================================================================
