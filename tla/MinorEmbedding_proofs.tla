----------------------- MODULE MinorEmbedding_proofs -----------------------
(***************************************************************************)
(* Facts about chains, counters and verdicts for every pair of finite      *)
(* graphs.                                                                 *)
(***************************************************************************)
EXTENDS MinorEmbedding, FiniteSetTheorems, TLAPS

\* A logical is not its own neighbour: the source graph has no self-loop.
LEMMA NoSelfNeighbor == \A l : l \notin Neighbors(l)
BY GraphAssumption DEF Neighbors

LEMMA ClaimantsFinite ==
  \A c, q : IsFiniteSet(Claimants(c, q)) /\ Cardinality(Claimants(c, q)) \in Nat
BY GraphAssumption, FS_Subset, FS_CardinalityType DEF Claimants

LEMMA CountOccupancyType == \A c : CountOccupancy(c) \in [Targets -> Nat]
BY ClaimantsFinite DEF CountOccupancy

LEMMA SingletonIsChain == \A q \in Targets : {q} \in Chains
BY DEF Chains, Connected

LEMMA UnplacedType == [l \in Logicals |-> {}] \in Assignments
BY DEF Assignments

\* The verdict the native state reads from exact counters is the verdict of
\* the independent validator.
THEOREM VerdictFromCounters ==
  ASSUME NEW c \in Assignments
  PROVE  ReportedValid(c, CountOccupancy(c)) <=> IsEmbedding(c)
<1>1. ASSUME ReportedValid(c, CountOccupancy(c)),
             NEW l \in Logicals, NEW m \in Logicals, l # m,
             NEW q \in c[l] \cap c[m]
      PROVE  FALSE
  <2>1. q \in Targets
    BY <1>1 DEF Assignments, Chains
  <2>2. Cardinality(Claimants(c, q)) <= 1
    BY <1>1, <2>1 DEF ReportedValid, CountOccupancy
  <2>3. {l, m} \subseteq Claimants(c, q)
    BY <1>1 DEF Claimants
  <2>4. IsFiniteSet({l}) /\ Cardinality({l}) = 1
    BY FS_Singleton
  <2>5. Cardinality({l} \cup {m}) = 2
    <3>1. m \notin {l}
      BY <1>1
    <3>2. Cardinality({l} \cup {m}) = Cardinality({l}) + 1
      BY <2>4, <3>1, FS_AddElement
    <3>3. QED
      BY <2>4, <3>2
  <2>6. {l} \cup {m} = {l, m}
    OBVIOUS
  <2>7. Cardinality({l, m}) = 2
    BY <2>5, <2>6
  <2>8. QED
    BY <2>2, <2>3, <2>7, ClaimantsFinite, FS_Subset
<1>2. ASSUME IsEmbedding(c), NEW q \in Targets
      PROVE  CountOccupancy(c)[q] <= 1
  <2>1. CASE Claimants(c, q) = {}
    BY <2>1, FS_EmptySet DEF CountOccupancy
  <2>2. CASE Claimants(c, q) # {}
    <3>1. PICK l \in Logicals : l \in Claimants(c, q)
      BY <2>2 DEF Claimants
    <3>2. Claimants(c, q) = {l}
      BY <1>2, <3>1 DEF Claimants, IsEmbedding
    <3>3. QED
      BY <3>2, FS_Singleton DEF CountOccupancy
  <2>3. QED
    BY <2>1, <2>2
<1>3. ReportedValid(c, CountOccupancy(c)) => IsEmbedding(c)
  <2>1. ASSUME ReportedValid(c, CountOccupancy(c)), NEW l \in Logicals
        PROVE  c[l] \in Chains /\ ReachesNeighbors(c, l)
    BY <2>1 DEF ReportedValid, Assignments
  <2>2. QED
    BY <1>1, <2>1 DEF IsEmbedding
<1>4. IsEmbedding(c) => ReportedValid(c, CountOccupancy(c))
  BY <1>2 DEF IsEmbedding, ReportedValid, Chains
<1>5. QED
  BY <1>3, <1>4

\* Giving l the chain S changes the claimants of a node by l alone.
LEMMA ReplacementCount ==
  ASSUME NEW c \in Assignments, NEW l \in Logicals, NEW S, NEW q \in Targets
  PROVE  Cardinality(Claimants([c EXCEPT ![l] = S], q)) =
           Cardinality(Claimants(c, q)) - (IF q \in c[l] THEN 1 ELSE 0)
             + (IF q \in S THEN 1 ELSE 0)
<1> DEFINE d == [c EXCEPT ![l] = S]
           others == Claimants(c, q) \ {l}
<1>1. \A m \in Logicals : d[m] = IF m = l THEN S ELSE c[m]
  BY DEF Assignments
<1>2. IsFiniteSet(others) /\ Cardinality(others) =
        IF q \in c[l] THEN Cardinality(Claimants(c, q)) - 1
                      ELSE Cardinality(Claimants(c, q))
  <2>1. l \in Claimants(c, q) <=> q \in c[l]
    BY DEF Claimants
  <2>2. QED
    BY <2>1, ClaimantsFinite, FS_RemoveElement
<1>3. CASE q \in S
  <2>1. Claimants(d, q) = others \cup {l}
    BY <1>1, <1>3 DEF Claimants
  <2>2. Cardinality(Claimants(d, q)) = Cardinality(others) + 1
    BY <1>2, <2>1, FS_AddElement
  <2>3. QED
    BY <1>2, <1>3, <2>2, ClaimantsFinite
<1>4. CASE q \notin S
  <2>1. Claimants(d, q) = others
    BY <1>1, <1>4 DEF Claimants
  <2>2. Cardinality(Claimants(d, q)) = Cardinality(others)
    BY <2>1
  <2>3. QED
    BY <1>2, <1>4, <2>2, ClaimantsFinite
<1>5. QED
  BY <1>3, <1>4

\* Placing every selected logical on one node replaces their claims.
LEMMA PlacementCount ==
  ASSUME NEW c \in Assignments, NEW selected \in SUBSET Logicals,
         NEW place \in [selected -> Targets], NEW q \in Targets,
         NEW d, d = [l \in Logicals |-> IF l \in selected THEN {place[l]} ELSE c[l]]
  PROVE  Cardinality(Claimants(d, q)) =
           Cardinality(Claimants(c, q))
             - Cardinality({l \in selected : q \in c[l]})
             + Cardinality({l \in selected : place[l] = q})
<1> DEFINE claimed == Claimants(c, q)
           taken == {l \in selected : q \in c[l]}
           placed == {l \in selected : place[l] = q}
<1>1. IsFiniteSet(claimed) /\ IsFiniteSet(placed) /\ IsFiniteSet(taken)
  BY GraphAssumption, ClaimantsFinite, FS_Subset
<1>2. claimed \cap selected = taken
  BY DEF Claimants
<1>3. /\ Cardinality(claimed \ selected) = Cardinality(claimed) - Cardinality(taken)
      /\ IsFiniteSet(claimed \ selected)
  <2>1. /\ IsFiniteSet(claimed \ selected)
        /\ Cardinality(claimed \ selected)
             = Cardinality(claimed) - Cardinality(claimed \cap selected)
    BY <1>1, FS_Difference
  <2>2. Cardinality(claimed \cap selected) = Cardinality(taken)
    BY <1>2
  <2>3. QED
    BY <2>1, <2>2
<1>4. Claimants(d, q) = (claimed \ selected) \cup placed
  BY DEF Claimants
<1>5. (claimed \ selected) \cap placed = {}
  OBVIOUS
<1>6. Cardinality(Claimants(d, q)) =
        Cardinality(claimed \ selected) + Cardinality(placed)
  <2> DEFINE rest == claimed \ selected
  <2>1. /\ Cardinality(rest) \in Nat
        /\ Cardinality(placed) \in Nat
    BY <1>1, <1>3, FS_CardinalityType
  <2>2. Cardinality(rest \cap placed) = 0
    BY <1>5, FS_EmptySet
  <2>3. Cardinality(rest \cup placed) =
          Cardinality(rest) + Cardinality(placed) - Cardinality(rest \cap placed)
    BY <1>1, <1>3, FS_Union
  <2>4. Cardinality(Claimants(d, q)) = Cardinality(rest \cup placed)
    BY <1>4
  <2>5. QED
    BY <2>1, <2>2, <2>3, <2>4
<1>7. QED
  BY <1>1, <1>3, <1>6, FS_CardinalityType

LEMMA AssignedChain ==
  ASSUME NEW c \in Assignments, NEW l \in Logicals, NEW S \in Chains
  PROVE  [c EXCEPT ![l] = S] \in Assignments
BY DEF Assignments

LEMMA PlacedAssignment ==
  ASSUME NEW c \in Assignments, NEW selected \in SUBSET Logicals,
         NEW place \in [selected -> Targets]
  PROVE  [l \in Logicals |-> IF l \in selected THEN {place[l]} ELSE c[l]]
           \in Assignments
BY SingletonIsChain DEF Assignments

\* A routed chain touches the chain of every neighbour it was routed from:
\* the union of the routes contains each route's last node.
THEOREM RoutedConnects ==
  ASSUME NEW c \in Assignments, NEW l \in Logicals
  PROVE  RoutedChains(c, l) \subseteq ConnectingChains(c, l)
<1> SUFFICES ASSUME NEW S \in RoutedChains(c, l)
             PROVE  S \in ConnectingChains(c, l)
  OBVIOUS
<1>1. CASE Neighbors(l) = {}
  <2>1. S \in Chains
    BY <1>1, SingletonIsChain DEF RoutedChains
  <2>2. QED
    BY <1>1, <2>1 DEF ConnectingChains, ReachesNeighbors
<1>2. CASE Neighbors(l) # {}
  <2>1. S \in Chains
    BY <1>2 DEF RoutedChains
  <2>2. PICK root \in S : \E f \in [Neighbors(l) -> {R \in Chains : R \subseteq S}] :
           /\ \A m \in Neighbors(l) :
                root \notin c[m] /\ f[m] \in Routes(c, root, m)
           /\ S = UNION {f[m] : m \in Neighbors(l)}
    BY <1>2 DEF RoutedChains
  <2>3. PICK f \in [Neighbors(l) -> {R \in Chains : R \subseteq S}] :
           \A m \in Neighbors(l) : f[m] \in Routes(c, root, m)
    BY <2>2
  <2> DEFINE d == [c EXCEPT ![l] = S]
  <2>4. ASSUME NEW m \in Neighbors(l)
        PROVE  EdgeRealized(d, l, m)
    <3>1. m \in Logicals /\ m # l
      BY NoSelfNeighbor DEF Neighbors
    <3>2. d[l] = S /\ d[m] = c[m]
      BY <3>1 DEF Assignments
    <3>3. f[m] \subseteq S /\ \E p \in f[m], q \in c[m] : Adjacent(p, q)
      BY <2>3 DEF Routes
    <3>4. QED
      BY <3>2, <3>3 DEF EdgeRealized
  <2>5. QED
    BY <2>1, <2>4 DEF ConnectingChains, ReachesNeighbors
<1>3. QED
  BY <1>1, <1>2

(***************************************************************************)
(* Eligibility.                                                            *)
(***************************************************************************)
\* With exact counters the loop runs out of variables to repair exactly at an
\* embedding: EmbeddingState::eligible_variables never hides a defect, and
\* never offers work where the validator finds none.
THEOREM NothingLeftIsEmbedding ==
  ASSUME NEW c \in Assignments
  PROVE  EligibleVariables(c, CountOccupancy(c)) = {} <=> IsEmbedding(c)
<1> DEFINE occ == CountOccupancy(c)
<1>1. ASSUME ReportedValid(c, occ) PROVE EligibleVariables(c, occ) = {}
  <2>1. \A l \in Logicals : \A q \in c[l] : q \in Targets
    BY DEF Assignments, Chains
  <2>2. \A q \in Targets : occ[q] <= 1 /\ occ[q] \in Nat
    BY <1>1, CountOccupancyType DEF ReportedValid
  <2>3. \A l \in Logicals : \A q \in c[l] : ~(occ[q] > 1)
    BY <2>1, <2>2
  <2>4. QED
    BY <1>1, <2>3 DEF EligibleVariables, ReportedValid
<1>2. ASSUME EligibleVariables(c, occ) = {} PROVE ReportedValid(c, occ)
  <2>1. \A l \in Logicals : /\ c[l] # {} /\ ReachesNeighbors(c, l)
                            /\ \A q \in c[l] : ~(occ[q] > 1)
    BY <1>2 DEF EligibleVariables
  <2>2. ASSUME NEW q \in Targets PROVE occ[q] <= 1
    <3>1. occ[q] = Cardinality(Claimants(c, q)) /\ occ[q] \in Nat
      BY ClaimantsFinite DEF CountOccupancy
    <3>2. CASE Claimants(c, q) = {}
      BY <3>1, <3>2, FS_EmptySet
    <3>3. CASE \E l \in Logicals : q \in c[l]
      BY <2>1, <3>1, <3>3
    <3>4. QED
      BY <3>2, <3>3 DEF Claimants
  <2>3. QED
    BY <2>1, <2>2 DEF ReportedValid
<1>3. QED
  BY <1>1, <1>2, VerdictFromCounters
=============================================================================
