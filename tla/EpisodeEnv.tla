----------------------------- MODULE EpisodeEnv -----------------------------
(***************************************************************************)
(* The episode of isingfold.rl.env.EmbeddingEnv: a workspace that moves    *)
(* from one bounded proposal to another, an archive of the valid ones, a   *)
(* work ledger with a reserve for the final COMMIT, and a cache of restart *)
(* embeddings.  reset and step end in _prepare, so each is one action that *)
(* includes the preparation of the next decision.                          *)
(*                                                                         *)
(* Abstracted: a workspace is a member of Embeddings (the assignments that *)
(* p_search admits); the four coordinates that only proposals and the      *)
(* initializer spend (routes, materializations, cut edges, restarts) are   *)
(* one, "search"; ages, programs, observations and digests are left out.   *)
(* The candidates of a batch that fail a check other than the budget are   *)
(* rows without a member of the support.                                   *)
(***************************************************************************)
EXTENDS Integers, Sequences, FiniteSets

CONSTANTS
  Modes,             \* subset of {"improvement", "construction"}
  Embeddings,        \* admissible workspaces; Blank has every chain empty
  Returnable,        \* those that p_return accepts
  Blank, NoEmbedding,
  Variables,         \* len(chains)
  QubitCap,
  MaxStateChanging, MaxCommit, ArchiveFifo,
  RestartQuota, RestartAllowance,
  Cache,             \* the embeddings of the restart cache; NoEmbedding: not SUCCESS
  RewardReads,
  Caps, Reserve, Debit,
  Initializer,       \* its restart work: {1}, or {0} when it is precomputed
  MaxSearchWork,     \* the "search" work one batch may cost
  Sizes              \* how many chains a move may replace

VARIABLES
  mode,              \* constructor argument
  env,               \* EnvState: chains, archive, remaining, restarts_left, consumed
  support,           \* the legal candidates of the prepared decision
  outcome,
  answer,            \* the embedding of the terminal record
  found              \* history: valid workspaces of this episode

vars == <<mode, env, support, outcome, answer, found>>

-----------------------------------------------------------------------------
\* Work vectors.

Work(d, s, c, v, r, f) == [decisions |-> d, search |-> s, compiler |-> c,
                           validator |-> v, reads |-> r, feature |-> f]

Fits(a, b) == /\ a.decisions <= b.decisions /\ a.search <= b.search
              /\ a.compiler <= b.compiler /\ a.validator <= b.validator
              /\ a.reads <= b.reads /\ a.feature <= b.feature

Minus(a, b) == Work(a.decisions - b.decisions, a.search - b.search, a.compiler - b.compiler,
                    a.validator - b.validator, a.reads - b.reads, a.feature - b.feature)

Zero == Work(0, 0, 0, 0, 0, 0)

Ledgers == [decisions : Nat, search : Nat, compiler : Nat,
            validator : Nat, reads : Nat, feature : Nat]

InitWork(s) == Work(0, s, 4, 1, 0, 0)

CommitWork == Work(1, 0, 4, 1, RewardReads, 4)

StepWork(c) == Work(1, 0, 4, 1, 0, 8 * c.affected)

PreparationBound ==
  Work(0, 0, MaxStateChanging + MaxCommit + 4 * RestartQuota, MaxStateChanging, 0,
       32 * (MaxStateChanging + MaxCommit + 1 + Variables))

Least(a, b) == IF a <= b THEN a ELSE b

\* What Context and EmbeddingEnv check of their parameters.  They ask for reads, compiler
\* calls and features in the reserve, and for no decision and no validator call.
ASSUME ContextAssumption ==
  /\ Modes \subseteq {"improvement", "construction"}
  /\ Returnable \subseteq Embeddings \ {Blank} /\ Blank \in Embeddings
  /\ NoEmbedding \notin Embeddings
  /\ {Variables, QubitCap, MaxStateChanging, MaxCommit, ArchiveFifo,
      RestartQuota, RestartAllowance, RewardReads} \subseteq Nat
  /\ ArchiveFifo \in 1 .. MaxCommit - 1
  /\ Cache \in [1 .. RestartAllowance -> Embeddings \cup {NoEmbedding}]
  /\ Caps \in Ledgers /\ Reserve \in Ledgers /\ Debit \in Ledgers
  /\ Initializer \subseteq {0, 1} /\ MaxSearchWork \in Nat /\ Sizes \subseteq 1 .. Variables
  /\ "improvement" \in Modes => \A w \in Initializer :
       Fits(Reserve, Minus(Minus(Caps, Debit), InitWork(w)))
  /\ Fits(Reserve, Minus(Caps, Debit))
  /\ Reserve.reads >= RewardReads
  /\ Reserve.compiler >= MaxCommit + 4
  /\ Reserve.feature >= 32 * (MaxCommit + QubitCap)

-----------------------------------------------------------------------------
\* The archive and the restart cache.

Capacity == IF mode = "construction" THEN MaxCommit ELSE ArchiveFifo

\* The protected entry of an improvement stays first.
Protected == IF mode = "improvement" THEN 1 ELSE 0

AdmitFifo(archive, e) ==
  IF e \notin Returnable \/ \E i \in DOMAIN archive : archive[i] = e THEN archive
  ELSE LET all == Append(archive, e)
       IN SubSeq(all, IF Len(all) > Protected + Capacity THEN 2 ELSE 1, Len(all))

AdmitWhileRoom(archive, e) ==
  IF e \notin Returnable \/ Len(archive) >= Protected + Capacity THEN archive
  ELSE Append(archive, e)

Admit(archive, e) ==
  IF e \notin Returnable \/ \E i \in DOMAIN archive : archive[i] = e THEN archive
  ELSE LET mutable == Append(SubSeq(archive, Protected + 1, Len(archive)), e)
           over == Len(mutable) > Capacity
       IN SubSeq(archive, 1, Protected)
            \o SubSeq(mutable, IF over THEN 2 ELSE 1, Len(mutable))

\* The unconsumed slot a RESTART may bind: of two slots with one embedding the first.
Usable(s) ==
  {i \in 1 .. RestartAllowance \ s.consumed :
     /\ Cache[i] \in Returnable
     /\ \A j \in 1 .. i - 1 : Cache[j] = Cache[i] => j \in s.consumed}

Move(e, n) == [op |-> "move", to |-> e, slot |-> 0, affected |-> n]
Restart(e, i) == [op |-> "restart", to |-> e, slot |-> i, affected |-> Variables]
Commit(i) == [op |-> "commit", to |-> NoEmbedding, slot |-> i, affected |-> 0]
Stop == [op |-> "stop", to |-> NoEmbedding, slot |-> 0, affected |-> 0]

Proposable(s) ==
  {Move(e, n) : e \in Embeddings \ {Blank, s.chains}, n \in Sizes}
  \cup IF s.restarts_left = 0 \/ RestartQuota = 0 THEN {}
       ELSE IF mode = "improvement" THEN {Restart(Cache[i], i) : i \in Usable(s)}
       ELSE IF s.chains = Blank THEN {} ELSE {Restart(Blank, 0)}

-----------------------------------------------------------------------------
\* Preparation.

FreeBudget(ledger) == Minus(ledger, Reserve)

GeneratesUnbounded(s) == s.remaining.decisions >= 2 /\ Fits(Zero, FreeBudget(s.remaining))

\* Proposals are generated only if their own preparation and the reserve remain.
Generates(s) == /\ s.remaining.decisions >= 2
                /\ Fits(PreparationBound, FreeBudget(s.remaining))

\* The rows of a batch: each is a candidate that only the budget may refuse, or
\* one that another check refuses.  The generator stops instead of overspending.
Refused == [op |-> "refused", to |-> NoEmbedding, slot |-> 0, affected |-> 0]

Rows(s) == UNION {[1 .. n -> Proposable(s) \cup {Refused}] :
                    n \in 0 .. Least(MaxStateChanging, FreeBudget(s.remaining).search)}

Batch(rows, complete, restarts, search) ==
  [members |-> {rows[i] : i \in DOMAIN rows} \ {Refused}, rows |-> Len(rows),
   complete |-> complete, restarts |-> restarts, search |-> search]

NoBatch == Batch(<<>>, 0, 0, 0)

WithOp(rows, ops) == Cardinality({i \in DOMAIN rows : rows[i].op \in ops})
Completing(rows) == Cardinality({i \in DOMAIN rows : rows[i].to \in Returnable})

\* With how many rows have a complete successor, how many restart an improvement,
\* and what the generation cost: each row at least its own materialization.
BatchesOf(rows, allowance) ==
  {Batch(rows, complete, restarts, search) :
     complete \in {n \in 0 .. Len(rows) : Completing(rows) <= n},
     restarts \in {n \in 0 .. Least(Len(rows), RestartQuota) :
                      IF mode = "construction" THEN n = 0
                      ELSE WithOp(rows, {"restart"}) <= n /\ n <= WithOp(rows, {"restart", "refused"})},
     search \in Len(rows) .. Least(allowance, Len(rows) + MaxSearchWork)}

Batches(s) ==
  IF Generates(s)
  THEN UNION {BatchesOf(rows, FreeBudget(s.remaining).search) : rows \in Rows(s)}
  ELSE {NoBatch}

CommitRows(s, ledger) ==
  IF Fits(Reserve, ledger) THEN {Commit(i) : i \in 1 .. Least(Len(s.archive), MaxCommit)} ELSE {}

StopRows(s) ==
  IF mode = "construction" /\ s.archive = <<>> /\ s.remaining.decisions >= 1 THEN {Stop} ELSE {}

FeatureWork(s, b, commits, stops) ==
  Work(0, 0, Len(s.archive) + b.complete + 4 * b.restarts, b.rows, 0,
       32 * (b.rows + (IF commits = {} THEN 0 ELSE Least(Len(s.archive), MaxCommit))
               + (IF stops = {} THEN 0 ELSE 1) + Variables))

LegalInFreeBudget(c, ledger) ==
  Fits(IF c.op = "commit" THEN CommitWork ELSE StepWork(c), FreeBudget(ledger))

Legal(c, ledger) ==
  CASE c.op \in {"move", "restart"} -> Fits(StepWork(c), FreeBudget(ledger))
    [] c.op = "commit" -> Fits(CommitWork, ledger)
    [] OTHER -> ledger.decisions >= 1

TerminalFailure(s, ledger) ==
  [env |-> [s EXCEPT !.remaining = ledger], support |-> {},
   outcome |-> IF s.remaining.decisions <= 0 THEN "BUDGET_NO_VALID" ELSE "NO_ACTION_NO_VALID"]

IntegrityError(s, ledger) ==
  [env |-> [s EXCEPT !.remaining = ledger], support |-> {}, outcome |-> "integrity_error"]

Decision(s, ledger, legal) ==
  [env |-> [s EXCEPT !.remaining = ledger], support |-> legal, outcome |-> "running"]

\* The support a batch leads to, the ledger its generation leaves, and the ledger
\* after the feature work of that support.
Offer(s, b, generated) ==
  LET commits == CommitRows(s, generated)
      stops == StopRows(s)
  IN [offered |-> b.members \cup commits \cup stops,
      nothing |-> b.rows = 0 /\ commits = {} /\ stops = {},
      generated |-> generated,
      ledger |-> Minus(generated, FeatureWork(s, b, commits, stops))]

Offers(s) ==
  {Offer(s, b, Minus(s.remaining, Work(0, b.search, 0, 0, 0, 0))) : b \in Batches(s)}

Allowed(o) == {c \in o.offered : Legal(c, o.ledger)}

\* From the state s that reset or step has built, and an offer, to the next decision.
Prepared(s, o) ==
  IF o.nothing THEN TerminalFailure(s, o.generated)
  ELSE IF ~Fits(Zero, o.ledger) THEN IntegrityError(s, o.generated)
  ELSE IF Allowed(o) = {} THEN TerminalFailure(s, o.ledger)
  ELSE Decision(s, o.ledger, Allowed(o))

Prepare(s) == \E p \in {Prepared(s, o) : o \in Offers(s)} :
                env' = p.env /\ support' = p.support /\ outcome' = p.outcome

-----------------------------------------------------------------------------
\* The operations.

Fresh(e, archive, spent) ==
  [chains |-> e, archive |-> archive, remaining |-> Minus(Minus(Caps, Debit), spent),
   restarts_left |-> RestartAllowance, consumed |-> {}]

Init == /\ mode \in Modes
        /\ env = Fresh(Blank, <<>>, Zero)
        /\ support = {} /\ outcome = "unset" /\ answer = NoEmbedding /\ found = {}

\* reset of a construction, from an empty or partial embedding that is not yet one to
\* return: it is admitted to the archive only when a step completes it.
ResetConstruction ==
  \E s \in {Fresh(e, <<>>, Zero) : e \in Embeddings \ Returnable} :
    /\ mode = "construction"
    /\ found' = {} /\ answer' = NoEmbedding
    /\ Prepare(s)
    /\ UNCHANGED mode

\* A construction cannot start from an embedding that validates, since the flag reset sets
\* says it does not (_assert_search_state), nor from chains that are unknown, overlap or
\* are disconnected: reset raises IntegrityError.
ResetRejected ==
  /\ mode = "construction"
  /\ env' \in {env} \cup {Fresh(e, <<>>, Zero) : e \in Returnable}
  /\ outcome' = "START_REJECTED" /\ support' = {} /\ found' = {} /\ answer' = NoEmbedding
  /\ UNCHANGED mode

\* reset of an improvement whose initializer returned an embedding that validates.
ResetImprovement ==
  \E s \in {Fresh(e, <<e>>, InitWork(w)) : e \in Returnable, w \in Initializer} :
    /\ mode = "improvement"
    /\ found' = {s.chains} /\ answer' = NoEmbedding
    /\ Prepare(s)
    /\ UNCHANGED mode

\* The initializer returned nothing, or something that does not validate.
InitializerFails ==
  /\ mode = "improvement"
  /\ outcome' = "INIT_FAILURE" /\ support' = {} /\ found' = {} /\ answer' = NoEmbedding
  /\ UNCHANGED <<mode, env>>

\* Callers reset an environment they have brought to an end; reset keeps nothing of
\* the episode before.
Reset ==
  /\ outcome # "running"
  /\ ResetConstruction \/ ResetRejected \/ ResetImprovement \/ InitializerFails

AppliedKeepingSlot(c) ==
  [env EXCEPT !.chains = c.to, !.archive = Admit(@, c.to), !.remaining = Minus(@, StepWork(c)),
              !.restarts_left = IF c.op = "restart" THEN @ - 1 ELSE @]

AppliedAsReset(c) ==
  IF c.op = "restart" THEN Fresh(c.to, env.archive, Zero)
  ELSE [env EXCEPT !.chains = c.to, !.archive = Admit(@, c.to), !.remaining = Minus(@, StepWork(c))]

AppliedCountingMoves(c) ==
  [env EXCEPT !.chains = c.to, !.archive = Admit(@, c.to), !.remaining = Minus(@, StepWork(c)),
              !.restarts_left = @ - 1]

\* The state after a selected move or restart, before its preparation.
Applied(c) ==
  [env EXCEPT !.chains = c.to,
              !.archive = Admit(@, c.to),
              !.remaining = Minus(@, StepWork(c)),
              !.restarts_left = IF c.op = "restart" THEN @ - 1 ELSE @,
              !.consumed = IF c.slot = 0 THEN @ ELSE @ \cup {c.slot}]

StepSearch ==
  \E s \in {Applied(c) : c \in {d \in support : d.op \in {"move", "restart"}}} :
    /\ Prepare(s)
    /\ found' = found \cup ({s.chains} \cap Returnable)
    /\ UNCHANGED <<mode, answer>>

\* COMMIT revalidates the entry and, when it is evaluated, pays the reward reads.
StepCommit ==
  \E c \in support, reads \in {0, RewardReads} :
    /\ c.op = "commit"
    /\ env' = [env EXCEPT !.remaining = Minus(@, [CommitWork EXCEPT !.reads = reads])]
    /\ outcome' = "COMMIT" /\ answer' = env.archive[c.slot]
    /\ support' = {}
    /\ UNCHANGED <<mode, found>>

StepStop ==
  /\ Stop \in support
  /\ env' = [env EXCEPT !.remaining.decisions = @ - 1]
  /\ outcome' = "STOP_NO_VALID" /\ support' = {}
  /\ UNCHANGED <<mode, answer, found>>

Step == StepSearch \/ StepCommit \/ StepStop

Next == Reset \/ Step

\* The caller keeps stepping the episode it has started.
Spec == Init /\ [][Next]_vars /\ WF_vars(Step)

-----------------------------------------------------------------------------
\* Properties.

Refusals == {"STOP_NO_VALID", "BUDGET_NO_VALID", "NO_ACTION_NO_VALID", "INIT_FAILURE",
             "START_REJECTED"}

Candidates ==
  [op : {"move", "restart", "commit", "stop"}, to : Embeddings \cup {NoEmbedding},
   slot : Nat, affected : 0 .. Variables]

\* Every variable of the episode keeps its type and the ledger never goes negative.
EpisodeTypeOK ==
  /\ mode \in Modes
  /\ env \in [chains : Embeddings, archive : Seq(Returnable), remaining : Ledgers,
              restarts_left : 0 .. RestartAllowance, consumed : SUBSET (1 .. RestartAllowance)]
  /\ support \subseteq Candidates
  /\ outcome \in Refusals \cup {"unset", "running", "COMMIT", "integrity_error"}
  /\ answer \in Returnable \cup {NoEmbedding}
  /\ found \subseteq Returnable

\* The reserve does its job: at every decision each archived embedding, up to the commit
\* capacity, can be committed with what is left after the preparation itself was paid.
CommitAffordable ==
  outcome = "running" => \A i \in 1 .. Len(env.archive) : Commit(i) \in support

\* A workspace that validates can be committed: it is in the archive, whatever was
\* admitted and evicted since it was first found.
ValidWorkspaceArchived == env.chains \in Returnable /\ outcome = "running" =>
  \E i \in DOMAIN env.archive : env.archive[i] = env.chains

\* The embedding an improvement began with stays the first entry of its archive until the
\* episode ends, whatever _admit evicts: with CommitAffordable, an improvement can always
\* return at least what it was given.
InitialStaysFirst ==
  [][mode = "improvement" /\ outcome = "running" => env'.archive[1] = env.archive[1]]_vars

\* The slots that restarts have consumed and the restarts that are left always account for
\* the allowance: no slot of the cache is used twice and none is lost (improvement only).
RestartsAccounted == mode = "improvement" =>
  Cardinality(env.consumed) + env.restarts_left = RestartAllowance

\* An episode that has archived an embedding never ends without returning one, as the
\* specification of the reserve says.
ArchiveNeverRefused == env.archive # <<>> => outcome \notin {"BUDGET_NO_VALID", "NO_ACTION_NO_VALID"}

\* The episode implements its contract: it returns only what it has found valid, refuses
\* only when it has found nothing, and never ends in an integrity error.
Contract == INSTANCE EpisodeContract
MeetsEpisodeContract == Contract!Spec

\* A caller that keeps stepping reaches the end of its episode.
EpisodeEnds == outcome = "running" ~> outcome # "running"
=============================================================================
