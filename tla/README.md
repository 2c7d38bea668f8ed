# IsingFold: a TLA+ verification development

IsingFold prepares Ising problems for quantum annealers. Its own core is a
minor-embedding search: logical variables of a *source* graph are placed on
*chains*, connected sets of nodes of a *target* (hardware) graph. A native C++
session owns the search state, a Python loop drives it through replaceable
policies, and an evaluation and training layer (environment, PPO, sharded
evaluation, audits) is built on top. This directory models that core and the
stateful parts of the layer above it: the episode environment, the files of a
training run, the publication of evaluation shards and the stock baseline's
worker. It checks them with TLC and proves their main invariants with TLAPS.

## 1. The system

| Component | State | Operations | Interacts with |
|---|---|---|---|
| Native session `cpp/src/search_session_*.cpp` | chains and occupancy counters, generation, next token, one outstanding proposal, a nine-coordinate work ledger with limits | construct, `from_chains`, `fork`, `snapshot`, `propose`, `propose_applicable`, `propose_with_audit`, `materialize`, `candidate_is_valid`, `apply`, `discard`, `perturb`, `restart` | called by Python threads; each operation holds the session's mutex and the bindings release the interpreter lock |
| State, router, candidates `cpp/src/embedding_*.cpp`, `candidate_*.cpp`, `weighted_router.cpp`, `graph.cpp` | part of the session | `replace_chain`, `remove_chain`, validity, routing, ranking | called under the session's mutex |
| Search loop `src/lac_minorminer/_search_loop.py`, `orchestrator.py`, `api.py` | attempt, transitions, repairs, incumbents, verdict | `run_search`, `transition`, `repair`, `find_embedding` | one session; scorer, acceptance, control and repair policies; the independent validator |
| Structural fallback `_chimera_clique.py` | its own ledger | `find_chimera_clique_fallback` | `find_embedding` after a failed hybrid search |
| Episode environment `isingfold/rl/env.py`, `contracts.py`, `proposal.py` | chains, archive with a protected entry, reserves, remaining budget, restart cache | `reset`, `step` (move, commit, restart, stop), admission | validator, router, program compiler; rollouts |
| Complete-system runner `complete_system.py` | total work ledger, attempts, receipts | initializer attempts, environment bootstrap, policy path | search loop or external worker, environment |
| External stock attempts `external_pairing.py`, `external.py` | child process, pipe, deadline, running totals, evidence of each restart, receipt | open, search, close; rank, compile, audit, receipt | stock minorminer in a child process |
| Process isolation `cpp/src/process_isolation.cpp` | `installed_pid`, receipt | install, verify | kernel; every worker process |
| Evaluation shards `evaluation_shards.py`, `evaluation_workflow_cli.py`, `scripts/apollo_evaluation_shards.sh` | plan file, shard directories, merged directory | plan, run, merge; the sweep | file system; concurrent array jobs; the operator's record of digests |
| Training runs and checkpoints `cli.py`, `checkpoint.py` | run directory: `history.json`, `checkpoint.pt`, `run.json`; counters | train, warm start, resume; load for an evaluation | file system; trainer; evaluations |
| Rollout and PPO `rollout.py`, `ppo.py` | trajectories, optimizer state | collect, update | environment, checkpoints |
| Numeric models, banks, audits, gates, command line | tensors, recorded artifacts | pure functions and batch tools | artifacts on disk |

**What is hard in it.** Threads may interleave operations on one session and
pass batch handles around, also between a session and its forks; proposals go
stale when a restart or perturbation comes between; occupancy is maintained
incrementally beside the chains; every operation may be stopped by the ledger,
some after paying for part of their work; the loop must turn every stop,
timeout, policy exception and refused validation into a consistent answer; and
each of its cycles must end. An episode spends a ledger from which the way out
must stay payable, while its archive evicts and its restarts are used up.
Training, evaluation and publication communicate through files that are
replaced one by one, by processes that are killed, on machines that lose power.
A worker's answer races its deadline, and a receipt recounts what the runner
counted. `PROJECT.json` lists each hazard at its line.

**What makes each component correct.**

* Session: counters equal the claimants of each target; native and independent
  verdicts agree; at most one proposal, fresh for the chains held, resolved at
  most once and only by its own session; the ledger never passes a limit, and
  its decisions count resolutions.
* Loop: the answer is the first of the best embeddings seen or a consistent
  refusal, and the validator accepts it; no proposal is left behind; options bound
  its work; it ends.
* Environment: what was found can be committed to the end, and the embedding an
  improvement was given is never evicted; a return was found valid in the same
  episode, a refusal found nothing; restarts are accounted for; episodes end.
* Training runs: a history is that of the model beside it; no update that was
  flushed is lost or computed again; every evaluation of a directory gets one model;
  a complete run never changes.
* Shards: who was told "published" is right; a name is written once; a merge has
  every shard of one plan once.
* Stock attempts: an answer is attributed to the restart that asked, a restart that
  was too late never becomes a candidate, the receipt accepts the runner's own ledger,
  the attempt and its worker end.
* Process isolation (not modelled): at most one installation; never half of one.

## 2. Modules

| Module | Models | Uses |
|---|---|---|
| `MinorEmbedding` | graphs, chains, occupancy, verdicts, routed candidates: operators only | |
| `SearchSession` | the native sessions, one action per public operation | `MinorEmbedding` |
| `EmbeddingContract` | abstract: what `find_embedding` promises | |
| `SearchLoop` | `run_search`, `transition` and `find_embedding` over session 1 | `SearchSession`; `INSTANCE EmbeddingContract` |
| `EpisodeContract` | abstract: what an episode promises its caller | |
| `EpisodeEnv` | `reset`, `step` and `_prepare` of `EmbeddingEnv` | `INSTANCE EpisodeContract` |
| `TrainingRun` | a training directory: commands, files, kills, power losses, evaluations | |
| `ImmutableStore` | abstract: names written once | |
| `ShardPublication` | the plan, run and merge commands on one file system | `INSTANCE ImmutableStore` |
| `ApolloSweep` | the launcher that runs the shards one after the other | |
| `ExternalAttempt` | one stock attempt: runner, worker, pipe, deadline, receipt | |
| `MC*` | constants for TLC | the module they name |
| `*_proofs` | theorems | the module they name |

In each module an operator that stands just before a definition, has its
parameters and is used by nothing is a *mutation* of that definition (`PutUnchecked`
of `Put`): with it in the definition's place TLC finds the property violated
that `PROJECT.json` lists beside it.

**Correspondence: session.** `chains` and `occupancy` are
`EmbeddingState::chains_` and `occupancy_`; `generation`, `next_token`,
`outstanding` and `work` are the session's members; session ids come from the
process-wide counter. `handles` is every `CandidateBatch` a client was ever given:
batches are plain values, so any client may present any of them to any session.
`resolved` and `inherited` are history variables that no action reads. A call
that throws before changing anything stutters and has no action; one that
throws after paying for part of its work is `ProposeOverBudget` (at each
point of the generator where a charge can be refused, `Stops`) or
`MaterializeFails`.

Abstracted: routing costs and ranks. The order of the candidates is free, so a
truncated batch is any subset of its width (`Truncations`), and a route is any
connected set from the root to the neighbour (`Routes`), a superset of the
shortest walks. The random placement of `restart` is any placement; `perturb`
deals targets in rounds from the least occupied, ties in any order
(`DealtByOccupancy`). The ledger counts the six coordinates a session can
spend; compiler calls, cut-edge visits and evaluator reads stay zero. Charges
are the code's own numbers, target sizes and chain lengths included. Sums of
the client's finite target costs are taken to be finite.

**Correspondence: loop.** `pc` is the place in `run_search` or `transition`
before the next native call or policy decision. Native calls are the actions of
`SearchSession` on session 1; a refused call is `StopForBudget`, which leaves
open which of several exhausted coordinates the exception names. Selector,
scorer, acceptance and control answers are free, and so are the exceptions of scorer
and acceptance (`PolicyRaises`). The deadline may have passed whenever the
code reads the clock, if there is one. A terminal scorer answers with
any of `Values`; without one the value is constant.

**Correspondence: episode.** `env` is `EnvState`, `support` the masked
candidates of the `DecisionState` a caller was given, `outcome` the terminal
reason. `reset` and `step` both end in `_prepare`, so each action includes it
(`Prepare`): the bound on generation, the batch, COMMIT and STOP rows, the feature
work, the mask and the three ways out. A workspace is an element of
`Embeddings`, `Returnable` those that validate. Four coordinates of the ledger
that only proposals and the initializer spend (routes, materializations, cut
edges, restarts) are one, `search`; the others are the code's own charges. A
batch is any sequence of rows the generator can pay for; a row that another
check refuses is `Refused`, which pays and cannot be chosen. Assumed of the
context: what `contracts.py` and `EmbeddingEnv` check of it, and nothing else
(`ContextAssumption`); where a theorem needs more of the reserve it says so
(`ReserveCoversCommit`). A construction starts from any partial embedding its
initializer gives; one that validates already, or is malformed, makes `reset` raise
(`ResetRejected`). That is the environment with its internal checks: the timing option
`ISINGFOLD_FAST_INTERNAL_ASSERTS`, which skips them and would begin such an episode, is
not modelled. `Reset` happens between episodes; a reset in the middle of one only
forgets it. Left out: ages, programs, fingerprints, seals, and the legacy online restarts.

**Correspondence: training run.** What a trainer has learned is its *log*, the
outcomes of its updates: weights, optimizer, random state and counters are
functions of it. `visible` is what processes see, `durable` what a power loss gives
back: a rename becomes durable at the next flush of the directory, which only
`_atomic_save` of the checkpoint makes, so a power loss keeps any subset of the
renames after it. A missing file is the empty log. Resuming with another
contract, corpus or environment is a refusal and changes nothing, so
`ReceiptMatches` keeps only the comparison of digests that depends on the
order of the files. `Resume` requires that no other trainer runs there: the code
takes no lock and leaves that to the operator. The warm start has the same loop
and files. A run of zero updates and the loss of the directory's own entry are left out.

**Correspondence: shards.** A content is the process that wrote it,
so a digest is a process too. Two attempts at a shard differ by their provenance and
measurements. A plan is a function of its arguments: the planners are given different
ones (equal ones write equal bytes, and telling those apart only makes fewer merges
legal), and the operator may give any recorded digest, any
directory and any shard to any command. `Check` is the test for existence and
the staging in a hidden sibling, `Put` the link or rename that decides,
`Report` the print: a kill between them leaves a published content nobody was told of. No
directory is flushed, so a power loss may take away any name, or files of a
directory (`whole`). Comparisons of authorities, populations and
provenance are reduced to that of plans. `ApolloSweep` is the loop of the shell
script; the Slurm array of the other cluster starts each shard on its own.

**Correspondence: stock attempt.** `parent` is the place in
`run_external_complete_system` or in the session's `search` and `close`, `worker` the
child, `down` and `up` the pipe. Time passes two instants, each before any step: the
deadline, and the end of the budget of the call that is open. That budget is what was left
before the deadline when the call began, so it cannot end first (`Expired`, `Overrun`). The code
measures the duration of a call once, when its answer has been read
(`external_pairing.py:1086-1087`), and judges the answer by that measurement through validation,
compilation and ranking without another look at the clock: `Received` sets
`parent.timed_out`, `OnTime` reads it, and the deadline may pass between. An answer that was in the pipe
in time and read after the budget is late; one read in time may become a candidate
after the deadline. The measurement's tolerance of a nanosecond is left out. An embedding is its
verdict and its place in the ranking. `Shut` and `Joined` are `close`: stop command,
join, kill. The receipt's checks of itself are `Accepts`, over the rows, not over the
runner's totals. Programs are counted in fours, reads in audits.
`IntegrityError` is a malformed embedding or a failed compilation: the exception
leaves the session open, so the worker stays until the interpreter ends its
daemons. Left out: the backend that starts a process for each restart, which the stock
baseline does not use.

## 3. Runs

| Run | Shows |
|---|---|
| `session` | One session, a coupled pair on a path of three targets, any operation with any handle. Chains may overlap, miss each other or realise the edge, so every verdict occurs. Limits allow two decisions, one disturbance and two narrow proposals: each coordinate can be the one that stops a call, in the router after one of its settlements too (the limits leave one over), and none is passed (`WithinLimits`). |
| `fork` | Two sessions, created, restored or forked, one isolated logical and one target: only the protocol is left, with handles exchanged between sessions. Two is enough for a foreign handle and for a fork of a spent ledger. Nothing is routed here; that forks respect their limits with any graphs is the theorem `LimitsHold`. |
| `loop_ample` | Two tries, three transitions, one repair a try, one scorer query, no deadline, and limits only the second try's repair exceeds: the counters respect the options and the validations per decision are bounded. |
| `loop_tight` | Two tries, three transitions, two scorer queries, a deadline, and limits that every native call can meet (two decisions, ten validations, one disturbance): proposals, decision counts, the answer, the validator's agreement with what is reported, and the refinement of `EmbeddingContract`, also when the ledger has no last validation left. |
| `loop_ends` | Fairness, four transitions, enough disturbances for both tries to use their repair and be exhausted, and no deadline, so that ending does not rest on the clock. The scorer asks nothing and the value is constant, as neither decides where the loop goes. |
| `loop_budget_stop` | Expected violation, finding 1. |
| `episode` | Improvement and construction episodes of at most five decisions over three valid workspaces, a partial one and the blank one; archive of two, so that a third one evicts beside the protected first, cache of two slots with one embedding. Each coordinate can end the search. |
| `episode_least_reserve` | Expected violation, finding 2: the reserve has the least features the context accepts. |
| `training` | Two processes that may start or resume, four updates of two outcomes, four kills or power losses between any two file operations, an evaluation at any time: which models files and evaluations may name, and which updates are kept. |
| `shards` | Two planners, two workers, two shards, one merger, two kills or power losses: two attempts at one destination, two plans one after the other, a merge over a shard attempted twice, and the refinement of `ImmutableStore`. |
| `sweep` | Expected violation, finding 3. |
| `external` | Three restarts, both rankings, and caps that stop the attempt before a restart, a validation, a ranking, a compilation or an audit, or nowhere; a worker that answers, fails, hangs or dies at any time; a deadline and a budget that end before any step, also between the measurement of an answer and its use. |

The source graph has two logicals because every property of the verdicts is
about a pair (an overlap, an edge) and the third target lets a variable be
out of reach or free of conflict. The generation, token and work counters are
bounded by the limits alone: no constraint cuts a behaviour short. Symmetry
exchanges the logicals and the automorphic targets (and planners, workers,
trainers and outcomes in their runs) and is not used with liveness.

The training run needs four updates and failures because the worst case takes
several: an update lost, computed again with another outcome, and lost once more, between
files of three ages. Shards need two of each process that may compete; the caps of the
stock attempt are chosen so that each refusal happens with a candidate in hand and without one.
`MaxCrashes` and `MaxKills` bound only failures.

**Fairness.** `FairLoopSpec` assumes weak fairness of the loop's whole
next-state relation: one thread executes it, no lock is shared with another
thread, and each native call returns. Policies are assumed to return or raise. `EpisodeEnv` assumes
that the caller of an episode keeps stepping it (`WF(Step)`: rollouts and
evaluations do, in a loop), never that it starts another. `ApolloSweep` assumes that the
script runs and that the operator starts it again. `ExternalAttempt` assumes that the runner
runs and that time passes; of the worker nothing is assumed, and `close` may
wait for it only because the join is bounded and ends in a kill.

**Deadlock** is not checked: a session whose ledger is spent refuses
everything, and an ended search, sweep or attempt takes no step.

## 4. Findings

1. `_search_loop.py:247` requires the ledger's decisions to equal the counted
   transitions. The decision is paid by apply or discard; the transition is
   counted only after its closing snapshot. A ledger that covers the first but not the
   second makes `run_search` raise `RuntimeError` where the documents promise an
   attempt that ends with `WORK_BUDGET_EXHAUSTED` and a named coordinate, and a
   valid incumbent found earlier in anytime mode is lost. `DecisionsLead` states precisely when the
   counts differ; `BudgetStopReturns` is what the documents say.
2. `contracts.py:312` accepts a reserve of `32 * (max_commit + qubit_cap)` feature
   units: the encoding of a COMMIT-only support, without the four units that COMMIT itself is
   charged (`env.py:817-824`). At that minimum, with as many chains as the cap has qubits and
   a full archive, the last preparation masks every COMMIT and the episode ends
   `NO_ACTION_NO_VALID` holding valid embeddings, which
   `ISINGFOLD_MODEL_SPEC.md:242` and `:765` exclude. `CommitStaysAffordable` is proved with the four units,
   and `SpareQubitCoversCommit` shows that one qubit more than chains supplies them.
   The same checks (`contracts.py:304-316`) ask for no validator call in the reserve, though
   COMMIT is charged one and `:242` lists its "fresh independent validation". With none
   reserved, the move that completes an embedding may spend the last one; its COMMIT is masked
   and the episode ends in the same way, with features to spare. With
   `Reserve <- MCReserveUnvalidated` and `Caps <- MCCapsUnvalidated` in
   `MCEpisodeLeast.cfg` TLC finds that violation too. Nor do they ask for a decision; there the
   code itself proposes no move with fewer than two left (`env.py:415`).
3. `apollo_evaluation_shards.sh` starts at shard 0 and ends at the first
   refusal, and a published shard refuses: an interrupted sweep that is started
   again never reaches the shards it lacks, under the heading "Resumable complete-system evaluation"
   (`TRAINING_OPERATIONS.md:1128`). `SweepCompletes` says it would; `StoppedSweepStalls` proves
   that, with any number of shards, a script that stopped after its first one never adds another.

## 5. Proofs

All theorems hold for every value of the constants that the modules' assumptions
allow: for the core every pair of finite graphs (`GraphAssumption`,
`SessionAssumption`, `LoopAssumption`).

* `MinorEmbedding_proofs`. `VerdictFromCounters`: if the counters are exact then
  `ReportedValid` is `IsEmbedding`, from the cardinality of the claimants of a
  target. `NothingLeftIsEmbedding`: the loop then runs out of eligible variables
  exactly at an embedding. `RoutedConnects`: a union of routes that leave one root
  and touch every neighbour reaches every neighbour.
* `SearchSession_proofs`. Every action is first shown to have one of six
  shapes (`StepShape`): it creates a session, issues a proposal, only pays,
  applies, discards or reassigns chains. The inductive invariant `IInv` joins
  types, exact counters, limits, affordability and freshness with
  `TokensIssued` (a handle carries a token already issued), `ResolvedBehind` (a
  consumed handle is older than the outstanding proposal: what makes handles
  one-shot), `ResolvedFinite` and the decision count. None of the last ones is
  inductive alone: a handle is refused because tokens and generations only grow.
  The invariants and the two action properties follow. `HandlesUnique` (a token names
  one handle of its session) and `StaleStaysStale` (a handle that is refused now is
  refused for ever) say why comparing handles is enough.
* `SearchLoop_proofs`. `LoopImplementsSession`: every step of the loop is a step
  of the session or leaves it alone, so the loop inherits `IInv`; it needs
  `Holding` (where the loop has a session, a variable and a handle it was given).
  On top of `LoopTypeOK` and `Bounded` (a counter is below its option wherever
  it may still grow) there are four strengthenings, one for each property:
  `Paced` (while the closing snapshot of a transition is due, the ledger is ahead by
  exactly one) for `ProposalOwned` and `DecisionsLead`; `Metered` (validations
  against decisions at each phase) for `ValidationsBounded`, which also needs that a
  state with nothing eligible is valid, from the exact counters, since
  otherwise a try could begin without a decision; `Ranked` (the best index
  names the earliest of the best) for `ImplementsContract`, the refinement;
  `Told` (what reason, coordinate and success say while the search runs) for
  `AnswerConsistent`. `RetainedSound` (every retained state is an embedding, carried
  along the steps of the contract) gives `ReportIsAccepted`, which makes the RuntimeError
  of the last validation unreachable, and with `AnsweredBest` it gives `AnswerIsBest`, the
  promise to the caller in full. `SearchShortens` is the safety half of termination: `StepsLeft`,
  the transitions and tries left times the longest phase, plus what is left of the
  phase, is natural and falls at every step. What TLC adds in `loop_ends` is
  only that a search which has not ended can take a step.
* `EpisodeEnv_proofs`. The invariant `EpisodeInv` says what is known between two
  decisions (`Ready`): the archive holds the workspace if it validates, within its
  capacity, in order and without repetition, what `reset` and `step` leave behind
  still owns the whole reserve, and there is a candidate to select. It holds of every
  context that `ContextAssumption` allows, so `EpisodeTyped`, `RestartsStayAccounted`,
  `ValidWorkspaceIsArchived`, `InitialIsKept`, `ArchiveStaysSound` (the check that
  `_assert_search_state` skips on its fast path would never fail), `AnswersWereFound` and
  `EveryStepSpendsADecision` (the safety half of `EpisodeEnds`: a
  running episode has something to select and each step pays one decision) need nothing else.
  A preparation spends at most the part of the reserve that COMMIT does not need
  only if the reserve includes what COMMIT is charged: `CommitStaysAffordable`,
  `ReserveProtectsArchive` and the refinement `EpisodeImplementsContract` therefore
  assume `ReserveCoversCommit`: a decision, a validator call, and the features of an encoding
  with as many chains as there are, and of COMMIT. Finding 2 shows that the code does not
  impose it and that an archive is refused without it, so these three theorems are about the contexts
  that satisfy it and not about every context the code accepts.
* `TrainingRun_proofs`. The invariant has three parts beyond types. `Consistent`
  says, for each place of a trainer, how far the visible and the durable files
  are relative to its own log. `FilesPaired`: a history as long as a checkpoint
  is that checkpoint's history, whatever a power loss mixes, and the disk is never ahead of
  what processes see. `FinalSettled`: a model that a complete receipt names is on
  disk for good. From them `HistoryStaysTheModels`,
  `EvaluationsAgree` (a complete receipt fixes the checkpoint) and
  `FinalFilesAreStable`, an action property. `UpdatesAreKept`: the durable checkpoint, and the
  visible one until a power loss, only grow as logs, so a flushed update is
  never computed again with another outcome. `ReceiptsHoldForever`: what a receipt has
  named stays a prefix of every later checkpoint. Both assume, as the model does, that
  the run directory's own entry outlives the power loss (the code flushes the directory,
  not its parent). `TrainerIsAlone`: of any number of new runs mkdir lets one in.
* `ShardPublication_proofs`. A name changes only when it holds nothing or
  power is lost. The invariant `StoreInv` carries along what follows from that:
  who wrote a name has started (`WritersStarted`), a process that put its content
  finds it there until power is lost (`PutIsThere`), and what a merger loaded is
  of its plan and, until power is lost, still there; a merger past
  loading has every shard once (`MergersExact`). Without a power loss, `ReportsAreTrue`;
  always, `MergesAreExact`, and `ShardsMeetStore`, the refinement. `OneReporterPerName` and
  `NamesStay` are what it means to the operator: one of several writers is told, and what it
  was told stays. `ApolloSweep` holds its one theorem itself (finding 3).
* `ExternalAttempt_proofs`. `Conversation` says how much of one question and
  its answer is in the pipe at each place: never more than one is open, even
  while closing, which gives `AnswersAreTheirs` and `WorkerIsStopped`. `Books`
  equates the totals with cardinalities over the rows; one lemma
  (`Ledgered`) carries it over every row written, and `ReceiptsAccepted` follows from it, with the
  existence of a best row by well-founded induction on the naturals.
  `NoLateCandidates` says of every restart that once it was too late (`TooLate`: the deadline passed
  before it began, or its budget ended before its answer was read) it is never screened. `TooLate` is
  not inductive, since the answer may still come: `Barred` is, which follows the restart
  from there (it will not begin; its answer is, or was measured to be, late; its row is
  written and is none of a candidate), and it excludes a screened row. `SelectionIsBest`: a finished attempt has
  selected, of the rows that count, one that none precedes. `AttemptShortens`
  is the safety half of `AttemptEnds`: every step of the runner lowers `RunnerLeft`, at most
  eight for each restart and seven, which no step of the worker or the clock raises.

Only model-checked: liveness (`Terminates`, `EpisodeEnds`, `AttemptEnds`). The prover
reasons about neither fairness nor ENABLED; what is proved of it is that each step uses up a
natural number, so that TLC's part is that the step is taken. The violated properties
of the findings have no theorem, except that finding 3's converse is proved.

## 6. Not modelled

* Of the core: the hybrid Chimera-clique fallback; exceptions of the terminal
  scorer, the selector and the control policy; a custom provider's foreign batch
  (whose discard fails silently and leaves the session's proposal outstanding);
  scores, costs, graph input and options.
* Process isolation: a sequence of irreversible system calls under one lock, with one
  word of state. Of the shards' relatives, the records of a resolution run
  (`quality_resolution_delta.py`): a crash in its file publication can leave a temporary
  file that every later resume refuses; it deserves a module beside `ShardPublication`.
* The merge of several attempts' receipts, the tuning receipts and the banks:
  pure functions of recorded artifacts.
* Numeric code (models, tensors, PPO, calibration, statistics): floating
  point is outside both tools. Importers, audits and the argument handling of
  the command line are validations of files, without state or order of their
  own; they are most of the repository's lines.
* Liveness of training: a trainer killed between its files leaves a directory that every
  resume refuses. The code fails closed and promises nothing else.

## 7. Plan

1. Done: the core (`MinorEmbedding`, `SearchSession`, `SearchLoop`), the episode
   (`EpisodeEnv`), training runs (`TrainingRun`), shards (`ShardPublication`, `ApolloSweep`)
   and the stock attempt (`ExternalAttempt`), each with its proofs.
2. `CompleteSystem`: attempts, ledgers and receipts over the contracts of
   `SearchLoop`, `EpisodeEnv` and `ExternalAttempt`; it would compose them.
3. The records of a resolution run: exclusive creation of each record, resume, and a
   crash inside the publication of one.
4. The hybrid fallback and the missing exceptions of the loop's policies.
5. `ProcessIsolation`: installation by two threads with failures after the
   irreversible steps.
