----------------------------- MODULE ApolloSweep -----------------------------
(***************************************************************************)
(* The Apollo launcher of evaluation shards                                *)
(* (scripts/apollo_evaluation_shards.sh): one loop from shard 0 that stops *)
(* at the first command that fails, started again by the operator while    *)
(* shards are missing.  A shard command is one step: ShardPublication has  *)
(* its parts.                                                              *)
(***************************************************************************)
EXTENDS Naturals, TLAPS

CONSTANTS ShardCount,   \* SHARD_COUNT
          MaxKills      \* bound on interruptions

Shards == 0 .. ShardCount - 1

VARIABLES published,   \* shards whose directory is there
          running,     \* the script runs
          shard_index, \* the next shard of its loop
          kills

vars == <<published, running, shard_index, kills>>

Init == published = {} /\ running = FALSE /\ shard_index = 0 /\ kills = 0

Begin ==
    /\ ~running /\ published # Shards
    /\ running' = TRUE
    /\ shard_index' = 0
    /\ UNCHANGED <<published, kills>>

(* run-evaluation-shard refuses a directory that exists; set -e then ends  *)
(* the script.                                                             *)
RunShard ==
    /\ running
    /\ IF shard_index \in published
       THEN running' = FALSE /\ UNCHANGED <<published, shard_index>>
       ELSE /\ published' = published \cup {shard_index}
            /\ shard_index' = shard_index + 1
            /\ running' = (shard_index + 1 < ShardCount)
    /\ UNCHANGED kills

Kill ==
    /\ running /\ kills < MaxKills
    /\ running' = FALSE
    /\ kills' = kills + 1
    /\ UNCHANGED <<published, shard_index>>

Next == Begin \/ RunShard \/ Kill

(* The operator starts it again and the script goes on.                    *)
Spec == Init /\ [][Next]_vars /\ WF_vars(Begin) /\ WF_vars(RunShard)

(* "Resumable complete-system evaluation": after an interruption starting  *)
(* it again evaluates the shards that are missing.                         *)
SweepCompletes == <>(published = Shards)

-----------------------------------------------------------------------------
(* Why no sweep with more than one shard survives an interruption          *)

(* Shard 0 is there, and a script that runs is still to meet it.           *)
Stalled(there) ==
    /\ published = there
    /\ 0 \in there
    /\ running => shard_index = 0

(* The loop starts from shard 0, so shard 0 is the first to be published.  *)
FirstShardFirst ==
    /\ shard_index \in Nat
    /\ shard_index > 0 => 0 \in published
    /\ published # {} => 0 \in published

(* Whatever the number of shards: a script that has stopped after its      *)
(* first shard, killed or not, is at the end of what it will ever publish; *)
(* every later start stops at the directory of shard 0, which              *)
(* run-evaluation-shard refuses to write again, under set -e.              *)
THEOREM StoppedSweepStalls ==
    ASSUME NEW there, there # {}
    PROVE  Spec => [](~running /\ published = there => [](published = there))
<1>1. Init => FirstShardFirst
  BY DEF Init, FirstShardFirst
<1>2. FirstShardFirst /\ [Next]_vars => FirstShardFirst'
  BY DEF FirstShardFirst, Next, Begin, RunShard, Kill, vars
<1>3. FirstShardFirst /\ ~running /\ published = there => Stalled(there)
  BY DEF FirstShardFirst, Stalled
<1>4. Stalled(there) /\ [Next]_vars => Stalled(there)'
  BY DEF Stalled, Next, Begin, RunShard, Kill, vars
<1>5. Stalled(there) => published = there
  BY DEF Stalled
<1>6. QED
  BY <1>1, <1>2, <1>3, <1>4, <1>5, PTL DEF Spec
=============================================================================
