-------------------------- MODULE ShardPublication ---------------------------
(***************************************************************************)
(* Evaluation shards: planners write one plan, workers evaluate its shards *)
(* and publish a directory each, mergers load the directories by the       *)
(* digests the operator recorded and publish the merge                     *)
(* (evaluation_shards.py, evaluation_workflow_cli.py).  Any number of each *)
(* runs at the same time and may be killed anywhere; the operator may give *)
(* any shard, directory and recorded digest to any command.                *)
(*                                                                         *)
(* A digest is the process that wrote the content: attempts differ by      *)
(* their measurements, planners are given different arguments.             *)
(* The files of a directory are written in a hidden sibling that only its  *)
(* writer knows, so they are staged in one step; what is kept of them is   *)
(* whether all are there.                                                  *)
(***************************************************************************)
EXTENDS Naturals, Sequences, FiniteSets

CONSTANTS Planners, Workers, Mergers,
          Nobody,       \* no process
          ShardCount,   \* shards of a plan
          MaxCrashes    \* bound on kills and power losses

Processes == Planners \cup Workers \cup Mergers

ASSUME ProcessAssumption ==
    /\ Planners \cap Workers = {} /\ Planners \cap Mergers = {} /\ Workers \cap Mergers = {}
    /\ Nobody \notin Processes
ASSUME CountAssumption == ShardCount \in Nat \ {0} /\ MaxCrashes \in Nat

Shards == 0 .. ShardCount - 1
MergeAt == ShardCount
PlanAt == ShardCount + 1
Names == Shards \cup {MergeAt, PlanAt}

VARIABLES path,      \* what each name holds: its writer, and whether it is whole
          proc,      \* one record per process
          crashes,
          lost       \* power was lost at some time

vars == <<path, proc, crashes, lost>>

Nothing == [by |-> Nobody, whole |-> FALSE]
New == [at |-> "new", shard |-> 0, dest |-> 0, plan |-> Nobody, loaded |-> <<>>]

At(p, place) == proc[p].at = place
Goto(p, place) == proc' = [proc EXCEPT ![p].at = place]
Exists(n) == path[n].by # Nobody
Reported == {p \in Processes : At(p, "done")}

Init ==
    /\ path = [n \in Names |-> Nothing]
    /\ proc = [p \in Processes |-> New]
    /\ crashes = 0
    /\ lost = FALSE

-----------------------------------------------------------------------------
(* Publishing: the name must be free when it is looked at and again when   *)
(* link or rename puts the staged content there.                           *)

Check(p) ==
    /\ At(p, "check")
    /\ Goto(p, IF Exists(proc[p].dest) THEN "failed" ELSE "staged")
    /\ UNCHANGED <<path, crashes, lost>>

PutUnchecked(p) ==
    /\ At(p, "staged")
    /\ path' = [path EXCEPT ![proc[p].dest] = [by |-> p, whole |-> TRUE]]
    /\ Goto(p, "put")
    /\ UNCHANGED <<crashes, lost>>

Put(p) ==
    /\ At(p, "staged")
    /\ IF Exists(proc[p].dest)
       THEN Goto(p, "failed") /\ UNCHANGED path
       ELSE /\ path' = [path EXCEPT ![proc[p].dest] = [by |-> p, whole |-> TRUE]]
            /\ Goto(p, "put")
    /\ UNCHANGED <<crashes, lost>>

(* The digest is printed: the operator may rely on the content.            *)
Report(p) ==
    /\ At(p, "put")
    /\ Goto(p, "done")
    /\ UNCHANGED <<path, crashes, lost>>

-----------------------------------------------------------------------------
(* The commands                                                            *)

PlanShards(p) ==
    /\ p \in Planners /\ At(p, "new")
    /\ proc' = [proc EXCEPT ![p] = [New EXCEPT !.at = "check", !.dest = PlanAt]]
    /\ UNCHANGED <<path, crashes, lost>>

(* A plan file is read against its recorded digest.                        *)
PlanPinned(plan) == path[PlanAt] = [by |-> plan, whole |-> TRUE]

RunShard(w) ==
    /\ w \in Workers /\ At(w, "new")
    /\ \E plan \in Planners, shard \in Shards, dest \in Shards :
          /\ PlanPinned(plan)
          /\ proc' = [proc EXCEPT ![w] =
                [New EXCEPT !.at = "check", !.shard = shard, !.dest = dest, !.plan = plan]]
    /\ UNCHANGED <<path, crashes, lost>>

StartMerge(m) ==
    /\ m \in Mergers /\ At(m, "new")
    /\ \E plan \in Planners :
          /\ PlanPinned(plan)
          /\ proc' = [proc EXCEPT ![m] =
                [New EXCEPT !.at = "load", !.dest = MergeAt, !.plan = plan]]
    /\ UNCHANGED <<path, crashes, lost>>

LoadableByPin(m, n, pin) == path[n] = [by |-> pin, whole |-> TRUE]

(* The directory is complete, its receipt has the recorded digest and      *)
(* names the plan of the merger.                                           *)
Loadable(m, n, pin) ==
    /\ path[n] = [by |-> pin, whole |-> TRUE]
    /\ proc[pin].plan = proc[m].plan

LoadUncounted(m) ==
    /\ At(m, "load")
    /\ \E n \in Shards, pin \in Workers :
          /\ Loadable(m, n, pin)
          /\ proc' = [proc EXCEPT ![m].loaded = Append(@, pin)]
    /\ UNCHANGED <<path, crashes, lost>>

LoadShard(m) ==
    /\ At(m, "load")
    /\ Len(proc[m].loaded) < ShardCount
    /\ \E n \in Shards, pin \in Workers :
          /\ Loadable(m, n, pin)
          /\ proc' = [proc EXCEPT ![m].loaded = Append(@, pin)]
    /\ UNCHANGED <<path, crashes, lost>>

CoversByCount(loaded) == Len(loaded) = ShardCount

(* Every shard once: as many as planned, and none twice.                   *)
Covers(loaded) ==
    /\ Len(loaded) = ShardCount
    /\ {proc[loaded[i]].shard : i \in 1 .. Len(loaded)} = Shards

MergeShards(m) ==
    /\ At(m, "load")
    /\ Len(proc[m].loaded) = ShardCount
    /\ Goto(m, IF Covers(proc[m].loaded) THEN "check" ELSE "failed")
    /\ UNCHANGED <<path, crashes, lost>>

-----------------------------------------------------------------------------
(* Failures                                                                *)

(* A kill, or any refusal not modelled: the hidden directory stays behind. *)
Kill(p) ==
    /\ proc[p].at \in {"check", "staged", "put", "load"}
    /\ crashes < MaxCrashes
    /\ Goto(p, "failed")
    /\ crashes' = crashes + 1
    /\ UNCHANGED <<path, lost>>

(* The contents are flushed, the names are not: a power loss may take a    *)
(* name away, or some of the files of a directory; every process is gone.  *)
AfterLoss(n) ==
    {path[n], Nothing} \cup (IF n = PlanAt THEN {} ELSE {[path[n] EXCEPT !.whole = FALSE]})

PowerLoss ==
    /\ crashes < MaxCrashes
    /\ path' \in [Names -> UNION {AfterLoss(n) : n \in Names}]
    /\ \A n \in Names : path'[n] \in AfterLoss(n)
    /\ proc' = [p \in Processes |->
          IF proc[p].at \in {"new", "done"} THEN proc[p] ELSE [proc[p] EXCEPT !.at = "failed"]]
    /\ crashes' = crashes + 1
    /\ lost' = TRUE

Next ==
    \/ \E p \in Processes :
          \/ PlanShards(p)
          \/ RunShard(p)
          \/ StartMerge(p)
          \/ LoadShard(p)
          \/ MergeShards(p)
          \/ Check(p)
          \/ Put(p)
          \/ Report(p)
          \/ Kill(p)
    \/ PowerLoss

Spec == Init /\ [][Next]_vars
-----------------------------------------------------------------------------
Places == {"new", "check", "staged", "put", "load", "done", "failed"}

ShardTypeOK ==
    /\ path \in [Names -> [by : Processes \cup {Nobody}, whole : BOOLEAN]]
    /\ proc \in [Processes -> [at : Places, shard : Shards, dest : Names,
                               plan : Planners \cup {Nobody}, loaded : Seq(Workers)]]
    /\ \A m \in Processes : Len(proc[m].loaded) <= ShardCount
    /\ crashes \in Nat
    /\ lost \in BOOLEAN

(* Whoever was told that its content is published finds it there, so of    *)
(* any number of writers of one name at most one was told.                 *)
ReportIsTrue ==
    ~lost => \A p \in Reported : path[proc[p].dest] = [by |-> p, whole |-> TRUE]

(* A published merge has one attempt of every shard and nothing else, all  *)
(* of its own plan, whatever directories and digests it was given and      *)
(* whatever was lost and planned again; without a power loss what it       *)
(* merged is still what the store holds.                                   *)
MergeIsExact ==
    \A m \in Mergers : proc[m].at \in {"put", "done"} =>
        /\ Len(proc[m].loaded) = ShardCount
        /\ \A i \in 1 .. ShardCount :
              /\ proc[proc[m].loaded[i]].plan = proc[m].plan
              /\ lost \/ \E n \in Shards : path[n] = [by |-> proc[m].loaded[i], whole |-> TRUE]
        /\ \A s \in Shards : \E i \in 1 .. ShardCount : proc[proc[m].loaded[i]].shard = s

(* Readers see each name as a register that is written once.               *)
Held == [n \in Names |-> IF path[n].whole THEN path[n].by ELSE Nobody]
Store == INSTANCE ImmutableStore WITH held <- Held, Contents <- Processes
MeetsStore == Store!Spec
=============================================================================
