----------------------------- MODULE TrainingRun -----------------------------
(***************************************************************************)
(* A training directory of cli.py: the commands warm-start and train write *)
(* history.json, checkpoint.pt and run.json after every update, each by an *)
(* atomic rename, and only the checkpoint flushes the directory.  A        *)
(* trainer may be killed between any two of these steps, the machine may   *)
(* lose power and with it any rename that was not flushed, and the run is  *)
(* then resumed from the files or refused, while evaluations load them.    *)
(*                                                                         *)
(* The state learned by a trainer is the sequence of the outcomes of its   *)
(* updates, its log: weights, optimizer, random state and counters are     *)
(* functions of it.  A file that does not exist holds the empty log, which *)
(* no file that exists can hold except a history the code then ignores.    *)
(***************************************************************************)
EXTENDS Naturals, Sequences

Seqs == INSTANCE SequencesExt

CONSTANTS Trainers,    \* processes that may run the training command
          Outcomes,    \* what one update may do to the model
          Total,       \* --updates, or --epochs
          MaxCrashes   \* bound on kills and power losses

ASSUME TotalAssumption == Total \in Nat \ {0}

VARIABLES directory,   \* the run directory exists
          visible,     \* the files as processes see them
          durable,     \* the files as the disk would give them back
          trainer,     \* one record per process
          reading,     \* receipt an evaluation has read, empty: none
          loaded,      \* models evaluations have accepted
          crashes

vars == <<directory, visible, durable, trainer, reading, loaded, crashes>>

Log == {log \in Seq(Outcomes) : Len(log) <= Total}
Files == {"history", "checkpoint", "run"}
NoRun == [payload |-> <<>>, complete |-> FALSE]
NoFiles == [history |-> <<>>, checkpoint |-> <<>>, run |-> NoRun]
Off == [at |-> "off", log |-> <<>>, history |-> <<>>]

Running(t) == trainer[t].at \notin {"off", "mkdir"}
At(t, place) == trainer[t].at = place
Goto(t, place) == trainer' = [trainer EXCEPT ![t].at = place]

Init ==
    /\ directory = FALSE
    /\ visible = NoFiles
    /\ durable = NoFiles
    /\ trainer = [t \in Trainers |-> Off]
    /\ reading = <<>>
    /\ loaded = {}
    /\ crashes = 0

-----------------------------------------------------------------------------
(* Entering a directory                                                    *)

EnterUnchecked(t, log) ==
    trainer' = [trainer EXCEPT ![t] =
        [at |-> "update", log |-> log, history |-> visible.history]]

(* The loop starts after `log' if the history has an entry per update.     *)
Enter(t, log) ==
    trainer' = [trainer EXCEPT ![t] =
        IF Len(visible.history) = Len(log)
        THEN [at |-> "update", log |-> log, history |-> visible.history]
        ELSE Off]

(* A new run refuses a directory that exists, and mkdir decides.           *)
StartFresh(t) ==
    /\ At(t, "off")
    /\ ~directory
    /\ Goto(t, "mkdir")
    /\ UNCHANGED <<directory, visible, durable, reading, loaded, crashes>>

MakeDirectoryOrShare(t) ==
    /\ At(t, "mkdir")
    /\ Enter(t, <<>>)
    /\ directory' = TRUE
    /\ UNCHANGED <<visible, durable, reading, loaded, crashes>>

MakeDirectory(t) ==
    /\ At(t, "mkdir")
    /\ IF directory THEN Goto(t, "off") ELSE Enter(t, <<>>)
    /\ directory' = TRUE
    /\ UNCHANGED <<visible, durable, reading, loaded, crashes>>

(* What load_checkpoint puts back: the state after the saved updates.      *)
Restored == visible.checkpoint

(* The receipt must name the payload of the checkpoint that was loaded.    *)
ReceiptMatches == visible.run.payload = Restored

Resume(t) ==
    /\ At(t, "off")
    /\ \A other \in Trainers : ~Running(other)
    /\ visible.checkpoint # <<>>
    /\ visible.run # NoRun
    /\ ReceiptMatches
    /\ Enter(t, Restored)
    /\ UNCHANGED <<directory, visible, durable, reading, loaded, crashes>>

-----------------------------------------------------------------------------
(* One update and its three files                                          *)

UpdateOnceMore(t) ==
    /\ At(t, "update")
    /\ Len(trainer[t].log) <= Total
    /\ \E o \in Outcomes :
          trainer' = [trainer EXCEPT
              ![t] = [at |-> "history", log |-> Append(@.log, o), history |-> Append(@.history, o)]]
    /\ UNCHANGED <<directory, visible, durable, reading, loaded, crashes>>

Update(t) ==
    /\ At(t, "update")
    /\ Len(trainer[t].log) < Total
    /\ \E o \in Outcomes :
          trainer' = [trainer EXCEPT
              ![t] = [at |-> "history", log |-> Append(@.log, o), history |-> Append(@.history, o)]]
    /\ UNCHANGED <<directory, visible, durable, reading, loaded, crashes>>

Finish(t) ==
    /\ At(t, "update")
    /\ Len(trainer[t].log) = Total
    /\ trainer' = [trainer EXCEPT ![t] = Off]
    /\ UNCHANGED <<directory, visible, durable, reading, loaded, crashes>>

WriteHistory(t) ==
    /\ At(t, "history")
    /\ visible' = [visible EXCEPT !.history = trainer[t].history]
    /\ Goto(t, "checkpoint")
    /\ UNCHANGED <<directory, durable, reading, loaded, crashes>>

WriteCheckpoint(t) ==
    /\ At(t, "checkpoint")
    /\ visible' = [visible EXCEPT !.checkpoint = trainer[t].log]
    /\ Goto(t, "sync")
    /\ UNCHANGED <<directory, durable, reading, loaded, crashes>>

SkipSync(t) ==
    /\ At(t, "sync")
    /\ Goto(t, "receipt")
    /\ UNCHANGED <<directory, visible, durable, reading, loaded, crashes>>

(* The flush of the directory makes every earlier rename durable.          *)
SyncDirectory(t) ==
    /\ At(t, "sync")
    /\ durable' = visible
    /\ Goto(t, "receipt")
    /\ UNCHANGED <<directory, visible, reading, loaded, crashes>>

WriteReceipt(t) ==
    /\ At(t, "receipt")
    /\ visible' = [visible EXCEPT
          !.run = [payload |-> trainer[t].log, complete |-> Len(trainer[t].log) = Total]]
    /\ Goto(t, "update")
    /\ UNCHANGED <<directory, durable, reading, loaded, crashes>>

-----------------------------------------------------------------------------
(* Evaluations and transfers: the receipt is read first, then the model    *)

ReadAnyReceipt ==
    /\ reading = <<>>
    /\ reading' = visible.run.payload
    /\ UNCHANGED <<directory, visible, durable, trainer, loaded, crashes>>

ReadReceipt ==
    /\ reading = <<>>
    /\ visible.run.complete
    /\ reading' = visible.run.payload
    /\ UNCHANGED <<directory, visible, durable, trainer, loaded, crashes>>

LoadModel ==
    /\ reading # <<>>
    /\ loaded' = IF Restored = reading THEN loaded \cup {Restored} ELSE loaded
    /\ reading' = <<>>
    /\ UNCHANGED <<directory, visible, durable, trainer, crashes>>

-----------------------------------------------------------------------------
(* Failures                                                                *)

(* A kill, or an exception of the command: what was renamed stays.         *)
Kill(t) ==
    /\ ~At(t, "off")
    /\ crashes < MaxCrashes
    /\ trainer' = [trainer EXCEPT ![t] = Off]
    /\ crashes' = crashes + 1
    /\ UNCHANGED <<directory, visible, durable, reading, loaded>>

(* Any subset of the renames that were not flushed survives.               *)
PowerLoss ==
    /\ crashes < MaxCrashes
    /\ \E kept \in SUBSET Files :
          visible' = [history |-> IF "history" \in kept THEN visible.history ELSE durable.history,
                      checkpoint |-> IF "checkpoint" \in kept THEN visible.checkpoint
                                                              ELSE durable.checkpoint,
                      run |-> IF "run" \in kept THEN visible.run ELSE durable.run]
    /\ durable' = visible'
    /\ trainer' = [t \in Trainers |-> Off]
    /\ reading' = <<>>
    /\ crashes' = crashes + 1
    /\ UNCHANGED <<directory, loaded>>

Train(t) ==
    \/ StartFresh(t)
    \/ MakeDirectory(t)
    \/ Resume(t)
    \/ Update(t)
    \/ WriteHistory(t)
    \/ WriteCheckpoint(t)
    \/ SyncDirectory(t)
    \/ WriteReceipt(t)
    \/ Finish(t)

Next ==
    \/ \E t \in Trainers : Train(t) \/ Kill(t)
    \/ ReadReceipt
    \/ LoadModel
    \/ PowerLoss

Spec == Init /\ [][Next]_vars

-----------------------------------------------------------------------------
FileTypes == [history : Log, checkpoint : Log, run : [payload : Log, complete : BOOLEAN]]

TrainingTypeOK ==
    /\ directory \in BOOLEAN
    /\ visible \in FileTypes
    /\ durable \in FileTypes
    /\ trainer \in [Trainers ->
          [at : {"off", "mkdir", "update", "history", "checkpoint", "sync", "receipt"},
           log : Log, history : Log]]
    /\ reading \in Log
    /\ loaded \subseteq Log
    /\ crashes \in Nat

(* However a run was killed, cut off and resumed, a trainer's history is   *)
(* the history of the very updates its model went through: the counters of *)
(* cmd_train compare only lengths, and no entry of an update that was lost *)
(* with its checkpoint ever passes for the one that replaced it.           *)
HistoryIsTheModels ==
    \A t \in Trainers : Running(t) => trainer[t].history = trainer[t].log

(* Every evaluation of one directory, before and after any interruption,   *)
(* gets the same model, and it is that of the finished run.                *)
OneFinalModel ==
    \A m, n \in loaded : m = n /\ Len(m) = Total

(* Once the receipt says complete, neither the model nor the history       *)
(* changes any more, not even when power is lost.                          *)
FinalFilesStay ==
    [][visible.run.complete =>
          visible'.checkpoint = visible.checkpoint /\ visible'.history = visible.history]_vars

(* An update that was flushed, or that a receipt names, is never lost and  *)
(* never computed again: the disk's checkpoint only grows, processes see   *)
(* one that continues it, and neither falls behind the receipt, whatever   *)
(* is killed, cut off or resumed.                                          *)
CheckpointOnlyGrows ==
    [][/\ Seqs!IsPrefix(durable.checkpoint, durable'.checkpoint)
       /\ Seqs!IsPrefix(visible.run.payload, durable'.checkpoint)
       /\ Seqs!IsPrefix(durable'.checkpoint, visible'.checkpoint)]_vars
=============================================================================
