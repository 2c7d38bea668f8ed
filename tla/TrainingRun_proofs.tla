------------------------- MODULE TrainingRun_proofs --------------------------
(***************************************************************************)
(* Proofs about TrainingRun for every number of trainers, updates,         *)
(* outcomes, kills and power losses.  The invariant says where the four    *)
(* copies of the logs stand at each step of the single trainer, and that   *)
(* a model some complete receipt has named is on disk for good.            *)
(***************************************************************************)
EXTENDS TrainingRun, SequenceTheorems, TLAPS

Entry == [at : {"off", "mkdir", "update", "history", "checkpoint", "sync", "receipt"},
          log : Log, history : Log]

-----------------------------------------------------------------------------
(* The invariant                                                           *)

(* Two commands that both found no directory never train in it together.   *)
OneTrainer ==
    \A t, u \in Trainers : Running(t) /\ Running(u) => t = u

(* Where a trainer stands, the files are this far.                         *)
Consistent(e) ==
    LET shorter(f) == Len(f) < Len(e.log)
    IN  /\ e.at \in {"off", "mkdir"} => e = [Off EXCEPT !.at = e.at]
        /\ e.at \notin {"off", "mkdir"} => e.history = e.log /\ directory
        /\ e.at = "update" => visible.history = e.log /\ visible.checkpoint = e.log
        /\ e.at = "history" => shorter(visible.history) /\ shorter(visible.checkpoint)
        /\ e.at = "checkpoint" => visible.history = e.log /\ shorter(visible.checkpoint)
                                    /\ shorter(durable.history)
        /\ e.at = "sync" => visible.history = e.log /\ visible.checkpoint = e.log
                              /\ shorter(durable.history) /\ shorter(durable.checkpoint)
        /\ e.at = "receipt" => visible.history = e.log /\ visible.checkpoint = e.log
                              /\ durable.history = e.log /\ durable.checkpoint = e.log

(* A history as long as a checkpoint is its history, whatever power loss   *)
(* mixes, and the disk is never ahead of what processes see.               *)
Paired(h, c) == Len(h) = Len(c) => h = c
FilesPaired ==
    /\ Paired(visible.history, visible.checkpoint)
    /\ Paired(visible.history, durable.checkpoint)
    /\ Paired(durable.history, visible.checkpoint)
    /\ Paired(durable.history, durable.checkpoint)
    /\ Len(durable.history) <= Len(visible.history)
    /\ Len(durable.checkpoint) <= Len(visible.checkpoint)

Settled(m) ==
    /\ Len(m) = Total
    /\ visible.history = m /\ visible.checkpoint = m
    /\ durable.history = m /\ durable.checkpoint = m

FinalSettled ==
    /\ \A m \in loaded : Settled(m)
    /\ reading # <<>> => Settled(reading)
    /\ visible.run.complete => Settled(visible.run.payload)
    /\ durable.run.complete => Settled(durable.run.payload)

TrainingInv ==
    /\ TrainingTypeOK
    /\ OneTrainer
    /\ ~directory => visible = NoFiles /\ durable = NoFiles
    /\ \A t \in Trainers : Consistent(trainer[t])
    /\ FilesPaired
    /\ FinalSettled


-----------------------------------------------------------------------------
LEMMA Start == Init => TrainingInv
<1> SUFFICES ASSUME Init PROVE TrainingInv
  OBVIOUS
<1>1. <<>> \in Log
  BY TotalAssumption DEF Log
<1>2. TrainingTypeOK
  BY <1>1 DEF Init, TrainingTypeOK, FileTypes, NoFiles, NoRun, Off
<1>3. OneTrainer /\ \A t \in Trainers : Consistent(trainer[t])
  BY DEF Init, OneTrainer, Running, Consistent, Off
<1>4. FilesPaired /\ FinalSettled
  BY DEF Init, FilesPaired, Paired, FinalSettled, NoFiles, NoRun
<1>5. QED
  BY <1>2, <1>3, <1>4 DEF Init, TrainingInv

LEMMA LogFacts ==
    ASSUME NEW m \in Log
    PROVE  m \in Seq(Outcomes) /\ Len(m) \in Nat /\ Len(m) <= Total
  BY DEF Log

LEMMA Lengths ==
    ASSUME TrainingTypeOK
    PROVE  /\ visible.history \in Log /\ visible.checkpoint \in Log
           /\ durable.history \in Log /\ durable.checkpoint \in Log
           /\ visible.run.payload \in Log /\ durable.run.payload \in Log
           /\ visible.run.complete \in BOOLEAN /\ durable.run.complete \in BOOLEAN
           /\ trainer \in [Trainers -> Entry] /\ reading \in Log /\ loaded \subseteq Log
           /\ Total \in Nat /\ Total > 0
  BY TotalAssumption DEF TrainingTypeOK, FileTypes, Entry

\* A trainer that is not running asks nothing of the files.
LEMMA IdleConsistent ==
    ASSUME NEW e \in Entry, e.at \in {"off", "mkdir"}, e = [Off EXCEPT !.at = e.at]
    PROVE  Consistent(e)'
  BY DEF Consistent

\* Beside a running trainer every other one is idle.
LEMMA OthersIdle ==
    ASSUME TrainingInv, NEW t \in Trainers, Running(t), NEW u \in Trainers, u # t
    PROVE  /\ trainer[u].at \in {"off", "mkdir"}
           /\ trainer[u] = [Off EXCEPT !.at = trainer[u].at]
  BY DEF TrainingInv, OneTrainer, Running, Consistent

\* One trainer moves, alone among the running ones.
LEMMA OneMoves ==
    ASSUME TrainingInv, NEW t \in Trainers, NEW e \in Entry,
           trainer' = [trainer EXCEPT ![t] = e],
           \A u \in Trainers \ {t} : ~Running(u),
           Consistent(e)'
    PROVE  /\ trainer' \in [Trainers -> Entry]
           /\ OneTrainer'
           /\ \A u \in Trainers : Consistent(trainer[u])'
<1>1. trainer \in [Trainers -> Entry]
  BY Lengths DEF TrainingInv
<1>2. ASSUME NEW u \in Trainers, u # t PROVE trainer'[u] = trainer[u] /\ ~Running(u)
                                             /\ Consistent(trainer[u])'
  <2>1. trainer'[u] = trainer[u] /\ ~Running(u) /\ trainer[u] \in Entry
    BY <1>1, <1>2
  <2>2. trainer[u].at \in {"off", "mkdir"} /\ trainer[u] = [Off EXCEPT !.at = trainer[u].at]
    BY <2>1 DEF TrainingInv, Running, Consistent
  <2>3. ASSUME NEW f \in Entry, f = trainer[u] PROVE Consistent(f)'
    BY <2>2, <2>3, IdleConsistent
  <2>4. QED
    BY <2>1, <2>3 DEF Consistent
<1>3. trainer'[t] = e
  BY <1>1
<1>4. OneTrainer'
  BY <1>1, <1>2 DEF OneTrainer, Running
<1>5. Consistent(trainer[t])'
  BY <1>3 DEF Consistent
<1>6. QED
  BY <1>1, <1>2, <1>4, <1>5


\* What the moves of one trainer leave to show when the files stay.
LEMMA FilesStay ==
    ASSUME TrainingInv, NEW t \in Trainers, NEW e \in Entry,
           trainer' = [trainer EXCEPT ![t] = e],
           \A u \in Trainers \ {t} : ~Running(u),
           Consistent(e)',
           UNCHANGED <<directory, visible, durable, reading, loaded>>, crashes' \in Nat
    PROVE  TrainingInv'
<1>1. trainer' \in [Trainers -> Entry] /\ OneTrainer' /\ \A u \in Trainers : Consistent(trainer[u])'
  BY OneMoves
<1>2. TrainingTypeOK'
  BY <1>1 DEF TrainingInv, TrainingTypeOK, Entry
<1>3. FilesPaired' /\ FinalSettled' /\ (~directory => visible = NoFiles /\ durable = NoFiles)'
  BY DEF TrainingInv, FilesPaired, Paired, FinalSettled, Settled
<1>4. QED
  BY <1>1, <1>2, <1>3 DEF TrainingInv

\* A stopped process.
LEMMA Stopped ==
    ASSUME NEW place \in {"off", "mkdir"}
    PROVE  /\ [Off EXCEPT !.at = place] \in Entry
           /\ Consistent([Off EXCEPT !.at = place])'
<1>1. <<>> \in Log
  BY TotalAssumption DEF Log
<1>2. [Off EXCEPT !.at = place] \in Entry
  BY <1>1 DEF Off, Entry
<1>3. QED
  BY <1>2, IdleConsistent DEF Off

\* While nobody else runs, a process may stop at any time.
LEMMA Stops ==
    ASSUME TrainingInv, NEW t \in Trainers, NEW place \in {"off", "mkdir"},
           trainer' = [trainer EXCEPT ![t] = [Off EXCEPT !.at = place]],
           UNCHANGED <<directory, visible, durable, reading, loaded>>, crashes' \in Nat
    PROVE  TrainingInv'
<1> DEFINE e == [Off EXCEPT !.at = place]
<1>1. e \in Entry /\ Consistent(e)' /\ e.at = place
  BY Stopped DEF Off
<1>2. trainer \in [Trainers -> Entry]
  BY Lengths DEF TrainingInv
<1>3. trainer'[t] = e /\ \A u \in Trainers \ {t} : trainer'[u] = trainer[u]
  BY <1>2
<1>4. trainer' \in [Trainers -> Entry]
  BY <1>1, <1>2
<1>5. OneTrainer'
  BY <1>1, <1>3 DEF TrainingInv, OneTrainer, Running
<1>6. ASSUME NEW u \in Trainers PROVE Consistent(trainer[u])'
  <2>1. CASE u = t
    BY <1>1, <1>3, <2>1 DEF Consistent
  <2>2. CASE u # t
    BY <1>3, <2>2 DEF TrainingInv, Consistent
  <2>3. QED
    BY <2>1, <2>2
<1>7. TrainingTypeOK'
  BY <1>4 DEF TrainingInv, TrainingTypeOK, Entry
<1>8. FilesPaired' /\ FinalSettled' /\ (~directory => visible = NoFiles /\ durable = NoFiles)'
  BY DEF TrainingInv, FilesPaired, Paired, FinalSettled, Settled
<1>9. QED
  BY <1>5, <1>6, <1>7, <1>8 DEF TrainingInv

LEMMA StartFreshKeeps ==
    ASSUME TrainingInv, NEW t \in Trainers, StartFresh(t) PROVE TrainingInv'
<1>1. trainer[t] = Off
  BY DEF StartFresh, At, TrainingInv, Consistent, Off
<1>2. trainer' = [trainer EXCEPT ![t] = [Off EXCEPT !.at = "mkdir"]]
  BY <1>1, Lengths DEF TrainingInv, StartFresh, Goto
<1>3. QED
  BY <1>2, Stops DEF StartFresh, TrainingInv, TrainingTypeOK

\* What Enter leaves: a trainer in the loop whose files agree with its log, or none.
LEMMA Entered ==
    ASSUME TrainingInv, NEW t \in Trainers, NEW log \in Log, Enter(t, log),
           \A u \in Trainers \ {t} : ~Running(u),
           visible.checkpoint = log, directory',
           UNCHANGED <<visible, durable, reading, loaded, crashes>>
    PROVE  TrainingInv'
<1> DEFINE e == [at |-> "update", log |-> log, history |-> visible.history]
<1>1. TrainingTypeOK /\ FilesPaired
  BY DEF TrainingInv
<1>2. CASE Len(visible.history) = Len(log)
  <2>1. trainer' = [trainer EXCEPT ![t] = e]
    BY <1>2 DEF Enter
  <2>2. visible.history = log
    BY <1>1, <1>2 DEF FilesPaired, Paired
  <2>3. e \in Entry
    BY <1>1, Lengths DEF Entry
  <2>4. Consistent(e)'
    BY <2>2 DEF Consistent
  <2>5. QED
    <3>1. trainer' \in [Trainers -> Entry] /\ OneTrainer'
          /\ \A u \in Trainers : Consistent(trainer[u])'
      BY <2>1, <2>3, <2>4, OneMoves
    <3>2. TrainingTypeOK'
      BY <1>1, <3>1 DEF TrainingTypeOK, Entry
    <3>3. FilesPaired' /\ FinalSettled'
      BY DEF TrainingInv, FilesPaired, Paired, FinalSettled, Settled
    <3>4. QED
      BY <3>1, <3>2, <3>3 DEF TrainingInv
<1>3. CASE Len(visible.history) # Len(log)
  <2>1. trainer' = [trainer EXCEPT ![t] = Off]
    BY <1>3 DEF Enter
  <2>2. Off \in Entry /\ Consistent(Off)'
    <3>1. Off = [Off EXCEPT !.at = "off"]
      BY DEF Off
    <3>2. QED
      BY <3>1, Stopped
  <2>3. trainer' \in [Trainers -> Entry] /\ OneTrainer'
        /\ \A u \in Trainers : Consistent(trainer[u])'
    BY <2>1, <2>2, OneMoves
  <2>4. TrainingTypeOK'
    BY <1>1, <2>3 DEF TrainingTypeOK, Entry
  <2>5. FilesPaired' /\ FinalSettled'
    BY DEF TrainingInv, FilesPaired, Paired, FinalSettled, Settled
  <2>6. QED
    BY <2>3, <2>4, <2>5 DEF TrainingInv
<1>4. QED
  BY <1>2, <1>3

LEMMA MakeDirectoryKeeps ==
    ASSUME TrainingInv, NEW t \in Trainers, MakeDirectory(t) PROVE TrainingInv'
<1>1. trainer[t] = [Off EXCEPT !.at = "mkdir"]
  BY DEF MakeDirectory, At, TrainingInv, Consistent
<1>2. CASE directory
  <2>1. trainer' = [trainer EXCEPT ![t] = [Off EXCEPT !.at = "off"]]
    BY <1>1, <1>2, Lengths DEF TrainingInv, MakeDirectory, Goto, Off
  <2>2. UNCHANGED directory
    BY <1>2 DEF MakeDirectory, TrainingInv, TrainingTypeOK
  <2>3. QED
    BY <2>1, <2>2, Stops DEF MakeDirectory, TrainingInv, TrainingTypeOK
<1>3. CASE ~directory
  <2>1. \A u \in Trainers \ {t} : ~Running(u)
    BY <1>3 DEF TrainingInv, Consistent, Running
  <2>2. visible.checkpoint = <<>>
    BY <1>3 DEF TrainingInv, NoFiles
  <2>3. <<>> \in Log
    BY TotalAssumption DEF Log
  <2>4. Enter(t, <<>>) /\ directory' /\ UNCHANGED <<visible, durable, reading, loaded, crashes>>
    BY <1>3 DEF MakeDirectory
  <2>5. QED
    BY <2>1, <2>2, <2>3, <2>4, Entered
<1>4. QED
  BY <1>2, <1>3

LEMMA ResumeKeeps ==
    ASSUME TrainingInv, NEW t \in Trainers, Resume(t) PROVE TrainingInv'
<1>1. visible.checkpoint \in Log
  BY Lengths DEF TrainingInv
<1>2. directory'
  BY DEF Resume, TrainingInv, NoFiles
<1>3. QED
  BY <1>1, <1>2, Entered DEF Resume, Restored

LEMMA FinishKeeps ==
    ASSUME TrainingInv, NEW t \in Trainers, Finish(t) PROVE TrainingInv'
<1>1. trainer' = [trainer EXCEPT ![t] = [Off EXCEPT !.at = "off"]]
  BY DEF Finish, Off
<1>2. QED
  BY <1>1, Stops DEF Finish, TrainingInv, TrainingTypeOK

LEMMA KillKeeps ==
    ASSUME TrainingInv, NEW t \in Trainers, Kill(t) PROVE TrainingInv'
<1>1. trainer' = [trainer EXCEPT ![t] = [Off EXCEPT !.at = "off"]]
  BY DEF Kill, Off
<1>2. crashes' \in Nat
  BY DEF Kill, TrainingInv, TrainingTypeOK
<1>3. UNCHANGED <<directory, visible, durable, reading, loaded>>
  BY DEF Kill
<1>4. QED
  BY <1>1, <1>2, <1>3, Stops


\* A running trainer, its record and the files around it.
LEMMA RunningFacts ==
    ASSUME TrainingInv, NEW t \in Trainers, Running(t)
    PROVE  /\ trainer[t] \in Entry /\ trainer[t].log \in Log
           /\ trainer[t].history = trainer[t].log
           /\ directory /\ Consistent(trainer[t])
           /\ \A u \in Trainers \ {t} : ~Running(u)
<1>1. trainer[t] \in Entry /\ Consistent(trainer[t])
  BY Lengths DEF TrainingInv
<1>2. \A u \in Trainers \ {t} : ~Running(u)
  BY OthersIdle DEF Running
<1>3. QED
  BY <1>1, <1>2 DEF Consistent, Entry, Running

LEMMA UpdateKeeps ==
    ASSUME TrainingInv, NEW t \in Trainers, Update(t) PROVE TrainingInv'
<1>1. Running(t) /\ Len(trainer[t].log) < Total /\ trainer[t].at = "update"
  BY DEF Update, At, Running
<1>2. PICK o \in Outcomes : trainer' = [trainer EXCEPT
        ![t] = [at |-> "history", log |-> Append(@.log, o), history |-> Append(@.history, o)]]
  BY DEF Update
<1>3. PICK l \in Log : l = trainer[t].log
  BY <1>1, RunningFacts
<1>4. visible.history = l /\ visible.checkpoint = l
  BY <1>1, <1>3, RunningFacts DEF Consistent
<1>5. l \in Seq(Outcomes) /\ Len(l) \in Nat
  BY <1>3, LogFacts
<1>6. Append(l, o) \in Log /\ Len(Append(l, o)) = Len(l) + 1
  BY <1>1, <1>3, <1>5, TotalAssumption DEF Log
<1>7. PICK e \in Entry : e = [at |-> "history", log |-> Append(l, o), history |-> Append(l, o)]
  BY <1>6 DEF Entry
<1>8. trainer' = [trainer EXCEPT ![t] = e]
  BY <1>1, <1>2, <1>3, <1>7, RunningFacts, Lengths DEF TrainingInv
<1>9. UNCHANGED <<directory, visible, durable, reading, loaded, crashes>>
  BY DEF Update
<1>10. Consistent(e)'
  <2>1. directory' /\ Len(visible'.history) < Len(e.log) /\ Len(visible'.checkpoint) < Len(e.log)
    BY <1>1, <1>4, <1>5, <1>6, <1>7, <1>9, RunningFacts
  <2>2. QED
    BY <1>7, <2>1 DEF Consistent
<1>11. crashes' \in Nat /\ \A u \in Trainers \ {t} : ~Running(u)
  BY <1>1, <1>9, RunningFacts DEF TrainingInv, TrainingTypeOK
<1>12. QED
  BY <1>8, <1>9, <1>10, <1>11, FilesStay

\* While a trainer is ahead of the files, nothing is final yet.
LEMMA NothingFinal ==
    ASSUME TrainingInv, NEW m \in Log, Len(visible.checkpoint) < Len(m)
    PROVE  loaded = {} /\ reading = <<>> /\ ~visible.run.complete /\ ~durable.run.complete
<1>1. Len(visible.checkpoint) \in Nat /\ Len(m) \in Nat /\ Len(m) <= Total /\ Total \in Nat
  BY Lengths, LogFacts DEF TrainingInv
<1>2. ASSUME NEW x PROVE ~Settled(x)
  BY <1>1 DEF Settled
<1>3. QED
  BY <1>2 DEF TrainingInv, FinalSettled

LEMMA WriteHistoryKeeps ==
    ASSUME TrainingInv, NEW t \in Trainers, WriteHistory(t) PROVE TrainingInv'
<1>1. Running(t) /\ trainer[t].at = "history"
  BY DEF WriteHistory, At, Running
<1>l. PICK l \in Log : l = trainer[t].log
  BY <1>1, RunningFacts
<1>e. PICK e \in Entry : e = [trainer[t] EXCEPT !.at = "checkpoint"]
  BY <1>1, RunningFacts DEF Entry
<1>2. /\ trainer[t] \in Entry /\ l \in Log /\ trainer[t].history = l /\ directory
      /\ Len(visible.history) < Len(l) /\ Len(visible.checkpoint) < Len(l)
      /\ \A u \in Trainers \ {t} : ~Running(u)
  BY <1>1, <1>l, RunningFacts DEF Consistent
<1>3. /\ visible' = [visible EXCEPT !.history = l]
      /\ trainer' = [trainer EXCEPT ![t] = e]
      /\ UNCHANGED <<directory, durable, reading, loaded, crashes>>
  <2>1. trainer \in [Trainers -> Entry]
    BY Lengths DEF TrainingInv
  <2>2. QED
    BY <1>2, <1>l, <1>e, <2>1 DEF WriteHistory, Goto
<1>4. /\ visible \in FileTypes /\ visible' \in FileTypes
      /\ visible'.history = l /\ visible'.checkpoint = visible.checkpoint
      /\ visible'.run = visible.run
  BY <1>2, <1>3 DEF TrainingInv, TrainingTypeOK, FileTypes
<1>5. /\ Len(l) \in Nat /\ Len(visible.history) \in Nat /\ Len(visible.checkpoint) \in Nat
      /\ Len(durable.history) \in Nat /\ Len(durable.checkpoint) \in Nat
      /\ Len(durable.history) <= Len(visible.history)
      /\ Len(durable.checkpoint) <= Len(visible.checkpoint)
      /\ Paired(durable.history, visible.checkpoint)
      /\ Paired(durable.history, durable.checkpoint)
  BY <1>2, Lengths, LogFacts DEF TrainingInv, FilesPaired
<1>6. e \in Entry /\ e.at = "checkpoint" /\ e.log = l /\ e.history = l
  BY <1>2, <1>l, <1>e DEF Entry
<1>7. Consistent(e)'
  <2>1. /\ directory' /\ visible'.history = e.log /\ Len(visible'.checkpoint) < Len(e.log)
        /\ Len(durable'.history) < Len(e.log)
    BY <1>2, <1>3, <1>4, <1>5, <1>6
  <2>2. QED
    BY <1>6, <2>1 DEF Consistent
<1>8. trainer' \in [Trainers -> Entry] /\ OneTrainer' /\ \A u \in Trainers : Consistent(trainer[u])'
  BY <1>2, <1>3, <1>6, <1>7, OneMoves
<1>9. FilesPaired'
  BY <1>2, <1>3, <1>4, <1>5 DEF FilesPaired, Paired
<1>10. FinalSettled'
  BY <1>2, <1>3, <1>4, NothingFinal DEF FinalSettled
<1>11. TrainingTypeOK' /\ directory'
  BY <1>2, <1>3, <1>4, <1>8 DEF TrainingInv, TrainingTypeOK, Entry
<1>12. QED
  BY <1>8, <1>9, <1>10, <1>11 DEF TrainingInv

LEMMA WriteCheckpointKeeps ==
    ASSUME TrainingInv, NEW t \in Trainers, WriteCheckpoint(t) PROVE TrainingInv'
<1>1. Running(t) /\ trainer[t].at = "checkpoint"
  BY DEF WriteCheckpoint, At, Running
<1>l. PICK l \in Log : l = trainer[t].log
  BY <1>1, RunningFacts
<1>e. PICK e \in Entry : e = [trainer[t] EXCEPT !.at = "sync"]
  BY <1>1, RunningFacts DEF Entry
<1>2. /\ trainer[t] \in Entry /\ l \in Log /\ trainer[t].history = l /\ directory
      /\ visible.history = l /\ Len(visible.checkpoint) < Len(l) /\ Len(durable.history) < Len(l)
      /\ \A u \in Trainers \ {t} : ~Running(u)
  BY <1>1, <1>l, RunningFacts DEF Consistent
<1>3. /\ visible' = [visible EXCEPT !.checkpoint = l]
      /\ trainer' = [trainer EXCEPT ![t] = e]
      /\ UNCHANGED <<directory, durable, reading, loaded, crashes>>
  <2>1. trainer \in [Trainers -> Entry]
    BY Lengths DEF TrainingInv
  <2>2. QED
    BY <1>2, <1>l, <1>e, <2>1 DEF WriteCheckpoint, Goto
<1>4. /\ visible \in FileTypes /\ visible' \in FileTypes
      /\ visible'.history = l /\ visible'.checkpoint = l /\ visible'.run = visible.run
  BY <1>2, <1>3 DEF TrainingInv, TrainingTypeOK, FileTypes
<1>5. /\ Len(l) \in Nat /\ Len(visible.checkpoint) \in Nat
      /\ Len(durable.history) \in Nat /\ Len(durable.checkpoint) \in Nat
      /\ Len(durable.checkpoint) <= Len(visible.checkpoint)
      /\ Paired(durable.history, durable.checkpoint)
  BY <1>2, Lengths, LogFacts DEF TrainingInv, FilesPaired
<1>6. e \in Entry /\ e.at = "sync" /\ e.log = l /\ e.history = l
  BY <1>2, <1>l, <1>e DEF Entry
<1>7. Consistent(e)'
  <2>1. /\ directory' /\ visible'.history = e.log /\ visible'.checkpoint = e.log
        /\ Len(durable'.history) < Len(e.log) /\ Len(durable'.checkpoint) < Len(e.log)
    BY <1>2, <1>3, <1>4, <1>5, <1>6
  <2>2. QED
    BY <1>6, <2>1 DEF Consistent
<1>8. trainer' \in [Trainers -> Entry] /\ OneTrainer' /\ \A u \in Trainers : Consistent(trainer[u])'
  BY <1>2, <1>3, <1>6, <1>7, OneMoves
<1>9. FilesPaired'
  BY <1>2, <1>3, <1>4, <1>5 DEF FilesPaired, Paired
<1>10. FinalSettled'
  BY <1>2, <1>3, <1>4, NothingFinal DEF FinalSettled
<1>11. TrainingTypeOK' /\ directory'
  BY <1>2, <1>3, <1>4, <1>8 DEF TrainingInv, TrainingTypeOK, Entry
<1>12. QED
  BY <1>8, <1>9, <1>10, <1>11 DEF TrainingInv


LEMMA SyncDirectoryKeeps ==
    ASSUME TrainingInv, NEW t \in Trainers, SyncDirectory(t) PROVE TrainingInv'
<1>1. Running(t) /\ trainer[t].at = "sync"
  BY DEF SyncDirectory, At, Running
<1>l. PICK l \in Log : l = trainer[t].log
  BY <1>1, RunningFacts
<1>e. PICK e \in Entry : e = [trainer[t] EXCEPT !.at = "receipt"]
  BY <1>1, RunningFacts DEF Entry
<1>2. /\ trainer[t] \in Entry /\ trainer[t].history = l /\ directory
      /\ visible.history = l /\ visible.checkpoint = l
      /\ Len(durable.checkpoint) < Len(l)
      /\ \A u \in Trainers \ {t} : ~Running(u)
  BY <1>1, <1>l, RunningFacts DEF Consistent
<1>3. /\ durable' = visible
      /\ trainer' = [trainer EXCEPT ![t] = e]
      /\ UNCHANGED <<directory, visible, reading, loaded, crashes>>
  <2>1. trainer \in [Trainers -> Entry]
    BY Lengths DEF TrainingInv
  <2>2. QED
    BY <1>2, <1>e, <2>1 DEF SyncDirectory, Goto
<1>4. Len(l) \in Nat /\ Len(durable.checkpoint) \in Nat
  BY Lengths, LogFacts DEF TrainingInv
<1>5. e.at = "receipt" /\ e.log = l /\ e.history = l
  BY <1>2, <1>l, <1>e DEF Entry
<1>6. Consistent(e)'
  BY <1>2, <1>3, <1>5 DEF Consistent
<1>7. trainer' \in [Trainers -> Entry] /\ OneTrainer' /\ \A u \in Trainers : Consistent(trainer[u])'
  BY <1>2, <1>3, <1>6, OneMoves
<1>8. FilesPaired'
  BY <1>2, <1>3, <1>4 DEF FilesPaired, Paired
<1>9. ASSUME NEW x PROVE ~Settled(x)
  BY <1>2, <1>4 DEF Settled
<1>10. FinalSettled'
  BY <1>3, <1>9 DEF TrainingInv, FinalSettled
<1>11. TrainingTypeOK' /\ directory'
  BY <1>2, <1>3, <1>7 DEF TrainingInv, TrainingTypeOK, Entry
<1>12. QED
  BY <1>7, <1>8, <1>10, <1>11 DEF TrainingInv

LEMMA WriteReceiptKeeps ==
    ASSUME TrainingInv, NEW t \in Trainers, WriteReceipt(t) PROVE TrainingInv'
<1>1. Running(t) /\ trainer[t].at = "receipt"
  BY DEF WriteReceipt, At, Running
<1>l. PICK l \in Log : l = trainer[t].log
  BY <1>1, RunningFacts
<1>e. PICK e \in Entry : e = [trainer[t] EXCEPT !.at = "update"]
  BY <1>1, RunningFacts DEF Entry
<1>2. /\ trainer[t] \in Entry /\ trainer[t].history = l /\ directory
      /\ visible.history = l /\ visible.checkpoint = l
      /\ durable.history = l /\ durable.checkpoint = l
      /\ \A u \in Trainers \ {t} : ~Running(u)
  BY <1>1, <1>l, RunningFacts DEF Consistent
<1>3. /\ visible' = [visible EXCEPT !.run = [payload |-> l, complete |-> Len(l) = Total]]
      /\ trainer' = [trainer EXCEPT ![t] = e]
      /\ UNCHANGED <<directory, durable, reading, loaded, crashes>>
  <2>1. trainer \in [Trainers -> Entry]
    BY Lengths DEF TrainingInv
  <2>2. QED
    BY <1>2, <1>l, <1>e, <2>1 DEF WriteReceipt, Goto
<1>4. /\ visible \in FileTypes /\ visible' \in FileTypes
      /\ visible'.history = l /\ visible'.checkpoint = l
      /\ visible'.run = [payload |-> l, complete |-> Len(l) = Total]
  BY <1>2, <1>3 DEF TrainingInv, TrainingTypeOK, FileTypes
<1>5. e.at = "update" /\ e.log = l /\ e.history = l
  BY <1>2, <1>l, <1>e DEF Entry
<1>6. Consistent(e)'
  BY <1>2, <1>3, <1>4, <1>5 DEF Consistent
<1>7. trainer' \in [Trainers -> Entry] /\ OneTrainer' /\ \A u \in Trainers : Consistent(trainer[u])'
  BY <1>2, <1>3, <1>6, OneMoves
<1>8. FilesPaired'
  BY <1>2, <1>3, <1>4 DEF TrainingInv, FilesPaired, Paired
<1>9. FinalSettled'
  <2>1. ASSUME NEW x, Settled(x) PROVE Settled(x)'
    BY <1>2, <1>3, <1>4, <2>1 DEF Settled
  <2>2. visible'.run.complete => Settled(visible.run.payload)'
    <3>1. PICK done \in BOOLEAN : done <=> Len(l) = Total
      OBVIOUS
    <3>2. visible'.run = [payload |-> l, complete |-> done]
      <4>1. (Len(l) = Total) = done
        BY <3>1
      <4>2. QED
        BY <1>4, <4>1
    <3>3. visible'.run.payload = l /\ (visible'.run.complete => Len(l) = Total)
      BY <3>1, <3>2
    <3>4. QED
      BY <1>2, <1>3, <1>4, <3>3 DEF Settled
  <2>3. (\A m \in loaded : Settled(m))'
    <3>1. \A m \in loaded : Settled(m)
      BY DEF TrainingInv, FinalSettled
    <3>2. QED
      BY <1>2, <1>3, <1>4, <3>1 DEF Settled
  <2>4. (reading # <<>> => Settled(reading))'
    BY <1>2, <1>3, <1>4 DEF TrainingInv, FinalSettled, Settled
  <2>5. (durable.run.complete => Settled(durable.run.payload))'
    BY <1>2, <1>3, <1>4 DEF TrainingInv, FinalSettled, Settled
  <2>6. QED
    BY <2>2, <2>3, <2>4, <2>5 DEF FinalSettled
<1>10. TrainingTypeOK' /\ directory'
  BY <1>2, <1>3, <1>4, <1>7 DEF TrainingInv, TrainingTypeOK, Entry
<1>11. QED
  BY <1>7, <1>8, <1>9, <1>10 DEF TrainingInv

\* An evaluation moves no file and no trainer.
LEMMA ReadersKeep ==
    ASSUME TrainingInv, ReadReceipt \/ LoadModel PROVE TrainingInv'
<1>1. UNCHANGED <<directory, visible, durable, trainer, crashes>>
  BY DEF ReadReceipt, LoadModel
<1>2. OneTrainer' /\ FilesPaired' /\ (\A t \in Trainers : Consistent(trainer[t])')
      /\ (~directory => visible = NoFiles /\ durable = NoFiles)'
  BY <1>1 DEF TrainingInv, OneTrainer, Running, FilesPaired, Paired, Consistent
<1>3. TrainingTypeOK
  BY DEF TrainingInv
<1>4. CASE ReadReceipt
  <2>1. TrainingTypeOK'
    BY <1>1, <1>3, <1>4, Lengths DEF ReadReceipt, TrainingTypeOK
  <2>2. FinalSettled'
    BY <1>1, <1>4 DEF ReadReceipt, TrainingInv, FinalSettled, Settled
  <2>3. QED
    BY <1>2, <2>1, <2>2 DEF TrainingInv
<1>5. CASE LoadModel
  <2>1. reading # <<>> /\ Settled(reading) /\ reading \in Log
    BY <1>5, Lengths DEF LoadModel, TrainingInv, FinalSettled
  <2>2. loaded' = loaded \cup {reading} /\ reading' = <<>>
    BY <1>5, <2>1 DEF LoadModel, Restored, Settled
  <2>3. TrainingTypeOK'
    <3>1. <<>> \in Log
      BY TotalAssumption DEF Log
    <3>2. QED
      BY <1>1, <1>3, <2>1, <2>2, <3>1 DEF TrainingTypeOK
  <2>4. FinalSettled'
    BY <1>1, <2>1, <2>2 DEF TrainingInv, FinalSettled, Settled
  <2>5. QED
    BY <1>2, <2>3, <2>4 DEF TrainingInv
<1>6. QED
  BY <1>4, <1>5

LEMMA PowerLossKeeps == ASSUME TrainingInv, PowerLoss PROVE TrainingInv'
<1>1. PICK kept \in SUBSET Files :
        visible' = [history |-> IF "history" \in kept THEN visible.history ELSE durable.history,
                    checkpoint |-> IF "checkpoint" \in kept THEN visible.checkpoint
                                                            ELSE durable.checkpoint,
                    run |-> IF "run" \in kept THEN visible.run ELSE durable.run]
  BY DEF PowerLoss
<1>2. /\ visible'.history \in {visible.history, durable.history}
      /\ visible'.checkpoint \in {visible.checkpoint, durable.checkpoint}
      /\ visible'.run \in {visible.run, durable.run}
  BY <1>1
<1>3. /\ durable' = visible' /\ UNCHANGED <<directory, loaded>> /\ reading' = <<>>
      /\ trainer' = [t \in Trainers |-> Off] /\ crashes' \in Nat
  BY DEF PowerLoss, TrainingInv, TrainingTypeOK
<1>4. <<>> \in Log /\ Off \in Entry
  BY TotalAssumption DEF Log, Off, Entry
<1>5. visible' \in FileTypes
  <2>1. visible \in FileTypes /\ durable \in FileTypes
    BY DEF TrainingInv, TrainingTypeOK
  <2>2. /\ visible'.history \in Log /\ visible'.checkpoint \in Log
        /\ visible'.run \in [payload : Log, complete : BOOLEAN]
    BY <1>2, <2>1 DEF FileTypes
  <2>3. QED
    BY <1>1, <2>2 DEF FileTypes
<1>6. TrainingTypeOK'
  <2>1. loaded \subseteq Log /\ directory \in BOOLEAN
    BY DEF TrainingInv, TrainingTypeOK
  <2>2. trainer' \in [Trainers -> Entry]
    BY <1>3, <1>4
  <2>3. QED
    BY <1>3, <1>4, <1>5, <2>1, <2>2 DEF TrainingTypeOK, Entry
<1>7. OneTrainer' /\ \A t \in Trainers : Consistent(trainer[t])'
  BY <1>3 DEF OneTrainer, Running, Consistent, Off
<1>8. FilesPaired'
  <2>1. Paired(visible'.history, visible'.checkpoint)
    BY <1>2 DEF TrainingInv, FilesPaired
  <2>2. Len(visible'.history) \in Nat /\ Len(visible'.checkpoint) \in Nat
    BY <1>5, LogFacts DEF FileTypes
  <2>3. QED
    BY <1>3, <2>1, <2>2 DEF FilesPaired, Paired
<1>9. (~directory => visible = NoFiles /\ durable = NoFiles)'
  BY <1>1, <1>3 DEF TrainingInv, NoFiles
<1>10. FinalSettled'
  <2>1. ASSUME NEW x, Settled(x) PROVE Settled(x)'
    BY <1>2, <1>3, <2>1 DEF Settled
  <2>2. \A m \in loaded' : Settled(m)'
    BY <1>3, <2>1 DEF TrainingInv, FinalSettled
  <2>3. PICK r \in {visible.run, durable.run} : r = visible'.run /\ r = durable'.run
    BY <1>2, <1>3
  <2>4. r.complete => Settled(r.payload)'
    BY <2>1, <2>3 DEF TrainingInv, FinalSettled
  <2>5. QED
    BY <1>3, <2>2, <2>3, <2>4 DEF FinalSettled, Settled
<1>11. QED
  BY <1>6, <1>7, <1>8, <1>9, <1>10 DEF TrainingInv

LEMMA Preserved == TrainingInv /\ [Next]_vars => TrainingInv'
<1> SUFFICES ASSUME TrainingInv, [Next]_vars PROVE TrainingInv'
  OBVIOUS
<1>1. CASE UNCHANGED vars
  BY <1>1 DEF vars, TrainingInv, TrainingTypeOK, OneTrainer, Running, Consistent, FilesPaired,
              Paired, FinalSettled, Settled
<1>2. ASSUME NEW t \in Trainers, Train(t) PROVE TrainingInv'
  BY <1>2, StartFreshKeeps, MakeDirectoryKeeps, ResumeKeeps, UpdateKeeps, WriteHistoryKeeps,
     WriteCheckpointKeeps, SyncDirectoryKeeps, WriteReceiptKeeps, FinishKeeps DEF Train
<1>3. QED
  BY <1>1, <1>2, KillKeeps, ReadersKeep, PowerLossKeeps DEF Next

LEMMA Invariance == Spec => []TrainingInv
  BY Start, Preserved, PTL DEF Spec

-----------------------------------------------------------------------------
(* The theorems                                                            *)

(* Every file, log and reading keeps its type, and no log ever grows past  *)
(* the updates that were asked for.                                        *)
THEOREM TrainingTyped == Spec => []TrainingTypeOK
<1>1. TrainingInv => TrainingTypeOK
  BY DEF TrainingInv
<1>2. QED
  BY <1>1, Invariance, PTL

(* The history a trainer goes on writing is that of its own model, however *)
(* often the run was killed, cut off and resumed: comparing lengths is     *)
(* enough, because the files are never ahead of each other unnoticed.      *)
THEOREM HistoryStaysTheModels == Spec => []HistoryIsTheModels
<1>1. TrainingInv => HistoryIsTheModels
  BY DEF TrainingInv, HistoryIsTheModels, Consistent, Running
<1>2. QED
  BY <1>1, Invariance, PTL

(* mkdir lets one of any number of new runs in.                            *)
THEOREM TrainerIsAlone == Spec => []OneTrainer
<1>1. TrainingInv => OneTrainer
  BY DEF TrainingInv
<1>2. QED
  BY <1>1, Invariance, PTL

(* Evaluations and transfers of one directory all get one model, that of   *)
(* the finished run.                                                       *)
THEOREM EvaluationsAgree == Spec => []OneFinalModel
<1>1. TrainingInv => OneFinalModel
  BY DEF TrainingInv, OneFinalModel, FinalSettled, Settled
<1>2. QED
  BY <1>1, Invariance, PTL

(* After a complete receipt no step, power loss included, changes the      *)
(* model or the history.                                                   *)
THEOREM FinalFilesAreStable == Spec => FinalFilesStay
<1> DEFINE Stays == visible.run.complete =>
        visible'.checkpoint = visible.checkpoint /\ visible'.history = visible.history
<1>1. TrainingInv /\ TrainingInv' /\ [Next]_vars => [Stays]_vars
  <2> SUFFICES ASSUME TrainingInv, [Next]_vars, visible.run.complete
               PROVE  visible'.checkpoint = visible.checkpoint
                      /\ visible'.history = visible.history
    OBVIOUS
  <2>1. Settled(visible.run.payload) /\ TrainingTypeOK
    BY DEF TrainingInv, FinalSettled
  <2>2. /\ visible.history = visible.checkpoint /\ durable.history = visible.checkpoint
        /\ durable.checkpoint = visible.checkpoint /\ Len(visible.checkpoint) = Total
    BY <2>1 DEF Settled
  <2>3. ASSUME NEW t \in Trainers, WriteHistory(t) \/ WriteCheckpoint(t) PROVE FALSE
    <3>1. Running(t) /\ trainer[t].at \in {"history", "checkpoint"}
      BY <2>3 DEF WriteHistory, WriteCheckpoint, At, Running
    <3>2. trainer[t].log \in Log /\ Len(visible.checkpoint) < Len(trainer[t].log)
      BY <3>1, RunningFacts DEF Consistent
    <3>3. QED
      BY <3>2, NothingFinal
  <2>4. ASSUME NEW t \in Trainers, WriteReceipt(t)
        PROVE  visible'.checkpoint = visible.checkpoint /\ visible'.history = visible.history
    BY <2>1, <2>4 DEF WriteReceipt, TrainingTypeOK, FileTypes
  <2>5. CASE PowerLoss
    BY <2>2, <2>5 DEF PowerLoss
  <2>6. CASE UNCHANGED visible
    BY <2>6
  <2>7. QED
    BY <2>3, <2>4, <2>5, <2>6 DEF Next, Train, StartFresh, MakeDirectory, Resume, Update,
       SyncDirectory, Finish, Kill, ReadReceipt, LoadModel, vars
<1>2. QED
  BY <1>1, Invariance, PTL DEF Spec, FinalFilesStay


-----------------------------------------------------------------------------
(* What is kept                                                            *)

Prefix(s, t) == Seqs!IsPrefix(s, t)

\* A prefix, entry by entry.
LEMMA PrefixEntries ==
    ASSUME NEW s \in Seq(Outcomes), NEW t \in Seq(Outcomes)
    PROVE  Prefix(s, t) <=> Len(s) <= Len(t) /\ \A i \in 1 .. Len(s) : s[i] = t[i]
<1>1. CASE Len(s) <= Len(t)
  <2>1. /\ SubSeq(s, 1, Len(s)) \in Seq(Outcomes) /\ Len(SubSeq(s, 1, Len(s))) = Len(s)
        /\ \A i \in 1 .. Len(s) : SubSeq(s, 1, Len(s))[i] = s[i]
    BY SubSeqProperties
  <2>2. /\ SubSeq(t, 1, Len(s)) \in Seq(Outcomes) /\ Len(SubSeq(t, 1, Len(s))) = Len(s)
        /\ \A i \in 1 .. Len(s) : SubSeq(t, 1, Len(s))[i] = t[i]
    BY <1>1, SubSeqProperties
  <2>3. SubSeq(s, 1, Len(s)) = SubSeq(t, 1, Len(s)) <=> \A i \in 1 .. Len(s) : s[i] = t[i]
    <3>1. ASSUME SubSeq(s, 1, Len(s)) = SubSeq(t, 1, Len(s)), NEW i \in 1 .. Len(s)
          PROVE  s[i] = t[i]
      BY <2>1, <2>2, <3>1
    <3>2. ASSUME \A i \in 1 .. Len(s) : s[i] = t[i]
          PROVE  SubSeq(s, 1, Len(s)) = SubSeq(t, 1, Len(s))
      BY <2>1, <2>2, <3>2, SeqEqual
    <3>3. QED
      BY <3>1, <3>2
  <2>4. QED
    BY <1>1, <2>3 DEF Prefix, Seqs!IsPrefix
<1>2. CASE ~(Len(s) <= Len(t))
  BY <1>2 DEF Prefix, Seqs!IsPrefix
<1>3. QED
  BY <1>1, <1>2

LEMMA PrefixOrder ==
    /\ \A s \in Log : Prefix(<<>>, s) /\ Prefix(s, s)
    /\ \A s, t, u \in Log : Prefix(s, t) /\ Prefix(t, u) => Prefix(s, u)
    /\ \A s \in Log, o \in Outcomes : Append(s, o) \in Log => Prefix(s, Append(s, o))
<1>1. <<>> \in Log
  BY TotalAssumption DEF Log
<1>2. ASSUME NEW s \in Log PROVE Prefix(<<>>, s) /\ Prefix(s, s)
  BY <1>1, LogFacts, PrefixEntries
<1>3. ASSUME NEW s \in Log, NEW t \in Log, NEW u \in Log, Prefix(s, t), Prefix(t, u)
      PROVE  Prefix(s, u)
  <2>1. /\ Len(s) \in Nat /\ Len(t) \in Nat /\ Len(u) \in Nat
        /\ Len(s) <= Len(t) /\ Len(t) <= Len(u)
        /\ \A i \in 1 .. Len(s) : s[i] = t[i]
        /\ \A i \in 1 .. Len(t) : t[i] = u[i]
    BY <1>3, LogFacts, PrefixEntries
  <2>2. Len(s) <= Len(u) /\ \A i \in 1 .. Len(s) : i \in 1 .. Len(t)
    BY <2>1
  <2>3. QED
    BY <2>1, <2>2, LogFacts, PrefixEntries
<1>4. ASSUME NEW s \in Log, NEW o \in Outcomes, Append(s, o) \in Log
      PROVE  Prefix(s, Append(s, o))
  <2>1. /\ s \in Seq(Outcomes) /\ Append(s, o) \in Seq(Outcomes)
        /\ Len(s) <= Len(Append(s, o)) /\ \A i \in 1 .. Len(s) : Append(s, o)[i] = s[i]
    BY LogFacts, <1>4
  <2>2. QED
    BY <2>1, PrefixEntries
<1>5. QED
  BY <1>2, <1>3, <1>4

(* Each copy of the run continues the ones behind it: receipts, the        *)
(* disk's checkpoint, the one processes see, the log of whoever trains.    *)
Continued ==
    /\ Prefix(visible.run.payload, durable.checkpoint)
    /\ Prefix(durable.run.payload, durable.checkpoint)
    /\ Prefix(durable.checkpoint, visible.checkpoint)
    /\ \A t \in Trainers : Running(t) => Prefix(visible.checkpoint, trainer[t].log)

(* What one step keeps of the disk's checkpoint and of the receipt.        *)
Kept == /\ Prefix(durable.checkpoint, durable'.checkpoint)
        /\ Prefix(visible.run.payload, durable'.checkpoint)
        /\ Prefix(durable'.checkpoint, visible'.checkpoint)

LEMMA StartContinued == Init => Continued
<1> SUFFICES ASSUME Init PROVE Continued
  OBVIOUS
<1>1. Prefix(<<>>, <<>>)
  <2>1. <<>> \in Log
    BY TotalAssumption DEF Log
  <2>2. QED
    BY <2>1, PrefixOrder
<1>2. /\ visible.run.payload = <<>> /\ durable.run.payload = <<>>
      /\ visible.checkpoint = <<>> /\ durable.checkpoint = <<>>
  BY DEF Init, NoFiles, NoRun
<1>3. \A t \in Trainers : ~Running(t)
  BY DEF Init, Running, Off
<1>4. QED
  BY <1>1, <1>2, <1>3 DEF Continued

\* A step that moves no file, when whoever runs afterwards continues the checkpoint.
LEMMA FilesStayContinued ==
    ASSUME TrainingInv, Continued, UNCHANGED <<visible, durable>>,
           \A t \in Trainers : Running(t)' => Prefix(visible.checkpoint, trainer'[t].log)
    PROVE  Continued' /\ Kept
<1>1. Continued'
  BY DEF Continued, Prefix, Running
<1>2. Kept
  BY Lengths, PrefixOrder DEF TrainingInv, Continued, Kept, Prefix
<1>3. QED
  BY <1>1, <1>2

\* One process enters, moves or stops; the files stay.
LEMMA MoveContinued ==
    ASSUME TrainingInv, Continued, NEW t \in Trainers, NEW e \in Entry,
           trainer' = [trainer EXCEPT ![t] = e],
           e.at \notin {"off", "mkdir"} => Prefix(visible.checkpoint, e.log),
           UNCHANGED <<visible, durable>>
    PROVE  Continued' /\ Kept
<1>1. trainer \in [Trainers -> Entry]
  BY Lengths DEF TrainingInv
<1>2. ASSUME NEW u \in Trainers, Running(u)' PROVE Prefix(visible.checkpoint, trainer'[u].log)
  <2>1. CASE u = t
    BY <1>1, <1>2, <2>1 DEF Running
  <2>2. CASE u # t
    BY <1>1, <1>2, <2>2 DEF Running, Continued
  <2>3. QED
    BY <2>1, <2>2
<1>3. QED
  BY <1>2, FilesStayContinued

LEMMA EnterContinued ==
    ASSUME TrainingInv, Continued, NEW t \in Trainers, Resume(t) \/ MakeDirectory(t)
    PROVE  Continued' /\ Kept
<1>1. \A log \in Log : [at |-> "update", log |-> log, history |-> visible.history] \in Entry
  BY Lengths DEF TrainingInv, Entry
<1>2. Off \in Entry /\ [Off EXCEPT !.at = "off"] = Off /\ <<>> \in Log
  BY TotalAssumption DEF Off, Entry, Log
<1>3. visible.checkpoint \in Log /\ Prefix(visible.checkpoint, visible.checkpoint)
  BY Lengths, PrefixOrder DEF TrainingInv
<1>4. ASSUME NEW log \in Log, Enter(t, log), visible.checkpoint = log,
             UNCHANGED <<visible, durable>>
      PROVE  Continued' /\ Kept
  <2>1. PICK e \in Entry : /\ trainer' = [trainer EXCEPT ![t] = e]
                           /\ e.at \notin {"off", "mkdir"} => e.log = log
    <3>1. CASE Len(visible.history) = Len(log)
      BY <1>1, <1>4, <3>1 DEF Enter
    <3>2. CASE Len(visible.history) # Len(log)
      BY <1>2, <1>4, <3>2 DEF Enter, Off
    <3>3. QED
      BY <3>1, <3>2
  <2>2. QED
    BY <1>3, <1>4, <2>1, MoveContinued
<1>5. CASE Resume(t)
  BY <1>3, <1>4, <1>5 DEF Resume, Restored
<1>6. CASE MakeDirectory(t)
  <2>1. CASE directory
    <3>1. trainer[t] \in Entry /\ [trainer[t] EXCEPT !.at = "off"] \in Entry
      BY Lengths DEF TrainingInv, Entry
    <3>2. trainer' = [trainer EXCEPT ![t] = [trainer[t] EXCEPT !.at = "off"]]
      BY <1>6, <2>1, Lengths DEF TrainingInv, MakeDirectory, Goto
    <3>3. UNCHANGED <<visible, durable>> /\ [trainer[t] EXCEPT !.at = "off"].at = "off"
      BY <1>6, <3>1 DEF MakeDirectory, Entry
    <3>4. QED
      BY <3>1, <3>2, <3>3, MoveContinued
  <2>2. CASE ~directory
    <3>1. visible.checkpoint = <<>>
      BY <2>2 DEF TrainingInv, NoFiles
    <3>2. Enter(t, <<>>) /\ UNCHANGED <<visible, durable>>
      BY <1>6, <2>2 DEF MakeDirectory
    <3>3. QED
      BY <1>2, <1>4, <3>1, <3>2
  <2>3. QED
    BY <2>1, <2>2
<1>7. QED
  BY <1>5, <1>6

LEMMA UpdateContinued ==
    ASSUME TrainingInv, TrainingInv', Continued, NEW t \in Trainers, Update(t)
    PROVE  Continued' /\ Kept
<1>1. Running(t) /\ trainer[t].at = "update" /\ UNCHANGED <<visible, durable>>
  BY DEF Update, At, Running
<1>2. PICK o \in Outcomes : trainer' = [trainer EXCEPT
        ![t] = [at |-> "history", log |-> Append(@.log, o), history |-> Append(@.history, o)]]
  BY DEF Update
<1>3. trainer \in [Trainers -> Entry] /\ trainer' \in [Trainers -> Entry]
  BY Lengths DEF TrainingInv, TrainingTypeOK, Entry
<1>4. trainer[t].log \in Log /\ visible.checkpoint = trainer[t].log
  BY <1>1, RunningFacts DEF Consistent
<1>5. trainer'[t].log = Append(trainer[t].log, o) /\ Append(trainer[t].log, o) \in Log
  BY <1>2, <1>3 DEF Entry
<1>6. Prefix(visible.checkpoint, trainer'[t].log)
  BY <1>4, <1>5, PrefixOrder
<1>7. ASSUME NEW u \in Trainers, Running(u)' PROVE Prefix(visible.checkpoint, trainer'[u].log)
  <2>1. CASE u = t
    BY <1>6, <2>1
  <2>2. CASE u # t
    BY <1>2, <1>3, <1>7, <2>2 DEF Running, Continued
  <2>3. QED
    BY <2>1, <2>2
<1>8. QED
  BY <1>1, <1>7, FilesStayContinued

\* A running trainer moves on with its log.
LEMMA LogsStay ==
    ASSUME TrainingInv, NEW t \in Trainers, NEW place, Goto(t, place), Running(t)
    PROVE  \A u \in Trainers : /\ trainer'[u].log = trainer[u].log
                               /\ Running(u)' => Running(u)
<1>1. trainer \in [Trainers -> Entry]
  BY Lengths DEF TrainingInv
<1>2. QED
  BY <1>1 DEF Goto, Running, Entry

LEMMA WriteContinued ==
    ASSUME TrainingInv, TrainingInv', Continued, NEW t \in Trainers,
           WriteHistory(t) \/ WriteCheckpoint(t) \/ SyncDirectory(t) \/ WriteReceipt(t)
    PROVE  Continued' /\ Kept
<1>1. Running(t) /\ \E place : Goto(t, place)
  BY DEF WriteHistory, WriteCheckpoint, SyncDirectory, WriteReceipt, At, Running
<1>2. \A u \in Trainers : trainer'[u].log = trainer[u].log /\ (Running(u)' => Running(u))
  BY <1>1, LogsStay
<1>3. \A u \in Trainers \ {t} : ~Running(u)
  BY <1>1, RunningFacts
<1>4. PICK l \in Log : l = trainer[t].log
  BY <1>1, RunningFacts
<1>5. /\ visible.checkpoint \in Log /\ durable.checkpoint \in Log
      /\ visible.run.payload \in Log /\ durable.run.payload \in Log
  BY Lengths DEF TrainingInv
<1>6. visible \in FileTypes
  BY DEF TrainingInv, TrainingTypeOK
<1>7. CASE WriteHistory(t)
  <2>1. /\ visible'.checkpoint = visible.checkpoint /\ visible'.run = visible.run
        /\ durable' = durable
    BY <1>6, <1>7 DEF WriteHistory, FileTypes
  <2>2. QED
    BY <1>2, <1>5, <2>1, PrefixOrder DEF Continued, Kept
<1>8. CASE WriteCheckpoint(t)
  <2>1. visible'.checkpoint = l /\ visible'.run = visible.run /\ durable' = durable
    BY <1>4, <1>6, <1>8 DEF WriteCheckpoint, FileTypes
  <2>2. Prefix(visible.checkpoint, l) /\ Prefix(l, l) /\ Prefix(durable.checkpoint, l)
    BY <1>1, <1>4, <1>5, PrefixOrder DEF Continued
  <2>3. \A u \in Trainers : Running(u)' => Prefix(visible'.checkpoint, trainer'[u].log)
    BY <1>2, <1>3, <1>4, <2>1, <2>2
  <2>4. QED
    BY <1>5, <2>1, <2>2, <2>3, PrefixOrder DEF Continued, Kept
<1>9. CASE SyncDirectory(t)
  <2>1. durable' = visible /\ visible' = visible
    BY <1>9 DEF SyncDirectory
  <2>2. Prefix(visible.run.payload, visible.checkpoint)
    BY <1>5, PrefixOrder DEF Continued
  <2>3. QED
    BY <1>2, <1>5, <2>1, <2>2, PrefixOrder DEF Continued, Kept
<1>10. CASE WriteReceipt(t)
  <2>1. l = durable.checkpoint
    BY <1>1, <1>4, <1>10, RunningFacts DEF WriteReceipt, At, Consistent
  <2>2. /\ visible'.checkpoint = visible.checkpoint /\ visible'.run.payload = l
        /\ durable' = durable
    BY <1>4, <1>6, <1>10 DEF WriteReceipt, FileTypes
  <2>3. QED
    BY <1>2, <1>5, <2>1, <2>2, PrefixOrder DEF Continued, Kept
<1>11. QED
  BY <1>7, <1>8, <1>9, <1>10

LEMMA LossContinued ==
    ASSUME TrainingInv, Continued, PowerLoss
    PROVE  Continued' /\ Kept
<1>1. /\ visible'.checkpoint \in {visible.checkpoint, durable.checkpoint}
      /\ visible'.run \in {visible.run, durable.run}
      /\ durable' = visible' /\ trainer' = [t \in Trainers |-> Off]
  BY DEF PowerLoss
<1>2. /\ visible.checkpoint \in Log /\ durable.checkpoint \in Log
      /\ visible.run.payload \in Log /\ durable.run.payload \in Log
  BY Lengths DEF TrainingInv
<1>3. PICK c \in Log : /\ c = visible'.checkpoint /\ c = durable'.checkpoint
                       /\ c \in {visible.checkpoint, durable.checkpoint}
  BY <1>1, <1>2
<1>4. /\ Prefix(durable.checkpoint, c) /\ Prefix(c, c)
      /\ Prefix(visible.run.payload, c) /\ Prefix(durable.run.payload, c)
  BY <1>2, <1>3, PrefixOrder DEF Continued
<1>5. Kept
  BY <1>3, <1>4 DEF Kept
<1>6. \A t \in Trainers : ~Running(t)'
  BY <1>1 DEF Running, Off
<1>7. Prefix(visible'.run.payload, c) /\ Prefix(durable'.run.payload, c)
  BY <1>1, <1>4
<1>8. QED
  BY <1>3, <1>4, <1>5, <1>6, <1>7 DEF Continued

LEMMA ContinuedStep ==
    ASSUME TrainingInv, TrainingInv', Continued, [Next]_vars
    PROVE  Continued' /\ Kept
<1>1. ASSUME UNCHANGED <<visible, durable, trainer>> PROVE Continued' /\ Kept
  BY <1>1, FilesStayContinued DEF Continued, Running
<1>2. ASSUME NEW t \in Trainers, NEW place \in {"off", "mkdir"}, UNCHANGED <<visible, durable>>,
             trainer' = [trainer EXCEPT ![t] = [Off EXCEPT !.at = place]]
      PROVE  Continued' /\ Kept
  <2>1. [Off EXCEPT !.at = place] \in Entry /\ [Off EXCEPT !.at = place].at = place
    BY Stopped DEF Off
  <2>2. QED
    BY <1>2, <2>1, MoveContinued
<1>3. ASSUME NEW t \in Trainers, StartFresh(t) PROVE Continued' /\ Kept
  <2>1. trainer[t] = Off
    BY <1>3 DEF StartFresh, At, TrainingInv, Consistent, Off
  <2>2. trainer' = [trainer EXCEPT ![t] = [Off EXCEPT !.at = "mkdir"]]
    BY <1>3, <2>1, Lengths DEF TrainingInv, StartFresh, Goto
  <2>3. QED
    BY <1>2, <1>3, <2>2 DEF StartFresh
<1>4. ASSUME NEW t \in Trainers, Finish(t) \/ Kill(t) PROVE Continued' /\ Kept
  <2>1. trainer' = [trainer EXCEPT ![t] = [Off EXCEPT !.at = "off"]]
    BY <1>4 DEF Finish, Kill, Off
  <2>2. QED
    BY <1>2, <1>4, <2>1 DEF Finish, Kill
<1>5. ASSUME NEW t \in Trainers, Train(t) PROVE Continued' /\ Kept
  BY <1>3, <1>4, <1>5, EnterContinued, UpdateContinued, WriteContinued DEF Train
<1>6. QED
  BY <1>1, <1>4, <1>5, LossContinued DEF Next, ReadReceipt, LoadModel, vars

LEMMA ContinuedAlways == Spec => [](TrainingInv /\ Continued)
  BY Invariance, StartContinued, ContinuedStep, PTL DEF Spec

(* An update that was flushed, or that a receipt names, is never lost and  *)
(* never computed again: over any number of kills, power losses and        *)
(* resumes the checkpoint on disk only grows.                              *)
THEOREM UpdatesAreKept == Spec => CheckpointOnlyGrows
<1>1. TrainingInv /\ TrainingInv' /\ Continued /\ [Next]_vars => [Kept]_vars
  BY ContinuedStep
<1>2. QED
  BY <1>1, ContinuedAlways, PTL DEF Spec, CheckpointOnlyGrows, Kept, Prefix

(* Whoever has read a receipt may rely on it for ever: every checkpoint a  *)
(* process loads from then on continues the updates the receipt named.     *)
THEOREM ReceiptsHoldForever ==
    ASSUME NEW log \in Log
    PROVE  Spec => [](visible.run.payload = log => []Seqs!IsPrefix(log, visible.checkpoint))
<1>1. TrainingInv /\ Continued /\ visible.run.payload = log => Prefix(log, durable.checkpoint)
  BY DEF Continued
<1>2. ASSUME TrainingInv, TrainingInv', Continued, [Next]_vars, Prefix(log, durable.checkpoint)
      PROVE  Prefix(log, durable.checkpoint)'
  <2>1. Prefix(durable.checkpoint, durable'.checkpoint)
    BY <1>2, ContinuedStep DEF Kept
  <2>2. durable.checkpoint \in Log /\ durable'.checkpoint \in Log
    BY <1>2, Lengths DEF TrainingInv, TrainingTypeOK, FileTypes
  <2>3. QED
    BY <1>2, <2>1, <2>2, PrefixOrder DEF Prefix
<1>3. TrainingInv /\ Continued /\ Prefix(log, durable.checkpoint)
        => Seqs!IsPrefix(log, visible.checkpoint)
  BY Lengths, PrefixOrder DEF TrainingInv, Continued, Prefix
<1>4. QED
  BY <1>1, <1>2, <1>3, ContinuedAlways, PTL DEF Spec
=============================================================================
