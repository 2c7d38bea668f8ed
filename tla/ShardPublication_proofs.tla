----------------------- MODULE ShardPublication_proofs -----------------------
(***************************************************************************)
(* Proofs about ShardPublication for any planners, workers, mergers and    *)
(* shards.  StoreInv says of a name that its writer is past its start, of  *)
(* a writer that has put its content that it is there, and of a merger     *)
(* that everything it loaded is of its plan and, without a power loss,     *)
(* still in the store.                                                     *)
(***************************************************************************)
EXTENDS ShardPublication, TLAPS

Whole(p) == [by |-> p, whole |-> TRUE]

WritersStarted == \A n \in Names : path[n].by # Nobody => ~At(path[n].by, "new")

PutIsThere ==
    ~lost => \A p \in Processes :
        proc[p].at \in {"put", "done"} => path[proc[p].dest] = Whole(p)

(* What p loaded is of its plan and still there.                           *)
LoadedWell(p) == \A i \in 1 .. Len(proc[p].loaded) :
    /\ proc[proc[p].loaded[i]].at # "new"
    /\ proc[proc[p].loaded[i]].plan = proc[p].plan
    /\ lost \/ \E n \in Shards : path[n] = Whole(proc[p].loaded[i])

Complete(m) ==
    /\ Len(proc[m].loaded) = ShardCount
    /\ \A s \in Shards : \E i \in 1 .. ShardCount : proc[proc[m].loaded[i]].shard = s

MergersExact ==
    /\ \A m \in Mergers : LoadedWell(m)
    /\ \A m \in Mergers : proc[m].at \in {"check", "staged", "put", "done"} => Complete(m)

StoreInv ==
    /\ ShardTypeOK
    /\ WritersStarted
    /\ PutIsThere
    /\ MergersExact


-----------------------------------------------------------------------------
Entry == [at : Places, shard : Shards, dest : Names,
          plan : Planners \cup {Nobody}, loaded : Seq(Workers)]

LEMMA Typed ==
    ASSUME ShardTypeOK
    PROVE  /\ path \in [Names -> [by : Processes \cup {Nobody}, whole : BOOLEAN]]
           /\ proc \in [Processes -> Entry]
           /\ \A p \in Processes : Len(proc[p].loaded) <= ShardCount
           /\ crashes \in Nat /\ lost \in BOOLEAN
           /\ ShardCount \in Nat /\ ShardCount > 0
           /\ 0 \in Shards /\ Shards \subseteq Names /\ MergeAt \in Names /\ PlanAt \in Names
           /\ Nobody \notin Processes
  BY CountAssumption, ProcessAssumption
     DEF ShardTypeOK, Entry, Shards, Names, MergeAt, PlanAt

LEMMA LoadedTyped ==
    ASSUME ShardTypeOK, NEW p \in Processes, NEW i \in 1 .. Len(proc[p].loaded)
    PROVE  proc[p].loaded[i] \in Workers /\ proc[p].loaded[i] \in Processes
<1>1. proc[p].loaded \in Seq(Workers)
  BY Typed DEF Entry
<1>2. QED
  BY <1>1 DEF Processes

LEMMA Start == Init => StoreInv
<1> SUFFICES ASSUME Init PROVE StoreInv
  OBVIOUS
<1>1. New \in Entry /\ Len(New.loaded) = 0 /\ New.at = "new"
  <2>1. <<>> \in Seq(Workers) /\ Len(<<>>) = 0
    OBVIOUS
  <2>2. 0 \in Shards /\ 0 \in Names
    BY CountAssumption DEF Shards, Names
  <2>3. QED
    BY <2>1, <2>2 DEF New, Entry, Places
<1>2. ShardTypeOK
  <2>1. path \in [Names -> [by : Processes \cup {Nobody}, whole : BOOLEAN]]
    BY DEF Init, Nothing
  <2>2. proc \in [Processes -> Entry] /\ \A p \in Processes : Len(proc[p].loaded) <= ShardCount
    BY <1>1, CountAssumption DEF Init
  <2>3. QED
    BY <2>1, <2>2 DEF Init, ShardTypeOK, Entry
<1>3. WritersStarted /\ PutIsThere
  BY <1>1 DEF Init, WritersStarted, PutIsThere, Nothing
<1>4. MergersExact
  BY <1>1 DEF Init, MergersExact, LoadedWell, Processes
<1>5. QED
  BY <1>2, <1>3, <1>4 DEF StoreInv

\* What a merger has loaded stays right while attempts only move on and names are only
\* added, or power was lost.
LEMMA Keeps ==
    ASSUME StoreInv,
           \A p \in Processes : proc[p].at # "new" =>
              proc'[p].at # "new" /\ proc'[p].plan = proc[p].plan /\ proc'[p].shard = proc[p].shard,
           lost' \/ \A n \in Names : path[n].by # Nobody => path'[n] = path[n],
           lost => lost',
           NEW m \in Mergers,
           proc'[m].loaded = proc[m].loaded, proc'[m].plan = proc[m].plan
    PROVE  LoadedWell(m)' /\ (Complete(m) => Complete(m)')
<1>1. m \in Processes /\ LoadedWell(m) /\ ShardTypeOK
  BY DEF StoreInv, MergersExact, Processes
<1>2. ASSUME NEW i \in 1 .. Len(proc[m].loaded)
      PROVE  LET w == proc[m].loaded[i]
             IN  /\ proc'[w].at # "new" /\ proc'[w].plan = proc[m].plan
                 /\ proc'[w].shard = proc[w].shard
                 /\ lost' \/ \E n \in Shards : path'[n] = Whole(w)
  <2> DEFINE w == proc[m].loaded[i]
  <2>1. w \in Processes /\ w # Nobody
    BY <1>1, LoadedTyped, Typed
  <2>2. proc[w].at # "new" /\ proc[w].plan = proc[m].plan
        /\ (lost \/ \E n \in Shards : path[n] = Whole(w))
    BY <1>1 DEF LoadedWell
  <2>3. ASSUME ~lost' PROVE \E n \in Shards : path'[n] = Whole(w)
    <3>1. PICK n \in Shards : path[n] = Whole(w)
      BY <2>2, <2>3
    <3>2. n \in Names /\ path[n].by # Nobody
      BY <2>1, <3>1, <1>1, Typed DEF Whole
    <3>3. path'[n] = path[n]
      BY <2>3, <3>2
    <3>4. QED
      BY <3>1, <3>3
  <2>4. QED
    BY <2>1, <2>2, <2>3
<1>3. LoadedWell(m)'
  BY <1>2 DEF LoadedWell, Whole
<1>4. ASSUME Complete(m) PROVE Complete(m)'
  <2>1. Len(proc[m].loaded) = ShardCount
    BY <1>4 DEF Complete
  <2>2. ASSUME NEW s \in Shards
        PROVE \E i \in 1 .. ShardCount : proc'[proc'[m].loaded[i]].shard = s
    <3>1. PICK i \in 1 .. ShardCount : proc[proc[m].loaded[i]].shard = s
      BY <1>4 DEF Complete
    <3>2. QED
      BY <3>1, <2>1, <1>2
  <2>3. QED
    BY <2>1, <2>2 DEF Complete
<1>5. QED
  BY <1>3, <1>4

\* A process begins a command.
LEMMA Begins ==
    ASSUME StoreInv, NEW p \in Processes, NEW e \in Entry, At(p, "new"),
           e.loaded = <<>>, e.at \in {"check", "load"}, p \in Mergers => e.at = "load",
           proc' = [proc EXCEPT ![p] = e], UNCHANGED <<path, crashes, lost>>
    PROVE  StoreInv'
<1>1. ShardTypeOK /\ proc \in [Processes -> Entry]
  BY Typed DEF StoreInv
<1>2. proc' \in [Processes -> Entry] /\ proc'[p] = e
      /\ \A q \in Processes : q # p => proc'[q] = proc[q]
  BY <1>1
<1>3. ShardTypeOK'
  <2>1. \A q \in Processes : Len(proc'[q].loaded) <= ShardCount
    BY <1>1, <1>2, Typed
  <2>2. QED
    BY <1>1, <1>2, <2>1 DEF ShardTypeOK, Entry
<1>4. WritersStarted'
  <2>1. \A n \in Names : path[n].by \in Processes \cup {Nobody}
    BY <1>1, Typed
  <2>2. QED
    BY <1>2, <2>1 DEF StoreInv, WritersStarted, At
<1>5. PutIsThere'
  BY <1>2 DEF StoreInv, PutIsThere, Whole
<1>6. \A q \in Processes : proc[q].at # "new" => proc'[q] = proc[q]
  BY <1>2 DEF At
<1>7. ASSUME NEW m \in Mergers
      PROVE  /\ LoadedWell(m)'
             /\ proc'[m].at \in {"check", "staged", "put", "done"} => Complete(m)'
  <2>0. m \in Processes
    BY DEF Processes
  <2>1. CASE m = p
    BY <1>2, <2>1 DEF LoadedWell
  <2>2. CASE m # p
    <3>1. proc'[m] = proc[m]
      BY <1>2, <2>0, <2>2
    <3>2. LoadedWell(m)' /\ (Complete(m) => Complete(m)')
      BY <1>6, <3>1, Keeps
    <3>3. QED
      BY <3>1, <3>2 DEF StoreInv, MergersExact
  <2>3. QED
    BY <2>1, <2>2
<1>8. QED
  BY <1>3, <1>4, <1>5, <1>7 DEF StoreInv, MergersExact

\* A process moves on without touching a name.
LEMMA Hops ==
    ASSUME StoreInv, NEW p \in Processes, NEW x \in Places \ {"new"}, ~At(p, "new"),
           Goto(p, x), path' = path, lost' = lost, crashes' \in Nat,
           x \in {"put", "done"} => proc[p].at \in {"put", "done"},
           p \in Mergers /\ x \in {"check", "staged", "put", "done"} => Complete(p)
    PROVE  StoreInv'
<1>1. ShardTypeOK /\ proc \in [Processes -> Entry]
  BY Typed DEF StoreInv
<1>2. /\ proc'[p] = [proc[p] EXCEPT !.at = x]
      /\ \A q \in Processes : q # p => proc'[q] = proc[q]
      /\ proc' \in [Processes -> Entry]
  BY <1>1 DEF Goto, Entry
<1>3. /\ proc'[p].at = x /\ proc'[p].plan = proc[p].plan /\ proc'[p].shard = proc[p].shard
      /\ proc'[p].dest = proc[p].dest /\ proc'[p].loaded = proc[p].loaded
  BY <1>1, <1>2 DEF Entry
<1>4. ShardTypeOK'
  <2>1. \A q \in Processes : Len(proc'[q].loaded) <= ShardCount
    BY <1>1, <1>2, <1>3, Typed
  <2>2. QED
    BY <1>1, <1>2, <2>1 DEF ShardTypeOK, Entry
<1>5. WritersStarted'
  <2>1. \A n \in Names : path[n].by \in Processes \cup {Nobody}
    BY <1>1, Typed
  <2>2. QED
    BY <1>2, <1>3, <2>1 DEF StoreInv, WritersStarted, At
<1>6. PutIsThere'
  <2>1. ASSUME ~lost, NEW q \in Processes, proc'[q].at \in {"put", "done"}
        PROVE  path[proc'[q].dest] = Whole(q)
    <3>1. proc[q].at \in {"put", "done"} /\ proc'[q].dest = proc[q].dest
      BY <1>2, <1>3, <2>1
    <3>2. QED
      BY <3>1, <2>1 DEF StoreInv, PutIsThere
  <2>2. QED
    BY <2>1 DEF PutIsThere, Whole
<1>7. \A q \in Processes : proc[q].at # "new" =>
          proc'[q].at # "new" /\ proc'[q].plan = proc[q].plan /\ proc'[q].shard = proc[q].shard
  BY <1>2, <1>3
<1>8. ASSUME NEW m \in Mergers
      PROVE  /\ LoadedWell(m)'
             /\ proc'[m].at \in {"check", "staged", "put", "done"} => Complete(m)'
  <2>1. m \in Processes
    BY DEF Processes
  <2>2. proc'[m].loaded = proc[m].loaded /\ proc'[m].plan = proc[m].plan
    BY <1>2, <1>3, <2>1
  <2>3. LoadedWell(m)' /\ (Complete(m) => Complete(m)')
    BY <1>7, <2>2, Keeps
  <2>4. proc'[m].at \in {"check", "staged", "put", "done"} => Complete(m)
    BY <1>2, <1>3, <2>1 DEF StoreInv, MergersExact
  <2>5. QED
    BY <2>3, <2>4
<1>9. QED
  BY <1>4, <1>5, <1>6, <1>8 DEF StoreInv, MergersExact


-----------------------------------------------------------------------------
(* The steps                                                               *)

LEMMA PutKeeps ==
    ASSUME StoreInv, NEW p \in Processes, Put(p)
    PROVE  StoreInv'
<1>1. ShardTypeOK /\ proc \in [Processes -> Entry] /\ p # Nobody /\ crashes \in Nat
  BY Typed DEF StoreInv
<1>2. proc[p].at = "staged" /\ lost' = lost /\ crashes' = crashes
  BY DEF Put, At
<1>3. CASE Exists(proc[p].dest)
  BY <1>1, <1>2, <1>3, Hops DEF Put, At, Places
<1>4. CASE ~Exists(proc[p].dest)
  <2>1. /\ proc' = [proc EXCEPT ![p].at = "put"]
        /\ path' = [path EXCEPT ![proc[p].dest] = Whole(p)]
    BY <1>4 DEF Put, Goto, Whole
  <2>2. proc[p].dest \in Names /\ path[proc[p].dest].by = Nobody
    BY <1>1, <1>4 DEF Entry, Exists
  <2>3. /\ proc'[p] = [proc[p] EXCEPT !.at = "put"]
        /\ \A q \in Processes : q # p => proc'[q] = proc[q]
        /\ proc' \in [Processes -> Entry]
    BY <1>1, <2>1 DEF Entry, Places
  <2>4. /\ proc'[p].at = "put" /\ proc'[p].plan = proc[p].plan /\ proc'[p].shard = proc[p].shard
        /\ proc'[p].dest = proc[p].dest /\ proc'[p].loaded = proc[p].loaded
    BY <1>1, <2>3 DEF Entry
  <2>5. path \in [Names -> [by : Processes \cup {Nobody}, whole : BOOLEAN]]
    BY <1>1, Typed
  <2>6. /\ path' \in [Names -> [by : Processes \cup {Nobody}, whole : BOOLEAN]]
        /\ path'[proc[p].dest] = Whole(p)
        /\ \A n \in Names : n # proc[p].dest => path'[n] = path[n]
        /\ \A n \in Names : path[n].by # Nobody => path'[n] = path[n]
    BY <2>1, <2>2, <2>5 DEF Whole
  <2>7. ShardTypeOK'
    <3>1. \A q \in Processes : Len(proc'[q].loaded) <= ShardCount
      BY <1>1, <2>3, <2>4, Typed
    <3>2. QED
      BY <1>1, <1>2, <2>3, <2>6, <3>1 DEF ShardTypeOK, Entry
  <2>8. WritersStarted'
    <3>1. ASSUME NEW n \in Names, path'[n].by # Nobody PROVE proc'[path'[n].by].at # "new"
      <4>1. CASE n = proc[p].dest
        BY <4>1, <2>6, <2>4 DEF Whole
      <4>2. CASE n # proc[p].dest
        <5>1. path'[n] = path[n] /\ path[n].by \in Processes
          BY <4>2, <2>5, <2>6, <3>1
        <5>2. proc[path[n].by].at # "new"
          BY <5>1, <1>1, <3>1 DEF StoreInv, WritersStarted, At
        <5>3. QED
          BY <5>1, <5>2, <2>3, <2>4
      <4>3. QED
        BY <4>1, <4>2
    <3>2. QED
      BY <3>1 DEF WritersStarted, At
  <2>9. PutIsThere'
    <3>1. ASSUME ~lost, NEW q \in Processes, proc'[q].at \in {"put", "done"}
          PROVE  path'[proc'[q].dest] = Whole(q)
      <4>1. CASE q = p
        BY <4>1, <2>4, <2>6
      <4>2. CASE q # p
        <5>1. proc'[q] = proc[q] /\ proc[q] \in Entry /\ q # Nobody
          BY <1>1, <4>2, <2>3, Typed
        <5>2. path[proc[q].dest] = Whole(q)
          BY <5>1, <3>1 DEF StoreInv, PutIsThere
        <5>3. proc[q].dest \in Names /\ path[proc[q].dest].by # Nobody
          BY <5>1, <5>2 DEF Entry, Whole
        <5>4. QED
          BY <5>1, <5>2, <5>3, <2>6
      <4>3. QED
        BY <4>1, <4>2
    <3>2. QED
      BY <3>1, <1>2 DEF PutIsThere, Whole
  <2>10. \A q \in Processes : proc[q].at # "new" =>
          proc'[q].at # "new" /\ proc'[q].plan = proc[q].plan /\ proc'[q].shard = proc[q].shard
    BY <2>3, <2>4
  <2>11. ASSUME NEW m \in Mergers
         PROVE  /\ LoadedWell(m)'
                /\ proc'[m].at \in {"check", "staged", "put", "done"} => Complete(m)'
    <3>1. m \in Processes
      BY DEF Processes
    <3>2. proc'[m].loaded = proc[m].loaded /\ proc'[m].plan = proc[m].plan
      BY <2>3, <2>4, <3>1
    <3>3. LoadedWell(m)' /\ (Complete(m) => Complete(m)')
      BY <1>2, <2>6, <2>10, <3>2, Keeps
    <3>4. proc'[m].at \in {"check", "staged", "put", "done"} => Complete(m)
      BY <1>2, <2>3, <2>4, <3>1 DEF StoreInv, MergersExact
    <3>5. QED
      BY <3>3, <3>4
  <2>12. QED
    BY <2>7, <2>8, <2>9, <2>11 DEF StoreInv, MergersExact
<1>5. QED
  BY <1>3, <1>4

LEMMA LoadKeeps ==
    ASSUME StoreInv, NEW p \in Processes, LoadShard(p)
    PROVE  StoreInv'
<1>1. ShardTypeOK /\ proc \in [Processes -> Entry] /\ proc[p].at = "load"
      /\ Len(proc[p].loaded) < ShardCount
  BY Typed DEF StoreInv, LoadShard, At
<1>2. PICK n \in Shards, pin \in Workers :
          Loadable(p, n, pin) /\ proc' = [proc EXCEPT ![p].loaded = Append(@, pin)]
  BY DEF LoadShard
<1>3. UNCHANGED <<path, crashes, lost>>
  BY DEF LoadShard
<1>4. pin \in Processes /\ pin # Nobody
  BY <1>1, Typed DEF Processes
<1>5. /\ proc'[p] = [proc[p] EXCEPT !.loaded = Append(proc[p].loaded, pin)]
      /\ \A q \in Processes : q # p => proc'[q] = proc[q]
  BY <1>1, <1>2 DEF Entry
<1>6. proc[p].loaded \in Seq(Workers) /\ ShardCount \in Nat
  BY <1>1, Typed DEF Entry
<1>7. /\ proc'[p].at = "load" /\ proc'[p].plan = proc[p].plan /\ proc'[p].shard = proc[p].shard
      /\ proc'[p].dest = proc[p].dest
      /\ proc'[p].loaded \in Seq(Workers) /\ Len(proc'[p].loaded) = Len(proc[p].loaded) + 1
      /\ proc'[p].loaded[Len(proc[p].loaded) + 1] = pin
      /\ \A i \in 1 .. Len(proc[p].loaded) : proc'[p].loaded[i] = proc[p].loaded[i]
  <2>1. proc'[p].loaded = Append(proc[p].loaded, pin)
    BY <1>1, <1>5 DEF Entry
  <2>2. QED
    BY <1>1, <1>5, <1>6, <2>1 DEF Entry
<1>8. proc' \in [Processes -> Entry]
  <2>1. Append(proc[p].loaded, pin) \in Seq(Workers)
    BY <1>6
  <2>2. proc[p] \in Entry
    BY <1>1
  <2>3. proc'[p] \in Entry
    BY <1>5, <2>1, <2>2 DEF Entry
  <2>4. QED
    BY <1>1, <1>2, <2>3
<1>9. ShardTypeOK'
  <2>1. Len(proc[p].loaded) \in Nat
    BY <1>6
  <2>2. \A q \in Processes : Len(proc'[q].loaded) <= ShardCount
    <3>1. Len(proc'[p].loaded) <= ShardCount
      BY <1>1, <1>6, <1>7, <2>1
    <3>2. QED
      BY <1>1, <1>5, <3>1, Typed
  <2>3. QED
    BY <1>1, <1>3, <1>8, <2>2 DEF ShardTypeOK, Entry
<1>10. \A q \in Processes : proc'[q].at = proc[q].at /\ proc'[q].plan = proc[q].plan
          /\ proc'[q].shard = proc[q].shard /\ proc'[q].dest = proc[q].dest
  BY <1>1, <1>5, <1>7
<1>11. WritersStarted'
  <2>1. \A k \in Names : path[k].by \in Processes \cup {Nobody}
    BY <1>1, Typed
  <2>2. QED
    BY <1>3, <1>10, <2>1 DEF StoreInv, WritersStarted, At
<1>12. PutIsThere'
  BY <1>3, <1>10 DEF StoreInv, PutIsThere, Whole
<1>13. ASSUME NEW m \in Mergers
       PROVE  /\ LoadedWell(m)'
              /\ proc'[m].at \in {"check", "staged", "put", "done"} => Complete(m)'
  <2>1. m \in Processes
    BY DEF Processes
  <2>2. CASE m # p
    <3>1. LoadedWell(m)' /\ (Complete(m) => Complete(m)')
      BY <1>3, <1>5, <1>10, <2>1, <2>2, Keeps
    <3>2. QED
      BY <1>10, <2>1, <3>1 DEF StoreInv, MergersExact
  <2>3. CASE m = p
    <3>1. path[n] = Whole(pin) /\ proc[pin].plan = proc[p].plan
      BY <1>2 DEF Loadable, Whole
    <3>2. proc[pin].at # "new"
      <4>1. n \in Names /\ path[n].by = pin
        BY <3>1, <1>1, Typed DEF Whole
      <4>2. QED
        BY <4>1, <1>4 DEF StoreInv, WritersStarted, At
    <3>3. ASSUME NEW i \in 1 .. Len(proc'[p].loaded)
          PROVE  /\ proc'[proc'[p].loaded[i]].at # "new"
                 /\ proc'[proc'[p].loaded[i]].plan = proc'[p].plan
                 /\ lost \/ \E k \in Shards : path[k] = Whole(proc'[p].loaded[i])
      <4>1. CASE i = Len(proc[p].loaded) + 1
        BY <4>1, <1>4, <1>7, <1>10, <3>1, <3>2
      <4>2. CASE i # Len(proc[p].loaded) + 1
        <5>1. i \in 1 .. Len(proc[p].loaded)
          BY <4>2, <1>6, <1>7
        <5>2. proc[p].loaded[i] \in Processes /\ proc'[p].loaded[i] = proc[p].loaded[i]
          BY <5>1, <1>1, <1>7, LoadedTyped
        <5>3. LoadedWell(p)
          BY <2>3 DEF StoreInv, MergersExact
        <5>4. QED
          BY <5>1, <5>2, <5>3, <1>7, <1>10 DEF LoadedWell
      <4>3. QED
        BY <4>1, <4>2
    <3>4. LoadedWell(p)'
      BY <1>3, <3>3 DEF LoadedWell, Whole
    <3>5. QED
      BY <2>3, <3>4, <1>7
  <2>4. QED
    BY <2>2, <2>3
<1>14. QED
  BY <1>9, <1>11, <1>12, <1>13 DEF StoreInv, MergersExact


LEMMA LossKeeps ==
    ASSUME StoreInv, PowerLoss
    PROVE  StoreInv'
<1>1. ShardTypeOK /\ proc \in [Processes -> Entry] /\ crashes \in Nat
      /\ path \in [Names -> [by : Processes \cup {Nobody}, whole : BOOLEAN]]
  BY Typed DEF StoreInv
<1>2. lost' /\ lost' \in BOOLEAN /\ crashes' \in Nat
  BY <1>1 DEF PowerLoss
<1>3. proc' = [p \in Processes |->
          IF proc[p].at \in {"new", "done"} THEN proc[p] ELSE [proc[p] EXCEPT !.at = "failed"]]
  BY DEF PowerLoss
<1>4. /\ proc' \in [Processes -> Entry]
      /\ \A p \in Processes :
            /\ proc'[p].at \in {proc[p].at, "failed"}
            /\ proc'[p].at = "new" <=> proc[p].at = "new"
            /\ proc'[p].plan = proc[p].plan /\ proc'[p].shard = proc[p].shard
            /\ proc'[p].loaded = proc[p].loaded
  <2>1. ASSUME NEW p \in Processes
        PROVE  /\ proc'[p] \in Entry
               /\ proc'[p].at \in {proc[p].at, "failed"}
               /\ proc'[p].at = "new" <=> proc[p].at = "new"
               /\ proc'[p].plan = proc[p].plan /\ proc'[p].shard = proc[p].shard
               /\ proc'[p].loaded = proc[p].loaded
    <3>1. proc[p] \in Entry
      BY <1>1
    <3>2. CASE proc[p].at \in {"new", "done"}
      BY <1>3, <3>1, <3>2
    <3>3. CASE proc[p].at \notin {"new", "done"}
      <4>1. proc'[p] = [proc[p] EXCEPT !.at = "failed"]
        BY <1>3, <3>3
      <4>2. QED
        BY <3>1, <3>3, <4>1 DEF Entry, Places
    <3>4. QED
      BY <3>2, <3>3
  <2>2. QED
    BY <1>3, <2>1
<1>5. \A n \in Names : path'[n] \in AfterLoss(n)
  BY DEF PowerLoss
<1>6. /\ path' \in [Names -> [by : Processes \cup {Nobody}, whole : BOOLEAN]]
      /\ \A n \in Names : path'[n].by \in {path[n].by, Nobody}
  <2>1. path' \in [Names -> UNION {AfterLoss(n) : n \in Names}]
    BY DEF PowerLoss
  <2>2. ASSUME NEW n \in Names
        PROVE  /\ path'[n] \in [by : Processes \cup {Nobody}, whole : BOOLEAN]
               /\ path'[n].by \in {path[n].by, Nobody}
    <3>1. path'[n] \in {path[n], Nothing, [path[n] EXCEPT !.whole = FALSE]}
      BY <1>5 DEF AfterLoss
    <3>2. path[n] \in [by : Processes \cup {Nobody}, whole : BOOLEAN]
      BY <1>1
    <3>3. CASE path'[n] = path[n]
      BY <3>2, <3>3
    <3>4. CASE path'[n] = Nothing
      BY <3>4 DEF Nothing
    <3>5. CASE path'[n] = [path[n] EXCEPT !.whole = FALSE]
      <4>1. path'[n] = [by |-> path[n].by, whole |-> FALSE]
        BY <3>2, <3>5
      <4>2. QED
        BY <3>2, <4>1
    <3>6. QED
      BY <3>1, <3>3, <3>4, <3>5
  <2>3. QED
    BY <2>1, <2>2
<1>7. ShardTypeOK'
  <2>1. \A q \in Processes : Len(proc'[q].loaded) <= ShardCount
    BY <1>1, <1>4, Typed
  <2>2. QED
    BY <1>2, <1>4, <1>6, <2>1 DEF ShardTypeOK, Entry
<1>8. WritersStarted'
  <2>1. ASSUME NEW n \in Names, path'[n].by # Nobody PROVE proc'[path'[n].by].at # "new"
    <3>1. path'[n].by = path[n].by /\ path[n].by \in Processes
      BY <1>1, <1>6, <2>1
    <3>2. QED
      BY <3>1, <2>1, <1>4 DEF StoreInv, WritersStarted, At
  <2>2. QED
    BY <2>1 DEF WritersStarted, At
<1>9. PutIsThere'
  BY <1>2 DEF PutIsThere
<1>10. ASSUME NEW m \in Mergers
       PROVE  /\ LoadedWell(m)'
              /\ proc'[m].at \in {"check", "staged", "put", "done"} => Complete(m)'
  <2>1. m \in Processes
    BY DEF Processes
  <2>2. LoadedWell(m)' /\ (Complete(m) => Complete(m)')
    BY <1>2, <1>4, <2>1, Keeps
  <2>3. QED
    BY <1>4, <2>1, <2>2 DEF StoreInv, MergersExact
<1>11. QED
  BY <1>7, <1>8, <1>9, <1>10 DEF StoreInv, MergersExact

LEMMA BeginKeeps ==
    ASSUME StoreInv, NEW p \in Processes, PlanShards(p) \/ RunShard(p) \/ StartMerge(p)
    PROVE  StoreInv'
<1>1. New \in Entry /\ New.loaded = <<>>
  BY Typed DEF StoreInv, New, Entry, Places
<1>2. At(p, "new") /\ UNCHANGED <<path, crashes, lost>>
  BY DEF PlanShards, RunShard, StartMerge
<1>3. CASE PlanShards(p)
  <2> DEFINE e == [New EXCEPT !.at = "check", !.dest = PlanAt]
  <2>1. e \in Entry /\ e.loaded = <<>> /\ e.at = "check"
    BY <1>1, Typed DEF StoreInv, New, Entry, Places
  <2>2. p \notin Mergers /\ proc' = [proc EXCEPT ![p] = e]
    BY <1>3, ProcessAssumption DEF PlanShards
  <2>3. QED
    BY <1>2, <2>1, <2>2, Begins
<1>4. CASE RunShard(p)
  <2>1. PICK plan \in Planners, shard \in Shards, dest \in Shards :
            proc' = [proc EXCEPT ![p] =
                [New EXCEPT !.at = "check", !.shard = shard, !.dest = dest, !.plan = plan]]
    BY <1>4 DEF RunShard
  <2> DEFINE e == [New EXCEPT !.at = "check", !.shard = shard, !.dest = dest, !.plan = plan]
  <2>2. e \in Entry /\ e.loaded = <<>> /\ e.at = "check"
    BY <1>1, Typed DEF StoreInv, New, Entry, Places
  <2>3. p \notin Mergers
    BY <1>4, ProcessAssumption DEF RunShard
  <2>4. QED
    BY <1>2, <2>1, <2>2, <2>3, Begins
<1>5. CASE StartMerge(p)
  <2>1. PICK plan \in Planners :
            proc' = [proc EXCEPT ![p] = [New EXCEPT !.at = "load", !.dest = MergeAt, !.plan = plan]]
    BY <1>5 DEF StartMerge
  <2> DEFINE e == [New EXCEPT !.at = "load", !.dest = MergeAt, !.plan = plan]
  <2>2. e \in Entry /\ e.loaded = <<>> /\ e.at = "load"
    BY <1>1, Typed DEF StoreInv, New, Entry, Places
  <2>3. QED
    BY <1>2, <2>1, <2>2, Begins
<1>6. QED
  BY <1>3, <1>4, <1>5

LEMMA HopKeeps ==
    ASSUME StoreInv, NEW p \in Processes,
           Check(p) \/ MergeShards(p) \/ Report(p) \/ Kill(p)
    PROVE  StoreInv'
<1>1. ShardTypeOK /\ crashes \in Nat
  BY Typed DEF StoreInv
<1>2. CASE Check(p)
  <2>1. proc[p].at = "check" /\ UNCHANGED <<path, crashes, lost>>
    BY <1>2 DEF Check, At
  <2>2. PICK x \in {"failed", "staged"} : Goto(p, x)
    BY <1>2 DEF Check
  <2>3. p \in Mergers => Complete(p)
    BY <2>1 DEF StoreInv, MergersExact
  <2>4. x \in Places \ {"new"} /\ ~At(p, "new") /\ crashes' \in Nat
    BY <1>1, <2>1 DEF Places, At
  <2>5. QED
    BY <2>1, <2>2, <2>3, <2>4, Hops
<1>3. CASE MergeShards(p)
  <2>1. proc[p].at = "load" /\ UNCHANGED <<path, crashes, lost>>
    BY <1>3 DEF MergeShards, At
  <2>2. CASE Covers(proc[p].loaded)
    <3>1. Complete(p)
      BY <2>2 DEF Covers, Complete
    <3>2. Goto(p, "check")
      BY <1>3, <2>2 DEF MergeShards
    <3>3. QED
      BY <1>1, <2>1, <3>1, <3>2, Hops DEF Places, At
  <2>3. CASE ~Covers(proc[p].loaded)
    <3>1. Goto(p, "failed")
      BY <1>3, <2>3 DEF MergeShards
    <3>2. QED
      BY <1>1, <2>1, <3>1, Hops DEF Places, At
  <2>4. QED
    BY <2>2, <2>3
<1>4. CASE Report(p)
  <2>1. proc[p].at = "put" /\ UNCHANGED <<path, crashes, lost>> /\ Goto(p, "done")
    BY <1>4 DEF Report, At
  <2>2. p \in Mergers => Complete(p)
    BY <2>1 DEF StoreInv, MergersExact
  <2>3. QED
    BY <1>1, <2>1, <2>2, Hops DEF Places, At
<1>5. CASE Kill(p)
  <2>1. ~At(p, "new") /\ path' = path /\ lost' = lost /\ Goto(p, "failed") /\ crashes' \in Nat
    BY <1>1, <1>5 DEF Kill, At
  <2>2. QED
    BY <2>1, Hops DEF Places
<1>6. QED
  BY <1>2, <1>3, <1>4, <1>5

LEMMA Stutter == StoreInv /\ UNCHANGED vars => StoreInv'
  BY DEF vars, StoreInv, ShardTypeOK, WritersStarted, PutIsThere, MergersExact, LoadedWell,
         Complete, At, Whole

LEMMA Steps == StoreInv /\ [Next]_vars => StoreInv'
  BY PutKeeps, LoadKeeps, LossKeeps, BeginKeeps, HopKeeps, Stutter DEF Next

LEMMA Safe == Spec => []StoreInv
  BY Start, Steps, PTL DEF Spec

-----------------------------------------------------------------------------
(* Types, and no merger loads more shards than its plan has.               *)
THEOREM ShardsTyped == Spec => []ShardTypeOK
<1>1. StoreInv => ShardTypeOK
  BY DEF StoreInv
<1>2. QED
  BY <1>1, Safe, PTL

(* Without a power loss whoever was told that its plan, shard or merge is  *)
(* published (publish_evaluation_shard, _atomic_write_new) finds it there. *)
THEOREM ReportsAreTrue == Spec => []ReportIsTrue
<1>1. StoreInv => ReportIsTrue
  BY DEF StoreInv, PutIsThere, ReportIsTrue, Reported, At, Whole
<1>2. QED
  BY <1>1, Safe, PTL

(* A published merge has one attempt of every shard of its own plan and    *)
(* nothing else (merge_evaluation_shards), whatever it was given.          *)
THEOREM MergesAreExact == Spec => []MergeIsExact
<1>1. StoreInv => MergeIsExact
  BY DEF StoreInv, MergersExact, MergeIsExact, LoadedWell, Complete, Whole
<1>2. QED
  BY <1>1, Safe, PTL

-----------------------------------------------------------------------------
LEMMA HeldWhen ==
    ASSUME ShardTypeOK, NEW n \in Names
    PROVE  path[n].by = Nobody => Held[n] = Nobody
  BY DEF Held

\* Every step publishes one content under a free name, loses names, or is invisible.
LEMMA StoreStep == StoreInv /\ [Next]_vars => [Store!Next]_Held
<1> SUFFICES ASSUME StoreInv, [Next]_vars PROVE Store!Next \/ UNCHANGED Held
  OBVIOUS
<1>1. ShardTypeOK /\ proc \in [Processes -> Entry]
      /\ path \in [Names -> [by : Processes \cup {Nobody}, whole : BOOLEAN]]
  BY Typed DEF StoreInv
<1>2. CASE path' = path
  BY <1>2 DEF Held
<1>3. ASSUME NEW p \in Processes, Put(p), path' # path PROVE Store!Next
  <2>1. PICK n \in Names : n = proc[p].dest
    BY <1>1 DEF Entry
  <2>2. path[n].by = Nobody /\ path' = [path EXCEPT ![n] = Whole(p)]
    BY <1>3, <2>1 DEF Put, Exists, Whole
  <2>3. Held[n] = Nobody
    BY <1>1, <2>2, HeldWhen
  <2>4. Held' = [Held EXCEPT ![n] = p]
    BY <1>1, <2>2 DEF Held, Whole
  <2>5. QED
    BY <2>3, <2>4 DEF Store!Next, Store!Publish
<1>4. CASE PowerLoss
  <2> DEFINE gone == {n \in Names : Held'[n] # Held[n]}
  <2>1. ASSUME NEW n \in Names PROVE Held'[n] \in {Held[n], Nobody}
    <3>1. path'[n] \in {path[n], Nothing, [path[n] EXCEPT !.whole = FALSE]}
      BY <1>4 DEF PowerLoss, AfterLoss
    <3>2. path[n] \in [by : Processes \cup {Nobody}, whole : BOOLEAN]
      BY <1>1
    <3>3. path'[n] = path[n] \/ ~path'[n].whole
      BY <3>1, <3>2 DEF Nothing
    <3>4. QED
      BY <3>3 DEF Held
  <2>2. Held' = [n \in Names |-> IF n \in gone THEN Nobody ELSE Held[n]]
    <3>1. Held' = [n \in Names |-> Held'[n]]
      BY DEF Held
    <3>2. \A n \in Names : Held'[n] = IF n \in gone THEN Nobody ELSE Held[n]
      BY <2>1
    <3> HIDE DEF gone
    <3>3. QED
      BY <3>1, <3>2
  <2>3. gone \in SUBSET Names
    OBVIOUS
  <2> HIDE DEF gone
  <2>4. QED
    BY <2>2, <2>3 DEF Store!Next, Store!Lose
<1>5. QED
  BY <1>2, <1>3, <1>4 DEF Next, vars, PlanShards, RunShard, StartMerge, LoadShard, MergeShards,
     Check, Report, Kill

(* Readers see each name as a register written once and lost only by a     *)
(* power loss: no plan, shard or merge is ever replaced or seen in part    *)
(* (os.link, os.rename of a finished directory).                           *)
THEOREM ShardsMeetStore == Spec => MeetsStore
<1>1. Init => Store!Init
  BY DEF Init, Store!Init, Held, Nothing
<1>2. QED
  BY <1>1, StoreStep, Safe, PTL DEF Spec, MeetsStore, Store!Spec

(* Of any number of planners, attempts and mergers that aim at one name at *)
(* most one is told that it published there (the two existence tests of    *)
(* publish_evaluation_shard and the link of _atomic_write_new).            *)
THEOREM OneReporterPerName ==
    Spec => [](~lost => \A p, q \in Reported : proc[p].dest = proc[q].dest => p = q)
<1>1. StoreInv => (~lost => \A p, q \in Reported : proc[p].dest = proc[q].dest => p = q)
  <2> SUFFICES ASSUME StoreInv, ~lost, NEW p \in Reported, NEW q \in Reported,
                      proc[p].dest = proc[q].dest
               PROVE  p = q
    OBVIOUS
  <2>1. path[proc[p].dest] = Whole(p) /\ path[proc[q].dest] = Whole(q)
    BY DEF StoreInv, PutIsThere, Reported, At
  <2>2. Whole(p) = Whole(q)
    BY <2>1
  <2>3. QED
    BY <2>2 DEF Whole
<1>2. QED
  BY <1>1, Safe, PTL

(* What a name holds is never touched again while the power stays: kills,  *)
(* late writers and repeated commands leave every plan, shard and merge as *)
(* it was put.                                                             *)
THEOREM NamesStay ==
    Spec => [][lost' \/ \A n \in Names : Exists(n) => path'[n] = path[n]]_vars
<1>1. StoreInv /\ [Next]_vars
        => [lost' \/ \A n \in Names : Exists(n) => path'[n] = path[n]]_vars
  <2> SUFFICES ASSUME StoreInv, Next
               PROVE  lost' \/ \A n \in Names : Exists(n) => path'[n] = path[n]
    OBVIOUS
  <2>1. path \in [Names -> [by : Processes \cup {Nobody}, whole : BOOLEAN]]
    BY Typed DEF StoreInv
  <2>2. CASE path' = path
    BY <2>2
  <2>3. ASSUME NEW p \in Processes, Put(p)
        PROVE  \A n \in Names : Exists(n) => path'[n] = path[n]
    BY <2>1, <2>3 DEF Put, Exists
  <2>4. CASE PowerLoss
    BY <2>4 DEF PowerLoss
  <2>5. QED
    BY <2>2, <2>3, <2>4 DEF Next, PlanShards, RunShard, StartMerge, LoadShard, MergeShards,
       Check, Report, Kill
<1>2. QED
  BY <1>1, Safe, PTL DEF Spec
=============================================================================
