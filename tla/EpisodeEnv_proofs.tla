------------------------- MODULE EpisodeEnv_proofs -------------------------
(***************************************************************************)
(* What every episode satisfies, for every set of workspaces and all caps. *)
(* The inductive fact: whatever reset or step builds still owns its whole  *)
(* reserve.  With a reserve that holds everything COMMIT is charged, which *)
(* the code does not check, a preparation spends at most the part that     *)
(* COMMIT does not need; only the theorems about COMMIT assume it.         *)
(***************************************************************************)
EXTENDS EpisodeEnv, SequenceTheorems, FiniteSetTheorems, TLAPS

\* What COMMIT is charged beside what the context checks: a decision, a validator call and
\* four features more than preparing a support of commits takes.
ReserveCoversCommit ==
  /\ Reserve.decisions >= 1 /\ Reserve.validator >= 1
  /\ Reserve.feature >= 32 * (MaxCommit + Variables) + 4

EnvStates == [chains : Embeddings, archive : Seq(Returnable), remaining : Ledgers,
              restarts_left : 0 .. RestartAllowance, consumed : SUBSET (1 .. RestartAllowance)]

\* The archive of a state: within its capacity, never without the protected entry, no
\* entry twice, and with the workspace in it when that validates.
ArchiveOK(s) ==
  /\ Len(s.archive) <= Protected + Capacity
  /\ mode = "improvement" => Len(s.archive) >= 1
  /\ \A i, j \in 1 .. Len(s.archive) : s.archive[i] = s.archive[j] => i = j
  /\ s.chains \in Returnable => \E i \in 1 .. Len(s.archive) : s.archive[i] = s.chains

\* What reset and step hand to _prepare.
Ready(s) == s \in EnvStates /\ ArchiveOK(s) /\ Fits(Reserve, s.remaining)

\* What a prepared candidate may be selected for.
Selectable(c, s) ==
  /\ c \in Candidates
  /\ c.op \in {"move", "restart"} =>
       /\ Fits(StepWork(c), FreeBudget(s.remaining)) /\ c.to \in Embeddings
       /\ c.op = "move" => c.slot = 0
       /\ c.op = "restart" => /\ s.restarts_left >= 1
                              /\ IF mode = "improvement"
                                 THEN c.slot \in (1 .. RestartAllowance) \ s.consumed
                                 ELSE c.slot = 0
  /\ c.op = "commit" => Fits(CommitWork, s.remaining) /\ c.slot \in 1 .. Len(s.archive)
  /\ c.op = "stop" => s.archive = <<>> /\ s.remaining.decisions >= 1

LEMMA Constants ==
  /\ Variables \in Nat /\ QubitCap \in Nat /\ MaxStateChanging \in Nat /\ MaxCommit \in Nat
  /\ ArchiveFifo \in Nat /\ RestartQuota \in Nat /\ RestartAllowance \in Nat /\ RewardReads \in Nat
  /\ ArchiveFifo >= 1 /\ ArchiveFifo + 1 <= MaxCommit
  /\ Caps \in Ledgers /\ Reserve \in Ledgers /\ Debit \in Ledgers
BY ContextAssumption

LEMMA ReserveFacts == Reserve.reads >= RewardReads /\ Reserve.compiler >= MaxCommit + 4
BY ContextAssumption

LEMMA LedgerFields ==
  ASSUME NEW l \in Ledgers
  PROVE  /\ l.decisions \in Nat /\ l.search \in Nat /\ l.compiler \in Nat
         /\ l.validator \in Nat /\ l.reads \in Nat /\ l.feature \in Nat
BY DEF Ledgers

LEMMA Room == ASSUME mode \in Modes
              PROVE  Protected \in 0 .. 1 /\ Capacity \in Nat /\ Capacity >= 1
                     /\ Protected + Capacity <= MaxCommit
BY Constants, ContextAssumption DEF Protected, Capacity

LEMMA RowsAreSequences ==
  ASSUME NEW S, NEW n \in Nat, NEW rows \in [1 .. n -> S]
  PROVE  Len(rows) = n
OBVIOUS

(***************************************************************************)
(* Admission.                                                              *)
(***************************************************************************)
\* A new entry goes last; what it may evict is the oldest unprotected one, so the other
\* entries keep their order and move down by at most one place.
LEMMA AdmitShape ==
  ASSUME mode \in Modes, NEW archive \in Seq(Returnable), NEW e \in Returnable,
         ~ \E i \in DOMAIN archive : archive[i] = e,
         Len(archive) <= Protected + Capacity, Protected <= Len(archive)
  PROVE  /\ Admit(archive, e) \in Seq(Returnable)
         /\ \E shift \in 0 .. 1 :
              /\ Len(Admit(archive, e)) = Len(archive) + 1 - shift
              /\ Len(archive) + 1 - shift \in Protected + 1 .. Protected + Capacity
              /\ Admit(archive, e)[Len(archive) + 1 - shift] = e
              /\ \A i \in 1 .. Len(archive) - shift :
                   Admit(archive, e)[i] = archive[IF i <= Protected THEN i ELSE i + shift]
<1> DEFINE rest == SubSeq(archive, Protected + 1, Len(archive))
           mutable == Append(rest, e)
           first == IF Len(mutable) > Capacity THEN 2 ELSE 1
           head == SubSeq(archive, 1, Protected)
           tail == SubSeq(mutable, first, Len(mutable))
           n == Len(archive)
           p == Protected
           c == Capacity
           shift == first - 1
<1>0. p \in 0 .. 1 /\ c \in Nat /\ c >= 1 /\ n \in Nat /\ p <= n /\ n <= p + c
  BY Room
<1>1. Admit(archive, e) = head \o tail
  BY DEF Admit
<1>2. /\ rest \in Seq(Returnable) /\ Len(rest) = Len(archive) - Protected
      /\ \A i \in 1 .. Len(rest) : rest[i] = archive[Protected + i]
  <2> HIDE DEF head, tail, mutable, first
  <2> QED BY <1>0, SubSeqProperties
<1>3. /\ head \in Seq(Returnable) /\ Len(head) = Protected
      /\ \A i \in 1 .. Len(head) : head[i] = archive[i]
  <2> HIDE DEF tail, mutable, first, rest
  <2> QED BY <1>0, SubSeqProperties
<1> HIDE DEF rest, head
<1>4. /\ mutable \in Seq(Returnable) /\ Len(mutable) = Len(rest) + 1
      /\ mutable[Len(rest) + 1] = e /\ \A i \in 1 .. Len(rest) : mutable[i] = rest[i]
  BY <1>2
<1> HIDE DEF mutable
<1>5. first \in 1 .. 2 /\ first <= Len(mutable) /\ Len(mutable) = n - p + 1
      /\ (first = 2 => n - p + 1 > c) /\ (first = 1 => n - p + 1 <= c)
  <2>1. Len(mutable) = n - p + 1
    BY <1>2, <1>4
  <2>2. QED
    BY <1>0, <2>1
<1> HIDE DEF first
<1>6. /\ tail \in Seq(Returnable) /\ Len(tail) = Len(mutable) - first + 1
      /\ \A i \in 1 .. Len(tail) : tail[i] = mutable[first + i - 1]
  BY <1>4, <1>5, SubSeqProperties
<1> HIDE DEF tail
<1>7. /\ head \o tail \in Seq(Returnable) /\ Len(head \o tail) = Len(head) + Len(tail)
      /\ \A i \in 1 .. Len(head) + Len(tail) :
           (head \o tail)[i] = IF i <= Len(head) THEN head[i] ELSE tail[i - Len(head)]
  <2>1. \A i \in 1 .. Len(head) + Len(tail) :
          (head \o tail)[i] = IF i <= Len(head) THEN head[i] ELSE tail[i - Len(head)]
    BY <1>3, <1>6, ConcatProperties
  <2>2. head \o tail \in Seq(Returnable) /\ Len(head \o tail) = Len(head) + Len(tail)
    BY <1>3, <1>6, ConcatProperties
  <2>3. QED BY <2>1, <2>2
<1>8. shift \in 0 .. 1 /\ n + 1 - shift \in p + 1 .. p + c /\ first = shift + 1
  BY <1>0, <1>5
<1>9. Len(head) = p /\ Len(tail) = n - p + 1 - shift /\ Len(rest) = n - p
  BY <1>0, <1>2, <1>3, <1>5, <1>6
<1> HIDE DEF n, p, c, shift
<1>10. Len(head \o tail) = n + 1 - shift
  BY <1>0, <1>7, <1>8, <1>9
<1>11. (head \o tail)[n + 1 - shift] = e
  <2>1. (head \o tail)[n + 1 - shift] = tail[n + 1 - shift - p]
    BY <1>0, <1>7, <1>8, <1>9
  <2>2. tail[n + 1 - shift - p] = mutable[n - p + 1]
    <3>1. n + 1 - shift - p \in 1 .. Len(tail)
      BY <1>0, <1>8, <1>9
    <3>2. first + (n + 1 - shift - p) - 1 = n - p + 1
      BY <1>0, <1>8
    <3>3. QED BY <1>6, <3>1, <3>2
  <2>3. QED BY <1>4, <1>9, <2>1, <2>2
<1>12. ASSUME NEW i \in 1 .. n - shift
       PROVE  (head \o tail)[i] = archive[IF i <= p THEN i ELSE i + shift]
  <2>1. i \in 1 .. Len(head) + Len(tail)
    BY <1>0, <1>8, <1>9
  <2>2. CASE i <= p
    BY <1>3, <1>7, <1>9, <2>1, <2>2
  <2>3. CASE ~ i <= p
    <3>1. (head \o tail)[i] = tail[i - p]
      BY <1>7, <1>9, <2>1, <2>3
    <3>2. i - p \in 1 .. Len(tail) /\ shift + i - p \in 1 .. n - p
          /\ first + (i - p) - 1 = shift + i - p
      BY <1>0, <1>8, <1>9, <2>3
    <3>3. tail[i - p] = mutable[shift + i - p]
      BY <1>6, <3>2
    <3>4. mutable[shift + i - p] = archive[p + (shift + i - p)]
      BY <1>2, <1>4, <1>9, <3>2 DEF p
    <3>5. p + (shift + i - p) = i + shift
      BY <1>0, <1>8
    <3>6. QED BY <2>3, <3>1, <3>3, <3>4, <3>5
  <2>4. QED BY <2>2, <2>3
<1>13. QED
  BY <1>1, <1>7, <1>8, <1>10, <1>11, <1>12 DEF n, p, c, shift

LEMMA AdmitKeeps ==
  ASSUME mode \in Modes, NEW archive \in Seq(Returnable), NEW e,
         Len(archive) <= Protected + Capacity, mode = "improvement" => Len(archive) >= 1
  PROVE  LET a == Admit(archive, e) IN
         /\ a \in Seq(Returnable) /\ Len(a) <= Protected + Capacity
         /\ Len(a) >= Len(archive)
         /\ e \in Returnable => Len(a) >= 1 /\ \E i \in 1 .. Len(a) : a[i] = e
         /\ \A i \in 1 .. Len(a) : a[i] = e \/ \E j \in 1 .. Len(archive) : a[i] = archive[j]
         /\ mode = "improvement" => a[1] = archive[1]
         /\ (\A i, j \in 1 .. Len(archive) : archive[i] = archive[j] => i = j)
               => \A i, j \in 1 .. Len(a) : a[i] = a[j] => i = j
<1> DEFINE a == Admit(archive, e)
<1>0. /\ Protected \in 0 .. 1 /\ Capacity \in Nat /\ Protected <= Len(archive)
      /\ mode = "improvement" => Protected = 1
  BY Room DEF Protected
<1>1. CASE e \notin Returnable \/ \E i \in DOMAIN archive : archive[i] = e
  <2>1. a = archive
    BY <1>1 DEF Admit
  <2>2. DOMAIN archive = 1 .. Len(archive)
    OBVIOUS
  <2> HIDE DEF a
  <2>3. e \in Returnable => \E i \in 1 .. Len(a) : a[i] = e
    BY <1>1, <2>1, <2>2
  <2>4. QED
    BY <2>1, <2>3 DEF a
<1>2. CASE ~(e \notin Returnable \/ \E i \in DOMAIN archive : archive[i] = e)
  <2> DEFINE n == Len(archive)
             at(i, shift) == IF i <= Protected THEN i ELSE i + shift
  <2>1. a \in Seq(Returnable) /\ n \in Nat
    BY <1>0, <1>2, AdmitShape
  <2>2. PICK shift \in 0 .. 1 :
          /\ Len(a) = n + 1 - shift /\ n + 1 - shift \in Protected + 1 .. Protected + Capacity
          /\ a[n + 1 - shift] = e
          /\ \A i \in 1 .. n - shift : a[i] = archive[at(i, shift)]
    BY <1>0, <1>2, AdmitShape
  <2>3. \A i \in 1 .. n : archive[i] # e
    BY <1>2
  <2> HIDE DEF a, n
  <2>4. ASSUME NEW i \in 1 .. n + 1 - shift
        PROVE  i = n + 1 - shift \/ (i \in 1 .. n - shift /\ at(i, shift) \in 1 .. n)
    BY <1>0, <2>1, <2>2
  <2>5. ASSUME NEW i \in 1 .. n + 1 - shift
        PROVE  a[i] = e \/ \E j \in 1 .. n : a[i] = archive[j]
    BY <2>2, <2>4
  <2>6. ASSUME mode = "improvement" PROVE a[1] = archive[1]
    <3>1. 1 \in 1 .. n - shift /\ at(1, shift) = 1
      BY <1>0, <2>1, <2>2, <2>6
    <3>2. QED BY <2>2, <3>1
  <2>7. ASSUME \A i, j \in 1 .. n : archive[i] = archive[j] => i = j,
               NEW i \in 1 .. n + 1 - shift, NEW j \in 1 .. n + 1 - shift, a[i] = a[j]
        PROVE  i = j
    <3>1. CASE i = n + 1 - shift /\ j = n + 1 - shift
      BY <3>1
    <3>2. CASE i \in 1 .. n - shift /\ j = n + 1 - shift
      BY <2>2, <2>3, <2>4, <2>7, <3>2
    <3>3. CASE i = n + 1 - shift /\ j \in 1 .. n - shift
      BY <2>2, <2>3, <2>4, <2>7, <3>3
    <3>4. CASE i \in 1 .. n - shift /\ j \in 1 .. n - shift
      <4>1. at(i, shift) \in 1 .. n /\ at(j, shift) \in 1 .. n
        BY <2>1, <2>2, <2>4, <3>4
      <4>2. at(i, shift) = at(j, shift)
        <5> HIDE DEF at
        <5> QED BY <2>2, <2>7, <3>4, <4>1
      <4>3. QED BY <1>0, <3>4, <4>2
    <3>5. QED BY <2>4, <3>1, <3>2, <3>3, <3>4
  <2>8. Len(a) <= Protected + Capacity /\ Len(a) >= n /\ Len(a) >= 1
        /\ Len(a) \in 1 .. n + 1 - shift
    BY <1>0, <2>1, <2>2
  <2>9. QED
    BY <2>1, <2>2, <2>5, <2>6, <2>7, <2>8 DEF a, n
<1>3. QED BY <1>1, <1>2

(***************************************************************************)
(* Arithmetic of the work vectors.                                         *)
(***************************************************************************)
Vectors == [decisions : Int, search : Int, compiler : Int,
            validator : Int, reads : Int, feature : Int]

LEMMA LedgersAreVectors == Ledgers \subseteq Vectors
BY DEF Ledgers, Vectors

LEMMA MinusTyped == ASSUME NEW a \in Vectors, NEW b \in Vectors
                    PROVE  Minus(a, b) \in Vectors
BY DEF Vectors, Minus, Work

LEMMA FitsNatural == ASSUME NEW r \in Ledgers, NEW l \in Vectors, Fits(r, l)
                     PROVE  l \in Ledgers
<1>1. /\ l.decisions \in Nat /\ l.search \in Nat /\ l.compiler \in Nat
      /\ l.validator \in Nat /\ l.reads \in Nat /\ l.feature \in Nat
  BY DEF Ledgers, Vectors, Fits
<1>2. QED
  BY <1>1 DEF Ledgers, Vectors

LEMMA FitsSwap == ASSUME NEW a \in Vectors, NEW b \in Vectors, NEW c \in Vectors,
                         Fits(b, Minus(a, c))
                  PROVE  Fits(c, Minus(a, b))
BY DEF Vectors, Fits, Minus, Work

(***************************************************************************)
(* Preparation.                                                            *)
(***************************************************************************)
LEMMA RowBounds ==
  ASSUME NEW rows, NEW allowance \in Int, NEW b \in BatchesOf(rows, allowance), Len(rows) \in Nat
  PROVE  /\ b.members = {rows[i] : i \in DOMAIN rows} \ {Refused} /\ b.rows = Len(rows)
         /\ b.complete \in 0 .. Len(rows) /\ b.restarts \in Nat /\ b.restarts <= RestartQuota
         /\ b.search \in Nat /\ b.search <= allowance
<1>1. PICK complete \in 0 .. Len(rows), restarts \in 0 .. Least(Len(rows), RestartQuota),
           search \in Len(rows) .. Least(allowance, Len(rows) + MaxSearchWork) :
             b = Batch(rows, complete, restarts, search)
  BY DEF BatchesOf
<1>2. b.members = {rows[i] : i \in DOMAIN rows} \ {Refused} /\ b.rows = Len(rows)
      /\ b.complete = complete /\ b.restarts = restarts /\ b.search = search
  BY <1>1 DEF Batch
<1>3. restarts <= RestartQuota /\ restarts \in Nat
  BY Constants DEF Least
<1>4. search \in Nat /\ search <= allowance
  BY ContextAssumption DEF Least
<1>5. QED
  BY <1>2, <1>3, <1>4

LEMMA BatchBounds ==
  ASSUME NEW s, Ready(s), NEW b \in Batches(s)
  PROVE  /\ b.rows \in Nat /\ b.complete \in Nat /\ b.restarts \in Nat /\ b.search \in Nat
         /\ b.members \subseteq Proposable(s)
         /\ Generates(s) => /\ b.rows <= MaxStateChanging /\ b.complete <= b.rows
                            /\ b.restarts <= RestartQuota
                            /\ b.search <= s.remaining.search - Reserve.search
         /\ ~Generates(s) => b.rows = 0 /\ b.complete = 0 /\ b.restarts = 0 /\ b.search = 0
<1>1. CASE Generates(s)
  <2> DEFINE allowance == FreeBudget(s.remaining).search
  <2>1. allowance = s.remaining.search - Reserve.search /\ allowance \in Nat
    <3>1. s.remaining \in Ledgers /\ Fits(Reserve, s.remaining)
      BY DEF Ready, EnvStates
    <3>2. allowance = s.remaining.search - Reserve.search
      BY DEF FreeBudget, Minus, Work
    <3>3. s.remaining.search \in Nat /\ Reserve.search \in Nat
          /\ Reserve.search <= s.remaining.search
      BY <3>1, Constants, LedgerFields DEF Fits
    <3>4. QED BY <3>2, <3>3
  <2>2. PICK rows \in Rows(s) : b \in BatchesOf(rows, allowance)
    BY <1>1 DEF Batches
  <2>3. PICK n \in 0 .. Least(MaxStateChanging, allowance) :
          rows \in [1 .. n -> Proposable(s) \cup {Refused}]
    BY <2>2 DEF Rows
  <2>4. n \in Nat /\ n <= MaxStateChanging
    BY <2>1, <2>3, Constants DEF Least
  <2>5. Len(rows) = n /\ DOMAIN rows = 1 .. n
    BY <2>3, <2>4, RowsAreSequences
  <2> HIDE DEF allowance
  <2>6. /\ b.members = {rows[i] : i \in DOMAIN rows} \ {Refused} /\ b.rows = n
        /\ b.complete \in 0 .. n /\ b.restarts \in Nat /\ b.restarts <= RestartQuota
        /\ b.search \in Nat /\ b.search <= allowance
    BY <2>1, <2>2, <2>4, <2>5, RowBounds
  <2>7. b.members \subseteq Proposable(s)
    BY <2>3, <2>5, <2>6
  <2>8. QED
    BY <1>1, <2>1, <2>4, <2>6, <2>7
<1>2. CASE ~Generates(s)
  <2>1. b = NoBatch
    BY <1>2 DEF Batches
  <2>2. QED
    BY <1>2, <2>1 DEF NoBatch, Batch
<1>3. QED
  BY <1>1, <1>2

\* What an offer leaves before its support is charged: the whole reserve, and every
\* decision.
LEMMA OfferBounds ==
  ASSUME mode \in Modes, NEW s, Ready(s), NEW o \in Offers(s)
  PROVE  \E b \in Batches(s), generated \in Ledgers :
           /\ generated = Minus(s.remaining, Work(0, b.search, 0, 0, 0, 0))
           /\ o = Offer(s, b, generated)
           /\ Fits(Reserve, generated) /\ generated.decisions = s.remaining.decisions
           /\ o.generated = generated
           /\ o.offered = b.members \cup CommitRows(s, generated) \cup StopRows(s)
           /\ o.nothing = (b.rows = 0 /\ CommitRows(s, generated) = {} /\ StopRows(s) = {})
           /\ o.ledger \in Vectors /\ o.ledger.decisions = s.remaining.decisions
<1>1. PICK b \in Batches(s) :
        o = Offer(s, b, Minus(s.remaining, Work(0, b.search, 0, 0, 0, 0)))
  BY DEF Offers
<1> DEFINE generated == Minus(s.remaining, Work(0, b.search, 0, 0, 0, 0))
           commits == CommitRows(s, generated)
           stops == StopRows(s)
           n == Len(s.archive)
           c == IF commits = {} THEN 0 ELSE Least(n, MaxCommit)
           e == IF stops = {} THEN 0 ELSE 1
           w == FeatureWork(s, b, commits, stops)
<1>2. s.remaining \in Ledgers /\ Fits(Reserve, s.remaining) /\ n \in Nat
  BY DEF Ready, EnvStates
<1>3. /\ b.rows \in Nat /\ b.complete \in Nat /\ b.restarts \in Nat /\ b.search \in Nat
      /\ Generates(s) => b.search <= s.remaining.search - Reserve.search
      /\ ~Generates(s) => b.search = 0
  BY BatchBounds
<1>4. Fits(Reserve, generated) /\ generated \in Ledgers
      /\ generated.decisions = s.remaining.decisions
  <2> DEFINE l == s.remaining
  <2>1. /\ l.decisions \in Nat /\ l.search \in Nat /\ l.compiler \in Nat
        /\ l.validator \in Nat /\ l.reads \in Nat /\ l.feature \in Nat
    BY <1>2, LedgerFields
  <2>2. /\ Reserve.decisions <= l.decisions /\ Reserve.search <= l.search
        /\ Reserve.compiler <= l.compiler /\ Reserve.validator <= l.validator
        /\ Reserve.reads <= l.reads /\ Reserve.feature <= l.feature
    BY <1>2 DEF Fits
  <2>3. Reserve.search \in Nat
    BY Constants, LedgerFields
  <2>4. generated = Work(l.decisions - 0, l.search - b.search, l.compiler - 0,
                         l.validator - 0, l.reads - 0, l.feature - 0)
    BY DEF Minus, Work
  <2> HIDE DEF l
  <2>5. l.search - b.search \in Int /\ Reserve.search <= l.search - b.search
    BY <1>3, <2>1, <2>2, <2>3 DEF l
  <2>6. generated = Work(l.decisions, l.search - b.search, l.compiler,
                         l.validator, l.reads, l.feature)
    BY <2>1, <2>4
  <2>7. generated \in Vectors /\ generated.decisions = l.decisions
    BY <2>1, <2>5, <2>6 DEF Work, Vectors
  <2>8. Fits(Reserve, generated)
    BY <2>2, <2>5, <2>6 DEF Fits, Work
  <2> HIDE DEF generated
  <2>9. QED
    BY <2>7, <2>8, Constants, FitsNatural DEF l
<1>5. /\ o.generated = generated /\ o.offered = b.members \cup commits \cup stops
      /\ o.nothing = (b.rows = 0 /\ commits = {} /\ stops = {})
      /\ o.ledger = Minus(generated, w) /\ o = Offer(s, b, generated)
  BY <1>1 DEF Offer
<1>6. c \in Nat /\ e \in Nat
  BY <1>2, Constants DEF Least
<1>7. w = Work(0, 0, n + b.complete + 4 * b.restarts, b.rows, 0,
               32 * (b.rows + c + e + Variables))
  BY DEF FeatureWork
<1> HIDE DEF generated, commits, stops, n, c, e, w
<1>8. w \in Vectors /\ w.decisions = 0
  BY <1>2, <1>3, <1>6, <1>7, Constants DEF Work, Vectors
<1>9. o.ledger \in Vectors
  BY <1>4, <1>5, <1>8, LedgersAreVectors, MinusTyped
<1>10. o.ledger.decisions = s.remaining.decisions
  <2>1. o.ledger.decisions = generated.decisions - w.decisions
    BY <1>5 DEF Minus, Work
  <2>2. QED
    BY <1>2, <1>4, <1>8, <2>1, LedgerFields
<1>11. QED
  BY <1>4, <1>5, <1>9, <1>10 DEF generated, commits, stops

\* The heart of the matter: what is left after a preparation still pays a COMMIT.
LEMMA CommitFitsAfterPreparation ==
  ASSUME mode \in Modes, ReserveCoversCommit, NEW s, Ready(s), NEW b \in Batches(s),
         NEW generated, generated = Minus(s.remaining, Work(0, b.search, 0, 0, 0, 0)),
         NEW o, o = Offer(s, b, generated)
  PROVE  /\ o.ledger \in Ledgers /\ Fits(CommitWork, o.ledger)
         /\ o.ledger.decisions = s.remaining.decisions
         /\ Fits(Reserve, generated)
<1> DEFINE commits == CommitRows(s, generated)
           stops == StopRows(s)
           n == Len(s.archive)
           c == IF commits = {} THEN 0 ELSE Least(n, MaxCommit)
           e == IF stops = {} THEN 0 ELSE 1
<1>1. s.remaining \in Ledgers /\ Fits(Reserve, s.remaining) /\ n \in Nat /\ n <= MaxCommit
  BY Room, Constants DEF Ready, EnvStates, ArchiveOK
<1>2. c \in Nat /\ c + e <= MaxCommit /\ e \in 0 .. 1 /\ c <= n
  <2>1. e = 1 => n = 0
    BY <1>1 DEF StopRows, Ready, EnvStates
  <2>2. c \in Nat /\ c <= n
    BY <1>1, Constants DEF Least
  <2>3. QED
    BY <1>1, <2>1, <2>2, Constants
<1> HIDE DEF c, e, n
<1>3. o.ledger = Minus(generated, Work(0, 0, n + b.complete + 4 * b.restarts, b.rows, 0,
                                       32 * (b.rows + c + e + Variables)))
  BY DEF Offer, FeatureWork, c, e, n
<1>4. /\ b.rows \in Nat /\ b.complete \in Nat /\ b.restarts \in Nat /\ b.search \in Nat
      /\ Generates(s) => /\ b.rows <= MaxStateChanging /\ b.complete <= b.rows
                         /\ b.restarts <= RestartQuota
                         /\ b.search <= s.remaining.search - Reserve.search
      /\ ~Generates(s) => b.rows = 0 /\ b.complete = 0 /\ b.restarts = 0 /\ b.search = 0
  BY BatchBounds
<1>5. Fits(Reserve, generated) /\ generated \in Ledgers
  BY <1>1, <1>4, Constants DEF Fits, Minus, Work, Ledgers
<1>6. CASE Generates(s)
  <2>1. Fits(PreparationBound, Minus(s.remaining, Reserve))
    BY <1>6 DEF Generates, FreeBudget
  <2>2. s.remaining.compiler - Reserve.compiler >= MaxStateChanging + MaxCommit + 4 * RestartQuota
        /\ s.remaining.validator - Reserve.validator >= MaxStateChanging
        /\ s.remaining.feature - Reserve.feature >=
             32 * (MaxStateChanging + MaxCommit + 1 + Variables)
    BY <2>1 DEF Fits, Minus, PreparationBound, Work
  <2>3. Fits(Reserve, o.ledger) /\ o.ledger \in Ledgers
        /\ o.ledger.decisions = s.remaining.decisions
    BY <1>1, <1>2, <1>3, <1>4, <1>6, <2>2, Constants DEF Fits, Minus, Work, Ledgers
  <2>4. Fits(CommitWork, o.ledger)
    <3>1. Reserve.feature >= 4
      BY Constants, LedgerFields DEF ReserveCoversCommit
    <3>2. QED
      BY <2>3, <3>1, Constants, ReserveFacts
         DEF Fits, CommitWork, Work, Ledgers, ReserveCoversCommit
  <2>5. QED BY <1>5, <2>3, <2>4
<1>7. CASE ~Generates(s)
  <2>1. /\ o.ledger.decisions = s.remaining.decisions /\ o.ledger.search = s.remaining.search
        /\ o.ledger.compiler = s.remaining.compiler - n
        /\ o.ledger.validator = s.remaining.validator /\ o.ledger.reads = s.remaining.reads
        /\ o.ledger.feature = s.remaining.feature - 32 * (c + e + Variables)
        /\ o.ledger = Work(o.ledger.decisions, o.ledger.search, o.ledger.compiler,
                           o.ledger.validator, o.ledger.reads, o.ledger.feature)
    BY <1>1, <1>2, <1>3, <1>4, <1>7, Constants DEF Minus, Work, Ledgers
  <2>2. /\ o.ledger.compiler >= 4 /\ o.ledger.feature >= 4 /\ o.ledger.decisions >= 1
        /\ o.ledger.validator >= 1 /\ o.ledger.reads >= RewardReads
    <3>1. /\ s.remaining.compiler >= MaxCommit + 4 /\ s.remaining.decisions >= 1
          /\ s.remaining.validator >= 1 /\ s.remaining.reads >= RewardReads
          /\ s.remaining.feature >= 32 * (MaxCommit + Variables) + 4
      BY <1>1, Constants, ReserveFacts DEF Fits, Ledgers, ReserveCoversCommit
    <3>2. 32 * (c + e + Variables) <= 32 * (MaxCommit + Variables)
      BY <1>2, Constants
    <3>3. s.remaining.compiler \in Nat /\ s.remaining.feature \in Nat
          /\ 32 * (c + e + Variables) \in Nat
      BY <1>1, <1>2, Constants, LedgerFields
    <3>4. QED
      BY <1>1, <2>1, <3>1, <3>2, <3>3, Constants
  <2>3. o.ledger \in Ledgers
    BY <1>1, <1>2, <2>1, <2>2, Constants DEF Work, Ledgers
  <2>4. Fits(CommitWork, o.ledger)
    BY <2>2, <2>3 DEF Fits, CommitWork, Work, Ledgers
  <2>5. QED BY <1>5, <2>1, <2>3, <2>4
<1>8. QED BY <1>6, <1>7

LEMMA ProposableSelectable ==
  ASSUME mode \in Modes, NEW s \in EnvStates, NEW c \in Proposable(s)
  PROVE  /\ c \in Candidates /\ c.op \in {"move", "restart"} /\ c.to \in Embeddings
         /\ c.op = "move" => c.slot = 0
         /\ c.op = "restart" => /\ s.restarts_left >= 1
                                /\ IF mode = "improvement"
                                   THEN c.slot \in (1 .. RestartAllowance) \ s.consumed
                                   ELSE c.slot = 0
<1>1. CASE \E e \in Embeddings \ {Blank, s.chains}, n \in Sizes : c = Move(e, n)
  <2>1. PICK e \in Embeddings, n \in Sizes : c = Move(e, n)
    BY <1>1
  <2>2. n \in 0 .. Variables
    BY ContextAssumption, Constants
  <2>3. QED
    BY <2>1, <2>2 DEF Move, Candidates
<1>2. CASE /\ s.restarts_left # 0 /\ mode = "improvement"
           /\ \E i \in Usable(s) : c = Restart(Cache[i], i)
  <2>1. PICK i \in Usable(s) : c = Restart(Cache[i], i)
    BY <1>2
  <2>2. i \in (1 .. RestartAllowance) \ s.consumed /\ Cache[i] \in Embeddings
    BY ContextAssumption DEF Usable
  <2>3. s.restarts_left >= 1 /\ i \in Nat
    BY <1>2, <2>2, Constants DEF EnvStates
  <2>4. QED
    BY <1>2, <2>1, <2>2, <2>3, Constants DEF Restart, Candidates
<1>3. CASE s.restarts_left # 0 /\ mode # "improvement" /\ c = Restart(Blank, 0)
  <2>1. s.restarts_left >= 1 /\ Blank \in Embeddings
    BY <1>3, Constants, ContextAssumption DEF EnvStates
  <2>2. QED
    BY <1>3, <2>1, Constants DEF Restart, Candidates
<1>4. QED
  BY <1>1, <1>2, <1>3 DEF Proposable

\* Whatever the budget lets through may be selected.
LEMMA AllowedSelectable ==
  ASSUME mode \in Modes, NEW s, Ready(s), NEW o \in Offers(s), o.ledger \in Ledgers,
         NEW c \in Allowed(o)
  PROVE  Selectable(c, [s EXCEPT !.remaining = o.ledger])
<1> DEFINE after == [s EXCEPT !.remaining = o.ledger]
<1>1. PICK b \in Batches(s), generated \in Ledgers :
        o.offered = b.members \cup CommitRows(s, generated) \cup StopRows(s)
  BY OfferBounds
<1>2. Legal(c, o.ledger) /\ c \in o.offered
  BY DEF Allowed
<1>3. s \in EnvStates /\ Len(s.archive) \in Nat
  BY DEF Ready, EnvStates
<1>4. /\ after.remaining = o.ledger /\ after.archive = s.archive
      /\ after.restarts_left = s.restarts_left /\ after.consumed = s.consumed
  BY <1>3 DEF EnvStates
<1> HIDE DEF after
<1>5. CASE c \in b.members
  <2>1. c \in Proposable(s)
    BY <1>5, BatchBounds
  <2>2. c.op \in {"move", "restart"}
    BY <1>3, <2>1, ProposableSelectable
  <2>3. Fits(StepWork(c), FreeBudget(o.ledger))
    BY <1>2, <2>2 DEF Legal
  <2>4. QED
    BY <1>3, <1>4, <2>1, <2>2, <2>3, ProposableSelectable DEF Selectable, after
<1>6. CASE c \in CommitRows(s, generated)
  <2>1. PICK i \in 1 .. Least(Len(s.archive), MaxCommit) : c = Commit(i)
    BY <1>6 DEF CommitRows
  <2>2. i \in 1 .. Len(s.archive)
    BY <1>3, <2>1, Constants DEF Least
  <2>3. c \in Candidates /\ c.op = "commit" /\ c.slot = i
    BY <1>3, <2>1, <2>2, Constants DEF Commit, Candidates
  <2>4. Fits(CommitWork, o.ledger)
    BY <1>2, <2>3 DEF Legal
  <2>5. QED
    BY <1>4, <2>2, <2>3, <2>4 DEF Selectable, after
<1>7. CASE c \in StopRows(s)
  <2>1. c = Stop /\ s.archive = <<>>
    BY <1>7 DEF StopRows
  <2>2. c \in Candidates /\ c.op = "stop"
    BY <2>1, Constants DEF Stop, Candidates
  <2>3. o.ledger.decisions >= 1
    BY <1>2, <2>2 DEF Legal
  <2>4. QED
    BY <1>4, <2>1, <2>2, <2>3 DEF Selectable, after
<1>8. QED
  BY <1>1, <1>2, <1>5, <1>6, <1>7

PreparationEnds == {"BUDGET_NO_VALID", "NO_ACTION_NO_VALID", "integrity_error"}

\* What a preparation of a ready state may lead to, whatever the reserve: it moves
\* nothing but the ledger, spends no decision, and a decision is never empty.
LEMMA PreparedSound ==
  ASSUME mode \in Modes, NEW s, Ready(s), NEW o \in Offers(s), NEW p, p = Prepared(s, o)
  PROVE  /\ \E ledger \in Ledgers : /\ p.env = [s EXCEPT !.remaining = ledger]
                                    /\ ledger.decisions = s.remaining.decisions
         /\ \/ /\ p.outcome = "running" /\ p.support # {}
               /\ \A c \in p.support : Selectable(c, p.env)
            \/ p.outcome \in PreparationEnds /\ p.support = {}
<1>1. /\ o.generated \in Ledgers /\ o.generated.decisions = s.remaining.decisions
      /\ o.ledger \in Vectors /\ o.ledger.decisions = s.remaining.decisions
  BY OfferBounds
<1>2. CASE o.nothing
  <2>1. p = TerminalFailure(s, o.generated)
    BY <1>2 DEF Prepared
  <2>2. /\ p.env = [s EXCEPT !.remaining = o.generated] /\ p.support = {}
        /\ p.outcome \in PreparationEnds
    BY <2>1 DEF TerminalFailure, PreparationEnds
  <2>3. QED
    BY <1>1, <2>2
<1>3. CASE ~o.nothing /\ ~Fits(Zero, o.ledger)
  <2>1. p = IntegrityError(s, o.generated)
    BY <1>3 DEF Prepared
  <2>2. /\ p.env = [s EXCEPT !.remaining = o.generated] /\ p.support = {}
        /\ p.outcome \in PreparationEnds
    BY <2>1 DEF IntegrityError, PreparationEnds
  <2>3. QED
    BY <1>1, <2>2
<1>4. CASE ~o.nothing /\ Fits(Zero, o.ledger)
  <2>1. o.ledger \in Ledgers
    <3>1. Zero \in Ledgers
      BY DEF Zero, Work, Ledgers
    <3>2. QED
      BY <1>1, <1>4, <3>1, FitsNatural
  <2>2. CASE Allowed(o) = {}
    <3>1. p = TerminalFailure(s, o.ledger)
      BY <1>4, <2>2 DEF Prepared
    <3>2. /\ p.env = [s EXCEPT !.remaining = o.ledger] /\ p.support = {}
          /\ p.outcome \in PreparationEnds
      BY <3>1 DEF TerminalFailure, PreparationEnds
    <3>3. QED
      BY <1>1, <2>1, <3>2
  <2>3. CASE Allowed(o) # {}
    <3>1. p = Decision(s, o.ledger, Allowed(o))
      BY <1>4, <2>3 DEF Prepared
    <3>2. p.env = [s EXCEPT !.remaining = o.ledger] /\ p.support = Allowed(o)
          /\ p.outcome = "running"
      BY <3>1 DEF Decision
    <3>3. \A c \in p.support : Selectable(c, p.env)
      BY <2>1, <3>2, AllowedSelectable
    <3>4. QED
      BY <1>1, <2>1, <2>3, <3>2, <3>3
  <2>4. QED BY <2>2, <2>3
<1>5. QED BY <1>2, <1>3, <1>4

\* With a reserve that covers COMMIT, every preparation of a ready state leads to a
\* decision with all of its commits.
LEMMA PreparedRuns ==
  ASSUME mode \in Modes, ReserveCoversCommit, NEW s, Ready(s), NEW o \in Offers(s)
  PROVE  /\ Prepared(s, o).outcome = "running"
         /\ \A i \in 1 .. Len(s.archive) : Commit(i) \in Prepared(s, o).support
<1>1. PICK b \in Batches(s), generated \in Ledgers :
        /\ generated = Minus(s.remaining, Work(0, b.search, 0, 0, 0, 0))
        /\ o = Offer(s, b, generated)
        /\ o.offered = b.members \cup CommitRows(s, generated) \cup StopRows(s)
        /\ o.nothing = (b.rows = 0 /\ CommitRows(s, generated) = {} /\ StopRows(s) = {})
  BY OfferBounds
<1>2. /\ o.ledger \in Ledgers /\ Fits(CommitWork, o.ledger)
      /\ o.ledger.decisions = s.remaining.decisions /\ Fits(Reserve, generated)
  BY <1>1, CommitFitsAfterPreparation
<1>3. s \in EnvStates /\ Len(s.archive) \in Nat /\ Len(s.archive) <= MaxCommit
  BY Room, Constants DEF Ready, EnvStates, ArchiveOK
<1>4. CommitRows(s, generated) = {Commit(i) : i \in 1 .. Len(s.archive)}
  BY <1>2, <1>3, Constants DEF CommitRows, Least
<1>5. \A i \in 1 .. Len(s.archive) : Commit(i) \in Allowed(o)
  BY <1>1, <1>2, <1>4 DEF Allowed, Legal, Commit
<1>6. s.remaining.decisions >= 1
  <2>1. s.remaining \in Ledgers /\ Fits(Reserve, s.remaining)
    BY DEF Ready, EnvStates
  <2>2. Reserve.decisions <= s.remaining.decisions /\ s.remaining.decisions \in Nat
    BY <2>1, LedgerFields DEF Fits
  <2>3. Reserve.decisions \in Nat
    BY Constants, LedgerFields
  <2>4. QED BY <2>2, <2>3 DEF ReserveCoversCommit
<1>7. Allowed(o) # {} /\ ~o.nothing
  <2>1. CASE Len(s.archive) >= 1
    <3>1. 1 \in 1 .. Len(s.archive)
      BY <1>3, <2>1
    <3>2. Commit(1) \in Allowed(o) /\ Commit(1) \in CommitRows(s, generated)
      BY <1>4, <1>5, <3>1
    <3>3. QED BY <1>1, <3>2
  <2>2. CASE Len(s.archive) = 0
    <3>1. mode = "construction" /\ s.archive = <<>>
      BY <1>3, <2>2, ContextAssumption DEF Ready, ArchiveOK, EnvStates
    <3>2. StopRows(s) = {Stop}
      BY <1>6, <3>1 DEF StopRows
    <3>3. Stop \in Allowed(o)
      BY <1>1, <1>2, <1>6, <3>2 DEF Allowed, Legal, Stop
    <3>4. QED BY <1>1, <3>2, <3>3
  <2>3. QED BY <1>3, <2>1, <2>2
<1>8. Fits(Zero, o.ledger)
  BY <1>2, LedgerFields DEF Fits, Zero, Work
<1>9. Prepared(s, o) = Decision(s, o.ledger, Allowed(o))
  BY <1>7, <1>8 DEF Prepared
<1>10. QED
  BY <1>5, <1>9 DEF Decision

(***************************************************************************)
(* The states that reset and step build.                                   *)
(***************************************************************************)
LEMMA FreshReady ==
  ASSUME NEW e \in Embeddings, NEW archive \in Seq(Returnable), NEW spent,
         Fits(Reserve, Minus(Minus(Caps, Debit), spent)),
         spent \in {Zero} \cup {InitWork(w) : w \in Initializer}
  PROVE  Fresh(e, archive, spent) \in EnvStates /\ Fits(Reserve, Fresh(e, archive, spent).remaining)
<1> DEFINE l == Minus(Minus(Caps, Debit), spent)
<1>1. spent \in Ledgers
  <2>1. \A w \in Initializer : w \in Nat
    <3>1. Initializer \subseteq {0, 1}
      BY ContextAssumption, Zenon
    <3>2. QED
      BY <3>1
  <2>2. Zero \in Ledgers
    BY DEF Zero, Work, Ledgers
  <2>3. \A w \in Initializer : InitWork(w) \in Ledgers
    BY <2>1 DEF InitWork, Work, Ledgers
  <2>4. CASE spent = Zero
    BY <2>2, <2>4
  <2>5. CASE \E w \in Initializer : spent = InitWork(w)
    BY <2>3, <2>5
  <2>6. QED
    BY <2>4, <2>5
<1>2. l \in Vectors
  BY <1>1, Constants, LedgersAreVectors, MinusTyped
<1>3. l \in Ledgers
  BY <1>2, Constants, FitsNatural
<1>4. RestartAllowance \in 0 .. RestartAllowance
  BY Constants
<1> HIDE DEF l
<1>5. Fresh(e, archive, spent) = [chains |-> e, archive |-> archive, remaining |-> l,
        restarts_left |-> RestartAllowance, consumed |-> {}]
  BY DEF Fresh, l
<1>6. QED
  BY <1>3, <1>4, <1>5 DEF EnvStates, l

LEMMA FreshEmpty == ASSUME NEW e \in Embeddings
                    PROVE  /\ Fresh(e, <<>>, Zero) \in EnvStates
                           /\ Fits(Reserve, Fresh(e, <<>>, Zero).remaining)
<1>1. Minus(Minus(Caps, Debit), Zero) = Minus(Caps, Debit)
  BY Constants DEF Minus, Zero, Work, Ledgers
<1>2. Fits(Reserve, Minus(Caps, Debit))
  BY ContextAssumption
<1>3. Fits(Reserve, Minus(Minus(Caps, Debit), Zero))
  BY <1>1, <1>2
<1>4. <<>> \in Seq(Returnable)
  OBVIOUS
<1>5. QED
  BY <1>3, <1>4, FreshReady

LEMMA CountOne ==
  ASSUME NEW n \in Nat, NEW S \in SUBSET (1 .. n), NEW i \in (1 .. n) \ S
  PROVE  Cardinality(S \cup {i}) = Cardinality(S) + 1 /\ Cardinality(S) \in Nat
<1>1. IsFiniteSet(1 .. n)
  BY FS_Interval
<1>2. IsFiniteSet(S)
  BY <1>1, FS_Subset
<1>3. QED
  BY <1>2, FS_AddElement, FS_CardinalityType

LEMMA AppliedReady ==
  ASSUME mode \in Modes, env \in EnvStates, ArchiveOK(env),
         NEW c, Selectable(c, env), c.op \in {"move", "restart"}
  PROVE  /\ Ready(Applied(c))
         /\ Applied(c).chains = c.to /\ Applied(c).archive = Admit(env.archive, c.to)
         /\ Applied(c).consumed = IF c.slot = 0 THEN env.consumed ELSE env.consumed \cup {c.slot}
         /\ Applied(c).restarts_left = IF c.op = "restart" THEN env.restarts_left - 1
                                       ELSE env.restarts_left
         /\ Applied(c).remaining.decisions = env.remaining.decisions - 1
<1> DEFINE s == Applied(c)
           l == Minus(env.remaining, StepWork(c))
<1>0. s = [chains |-> c.to, archive |-> Admit(env.archive, c.to), remaining |-> l,
           restarts_left |-> IF c.op = "restart" THEN env.restarts_left - 1
                             ELSE env.restarts_left,
           consumed |-> IF c.slot = 0 THEN env.consumed ELSE env.consumed \cup {c.slot}]
  <2> DEFINE a == Admit(env.archive, c.to)
             r == IF c.op = "restart" THEN env.restarts_left - 1 ELSE env.restarts_left
             u == IF c.slot = 0 THEN env.consumed ELSE env.consumed \cup {c.slot}
  <2>1. s = [env EXCEPT !.chains = c.to, !.archive = a, !.remaining = l,
                        !.restarts_left = r, !.consumed = u]
    BY DEF Applied
  <2> HIDE DEF a, r, u, l, s
  <2>2. s = [chains |-> c.to, archive |-> a, remaining |-> l, restarts_left |-> r, consumed |-> u]
    BY <2>1 DEF EnvStates
  <2>3. QED BY <2>2 DEF a, r, u
<1> HIDE DEF s, l
<1>1. /\ s.chains = c.to /\ s.archive = Admit(env.archive, c.to) /\ s.remaining = l
      /\ s.consumed = IF c.slot = 0 THEN env.consumed ELSE env.consumed \cup {c.slot}
      /\ s.restarts_left = IF c.op = "restart" THEN env.restarts_left - 1 ELSE env.restarts_left
  BY <1>0
<1>2. /\ env.archive \in Seq(Returnable) /\ env.remaining \in Ledgers
      /\ env.restarts_left \in 0 .. RestartAllowance
      /\ env.consumed \in SUBSET (1 .. RestartAllowance)
      /\ Len(env.archive) <= Protected + Capacity
      /\ mode = "improvement" => Len(env.archive) >= 1
      /\ \A i, j \in 1 .. Len(env.archive) : env.archive[i] = env.archive[j] => i = j
  BY DEF EnvStates, ArchiveOK
<1>3. /\ s.archive \in Seq(Returnable) /\ Len(s.archive) <= Protected + Capacity
      /\ Len(s.archive) >= Len(env.archive)
      /\ c.to \in Returnable => \E i \in 1 .. Len(s.archive) : s.archive[i] = c.to
      /\ \A i, j \in 1 .. Len(s.archive) : s.archive[i] = s.archive[j] => i = j
  <2>1. LET a == Admit(env.archive, c.to) IN
         /\ a \in Seq(Returnable) /\ Len(a) <= Protected + Capacity
         /\ Len(a) >= Len(env.archive)
         /\ c.to \in Returnable => \E i \in 1 .. Len(a) : a[i] = c.to
         /\ \A i, j \in 1 .. Len(a) : a[i] = a[j] => i = j
    BY <1>2, AdmitKeeps
  <2>2. QED BY <1>1, <2>1
<1>4. ArchiveOK(s)
  BY <1>1, <1>2, <1>3 DEF ArchiveOK
<1>5. l \in Ledgers /\ Fits(Reserve, l)
  <2>1. c.affected \in Nat /\ Fits(StepWork(c), Minus(env.remaining, Reserve))
    BY Constants DEF Selectable, Candidates, FreeBudget
  <2>2. StepWork(c) \in Ledgers
    BY <2>1 DEF StepWork, Work, Ledgers
  <2>3. Fits(Reserve, l) /\ l \in Vectors
    BY <1>2, <2>1, <2>2, Constants, LedgersAreVectors, MinusTyped, FitsSwap DEF l
  <2>4. QED
    BY <2>3, Constants, FitsNatural
<1>6. s.restarts_left \in 0 .. RestartAllowance
  BY <1>1, <1>2, Constants DEF Selectable
<1>7. s.consumed \in SUBSET (1 .. RestartAllowance)
  BY <1>1, <1>2 DEF Selectable
<1>8. s \in EnvStates
  BY <1>0, <1>1, <1>3, <1>5, <1>6, <1>7 DEF EnvStates, Selectable
<1>9. s.remaining.decisions = env.remaining.decisions - 1
  BY <1>1 DEF l, Minus, StepWork, Work
<1>10. QED
  BY <1>1, <1>4, <1>5, <1>8, <1>9 DEF Ready, s

(***************************************************************************)
(* The inductive invariant: every decision is prepared from a sound state. *)
(***************************************************************************)
Settled ==
  /\ ArchiveOK(env)
  /\ support # {}
  /\ \A c \in support : Selectable(c, env)
  /\ \A i \in 1 .. Len(env.archive) : env.archive[i] \in found
  /\ env.archive = <<>> => found = {}

EpisodeInv ==
  /\ EpisodeTypeOK /\ RestartsAccounted
  /\ IF outcome = "running" THEN Settled ELSE support = {}
  /\ outcome = "COMMIT" => answer \in found

\* What a reserve that covers COMMIT adds to it.
ReserveInv == CommitAffordable /\ outcome \notin PreparationEnds

\* What the history says of a state that is about to be prepared, and the restarts.
Recorded(s, history) ==
  /\ \A i \in 1 .. Len(s.archive) : s.archive[i] \in history
  /\ s.archive = <<>> => history = {}

Accounted(s) ==
  mode = "improvement" => Cardinality(s.consumed) + s.restarts_left = RestartAllowance

\* What every reset and every step of the search ends in.
LEMMA PrepareSound ==
  ASSUME mode \in Modes, NEW s, Ready(s), Prepare(s)
  PROVE  /\ \E ledger \in Ledgers : /\ env' = [s EXCEPT !.remaining = ledger]
                                    /\ ledger.decisions = s.remaining.decisions
         /\ \/ /\ outcome' = "running" /\ support' # {}
               /\ \A c \in support' : Selectable(c, env')
            \/ outcome' \in PreparationEnds /\ support' = {}
<1>1. PICK o \in Offers(s) : LET p == Prepared(s, o) IN
              env' = p.env /\ support' = p.support /\ outcome' = p.outcome
  BY DEF Prepare
<1> DEFINE p == Prepared(s, o)
<1>2. /\ \E ledger \in Ledgers : /\ p.env = [s EXCEPT !.remaining = ledger]
                                 /\ ledger.decisions = s.remaining.decisions
      /\ \/ /\ p.outcome = "running" /\ p.support # {}
            /\ \A c \in p.support : Selectable(c, p.env)
         \/ p.outcome \in PreparationEnds /\ p.support = {}
  BY PreparedSound
<1>3. env' = p.env /\ support' = p.support /\ outcome' = p.outcome
  BY <1>1
<1> HIDE DEF p
<1>4. QED
  BY <1>2, <1>3

LEMMA PrepareRuns ==
  ASSUME mode \in Modes, ReserveCoversCommit, NEW s, Ready(s), Prepare(s)
  PROVE  outcome' = "running" /\ \A i \in 1 .. Len(s.archive) : Commit(i) \in support'
<1>1. PICK o \in Offers(s) :
        support' = Prepared(s, o).support /\ outcome' = Prepared(s, o).outcome
  BY DEF Prepare
<1>2. QED
  BY <1>1, PreparedRuns

\* A preparation from a ready state re-establishes the invariant.
LEMMA PreparedInv ==
  ASSUME mode \in Modes, mode' = mode, NEW s, Ready(s), Prepare(s),
         answer' \in Returnable \cup {NoEmbedding}, found' \subseteq Returnable,
         Recorded(s, found'), Accounted(s)
  PROVE  EpisodeInv'
<1>1. PICK ledger \in Ledgers : env' = [s EXCEPT !.remaining = ledger]
  BY PrepareSound
<1>2. \/ /\ outcome' = "running" /\ support' # {}
         /\ \A c \in support' : Selectable(c, env')
      \/ outcome' \in PreparationEnds /\ support' = {}
  BY PrepareSound
<1>3. /\ env'.chains = s.chains /\ env'.archive = s.archive
      /\ env'.consumed = s.consumed /\ env'.restarts_left = s.restarts_left
      /\ env' \in EnvStates
  BY <1>1 DEF Ready, EnvStates
<1>4. support' \subseteq Candidates
  BY <1>2 DEF Selectable
<1>5. EpisodeTypeOK'
  BY <1>2, <1>3, <1>4 DEF EpisodeTypeOK, EnvStates, PreparationEnds, Refusals
<1>6. RestartsAccounted'
  BY <1>3 DEF RestartsAccounted, Accounted
<1>7. CASE outcome' = "running"
  <2>1. ArchiveOK(env)'
    BY <1>3 DEF Ready, ArchiveOK, Protected, Capacity
  <2>2. support' # {} /\ \A c \in support' : Selectable(c, env')
    BY <1>2, <1>7 DEF PreparationEnds
  <2>3. (\A c \in support : Selectable(c, env))'
    <3>1. ASSUME NEW c \in support' PROVE Selectable(c, env)'
      BY <2>2 DEF Selectable
    <3>2. QED BY <3>1
  <2>4. Settled'
    BY <1>3, <2>1, <2>2, <2>3 DEF Settled, Recorded
  <2>5. QED
    BY <1>5, <1>6, <1>7, <2>4 DEF EpisodeInv
<1>8. CASE outcome' # "running"
  <2>1. outcome' \in PreparationEnds /\ support' = {}
    BY <1>2, <1>8
  <2>2. QED
    BY <1>5, <1>6, <1>8, <2>1 DEF EpisodeInv, PreparationEnds
<1>9. QED BY <1>7, <1>8

LEMMA InitInv == Init => EpisodeInv
<1> SUFFICES ASSUME Init PROVE EpisodeInv
  OBVIOUS
<1>2. Fresh(Blank, <<>>, Zero) \in EnvStates
  BY FreshEmpty, ContextAssumption
<1>3. RestartsAccounted
  BY FS_EmptySet, Constants DEF Init, Fresh, RestartsAccounted
<1>4. QED
  BY <1>2, <1>3 DEF Init, EpisodeInv, EpisodeTypeOK, EnvStates

\* Where each operation of the episode starts its preparation.
LEMMA ResetPrepares ==
  ASSUME mode \in Modes, ResetConstruction \/ ResetImprovement
  PROVE  /\ mode' = mode /\ answer' = NoEmbedding
         /\ found' \in {{}} \cup {{e} : e \in Returnable}
         /\ \E s : Ready(s) /\ Prepare(s) /\ Recorded(s, found') /\ Accounted(s)
<1>1. CASE ResetConstruction
  <2>1. PICK e \in Embeddings \ Returnable :
          /\ mode = "construction" /\ found' = {} /\ answer' = NoEmbedding
          /\ Prepare(Fresh(e, <<>>, Zero)) /\ mode' = mode
    BY <1>1 DEF ResetConstruction
  <2> DEFINE s == Fresh(e, <<>>, Zero)
  <2>2. s \in EnvStates /\ Fits(Reserve, s.remaining)
    BY FreshEmpty
  <2>3. s.chains = e /\ s.archive = <<>>
    BY DEF Fresh
  <2>4. Prepare(s)
    BY <2>1
  <2> HIDE DEF s
  <2>5. Len(s.archive) = 0 /\ Protected + Capacity >= 0 /\ mode # "improvement"
    BY <2>1, <2>3, Room
  <2>6. Ready(s)
    BY <2>2, <2>3, <2>5 DEF Ready, ArchiveOK
  <2>7. Recorded(s, found') /\ Accounted(s)
    BY <2>1, <2>5 DEF Recorded, Accounted
  <2>8. QED
    BY <2>1, <2>4, <2>6, <2>7
<1>2. CASE ResetImprovement
  <2>1. PICK e \in Returnable, w \in Initializer :
          /\ mode = "improvement" /\ found' = {Fresh(e, <<e>>, InitWork(w)).chains}
          /\ answer' = NoEmbedding
          /\ Prepare(Fresh(e, <<e>>, InitWork(w))) /\ mode' = mode
    BY <1>2 DEF ResetImprovement
  <2> DEFINE s == Fresh(e, <<e>>, InitWork(w))
  <2>2. e \in Embeddings /\ <<e>> \in Seq(Returnable)
        /\ Fits(Reserve, Minus(Minus(Caps, Debit), InitWork(w)))
    BY <2>1, ContextAssumption
  <2>3. s \in EnvStates /\ Fits(Reserve, s.remaining)
    BY <2>2, FreshReady
  <2>4. s.chains = e /\ s.archive = <<e>> /\ s.consumed = {} /\ s.restarts_left = RestartAllowance
    BY DEF Fresh
  <2>5. Prepare(s) /\ found' = {s.chains}
    BY <2>1
  <2> HIDE DEF s
  <2>6. Len(s.archive) = 1 /\ s.archive[1] = e /\ s.archive # <<>>
    BY <2>4
  <2>7. Ready(s)
    <3>1. Len(s.archive) <= Protected + Capacity /\ Len(s.archive) >= 1
      BY <2>6, Room
    <3>2. \E i \in 1 .. Len(s.archive) : s.archive[i] = s.chains
      BY <2>4, <2>6
    <3>3. \A i, j \in 1 .. Len(s.archive) : s.archive[i] = s.archive[j] => i = j
      BY <2>6
    <3>4. QED BY <2>3, <3>1, <3>2, <3>3 DEF Ready, ArchiveOK
  <2>8. Accounted(s)
    BY <2>4, FS_EmptySet, Constants DEF Accounted
  <2>9. Recorded(s, found')
    BY <2>4, <2>5, <2>6 DEF Recorded
  <2>10. found' \in {{}} \cup {{x} : x \in Returnable}
    BY <2>4, <2>5
  <2>11. QED
    BY <2>1, <2>5, <2>7, <2>8, <2>9, <2>10
<1>3. QED BY <1>1, <1>2

LEMMA SearchPrepares ==
  ASSUME EpisodeInv, StepSearch
  PROVE  /\ mode' = mode /\ answer' = answer /\ outcome = "running"
         /\ found' \in {found} \cup {found \cup {e} : e \in Returnable}
         /\ \E s : /\ Ready(s) /\ Prepare(s) /\ Recorded(s, found') /\ Accounted(s)
                   /\ mode = "improvement" => s.archive[1] = env.archive[1]
                   /\ s.remaining.decisions = env.remaining.decisions - 1
<1>0. mode \in Modes /\ env \in EnvStates
  BY DEF EpisodeInv, EpisodeTypeOK, EnvStates
<1>1. PICK c \in support : /\ c.op \in {"move", "restart"} /\ Prepare(Applied(c))
                           /\ found' = found \cup ({Applied(c).chains} \cap Returnable)
                           /\ mode' = mode /\ answer' = answer
  BY DEF StepSearch
<1> DEFINE s == Applied(c)
<1>2. outcome = "running" /\ Settled
  BY <1>1 DEF EpisodeInv
<1>3. Selectable(c, env) /\ ArchiveOK(env)
  BY <1>1, <1>2 DEF Settled
<1>4. /\ Ready(s) /\ s.chains = c.to /\ s.archive = Admit(env.archive, c.to)
      /\ s.consumed = IF c.slot = 0 THEN env.consumed ELSE env.consumed \cup {c.slot}
      /\ s.restarts_left = IF c.op = "restart" THEN env.restarts_left - 1
                           ELSE env.restarts_left
      /\ s.remaining.decisions = env.remaining.decisions - 1
  BY <1>0, <1>1, <1>3, AppliedReady
<1>5. Prepare(s) /\ found' = found \cup ({c.to} \cap Returnable)
  <2>1. Prepare(s) /\ found' = found \cup ({s.chains} \cap Returnable)
    BY <1>1
  <2> HIDE DEF s
  <2>2. QED BY <1>4, <2>1
<1> HIDE DEF s
<1>6. /\ Len(s.archive) >= Len(env.archive)
      /\ c.to \in Returnable => Len(s.archive) >= 1
      /\ \A i \in 1 .. Len(s.archive) :
           s.archive[i] = c.to \/ \E j \in 1 .. Len(env.archive) : s.archive[i] = env.archive[j]
      /\ mode = "improvement" => s.archive[1] = env.archive[1]
      /\ s.archive \in Seq(Returnable) /\ env.archive \in Seq(Returnable)
  <2>1. /\ env.archive \in Seq(Returnable) /\ Len(env.archive) <= Protected + Capacity
        /\ mode = "improvement" => Len(env.archive) >= 1
    BY <1>0, <1>3 DEF EnvStates, ArchiveOK
  <2>2. LET a == Admit(env.archive, c.to) IN
          /\ Len(a) >= Len(env.archive)
          /\ c.to \in Returnable => Len(a) >= 1
          /\ \A i \in 1 .. Len(a) :
               a[i] = c.to \/ \E j \in 1 .. Len(env.archive) : a[i] = env.archive[j]
          /\ mode = "improvement" => a[1] = env.archive[1]
          /\ a \in Seq(Returnable)
    <3>1. LET a == Admit(env.archive, c.to) IN
            /\ a \in Seq(Returnable) /\ Len(a) <= Protected + Capacity
            /\ Len(a) >= Len(env.archive)
            /\ c.to \in Returnable => Len(a) >= 1 /\ \E i \in 1 .. Len(a) : a[i] = c.to
            /\ \A i \in 1 .. Len(a) :
                 a[i] = c.to \/ \E j \in 1 .. Len(env.archive) : a[i] = env.archive[j]
            /\ mode = "improvement" => a[1] = env.archive[1]
            /\ (\A i, j \in 1 .. Len(env.archive) : env.archive[i] = env.archive[j] => i = j)
                  => \A i, j \in 1 .. Len(a) : a[i] = a[j] => i = j
      BY <1>0, <2>1, AdmitKeeps, Zenon
    <3>2. QED BY <3>1, Zenon
  <2>3. QED BY <1>4, <2>1, <2>2
<1>7. \A i \in 1 .. Len(s.archive) : s.archive[i] \in found'
  <2>1. \A i \in 1 .. Len(s.archive) : s.archive[i] \in Returnable
    BY <1>6
  <2>2. QED BY <1>2, <1>5, <1>6, <2>1 DEF Settled
<1>8. s.archive = <<>> => found' = {}
  <2> SUFFICES ASSUME s.archive = <<>> PROVE found' = {}
    OBVIOUS
  <2>1. Len(s.archive) = 0
    OBVIOUS
  <2>2. c.to \notin Returnable /\ Len(env.archive) = 0
    BY <1>6, <2>1
  <2>3. env.archive = <<>>
    BY <1>6, <2>2
  <2>4. QED BY <1>2, <1>5, <2>2, <2>3 DEF Settled
<1>9. Accounted(s)
  <2> SUFFICES ASSUME mode = "improvement"
               PROVE  Cardinality(s.consumed) + s.restarts_left = RestartAllowance
    BY DEF Accounted
  <2>1. Cardinality(env.consumed) + env.restarts_left = RestartAllowance
    BY DEF EpisodeInv, RestartsAccounted
  <2>2. CASE c.op = "move"
    BY <1>3, <1>4, <2>1, <2>2 DEF Selectable
  <2>3. CASE c.op = "restart"
    <3>1. c.slot \in (1 .. RestartAllowance) \ env.consumed /\ c.slot # 0
      BY <1>3, <2>3, Constants DEF Selectable
    <3>2. env.consumed \in SUBSET (1 .. RestartAllowance) /\ env.restarts_left \in Int
      BY <1>0, Constants DEF EnvStates
    <3>3. /\ Cardinality(env.consumed \cup {c.slot}) = Cardinality(env.consumed) + 1
          /\ Cardinality(env.consumed) \in Nat
      BY <3>1, <3>2, Constants, CountOne
    <3>4. s.consumed = env.consumed \cup {c.slot} /\ s.restarts_left = env.restarts_left - 1
      BY <1>4, <2>3, <3>1
    <3>5. QED BY <2>1, <3>2, <3>3, <3>4, Constants
  <2>4. QED BY <1>1, <2>2, <2>3
<1>10. found' \in {found} \cup {found \cup {e} : e \in Returnable}
  <2>1. CASE c.to \in Returnable
    BY <1>5, <2>1
  <2>2. CASE c.to \notin Returnable
    BY <1>5, <2>2
  <2>3. QED BY <2>1, <2>2
<1>11. Recorded(s, found')
  BY <1>7, <1>8 DEF Recorded
<1>12. QED
  BY <1>1, <1>2, <1>4, <1>5, <1>6, <1>9, <1>10, <1>11

\* COMMIT returns an entry of the archive and spends one decision; STOP needs an empty one.
LEMMA CommitEnds ==
  ASSUME EpisodeInv, StepCommit
  PROVE  /\ outcome = "running" /\ outcome' = "COMMIT" /\ support' = {}
         /\ mode' = mode /\ found' = found /\ answer' \in found
         /\ \E l \in Ledgers : /\ env' = [env EXCEPT !.remaining = l]
                               /\ l.decisions = env.remaining.decisions - 1
<1>0. env \in EnvStates
  BY DEF EpisodeInv, EpisodeTypeOK, EnvStates
<1>1. PICK c \in support, reads \in {0, RewardReads} :
        /\ c.op = "commit"
        /\ env' = [env EXCEPT !.remaining = Minus(@, [CommitWork EXCEPT !.reads = reads])]
        /\ outcome' = "COMMIT" /\ answer' = env.archive[c.slot] /\ support' = {}
        /\ mode' = mode /\ found' = found
  BY DEF StepCommit
<1>2. outcome = "running" /\ Settled
  BY <1>1 DEF EpisodeInv
<1>3. Fits(CommitWork, env.remaining) /\ c.slot \in 1 .. Len(env.archive)
  BY <1>1, <1>2 DEF Settled, Selectable
<1> DEFINE w == [CommitWork EXCEPT !.reads = reads]
           l == Minus(env.remaining, w)
<1>4. w = Work(1, 0, 4, 1, reads, 4) /\ reads \in Nat /\ reads <= RewardReads
  BY Constants DEF CommitWork, Work
<1>5. env.remaining \in Ledgers
  BY <1>0 DEF EnvStates
<1> HIDE DEF w
<1>6. w \in Ledgers /\ Fits(w, env.remaining)
  <2>1. w \in Ledgers
    BY <1>4 DEF Work, Ledgers
  <2>2. Fits(Work(1, 0, 4, 1, RewardReads, 4), env.remaining)
    BY <1>3 DEF CommitWork
  <2>3. env.remaining.reads \in Nat
    BY <1>5, LedgerFields
  <2>4. Fits(Work(1, 0, 4, 1, reads, 4), env.remaining)
    BY <1>4, <2>2, <2>3, Constants DEF Fits, Work
  <2>5. QED BY <1>4, <2>1, <2>4
<1>7. l \in Ledgers
  <2>1. Fits(Zero, l) /\ l \in Vectors /\ Zero \in Ledgers
    BY <1>5, <1>6 DEF Fits, Minus, Zero, Work, Ledgers, Vectors
  <2> HIDE DEF l
  <2>2. QED BY <2>1, FitsNatural
<1>8. l.decisions = env.remaining.decisions - 1
  BY <1>4 DEF Minus, Work
<1>9. env' = [env EXCEPT !.remaining = l]
  BY <1>1 DEF w
<1> HIDE DEF l
<1>10. answer' \in found
  BY <1>1, <1>2, <1>3 DEF Settled
<1>11. QED
  BY <1>1, <1>2, <1>7, <1>8, <1>9, <1>10

LEMMA StopEnds ==
  ASSUME EpisodeInv, StepStop
  PROVE  /\ outcome = "running" /\ outcome' = "STOP_NO_VALID" /\ support' = {}
         /\ mode' = mode /\ found' = found /\ answer' = answer
         /\ found = {} /\ env.archive = <<>>
         /\ \E l \in Ledgers : /\ env' = [env EXCEPT !.remaining = l]
                               /\ l.decisions = env.remaining.decisions - 1
<1>0. env \in EnvStates
  BY DEF EpisodeInv, EpisodeTypeOK, EnvStates
<1>1. outcome = "running" /\ Settled /\ Selectable(Stop, env)
  BY DEF StepStop, EpisodeInv, Settled
<1>2. /\ env.archive = <<>> /\ env.remaining.decisions >= 1 /\ env.remaining \in Ledgers
  BY <1>0, <1>1 DEF Selectable, Stop, EnvStates
<1> DEFINE l == [env.remaining EXCEPT !.decisions = @ - 1]
<1>3. l \in Ledgers /\ l.decisions = env.remaining.decisions - 1
  BY <1>2 DEF Ledgers
<1>4. env' = [env EXCEPT !.remaining = l]
  BY <1>0 DEF StepStop, EnvStates
<1>5. found = {}
  BY <1>1, <1>2 DEF Settled
<1>6. QED
  BY <1>1, <1>2, <1>3, <1>4, <1>5 DEF StepStop

LEMMA StepInv == ASSUME EpisodeInv, [Next]_vars
                 PROVE  EpisodeInv'
<1>0. mode \in Modes /\ env \in EnvStates /\ found \subseteq Returnable
      /\ answer \in Returnable \cup {NoEmbedding}
  BY DEF EpisodeInv, EpisodeTypeOK, EnvStates
<1>1. CASE ResetConstruction \/ ResetImprovement
  <2>1. /\ mode' = mode /\ answer' = NoEmbedding
        /\ found' \in {{}} \cup {{e} : e \in Returnable}
    BY <1>0, <1>1, ResetPrepares
  <2>2. PICK s : Ready(s) /\ Prepare(s) /\ Recorded(s, found') /\ Accounted(s)
    BY <1>0, <1>1, ResetPrepares
  <2>3. found' \subseteq Returnable
    BY <2>1
  <2>4. QED
    BY <1>0, <2>1, <2>2, <2>3, PreparedInv
<1>2. CASE InitializerFails
  BY <1>0, <1>2 DEF InitializerFails, EpisodeInv, EpisodeTypeOK, RestartsAccounted, Refusals
<1>8. CASE ResetRejected
  <2>1. /\ mode = "construction" /\ mode' = mode /\ outcome' = "START_REJECTED"
        /\ support' = {} /\ found' = {} /\ answer' = NoEmbedding
    BY <1>8 DEF ResetRejected
  <2>2. env' \in EnvStates
    <3>1. \A e \in Returnable : Fresh(e, <<>>, Zero) \in EnvStates
      BY FreshEmpty, ContextAssumption
    <3>2. QED
      BY <1>0, <1>8, <3>1 DEF ResetRejected
  <2>3. QED
    BY <1>0, <2>1, <2>2 DEF EpisodeInv, EpisodeTypeOK, EnvStates, RestartsAccounted, Refusals
<1>3. CASE StepSearch
  <2>1. /\ mode' = mode /\ answer' = answer
        /\ found' \in {found} \cup {found \cup {e} : e \in Returnable}
    BY <1>3, SearchPrepares
  <2>2. PICK s : Ready(s) /\ Prepare(s) /\ Recorded(s, found') /\ Accounted(s)
    BY <1>3, SearchPrepares
  <2>3. found' \subseteq Returnable
    BY <1>0, <2>1
  <2>4. QED
    BY <1>0, <2>1, <2>2, <2>3, PreparedInv
<1>4. CASE StepCommit
  <2>1. /\ outcome' = "COMMIT" /\ support' = {} /\ mode' = mode /\ found' = found
        /\ answer' \in found
    BY <1>4, CommitEnds
  <2>2. PICK l \in Ledgers : env' = [env EXCEPT !.remaining = l]
    BY <1>4, CommitEnds
  <2>3. env' \in EnvStates /\ env'.consumed = env.consumed
        /\ env'.restarts_left = env.restarts_left
    BY <1>0, <2>2 DEF EnvStates
  <2>4. QED
    BY <1>0, <2>1, <2>3 DEF EpisodeInv, EpisodeTypeOK, RestartsAccounted, EnvStates
<1>5. CASE StepStop
  <2>1. /\ outcome' = "STOP_NO_VALID" /\ support' = {} /\ mode' = mode /\ found' = found
        /\ answer' = answer
    BY <1>5, StopEnds
  <2>2. PICK l \in Ledgers : env' = [env EXCEPT !.remaining = l]
    BY <1>5, StopEnds
  <2>3. env' \in EnvStates /\ env'.consumed = env.consumed
        /\ env'.restarts_left = env.restarts_left
    BY <1>0, <2>2 DEF EnvStates
  <2>4. QED
    BY <1>0, <2>1, <2>3 DEF EpisodeInv, EpisodeTypeOK, RestartsAccounted, EnvStates, Refusals
<1>6. CASE UNCHANGED vars
  BY <1>6 DEF vars, EpisodeInv, EpisodeTypeOK, RestartsAccounted, Settled, ArchiveOK,
              Selectable, Protected, Capacity
<1>7. QED
  BY <1>1, <1>2, <1>3, <1>4, <1>5, <1>6, <1>8 DEF Next, Reset, Step

LEMMA ReserveStep == ASSUME ReserveCoversCommit, EpisodeInv, ReserveInv, [Next]_vars
                     PROVE  ReserveInv'
<1>0. mode \in Modes
  BY DEF EpisodeInv, EpisodeTypeOK
<1>1. ASSUME NEW s, Ready(s), Prepare(s) PROVE ReserveInv'
  <2>1. outcome' = "running" /\ \A i \in 1 .. Len(s.archive) : Commit(i) \in support'
    BY <1>0, <1>1, PrepareRuns
  <2>2. PICK ledger \in Ledgers : env' = [s EXCEPT !.remaining = ledger]
    BY <1>0, <1>1, PrepareSound
  <2>3. env'.archive = s.archive
    BY <1>1, <2>2 DEF Ready, EnvStates
  <2>4. QED
    BY <2>1, <2>3 DEF ReserveInv, CommitAffordable, PreparationEnds
<1>2. CASE ResetConstruction \/ ResetImprovement
  BY <1>0, <1>1, <1>2, ResetPrepares
<1>3. CASE InitializerFails \/ ResetRejected
  BY <1>3 DEF InitializerFails, ResetRejected, ReserveInv, CommitAffordable, PreparationEnds
<1>4. CASE StepSearch
  BY <1>1, <1>4, SearchPrepares
<1>5. CASE StepCommit
  BY <1>5 DEF StepCommit, ReserveInv, CommitAffordable, PreparationEnds
<1>6. CASE StepStop
  BY <1>6 DEF StepStop, ReserveInv, CommitAffordable, PreparationEnds
<1>7. CASE UNCHANGED vars
  BY <1>7 DEF vars, ReserveInv, CommitAffordable, PreparationEnds
<1>8. QED
  BY <1>2, <1>3, <1>4, <1>5, <1>6, <1>7 DEF Next, Reset, Step

\* Steps of a running episode.
LEMMA RunningStep ==
  ASSUME EpisodeInv, outcome = "running", [Next]_vars, ~UNCHANGED vars
  PROVE  /\ env'.remaining.decisions = env.remaining.decisions - 1
         /\ mode = "improvement" => env'.archive[1] = env.archive[1]
<1>0. env \in EnvStates /\ mode \in Modes
  BY DEF EpisodeInv, EpisodeTypeOK, EnvStates
<1>1. StepSearch \/ StepCommit \/ StepStop
  BY DEF Next, Reset, Step
<1>2. CASE StepSearch
  <2>1. PICK s : /\ Ready(s) /\ Prepare(s)
                 /\ mode = "improvement" => s.archive[1] = env.archive[1]
                 /\ s.remaining.decisions = env.remaining.decisions - 1
    BY <1>2, SearchPrepares
  <2>2. PICK ledger \in Ledgers : /\ env' = [s EXCEPT !.remaining = ledger]
                                  /\ ledger.decisions = s.remaining.decisions
    BY <1>0, <2>1, PrepareSound
  <2>3. env'.archive = s.archive /\ env'.remaining = ledger
    BY <2>1, <2>2 DEF Ready, EnvStates
  <2>4. QED BY <2>1, <2>2, <2>3
<1>3. CASE StepCommit \/ StepStop
  <2>1. PICK l \in Ledgers : /\ env' = [env EXCEPT !.remaining = l]
                             /\ l.decisions = env.remaining.decisions - 1
    BY <1>3, CommitEnds, StopEnds
  <2>2. QED BY <1>0, <2>1 DEF EnvStates
<1>4. QED BY <1>1, <1>2, <1>3

(***************************************************************************)
(* The theorems.                                                           *)
(***************************************************************************)
LEMMA Invariance == Spec => []EpisodeInv
<1>1. EpisodeInv /\ [Next]_vars => EpisodeInv'
  BY StepInv
<1>2. QED
  BY <1>1, InitInv, PTL DEF Spec

LEMMA ReserveInvariance == ASSUME ReserveCoversCommit PROVE Spec => []ReserveInv
<1>1. Init => ReserveInv
  BY DEF Init, ReserveInv, CommitAffordable, PreparationEnds
<1>2. EpisodeInv /\ ReserveInv /\ [Next]_vars => ReserveInv'
  BY ReserveStep
<1>3. QED
  BY <1>1, <1>2, Invariance, PTL DEF Spec

\* The context asks for 32 features per commit row and qubit: one qubit beyond the
\* variables already covers the features of COMMIT, and only a cap without slack does not.
LEMMA SpareQubitCoversCommit ==
  ASSUME Variables < QubitCap, Reserve.decisions >= 1, Reserve.validator >= 1
  PROVE  ReserveCoversCommit
<1>1. Reserve.feature >= 32 * (MaxCommit + QubitCap) /\ Reserve.feature \in Nat
  BY ContextAssumption, Constants, LedgerFields
<1>2. QED
  BY <1>1, Constants DEF ReserveCoversCommit

\* The ledger of an episode never goes below zero, nor does anything else leave its type,
\* for every context that the code accepts (env.py: every charge of reset, _prepare and
\* step).
THEOREM EpisodeTyped == Spec => []EpisodeTypeOK
<1>1. EpisodeInv => EpisodeTypeOK
  BY DEF EpisodeInv
<1>2. QED
  BY <1>1, Invariance, PTL

\* The workspace of a decision is in the archive whenever it validates, for every archive
\* capacity and every order of admissions (_admit).
THEOREM ValidWorkspaceIsArchived == Spec => []ValidWorkspaceArchived
<1>1. EpisodeInv => ValidWorkspaceArchived
  <2>1. EpisodeInv => env.archive \in Seq(Returnable)
    BY DEF EpisodeInv, EpisodeTypeOK
  <2>2. EpisodeInv /\ outcome = "running" => ArchiveOK(env)
    BY DEF EpisodeInv, Settled
  <2>3. QED
    BY <2>1, <2>2 DEF ValidWorkspaceArchived, ArchiveOK
<1>2. QED
  BY <1>1, Invariance, PTL

\* At every decision the archive is what _assert_search_state demands: within its
\* capacity, no entry twice, all found in this episode, never empty for an improvement.
ArchiveSound ==
  outcome = "running" =>
    /\ Len(env.archive) <= Protected + Capacity
    /\ \A i, j \in 1 .. Len(env.archive) : env.archive[i] = env.archive[j] => i = j
    /\ \A i \in 1 .. Len(env.archive) : env.archive[i] \in found
    /\ mode = "improvement" => env.archive # <<>>

\* That check never fires, for every capacity and every order of admissions, so that the
\* fast path may skip it (_admit, _assert_search_state).
THEOREM ArchiveStaysSound == Spec => []ArchiveSound
<1>1. EpisodeInv => ArchiveSound
  BY DEF EpisodeInv, Settled, ArchiveOK, ArchiveSound
<1>2. QED
  BY <1>1, Invariance, PTL

\* The embedding an improvement was given stays the first of its archive until the episode
\* ends, for every capacity and every order of admissions (_admit).
THEOREM InitialIsKept == Spec => InitialStaysFirst
<1>1. EpisodeInv /\ [Next]_vars
        => [mode = "improvement" /\ outcome = "running" => env'.archive[1] = env.archive[1]]_vars
  BY RunningStep
<1>2. QED
  BY <1>1, Invariance, PTL DEF Spec, InitialStaysFirst

\* No slot of the restart cache is lost or used twice, for every cache and allowance.
THEOREM RestartsStayAccounted == Spec => []RestartsAccounted
<1>1. EpisodeInv => RestartsAccounted
  BY DEF EpisodeInv
<1>2. QED
  BY <1>1, Invariance, PTL

\* What an episode returns it has found valid itself, whatever its reserve (_commit).
ReturnsOnlyFound == outcome = "COMMIT" => answer \in found

\* No answer comes from anywhere but the search: this half of the contract needs no
\* assumption on the reserve.
THEOREM AnswersWereFound == Spec => []ReturnsOnlyFound
<1>1. EpisodeInv => ReturnsOnlyFound
  BY DEF EpisodeInv, ReturnsOnlyFound
<1>2. QED
  BY <1>1, Invariance, PTL

\* Every step of a running episode has a candidate to select, spends exactly one decision
\* and leaves a number of them that is not negative.
EpisodeAdvances ==
  [][outcome = "running" =>
       /\ support # {} /\ env.remaining.decisions \in Nat /\ env'.remaining.decisions \in Nat
       /\ env'.remaining.decisions = env.remaining.decisions - 1]_vars

\* No episode outlasts its decisions or gets stuck before they are spent, whatever the
\* policy selects: what EpisodeEnds needs beside the fairness of the caller.
THEOREM EveryStepSpendsADecision == Spec => EpisodeAdvances
<1>1. EpisodeInv => env.remaining.decisions \in Nat
  BY LedgerFields DEF EpisodeInv, EpisodeTypeOK
<1>2. EpisodeInv /\ outcome = "running" => support # {}
  BY DEF EpisodeInv, Settled
<1>3. EpisodeInv' => env'.remaining.decisions \in Nat
  BY LedgerFields DEF EpisodeInv, EpisodeTypeOK
<1>4. EpisodeInv /\ EpisodeInv' /\ [Next]_vars =>
        [outcome = "running" =>
           /\ support # {} /\ env.remaining.decisions \in Nat /\ env'.remaining.decisions \in Nat
           /\ env'.remaining.decisions = env.remaining.decisions - 1]_vars
  BY <1>1, <1>2, <1>3, RunningStep
<1>5. QED
  BY <1>4, Invariance, PTL DEF Spec, EpisodeAdvances

\* At every decision each archived embedding can still be committed, for all caps and every
\* reserve that holds what COMMIT is charged: what _prepare charges never reaches that part.
THEOREM CommitStaysAffordable == ASSUME ReserveCoversCommit PROVE Spec => []CommitAffordable
<1>1. ReserveInv => CommitAffordable
  BY DEF ReserveInv
<1>2. QED
  BY <1>1, ReserveInvariance, PTL

\* A reserve that holds what COMMIT is charged is all it takes: then no episode that holds
\* an archived embedding is refused for want of budget.  That is not every context: the code
\* accepts a reserve without the validator call, or without the four features, and then an
\* episode may be refused with an archive it cannot commit (_prepare, _is_legal_terminal).
THEOREM ReserveProtectsArchive ==
  ASSUME ReserveCoversCommit PROVE Spec => []ArchiveNeverRefused
<1>1. ReserveInv => ArchiveNeverRefused
  BY DEF ReserveInv, ArchiveNeverRefused, PreparationEnds
<1>2. QED
  BY <1>1, ReserveInvariance, PTL

LEMMA ContractStep ==
  ASSUME EpisodeInv, EpisodeInv', ReserveInv', [Next]_vars
  PROVE  [Contract!Next]_(Contract!vars)
<1>0. mode \in Modes /\ outcome' \notin PreparationEnds
  BY DEF EpisodeInv, EpisodeTypeOK, ReserveInv
<1>1. ASSUME NEW s, Ready(s), Prepare(s) PROVE outcome' = "running"
  BY <1>0, <1>1, PrepareSound
<1>2. CASE ResetConstruction \/ ResetImprovement
  <2>1. answer' = NoEmbedding /\ found' \in {{}} \cup {{e} : e \in Returnable}
        /\ outcome' = "running"
    BY <1>0, <1>1, <1>2, ResetPrepares
  <2>2. Contract!Begin
    BY <2>1 DEF Contract!Begin
  <2>3. QED BY <2>2 DEF Contract!Next
<1>3. CASE InitializerFails \/ ResetRejected
  <2>1. Contract!Begin
    BY <1>3 DEF InitializerFails, ResetRejected, Contract!Begin, Refusals
  <2>2. QED BY <2>1 DEF Contract!Next
<1>4. CASE StepSearch
  <2>1. /\ answer' = answer /\ outcome = "running" /\ outcome' = "running"
        /\ found' \in {found} \cup {found \cup {e} : e \in Returnable}
    BY <1>1, <1>4, SearchPrepares
  <2>2. Contract!Search
    BY <2>1 DEF Contract!Search
  <2>3. QED BY <2>2 DEF Contract!Next
<1>5. CASE StepCommit
  <2>1. outcome = "running" /\ outcome' = "COMMIT" /\ found' = found /\ answer' \in found
    BY <1>5, CommitEnds
  <2>2. Contract!Return
    BY <2>1 DEF Contract!Return
  <2>3. QED BY <2>2 DEF Contract!Next
<1>6. CASE StepStop
  <2>1. /\ outcome = "running" /\ outcome' = "STOP_NO_VALID" /\ found' = found
        /\ found = {} /\ answer' = answer
    BY <1>6, StopEnds
  <2>2. Contract!Search
    BY <2>1 DEF Contract!Search, Refusals
  <2>3. QED BY <2>2 DEF Contract!Next
<1>7. CASE UNCHANGED vars
  BY <1>7 DEF vars, Contract!vars
<1>8. QED
  BY <1>2, <1>3, <1>4, <1>5, <1>6, <1>7 DEF Next, Reset, Step

\* With such a reserve every episode implements its contract: it returns only what it has
\* found valid itself, refuses only empty-handed, and never ends in an integrity error.
THEOREM EpisodeImplementsContract ==
  ASSUME ReserveCoversCommit PROVE Spec => MeetsEpisodeContract
<1>1. Init => Contract!Init
  BY DEF Init, Contract!Init
<1>2. EpisodeInv /\ EpisodeInv' /\ ReserveInv' /\ [Next]_vars
        => [Contract!Next]_(Contract!vars)
  BY ContractStep
<1>3. QED
  BY <1>1, <1>2, Invariance, ReserveInvariance, PTL DEF Spec, Contract!Spec, MeetsEpisodeContract
=============================================================================
