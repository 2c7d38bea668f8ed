----------------------- MODULE ExternalAttempt_proofs ------------------------
(***************************************************************************)
(* Proofs about ExternalAttempt for any restarts, caps and ranking order.  *)
(* Conversation says how much of one question and its answer is where:     *)
(* never more than one is open, so that what is read answers what was      *)
(* asked.  Books says what the counters owe to the rows, so that the       *)
(* receipt, which counts the rows again, accepts them.                     *)
(***************************************************************************)
EXTENDS ExternalAttempt, TLAPS, FiniteSetTheorems, WellFoundedInduction

-----------------------------------------------------------------------------
(* The invariant                                                           *)

Silent == down = <<>> /\ up = <<>>
Gone == Silent /\ worker.at = "dead"
Quiet == Silent /\ worker.at \in {"idle", "dead"}

Opening ==
    /\ down = <<>>
    /\ worker.at \in {"starting", "idle", "dead"}
    /\ worker.at = "starting" => up = <<>>

(* The question is in the pipe, with the worker, or answered.              *)
Asking ==
    LET k == Restarts + 1 IN
    \/ down = <<k>> /\ up = <<>> /\ worker.at \in {"idle", "dead"}
    \/ down = <<>> /\ up = <<>> /\ worker.at \in {"busy", "dead"} /\ worker.of = k
    \/ down = <<>> /\ Len(up) = 1 /\ up[1].of = k /\ worker.at \in {"idle", "dead"}

Ending ==
    /\ parent.after \in {"loop", "outcome", "raised"}
    /\ \/ Len(down) <= 1 /\ (\A i \in 1 .. Len(down) : down[i] = StopCommand)
          /\ (worker.at \in {"starting", "busy"} => up = <<>>)
       \/ Len(down) \in {1, 2} /\ (Len(down) = 2 => down[2] = StopCommand)
          /\ up = <<>> /\ worker.at \in {"idle", "dead"}

Conversation ==
    /\ At("open") => Opening
    /\ parent.at \in {"loop", "got", "raised"} => Quiet
    /\ At("asked") => Asking
    /\ At("joining") => Ending
    /\ parent.at \in {"outcome", "done", "refused"} => Gone

Room ==
    parent.at \in {"asked", "got"} => Restarts + 1 <= RestartCap /\ Restarts + 1 <= caps.restarts

Books ==
    LET rows == ledger.restarts IN
    /\ Restarts <= caps.restarts
    /\ ledger.validators = Cardinality(Screened(rows))
                              + (IF quality THEN Cardinality(Scored(rows)) ELSE 0)
    /\ ledger.validators <= caps.validators
    /\ ledger.compilers = IF quality THEN 4 * Cardinality(Scored(rows)) ELSE 0
    /\ ledger.compilers <= caps.compilers
    /\ ~quality => Scored(rows) = {}
    /\ quality /\ Scored(rows) # Valid(rows) => ledger.work_cap_failure

AttemptInv ==
    /\ AttemptTypeOK
    /\ Conversation
    /\ AnswersMatch
    /\ Room
    /\ Books
    /\ ReceiptAccepted


-----------------------------------------------------------------------------
(* Rows                                                                    *)

LedgerType == [restarts : Seq(Rows), validators : Nat, compilers : Nat,
               work_cap_failure : BOOLEAN, startup_timeout : BOOLEAN]

\* The rows that count: finitely many, and one more with one more row.
LEMMA Counts ==
    ASSUME NEW rows \in Seq(Rows)
    PROVE  /\ IsFiniteSet(Screened(rows)) /\ IsFiniteSet(Scored(rows))
           /\ Cardinality(Screened(rows)) \in Nat /\ Cardinality(Scored(rows)) \in Nat
           /\ Valid(rows) \subseteq 1 .. Len(rows) /\ Scored(rows) \subseteq Valid(rows)
<1>1. Screened(rows) \subseteq 1 .. Len(rows) /\ Scored(rows) \subseteq 1 .. Len(rows)
  BY DEF Screened, Scored, Valid
<1>2. IsFiniteSet(1 .. Len(rows))
  BY FS_Interval
<1>3. IsFiniteSet(Screened(rows)) /\ IsFiniteSet(Scored(rows))
  BY <1>1, <1>2, FS_Subset
<1>4. QED
  BY <1>3, FS_CardinalityType DEF Valid, Scored

LEMMA OneMore ==
    ASSUME NEW rows \in Seq(Rows), NEW e \in Rows, NEW more, more = Append(rows, e)
    PROVE  /\ more \in Seq(Rows) /\ Len(more) = Len(rows) + 1
           /\ Screened(more) = Screened(rows) \cup
                (IF e.status \in {"VALID_CANDIDATE", "INVALID_CANDIDATE"} THEN {Len(more)} ELSE {})
           /\ Valid(more) = Valid(rows) \cup
                (IF e.status = "VALID_CANDIDATE" THEN {Len(more)} ELSE {})
           /\ Scored(more) = Scored(rows) \cup
                (IF e.status = "VALID_CANDIDATE" /\ e.scored THEN {Len(more)} ELSE {})
           /\ Cardinality(Screened(more)) = Cardinality(Screened(rows)) +
                (IF e.status \in {"VALID_CANDIDATE", "INVALID_CANDIDATE"} THEN 1 ELSE 0)
           /\ Cardinality(Scored(more)) = Cardinality(Scored(rows)) +
                (IF e.status = "VALID_CANDIDATE" /\ e.scored THEN 1 ELSE 0)
<1>1. /\ more \in Seq(Rows) /\ Len(more) = Len(rows) + 1 /\ Len(rows) \in Nat
      /\ more[Len(more)] = e
      /\ \A i \in 1 .. Len(rows) : more[i] = rows[i]
      /\ DOMAIN more = 1 .. (Len(rows) + 1) /\ DOMAIN rows = 1 .. Len(rows)
  OBVIOUS
<1>2. Screened(more) = Screened(rows) \cup
          (IF e.status \in {"VALID_CANDIDATE", "INVALID_CANDIDATE"} THEN {Len(more)} ELSE {})
  BY <1>1 DEF Screened
<1>3. Valid(more) = Valid(rows) \cup
          (IF e.status = "VALID_CANDIDATE" THEN {Len(more)} ELSE {})
  BY <1>1 DEF Valid
<1>4. Scored(more) = Scored(rows) \cup
          (IF e.status = "VALID_CANDIDATE" /\ e.scored THEN {Len(more)} ELSE {})
  BY <1>1, <1>3 DEF Scored, Valid
<1>5. Len(more) \notin Screened(rows) /\ Len(more) \notin Scored(rows)
  BY <1>1 DEF Screened, Scored, Valid
<1>6. Cardinality(Screened(more)) = Cardinality(Screened(rows)) +
          (IF e.status \in {"VALID_CANDIDATE", "INVALID_CANDIDATE"} THEN 1 ELSE 0)
  <2>1. CASE e.status \in {"VALID_CANDIDATE", "INVALID_CANDIDATE"}
    <3>1. Screened(more) = Screened(rows) \cup {Len(more)}
      BY <1>2, <2>1
    <3>2. QED
      BY <1>5, <2>1, <3>1, Counts, FS_AddElement
  <2>2. CASE e.status \notin {"VALID_CANDIDATE", "INVALID_CANDIDATE"}
    BY <1>2, <2>2, Counts
  <2>3. QED
    BY <2>1, <2>2
<1>7. Cardinality(Scored(more)) = Cardinality(Scored(rows)) +
          (IF e.status = "VALID_CANDIDATE" /\ e.scored THEN 1 ELSE 0)
  <2>1. CASE e.status = "VALID_CANDIDATE" /\ e.scored
    <3>1. Scored(more) = Scored(rows) \cup {Len(more)}
      BY <1>4, <2>1
    <3>2. QED
      BY <1>5, <2>1, <3>1, Counts, FS_AddElement
  <2>2. CASE ~(e.status = "VALID_CANDIDATE" /\ e.scored)
    <3>1. Scored(more) = Scored(rows)
      BY <1>4, <2>2
    <3>2. QED
      BY <2>2, <3>1, Counts
  <2>3. QED
    BY <2>1, <2>2
<1>8. QED
  BY <1>1, <1>2, <1>3, <1>4, <1>6, <1>7

\* Some row is the best of any that are eligible.
LEMMA BestExists ==
    ASSUME NEW rows \in Seq(Rows), NEW S, S \subseteq DOMAIN rows, S # {}
    PROVE  \E i \in S : \A j \in S : Better(rows, i, j)
<1>1. \A i \in S : rows[i].cost \in Nat /\ i \in Nat
  <2> SUFFICES ASSUME NEW i \in S PROVE rows[i].cost \in Nat /\ i \in Nat
    OBVIOUS
  <2>1. i \in 1 .. Len(rows) /\ Len(rows) \in Nat
    OBVIOUS
  <2>2. rows[i] \in Rows
    BY <2>1
  <2>3. rows[i].cost \in Costs \cup {0}
    BY <2>2 DEF Rows
  <2>4. \A cost \in Costs \cup {0} : cost \in Nat
    BY AttemptAssumption
  <2>5. rows[i].cost \in Nat
    BY <2>3, <2>4
  <2>6. i \in Nat
    BY <2>1
  <2>7. QED
    BY <2>5, <2>6
<1> DEFINE costs == {rows[i].cost : i \in S}
<1>2. costs \subseteq Nat /\ costs # {}
  BY <1>1
<1>3. PICK c \in costs : \A d \in costs : ~(d < c)
  <2>1. \E c \in costs : \A d \in costs : ~(<<d, c>> \in OpToRel(<, Nat))
    <3> HIDE DEF costs
    <3>1. QED
      BY <1>2, NatLessThanWellFounded, WFMin
  <2>2. QED
    BY <1>2, <2>1 DEF OpToRel
<1> DEFINE T == {i \in S : rows[i].cost = c}
<1>4. T \subseteq Nat /\ T # {}
  BY <1>1, <1>3
<1>5. PICK i \in T : \A j \in T : ~(j < i)
  <2>1. \E i \in T : \A j \in T : ~(<<j, i>> \in OpToRel(<, Nat))
    <3> HIDE DEF T
    <3>1. QED
      BY <1>4, NatLessThanWellFounded, WFMin
  <2>2. QED
    BY <1>4, <2>1 DEF OpToRel
<1>6. ASSUME NEW j \in S PROVE Better(rows, i, j)
  <2>1. rows[j].cost \in costs /\ rows[i].cost = c /\ c \in Nat /\ i \in S
    BY <1>2, <1>3, <1>5
  <2>2. rows[i].cost <= rows[j].cost
    <3>1. ~(rows[j].cost < c) /\ rows[j].cost \in Nat
      BY <1>1, <1>3, <2>1
    <3>2. QED
      BY <2>1, <3>1
  <2>3. CASE rows[j].cost = c
    BY <1>1, <1>5, <2>1, <2>3 DEF Better
  <2>4. CASE rows[j].cost # c
    BY <1>1, <2>1, <2>2, <2>4 DEF Better
  <2>5. QED
    BY <2>3, <2>4
<1>7. QED
  BY <1>5, <1>6

-----------------------------------------------------------------------------
(* What a step does to the ledger                                          *)

LedgerOK ==
    /\ ledger \in LedgerType
    /\ Restarts <= RestartCap
    /\ \A i \in DOMAIN ledger.restarts : ledger.restarts[i].of \in {0, i}
    /\ Books

LEMMA Caps ==
    ASSUME caps \in CapChoices
    PROVE  /\ caps.restarts \in Nat /\ caps.validators \in Nat
           /\ caps.compilers \in Nat /\ caps.audits \in Nat
<1>1. caps \in [restarts : Nat, validators : Nat, compilers : Nat, audits : Nat]
  BY AttemptAssumption
<1>2. QED
  BY <1>1

LEMMA LedgerNow ==
    ASSUME AttemptInv
    PROVE  LedgerOK
BY DEF AttemptInv, AttemptTypeOK, AnswersMatch, LedgerOK, LedgerType

\* A step that only raises flags leaves the books as they are.
LEMMA Flagged ==
    ASSUME LedgerOK, UNCHANGED <<quality, caps>>,
           ledger' \in LedgerType,
           ledger'.restarts = ledger.restarts,
           ledger'.validators = ledger.validators,
           ledger'.compilers = ledger.compilers,
           ledger.work_cap_failure => ledger'.work_cap_failure
    PROVE  LedgerOK'
<1>1. Books'
  BY DEF LedgerOK, Books, Restarts
<1>2. QED
  BY <1>1 DEF LedgerOK, Restarts

\* A row more, with what it costs.
LEMMA Ledgered ==
    ASSUME LedgerOK, UNCHANGED <<quality, caps>>, caps \in CapChoices, quality \in BOOLEAN,
           Restarts + 1 <= RestartCap, Restarts + 1 <= caps.restarts,
           NEW e \in Rows, e.of \in {0, Restarts + 1},
           NEW dv \in Nat, NEW dc \in Nat, NEW failed \in BOOLEAN,
           ledger' = [restarts |-> Append(ledger.restarts, e),
                      validators |-> ledger.validators + dv,
                      compilers |-> ledger.compilers + dc,
                      work_cap_failure |-> ledger.work_cap_failure \/ failed,
                      startup_timeout |-> ledger.startup_timeout],
           ledger.validators + dv <= caps.validators,
           ledger.compilers + dc <= caps.compilers,
           dv = (IF e.status \in {"VALID_CANDIDATE", "INVALID_CANDIDATE"} THEN 1 ELSE 0)
                 + (IF quality /\ e.scored THEN 1 ELSE 0),
           dc = IF quality /\ e.scored THEN 4 ELSE 0,
           e.scored => quality /\ e.status = "VALID_CANDIDATE",
           quality /\ e.status = "VALID_CANDIDATE" /\ ~e.scored => failed
    PROVE  LedgerOK'
<1> DEFINE rows == ledger.restarts
           more == Append(rows, e)
<1>1. /\ rows \in Seq(Rows) /\ ledger.validators \in Nat /\ ledger.compilers \in Nat
      /\ ledger.work_cap_failure \in BOOLEAN /\ ledger.startup_timeout \in BOOLEAN
  BY DEF LedgerOK, LedgerType
<1>2. /\ more \in Seq(Rows) /\ Len(more) = Len(rows) + 1
      /\ Valid(more) = Valid(rows) \cup
                (IF e.status = "VALID_CANDIDATE" THEN {Len(more)} ELSE {})
      /\ Scored(more) = Scored(rows) \cup
                (IF e.status = "VALID_CANDIDATE" /\ e.scored THEN {Len(more)} ELSE {})
      /\ Cardinality(Screened(more)) = Cardinality(Screened(rows)) +
                (IF e.status \in {"VALID_CANDIDATE", "INVALID_CANDIDATE"} THEN 1 ELSE 0)
      /\ Cardinality(Scored(more)) = Cardinality(Scored(rows)) +
                (IF e.status = "VALID_CANDIDATE" /\ e.scored THEN 1 ELSE 0)
  BY <1>1, OneMore
<1>3. /\ Cardinality(Screened(rows)) \in Nat /\ Cardinality(Scored(rows)) \in Nat
      /\ Scored(rows) \subseteq Valid(rows)
  BY <1>1, Counts
<1>4. /\ ledger'.restarts = more /\ ledger'.validators = ledger.validators + dv
      /\ ledger'.compilers = ledger.compilers + dc
      /\ ledger'.work_cap_failure = (ledger.work_cap_failure \/ failed)
  OBVIOUS
<1>5. ledger' \in LedgerType
  BY <1>1, <1>2 DEF LedgerType
<1>6. Restarts' = Restarts + 1 /\ Restarts \in Nat
  BY <1>1, <1>2, <1>4 DEF Restarts
<1>7. \A i \in DOMAIN more : more[i].of \in {0, i}
  <2>1. ASSUME NEW i \in 1 .. Len(rows) PROVE more[i].of \in {0, i}
    <3>1. more[i] = rows[i] /\ i \in DOMAIN rows
      BY <1>1, <2>1
    <3>2. QED
      BY <3>1 DEF LedgerOK
  <2>2. more[Len(rows) + 1].of \in {0, Len(rows) + 1}
    BY <1>1 DEF Restarts
  <2>3. DOMAIN more = 1 .. (Len(rows) + 1) /\ Len(rows) \in Nat
    BY <1>1, <1>2
  <2>4. QED
    BY <2>1, <2>2, <2>3
<1>8. Books'
  <2>1. /\ ledger.validators = Cardinality(Screened(rows))
                              + (IF quality THEN Cardinality(Scored(rows)) ELSE 0)
        /\ ledger.compilers = IF quality THEN 4 * Cardinality(Scored(rows)) ELSE 0
        /\ ~quality => Scored(rows) = {}
        /\ quality /\ Scored(rows) # Valid(rows) => ledger.work_cap_failure
    BY DEF LedgerOK, Books
  <2> HIDE DEF rows, more
  <2>2. Restarts' <= caps'.restarts
    BY <1>6
  <2>3. ledger'.validators = Cardinality(Screened(more))
                              + (IF quality THEN Cardinality(Scored(more)) ELSE 0)
    <3> DEFINE new == IF e.status \in {"VALID_CANDIDATE", "INVALID_CANDIDATE"} THEN 1 ELSE 0
    <3>1. new \in Nat /\ Cardinality(Screened(more)) = Cardinality(Screened(rows)) + new
      BY <1>2
    <3>2. ledger'.validators = ledger.validators + (new + (IF quality /\ e.scored THEN 1 ELSE 0))
      BY <1>4
    <3> HIDE DEF new
    <3>3. CASE quality /\ e.scored
      <4>1. Cardinality(Scored(more)) = Cardinality(Scored(rows)) + 1
        BY <1>2, <3>3
      <4>2. QED
        BY <1>3, <2>1, <3>1, <3>2, <3>3, <4>1
    <3>4. CASE ~(quality /\ e.scored)
      <4>1. quality => Cardinality(Scored(more)) = Cardinality(Scored(rows))
        BY <1>2, <1>3, <3>4
      <4>2. QED
        BY <1>3, <2>1, <3>1, <3>2, <3>4, <4>1
    <3>5. QED
      BY <3>3, <3>4
  <2>4. ledger'.compilers = IF quality THEN 4 * Cardinality(Scored(more)) ELSE 0
    BY <1>1, <1>2, <1>3, <1>4, <2>1
  <2>5. ledger'.validators <= caps'.validators /\ ledger'.compilers <= caps'.compilers
    BY <1>4
  <2>6. ~quality => Scored(more) = {}
    BY <1>2, <2>1
  <2>7. quality /\ Scored(more) # Valid(more) => ledger'.work_cap_failure
    <3>1. CASE failed
      BY <1>4, <3>1
    <3>2. CASE ~failed /\ quality
      <4>1. Scored(rows) = Valid(rows) => Scored(more) = Valid(more)
        BY <1>2, <3>2
      <4>2. QED
        BY <1>4, <2>1, <4>1
    <3>3. QED
      BY <3>1, <3>2
  <2>8. QED
    BY <1>4, <2>2, <2>3, <2>4, <2>5, <2>6, <2>7 DEF Books
<1>9. QED
  BY <1>4, <1>5, <1>6, <1>7, <1>8 DEF LedgerOK

-----------------------------------------------------------------------------
(* What a step does to the conversation                                    *)

LEMMA InitOK ==
    ASSUME Init
    PROVE  AttemptInv
<1>1. RestartCap \in Nat \ {0} /\ caps \in CapChoices
  BY AttemptAssumption DEF Init
<1>2. /\ caps.restarts \in Nat /\ caps.validators \in Nat /\ caps.compilers \in Nat
  BY <1>1, Caps
<1>3. ledger.restarts = <<>> /\ ledger.validators = 0 /\ ledger.compilers = 0
  BY DEF Init
<1>4. Silence \in Messages /\ NoReceipt.reason = "none"
  BY <1>1 DEF Silence, Message, Messages, NoReceipt
<1>5. ledger \in LedgerType
  BY DEF Init, LedgerType
<1>6. receipt \in [reason : Reasons, selected : 0 .. RestartCap, validators : Nat,
                   compilers : Nat, audits : {0, 1}, compliant : BOOLEAN]
  BY <1>1 DEF Init, NoReceipt, Reasons
<1>7. parent \in [at : Places, after : Places, answer : Messages, timed_out : BOOLEAN]
  BY <1>4 DEF Init, Places
<1>8. worker \in [at : {"starting", "idle", "busy", "dead"}, of : 0 .. RestartCap]
  BY <1>1 DEF Init
<1>9. AttemptTypeOK
  <2>1. quality \in BOOLEAN /\ clock \in 0 .. 2 /\ down = <<>> /\ up = <<>>
    BY DEF Init
  <2>2. down \in Seq(0 .. RestartCap) /\ Len(down) <= 2 /\ up \in Seq(Messages) /\ Len(up) <= 1
    BY <2>1
  <2>3. Restarts <= RestartCap
    BY <1>1, <1>3 DEF Restarts
  <2>4. QED
    BY <1>1, <1>5, <1>6, <1>7, <1>8, <2>1, <2>2, <2>3 DEF AttemptTypeOK, LedgerType
<1>10. Conversation /\ AnswersMatch /\ Room /\ ReceiptAccepted
  BY <1>3 DEF Init, Conversation, Opening, AnswersMatch, Room, ReceiptAccepted, At
<1>11. Books
  <2>1. Screened(<<>>) = {} /\ Scored(<<>>) = {} /\ Valid(<<>>) = {}
    BY DEF Screened, Scored, Valid
  <2>2. Cardinality({}) = 0
    BY FS_EmptySet
  <2>3. Restarts = 0
    BY <1>3 DEF Restarts
  <2>4. Screened(ledger.restarts) = {} /\ Scored(ledger.restarts) = {} /\ Valid(ledger.restarts) = {}
    BY <1>3, <2>1
  <2>5. ledger.validators = Cardinality(Screened(ledger.restarts))
             + (IF quality THEN Cardinality(Scored(ledger.restarts)) ELSE 0)
    <3>1. (IF quality THEN Cardinality(Scored(ledger.restarts)) ELSE 0) = 0
      BY <2>2, <2>4
    <3>2. Cardinality(Screened(ledger.restarts)) = 0
      BY <2>2, <2>4
    <3>3. QED
      BY <1>3, <3>1, <3>2
  <2>6. ledger.compilers = IF quality THEN 4 * Cardinality(Scored(ledger.restarts)) ELSE 0
    <3>1. Cardinality(Scored(ledger.restarts)) = 0
      BY <2>2, <2>4
    <3>2. QED
      BY <1>3, <3>1
  <2>7. /\ Restarts <= caps.restarts
        /\ ledger.validators <= caps.validators /\ ledger.compilers <= caps.compilers
    BY <1>2, <1>3, <2>3
  <2>8. QED
    BY <2>4, <2>5, <2>6, <2>7 DEF Books
<1>12. QED
  BY <1>9, <1>10, <1>11 DEF AttemptInv

\* Closing: the answer that was awaited may still be in the pipe.
LEMMA Shutting ==
    ASSUME AttemptInv, LedgerOK', NEW after \in {"loop", "outcome", "raised"}, Shut(after),
           parent.at \in {"open", "loop", "asked", "got"},
           up' = up \/ (up # <<>> /\ up' = Tail(up)),
           UNCHANGED <<quality, caps, clock, worker, receipt>>
    PROVE  AttemptInv'
<1>1. AttemptTypeOK
  BY DEF AttemptInv
<1>2. RestartCap \in Nat
  BY AttemptAssumption
<1>3. parent' = [parent EXCEPT !.at = "joining", !.after = after]
      /\ down' = (IF worker.at = "dead" THEN down ELSE Append(down, StopCommand))
  BY DEF Shut
<1>4. parent' \in [at : Places, after : Places, answer : Messages, timed_out : BOOLEAN]
      /\ parent'.at = "joining" /\ parent'.after = after
  BY <1>1, <1>3 DEF AttemptTypeOK, Places
<1>5. up' \in Seq(Messages) /\ Len(up') <= 1 /\ (up = <<>> => up' = <<>>)
  BY <1>1 DEF AttemptTypeOK
<1>6. \/ down = <<>> /\ (worker.at \in {"starting", "busy"} => up' = <<>>)
      \/ Len(down) = 1 /\ up' = <<>> /\ worker.at \in {"idle", "dead"}
  <2>1. CASE parent.at = "open"
    <3>1. Opening
      BY <2>1 DEF AttemptInv, Conversation, At
    <3>2. QED
      BY <1>5, <3>1 DEF Opening
  <2>2. CASE parent.at \in {"loop", "got"}
    <3>1. Quiet
      BY <2>2 DEF AttemptInv, Conversation
    <3>2. QED
      BY <1>5, <3>1 DEF Quiet, Silent
  <2>3. CASE parent.at = "asked"
    <3>1. Asking
      BY <2>3 DEF AttemptInv, Conversation, At
    <3>2. QED
      BY <1>5, <3>1 DEF Asking
  <2>4. QED
    BY <2>1, <2>2, <2>3
<1>7. down \in Seq(0 .. RestartCap) /\ StopCommand \in 0 .. RestartCap
  BY <1>1, <1>2 DEF AttemptTypeOK, StopCommand
<1>8. /\ down' \in Seq(0 .. RestartCap) /\ Len(down') <= 2
      /\ Len(down) = 1 => Len(down') \in {1, 2} /\ (Len(down') = 2 => down'[2] = StopCommand)
  <2>0. Len(down) \in {0, 1}
    BY <1>6
  <2>1. CASE worker.at = "dead"
    <3>1. down' = down
      BY <1>3, <2>1
    <3>2. down' \in Seq(0 .. RestartCap)
      BY <1>7, <3>1
    <3>3. Len(down') \in {0, 1} /\ Len(down') = Len(down)
      BY <2>0, <3>1
    <3>4. QED
      BY <3>2, <3>3
  <2>2. CASE worker.at # "dead"
    <3>1. down' = Append(down, StopCommand)
      BY <1>3, <2>2
    <3>2. down' \in Seq(0 .. RestartCap) /\ Len(down') = Len(down) + 1
          /\ down'[Len(down) + 1] = StopCommand
      BY <1>7, <3>1
    <3>3. Len(down') <= 2
      <4>1. Len(down') = Len(down) + 1
        BY <3>2
      <4>2. CASE Len(down) = 0
        BY <4>1, <4>2
      <4>3. CASE Len(down) = 1
        BY <4>1, <4>3
      <4>4. QED
        BY <2>0, <4>2, <4>3
    <3>4. Len(down) = 1 => Len(down') = 2 /\ down'[2] = StopCommand
      BY <3>2
    <3>5. QED
      BY <3>2, <3>3, <3>4
  <2>3. QED
    BY <2>1, <2>2
<1>9. AttemptTypeOK'
  BY <1>1, <1>4, <1>5, <1>8 DEF AttemptTypeOK, LedgerOK, LedgerType
<1>10. Ending'
  <2>1. CASE down = <<>> /\ worker.at = "dead"
    BY <1>3, <1>4, <2>1 DEF Ending
  <2>2. CASE down = <<>> /\ worker.at # "dead"
    <3>1. down' = <<StopCommand>> /\ (worker'.at \in {"starting", "busy"} => up' = <<>>)
      BY <1>3, <1>6, <2>2
    <3>2. QED
      BY <1>4, <3>1 DEF Ending
  <2>3. CASE Len(down) = 1
    <3>1. up' = <<>> /\ worker'.at \in {"idle", "dead"}
      BY <1>6, <2>3
    <3>2. Len(down') \in {1, 2} /\ (Len(down') = 2 => down'[2] = StopCommand)
      BY <1>8, <2>3
    <3>3. QED
      BY <1>4, <3>1, <3>2 DEF Ending
  <2>4. QED
    BY <1>6, <2>1, <2>2, <2>3
<1>11. Conversation' /\ Room' /\ ReceiptAccepted'
  BY <1>4, <1>10 DEF Conversation, Room, ReceiptAccepted, At
<1>12. AnswersMatch'
  BY <1>4 DEF AnswersMatch, At, LedgerOK
<1>13. QED
  BY <1>9, <1>11, <1>12 DEF AttemptInv, LedgerOK

\* Back to the loop with nothing in the pipe.
LEMMA Looping ==
    ASSUME AttemptInv, LedgerOK', Goto("loop"), down = <<>>, down' = <<>>, up' = <<>>,
           worker.at \in {"idle", "dead"},
           UNCHANGED <<quality, caps, clock, worker, receipt>>
    PROVE  AttemptInv'
<1>1. AttemptTypeOK
  BY DEF AttemptInv
<1>2. parent' \in [at : Places, after : Places, answer : Messages, timed_out : BOOLEAN] /\ parent'.at = "loop"
  BY <1>1 DEF AttemptTypeOK, Places, Goto
<1>3. AttemptTypeOK'
  BY <1>1, <1>2 DEF AttemptTypeOK, LedgerOK, LedgerType
<1>4. Conversation' /\ Room' /\ ReceiptAccepted' /\ AnswersMatch'
  BY <1>2 DEF Conversation, Quiet, Silent, Room, ReceiptAccepted, AnswersMatch, LedgerOK, At
<1>5. QED
  BY <1>3, <1>4 DEF AttemptInv, LedgerOK

-----------------------------------------------------------------------------
(* The worker's steps                                                      *)

\* A step of the worker keeps what it leaves alone.
LEMMA WorkerKeeps ==
    ASSUME AttemptInv, ParentStays,
           worker' \in [at : {"starting", "idle", "busy", "dead"}, of : 0 .. RestartCap],
           down' \in Seq(0 .. RestartCap), Len(down') <= 2,
           up' \in Seq(Messages), Len(up') <= 1,
           At("open") => Opening',
           parent.at \in {"loop", "got", "raised"} => Quiet',
           At("asked") => Asking' /\ (\A i \in DOMAIN up' : up'[i].of = Restarts + 1),
           At("joining") => Ending',
           parent.at \in {"outcome", "done", "refused"} => Gone'
    PROVE  AttemptInv'
<1>1. UNCHANGED <<quality, caps, clock, parent, ledger, receipt>>
  BY DEF ParentStays
<1>2. AttemptTypeOK'
  <2>1. Restarts' = Restarts
    BY <1>1 DEF Restarts
  <2>2. QED
    BY <1>1, <2>1 DEF AttemptInv, AttemptTypeOK
<1>3. Conversation'
  BY <1>1 DEF Conversation, At
<1>4. AnswersMatch'
  <2>1. At("got") => answer.of = Restarts + 1
    BY DEF AttemptInv, AnswersMatch
  <2>2. \A i \in DOMAIN ledger.restarts : ledger.restarts[i].of \in {0, i}
    BY DEF AttemptInv, AnswersMatch
  <2>3. QED
    BY <1>1, <2>1, <2>2 DEF AnswersMatch, At, Restarts, answer
<1>5. Room' /\ ReceiptAccepted'
  BY <1>1 DEF AttemptInv, Room, ReceiptAccepted, At, Restarts
<1>6. Books'
  <2>1. Books
    BY DEF AttemptInv
  <2>2. QED
    BY <1>1, <2>1 DEF Books, Restarts
<1>7. QED
  BY <1>2, <1>3, <1>4, <1>5, <1>6 DEF AttemptInv

LEMMA WorkerStartsOK ==
    ASSUME AttemptInv, WorkerStarts
    PROVE  AttemptInv'
<1>1. AttemptTypeOK /\ Conversation
  BY DEF AttemptInv
<1>2. RestartCap \in Nat
  BY AttemptAssumption
<1>3. PICK status \in {"ready", "error"} :
         /\ up' = Append(up, Message(status, 0, 0))
         /\ worker' = [worker EXCEPT !.at = IF status = "ready" THEN "idle" ELSE "dead"]
  BY DEF WorkerStarts
<1>4. worker.at = "starting" /\ down' = down /\ ParentStays
  BY DEF WorkerStarts
<1>5. parent.at \in {"open", "joining"}
  BY <1>1, <1>4 DEF AttemptTypeOK, Places, Conversation, Quiet, Silent, Asking, Gone, At
<1>6. up = <<>>
  <2>1. CASE parent.at = "open"
    BY <1>1, <1>4, <2>1 DEF Conversation, Opening, At
  <2>2. CASE parent.at = "joining"
    BY <1>1, <1>4, <2>2 DEF Conversation, Ending, At
  <2>3. QED
    BY <1>5, <2>1, <2>2
<1>7. Message(status, 0, 0) \in Messages
  BY <1>2 DEF Message, Messages
<1>8. up' = <<Message(status, 0, 0)>>
  BY <1>3, <1>6
<1>9. up' \in Seq(Messages) /\ Len(up') <= 1
  BY <1>7, <1>8
<1>10. /\ worker' \in [at : {"starting", "idle", "busy", "dead"}, of : 0 .. RestartCap]
       /\ worker'.at \in {"idle", "dead"}
  BY <1>1, <1>3 DEF AttemptTypeOK
<1>11. At("open") => Opening'
  BY <1>1, <1>4, <1>10 DEF Conversation, Opening, At
<1>12. At("joining") => Ending'
  <2>1. SUFFICES ASSUME At("joining") PROVE Ending'
    OBVIOUS
  <2>2. Ending /\ parent' = parent
    BY <1>1, <1>4, <2>1 DEF Conversation, ParentStays
  <2>3. Len(down) <= 1 /\ (\A i \in 1 .. Len(down) : down[i] = StopCommand)
    BY <1>4, <2>2 DEF Ending
  <2>4. QED
    BY <1>4, <1>10, <2>2, <2>3 DEF Ending
<1>13. down' \in Seq(0 .. RestartCap) /\ Len(down') <= 2
  BY <1>1, <1>4 DEF AttemptTypeOK
<1>14. QED
  BY <1>4, <1>5, <1>9, <1>10, <1>11, <1>12, <1>13, WorkerKeeps DEF At

LEMMA WorkerDiesOK ==
    ASSUME AttemptInv, WorkerDies
    PROVE  AttemptInv'
<1>1. AttemptTypeOK /\ Conversation /\ AnswersMatch
  BY DEF AttemptInv
<1>2. worker' = [worker EXCEPT !.at = "dead"] /\ down' = down /\ up' = up /\ ParentStays
  BY DEF WorkerDies
<1>3. /\ worker' \in [at : {"starting", "idle", "busy", "dead"}, of : 0 .. RestartCap]
      /\ worker'.at = "dead" /\ worker'.of = worker.of
  BY <1>1, <1>2 DEF AttemptTypeOK
<1>4. At("open") => Opening'
  BY <1>1, <1>2, <1>3 DEF Conversation, Opening
<1>5. parent.at \in {"loop", "got", "raised"} => Quiet'
  BY <1>1, <1>2, <1>3 DEF Conversation, Quiet, Silent
<1>6. At("asked") => Asking' /\ (\A i \in DOMAIN up' : up'[i].of = Restarts + 1)
  <2>1. SUFFICES ASSUME At("asked") PROVE Asking' /\ (\A i \in DOMAIN up' : up'[i].of = Restarts + 1)
    OBVIOUS
  <2>2. Asking /\ Restarts' = Restarts
    BY <1>1, <1>2, <2>1 DEF Conversation, ParentStays, Restarts
  <2>3. QED
    BY <1>1, <1>2, <1>3, <2>1, <2>2 DEF Asking, AnswersMatch
<1>7. At("joining") => Ending'
  BY <1>1, <1>2, <1>3 DEF Conversation, Ending, ParentStays
<1>8. parent.at \in {"outcome", "done", "refused"} => Gone'
  BY <1>1, <1>2, <1>3 DEF Conversation, Gone, Silent
<1>9. QED
  BY <1>1, <1>2, <1>3, <1>4, <1>5, <1>6, <1>7, <1>8, WorkerKeeps DEF AttemptTypeOK

LEMMA HeadAndTail ==
    ASSUME NEW S, NEW s \in Seq(S), s # <<>>
    PROVE  /\ Head(s) = s[1] /\ Head(s) \in S
           /\ Tail(s) \in Seq(S)
           /\ Len(Tail(s)) = Len(s) - 1
           /\ \A i \in 1 .. (Len(s) - 1) : Tail(s)[i] = s[i + 1]
<1>1. Head(s) = s[1]
  OBVIOUS
<1>2. Len(s) \in Nat /\ Len(s) # 0
  OBVIOUS
<1>3. s[1] \in S
  BY <1>2
<1>4. Tail(s) \in Seq(S)
  OBVIOUS
<1>5. Len(Tail(s)) = Len(s) - 1
  OBVIOUS
<1>6. \A i \in 1 .. (Len(s) - 1) : Tail(s)[i] = s[i + 1]
  OBVIOUS
<1>7. QED
  BY <1>1, <1>3, <1>4, <1>5, <1>6

LEMMA WorkerTakesOK ==
    ASSUME AttemptInv, WorkerTakes
    PROVE  AttemptInv'
<1>1. AttemptTypeOK /\ Conversation /\ AnswersMatch
  BY DEF AttemptInv
<1>2. /\ worker.at = "idle" /\ down # <<>> /\ down' = Tail(down) /\ up' = up /\ ParentStays
      /\ worker' = IF Head(down) = StopCommand THEN [worker EXCEPT !.at = "dead"]
                   ELSE [at |-> "busy", of |-> Head(down)]
  BY DEF WorkerTakes
<1>3. down \in Seq(0 .. RestartCap) /\ Len(down) \in {1, 2} /\ Restarts \in Nat
  <2>1. down \in Seq(0 .. RestartCap) /\ Len(down) <= 2
    BY <1>1 DEF AttemptTypeOK
  <2>2. Len(down) \in Nat /\ Len(down) # 0
    BY <1>2, <2>1
  <2>3. Restarts \in Nat
    BY <1>1 DEF AttemptTypeOK, Restarts
  <2>4. Len(down) \in {1, 2}
    <3>1. \A n \in Nat : n <= 2 /\ n # 0 => n \in {1, 2}
      OBVIOUS
    <3>2. QED
      BY <2>1, <2>2, <3>1
  <2>5. QED
    BY <2>1, <2>3, <2>4
<1>4. /\ Head(down) \in 0 .. RestartCap /\ Head(down) = down[1]
      /\ Tail(down) \in Seq(0 .. RestartCap) /\ Len(Tail(down)) = Len(down) - 1
      /\ \A i \in 1 .. (Len(down) - 1) : Tail(down)[i] = down[i + 1]
  BY <1>2, <1>3, HeadAndTail
<1>5. Len(down') \in {0, 1} /\ down' \in Seq(0 .. RestartCap) /\ Len(down') <= 2
  <2>1. Len(down') = Len(down) - 1
    BY <1>2, <1>4
  <2>2. Len(down') \in {0, 1}
    BY <1>3, <2>1
  <2>3. QED
    BY <1>2, <1>4, <2>2
<1>6. worker' \in [at : {"starting", "idle", "busy", "dead"}, of : 0 .. RestartCap]
  <2>1. CASE Head(down) = StopCommand
    BY <1>1, <1>2, <2>1 DEF AttemptTypeOK
  <2>2. CASE Head(down) # StopCommand
    BY <1>2, <1>4, <2>2
  <2>3. QED
    BY <2>1, <2>2
<1>7. parent.at \in {"asked", "joining"}
  BY <1>1, <1>2 DEF AttemptTypeOK, Places, Conversation, Opening, Quiet, Silent, Gone, At
<1>8. At("asked") => Asking' /\ (\A i \in DOMAIN up' : up'[i].of = Restarts + 1)
  <2>1. SUFFICES ASSUME At("asked") PROVE Asking' /\ (\A i \in DOMAIN up' : up'[i].of = Restarts + 1)
    OBVIOUS
  <2>2. down = <<Restarts + 1>> /\ up = <<>>
    BY <1>1, <1>2, <2>1 DEF Conversation, Asking
  <2>3. Restarts + 1 # StopCommand
    BY <1>3 DEF StopCommand
  <2>4. worker'.at = "busy" /\ worker'.of = Restarts + 1
    BY <1>2, <1>4, <2>2, <2>3
  <2>5. down' = <<>> /\ up' = <<>> /\ Restarts' = Restarts
    BY <1>2, <2>2 DEF ParentStays, Restarts
  <2>6. QED
    BY <2>4, <2>5 DEF Asking
<1>9. At("joining") => Ending'
  <2>1. SUFFICES ASSUME At("joining") PROVE Ending'
    OBVIOUS
  <2>2. Ending /\ parent' = parent
    BY <1>1, <1>2, <2>1 DEF Conversation, ParentStays
  <2>3. \A i \in 1 .. Len(down') : down'[i] = StopCommand
    <3>1. CASE Len(down) = 1
      <4>1. Len(down') = 0
        BY <1>2, <1>4, <3>1
      <4>2. QED
        BY <4>1
    <3>2. CASE Len(down) = 2
      <4>1. Len(down') = 1 /\ down'[1] = down[2]
        BY <1>2, <1>4, <3>2
      <4>2. down[2] = StopCommand
        BY <2>2, <3>2 DEF Ending
      <4>3. QED
        BY <4>1, <4>2
    <3>3. QED
      BY <1>3, <3>1, <3>2
  <2>4. Len(down') <= 1
    <3>1. \A n \in {0, 1} : n <= 1
      OBVIOUS
    <3>2. QED
      BY <1>5, <3>1
  <2>5. worker'.at \in {"starting", "busy"} => up' = <<>>
    <3>1. CASE Head(down) = StopCommand
      BY <1>1, <1>2, <3>1 DEF AttemptTypeOK
    <3>2. CASE Head(down) # StopCommand
      <4>1. ~(\A i \in 1 .. Len(down) : down[i] = StopCommand)
        BY <1>3, <1>4, <3>2
      <4>2. QED
        BY <1>2, <2>2, <4>1 DEF Ending
    <3>3. QED
      BY <3>1, <3>2
  <2>6. QED
    BY <2>2, <2>3, <2>4, <2>5 DEF Ending
<1>10. up' \in Seq(Messages) /\ Len(up') <= 1
  BY <1>1, <1>2 DEF AttemptTypeOK
<1>11. QED
  BY <1>2, <1>5, <1>6, <1>7, <1>8, <1>9, <1>10, WorkerKeeps DEF At

LEMMA WorkerAnswersOK ==
    ASSUME AttemptInv, WorkerAnswers
    PROVE  AttemptInv'
<1>1. AttemptTypeOK /\ Conversation
  BY DEF AttemptInv
<1>2. PICK sent \in Answers(worker.of) :
         /\ up' = Append(up, sent)
         /\ worker' = [worker EXCEPT !.at = IF sent.status = "error" THEN "dead" ELSE "idle"]
  BY DEF WorkerAnswers
<1>3. worker.at = "busy" /\ down' = down /\ ParentStays
  BY DEF WorkerAnswers
<1>4. worker.of \in 0 .. RestartCap
  BY <1>1 DEF AttemptTypeOK
<1>5. sent \in Messages /\ sent.of = worker.of
  BY <1>4 DEF Answers, Message, Messages, Statuses
<1>6. parent.at \in {"asked", "joining"}
  BY <1>1, <1>3 DEF AttemptTypeOK, Places, Conversation, Opening, Quiet, Gone, At
<1>7. up = <<>>
  <2>1. CASE parent.at = "asked"
    BY <1>1, <1>3, <2>1 DEF Conversation, Asking, At
  <2>2. CASE parent.at = "joining"
    BY <1>1, <1>3, <2>2 DEF Conversation, Ending, At
  <2>3. QED
    BY <1>6, <2>1, <2>2
<1>8. up' = <<sent>>
  BY <1>2, <1>7
<1>9. up' \in Seq(Messages) /\ Len(up') = 1 /\ up'[1] = sent
  BY <1>5, <1>8
<1>10. /\ worker' \in [at : {"starting", "idle", "busy", "dead"}, of : 0 .. RestartCap]
       /\ worker'.at \in {"idle", "dead"}
  BY <1>1, <1>2 DEF AttemptTypeOK
<1>11. At("asked") => Asking' /\ (\A i \in DOMAIN up' : up'[i].of = Restarts + 1)
  <2>1. SUFFICES ASSUME At("asked") PROVE Asking' /\ (\A i \in DOMAIN up' : up'[i].of = Restarts + 1)
    OBVIOUS
  <2>2. down = <<>> /\ worker.of = Restarts + 1
    BY <1>1, <1>3, <2>1 DEF Conversation, Asking
  <2>3. Restarts' = Restarts /\ down' = <<>>
    BY <1>3, <2>2 DEF ParentStays, Restarts
  <2>4. QED
    BY <1>5, <1>9, <1>10, <2>2, <2>3 DEF Asking
<1>12. At("joining") => Ending'
  <2>1. SUFFICES ASSUME At("joining") PROVE Ending'
    OBVIOUS
  <2>2. Ending /\ parent' = parent
    BY <1>1, <1>3, <2>1 DEF Conversation, ParentStays
  <2>3. Len(down) <= 1 /\ (\A i \in 1 .. Len(down) : down[i] = StopCommand)
    BY <1>3, <2>2 DEF Ending
  <2>4. QED
    BY <1>3, <1>10, <2>2, <2>3 DEF Ending
<1>13. down' \in Seq(0 .. RestartCap) /\ Len(down') <= 2
  BY <1>1, <1>3 DEF AttemptTypeOK
<1>14. QED
  BY <1>3, <1>6, <1>9, <1>10, <1>11, <1>12, <1>13, WorkerKeeps DEF At

-----------------------------------------------------------------------------
(* The runner's steps                                                      *)

LEMMA LedgerStays ==
    ASSUME AttemptInv, UNCHANGED <<quality, caps, ledger>>
    PROVE  LedgerOK'
<1>1. LedgerOK
  BY LedgerNow
<1>2. ledger' \in LedgerType
  BY <1>1 DEF LedgerOK
<1>3. QED
  BY <1>1, <1>2, Flagged

\* The answer at the head of the pipe is its only one.
LEMMA OneAnswer ==
    ASSUME AttemptInv, up # <<>>
    PROVE  Tail(up) = <<>> /\ Head(up) = up[1] /\ up[1] \in Messages /\ DOMAIN up = {1}
<1>1. up \in Seq(Messages) /\ Len(up) <= 1
  BY DEF AttemptInv, AttemptTypeOK
<1>2. Len(up) \in Nat /\ Len(up) # 0
  BY <1>1
<1>3. Len(up) = 1
  <2>1. \A n \in Nat : n <= 1 /\ n # 0 => n = 1
    OBVIOUS
  <2>2. Len(up) <= 1
    BY <1>1
  <2>3. QED
    BY <1>2, <2>1, <2>2
<1>4. Head(up) = up[1] /\ Tail(up) \in Seq(Messages) /\ Len(Tail(up)) = Len(up) - 1
  BY <1>1, HeadAndTail
<1>5. Tail(up) = <<>>
  <2>1. Len(Tail(up)) = 0
    BY <1>3, <1>4
  <2>2. \A s \in Seq(Messages) : Len(s) = 0 => s = <<>>
    OBVIOUS
  <2>3. QED
    BY <1>4, <2>1, <2>2
<1>6. up[1] \in Messages /\ DOMAIN up = {1}
  BY <1>1, <1>3
<1>7. QED
  BY <1>4, <1>5, <1>6

LEMMA OpenedOK ==
    ASSUME AttemptInv, Opened
    PROVE  AttemptInv'
<1>1. /\ parent.at = "open" /\ up # <<>> /\ up' = Tail(up)
      /\ UNCHANGED <<quality, caps, clock, worker, ledger, receipt>>
  BY DEF Opened, At, WorldStays
<1>2. LedgerOK'
  BY <1>1, LedgerStays
<1>3. CASE Head(up).status = "ready"
  <2>1. Goto("loop") /\ down' = down
    BY <1>3 DEF Opened
  <2>2. Opening
    BY <1>1 DEF AttemptInv, Conversation, At
  <2>3. down = <<>> /\ worker.at \in {"idle", "dead"}
    BY <1>1, <2>2 DEF Opening
  <2>4. up' = <<>>
    BY <1>1, OneAnswer
  <2>5. QED
    BY <1>1, <1>2, <2>1, <2>3, <2>4, Looping
<1>4. CASE Head(up).status # "ready"
  <2>1. Shut("raised")
    BY <1>4 DEF Opened
  <2>2. QED
    BY <1>1, <1>2, <2>1, Shutting
<1>5. QED
  BY <1>3, <1>4

LEMMA JoinedOK ==
    ASSUME AttemptInv, Joined
    PROVE  AttemptInv'
<1>1. /\ parent.at = "joining" /\ down' = <<>> /\ up' = <<>>
      /\ worker' = [worker EXCEPT !.at = "dead"]
      /\ parent' = [parent EXCEPT !.at = parent.after]
      /\ UNCHANGED <<quality, caps, clock, ledger, receipt>>
  BY DEF Joined, At, Goto
<1>2. LedgerOK'
  BY <1>1, LedgerStays
<1>3. AttemptTypeOK
  BY DEF AttemptInv
<1>4. parent.after \in {"loop", "outcome", "raised"}
  BY <1>1 DEF AttemptInv, Conversation, Ending, At
<1>5. /\ parent' \in [at : Places, after : Places, answer : Messages, timed_out : BOOLEAN]
      /\ parent'.at \in {"loop", "outcome", "raised"}
  BY <1>1, <1>3, <1>4 DEF AttemptTypeOK, Places
<1>6. /\ worker' \in [at : {"starting", "idle", "busy", "dead"}, of : 0 .. RestartCap]
      /\ worker'.at = "dead"
  BY <1>1, <1>3 DEF AttemptTypeOK
<1>7. down' \in Seq(0 .. RestartCap) /\ Len(down') <= 2 /\ up' \in Seq(Messages) /\ Len(up') <= 1
  BY <1>1
<1>8. AttemptTypeOK'
  BY <1>1, <1>2, <1>3, <1>5, <1>6, <1>7 DEF AttemptTypeOK, LedgerOK, LedgerType
<1>9. Conversation' /\ Room' /\ ReceiptAccepted' /\ AnswersMatch'
  BY <1>1, <1>2, <1>5, <1>6
     DEF Conversation, Quiet, Gone, Silent, Room, ReceiptAccepted, AnswersMatch, LedgerOK, At
<1>10. QED
  BY <1>2, <1>8, <1>9 DEF AttemptInv, LedgerOK

\* The closes that leave the rows alone.
LEMMA ClosesOK ==
    ASSUME AttemptInv, StartupTimesOut \/ WorkerIsGone \/ LoopEnds \/ RestartWorkEnds
    PROVE  AttemptInv'
<1>1. ledger \in LedgerType
  BY DEF AttemptInv, AttemptTypeOK, LedgerType
<1>2. CASE StartupTimesOut
  <2>1. ledger' = [ledger EXCEPT !.startup_timeout = TRUE]
    BY <1>2 DEF StartupTimesOut
  <2>2. /\ ledger' \in LedgerType /\ ledger'.restarts = ledger.restarts
        /\ ledger'.validators = ledger.validators /\ ledger'.compilers = ledger.compilers
        /\ ledger'.work_cap_failure = ledger.work_cap_failure
    BY <1>1, <2>1 DEF LedgerType
  <2>3. LedgerOK'
    BY <1>2, <2>2, LedgerNow, Flagged DEF StartupTimesOut, WorldStays
  <2>4. QED
    BY <1>2, <2>3, Shutting DEF StartupTimesOut, WorldStays, At
<1>3. CASE RestartWorkEnds
  <2>1. ledger' = [ledger EXCEPT !.work_cap_failure = TRUE]
    BY <1>3 DEF RestartWorkEnds
  <2>2. /\ ledger' \in LedgerType /\ ledger'.restarts = ledger.restarts
        /\ ledger'.validators = ledger.validators /\ ledger'.compilers = ledger.compilers
        /\ ledger'.work_cap_failure
    BY <1>1, <2>1 DEF LedgerType
  <2>3. LedgerOK'
    BY <1>3, <2>2, LedgerNow, Flagged DEF RestartWorkEnds, WorldStays
  <2>4. QED
    BY <1>3, <2>3, Shutting DEF RestartWorkEnds, WorldStays, At
<1>4. CASE WorkerIsGone
  <2>1. LedgerOK'
    BY <1>4, LedgerStays DEF WorkerIsGone, WorldStays
  <2>2. QED
    BY <1>4, <2>1, Shutting DEF WorkerIsGone, WorldStays, At
<1>5. CASE LoopEnds
  <2>1. LedgerOK'
    BY <1>5, LedgerStays DEF LoopEnds, WorldStays
  <2>2. QED
    BY <1>5, <2>1, Shutting DEF LoopEnds, WorldStays, At
<1>6. QED
  BY <1>2, <1>3, <1>4, <1>5

LEMMA SearchOK ==
    ASSUME AttemptInv, Search
    PROVE  AttemptInv'
<1>1. /\ parent.at = "loop" /\ Restarts < RestartCap /\ Restarts + 1 <= caps.restarts
      /\ UNCHANGED <<quality, caps, clock, worker, up, ledger, receipt>>
  BY DEF Search, At, WorldStays, MoreRestarts
<1>2. LedgerOK'
  BY <1>1, LedgerStays
<1>3. CASE worker.at = "dead"
  <2>1. Shut("raised")
    BY <1>3 DEF Search
  <2>2. QED
    BY <1>1, <1>2, <2>1, Shutting
<1>4. CASE worker.at # "dead"
  <2>1. parent' = [parent EXCEPT !.at = "asked"] /\ down' = Append(down, Restarts + 1)
    BY <1>4 DEF Search, Goto
  <2>2. AttemptTypeOK /\ Quiet
    BY <1>1 DEF AttemptInv, Conversation
  <2>3. RestartCap \in Nat /\ Restarts \in Nat
    BY <2>2, AttemptAssumption DEF AttemptTypeOK, Restarts
  <2>4. down' = <<Restarts + 1>> /\ up' = <<>> /\ worker'.at \in {"idle", "dead"}
    BY <1>1, <2>1, <2>2 DEF Quiet, Silent
  <2>5. Restarts + 1 \in 0 .. RestartCap /\ Restarts + 1 <= RestartCap
    BY <1>1, <2>3
  <2>6. down' \in Seq(0 .. RestartCap) /\ Len(down') <= 2
    BY <2>4, <2>5
  <2>7. parent' \in [at : Places, after : Places, answer : Messages, timed_out : BOOLEAN] /\ parent'.at = "asked"
    BY <2>1, <2>2 DEF AttemptTypeOK, Places
  <2>8. AttemptTypeOK'
    BY <1>1, <1>2, <2>2, <2>6, <2>7 DEF AttemptTypeOK, LedgerOK, LedgerType
  <2>9. Restarts' = Restarts
    BY <1>1 DEF Restarts
  <2>10. Conversation'
    BY <2>4, <2>7, <2>9 DEF Conversation, Asking, At
  <2>11. Room' /\ ReceiptAccepted'
    BY <1>1, <2>5, <2>7, <2>9 DEF Room, ReceiptAccepted, At
  <2>12. AnswersMatch'
    BY <1>2, <2>4, <2>7 DEF AnswersMatch, LedgerOK, At
  <2>13. QED
    BY <1>2, <2>8, <2>10, <2>11, <2>12 DEF AttemptInv, LedgerOK
<1>5. QED
  BY <1>3, <1>4

-----------------------------------------------------------------------------
(* The steps that write a row                                              *)

\* What is known while a restart is open.
LEMMA OpenRestart ==
    ASSUME AttemptInv, parent.at \in {"asked", "got"}
    PROVE  /\ Restarts \in Nat /\ Restarts + 1 <= RestartCap /\ Restarts + 1 <= caps.restarts
           /\ Restarts + 1 \in 0 .. RestartCap /\ RestartCap \in Nat
           /\ caps \in CapChoices /\ quality \in BOOLEAN
           /\ ledger \in LedgerType /\ LedgerOK
           /\ answer \in Messages
           /\ parent.at = "got" => answer.of = Restarts + 1 /\ Quiet
<1>1. AttemptTypeOK /\ RestartCap \in Nat
  BY AttemptAssumption DEF AttemptInv
<1>2. Restarts \in Nat
  BY <1>1 DEF AttemptTypeOK, Restarts
<1>3. Restarts + 1 <= RestartCap /\ Restarts + 1 <= caps.restarts
  BY DEF AttemptInv, Room
<1>4. Restarts + 1 \in 0 .. RestartCap
  BY <1>1, <1>2, <1>3
<1>5. answer \in Messages /\ ledger \in LedgerType /\ caps \in CapChoices /\ quality \in BOOLEAN
  BY <1>1 DEF AttemptTypeOK, answer, LedgerType
<1>6. parent.at = "got" => answer.of = Restarts + 1 /\ Quiet
  BY DEF AttemptInv, AnswersMatch, Conversation, At
<1>7. QED
  BY <1>1, <1>2, <1>3, <1>4, <1>5, <1>6, LedgerNow

\* A row that costs nothing: no candidate was seen.
LEMMA NotedOK ==
    ASSUME AttemptInv, parent.at \in {"asked", "got"}, UNCHANGED <<quality, caps>>,
           NEW e \in Rows, e.of \in {0, Restarts + 1}, ~e.scored,
           e.status \in {"NO_EMBEDDING", "TIMED_OUT", "WORK_CAP_EXHAUSTED"},
           NEW failed \in BOOLEAN,
           ledger' = [restarts |-> Append(ledger.restarts, e),
                      validators |-> ledger.validators,
                      compilers |-> ledger.compilers,
                      work_cap_failure |-> ledger.work_cap_failure \/ failed,
                      startup_timeout |-> ledger.startup_timeout]
    PROVE  LedgerOK'
<1>1. /\ Restarts + 1 <= RestartCap /\ Restarts + 1 <= caps.restarts
      /\ caps \in CapChoices /\ quality \in BOOLEAN /\ ledger \in LedgerType /\ LedgerOK
  BY OpenRestart
<1>3. /\ ledger.validators \in Nat /\ ledger.compilers \in Nat
      /\ ledger.validators <= caps.validators /\ ledger.compilers <= caps.compilers
  BY <1>1 DEF LedgerType, LedgerOK, Books
<1>4. /\ ledger.validators + 0 = ledger.validators /\ ledger.compilers + 0 = ledger.compilers
      /\ 0 \in Nat
  BY <1>3
<1>5. /\ e.status \notin {"VALID_CANDIDATE", "INVALID_CANDIDATE"}
      /\ e.status # "VALID_CANDIDATE" /\ ~e.scored
  OBVIOUS
<1>6. /\ 0 = (IF e.status \in {"VALID_CANDIDATE", "INVALID_CANDIDATE"} THEN 1 ELSE 0)
               + (IF quality /\ e.scored THEN 1 ELSE 0)
      /\ 0 = IF quality /\ e.scored THEN 4 ELSE 0
  BY <1>5
<1>7. QED
  BY <1>1, <1>3, <1>4, <1>5, <1>6, Ledgered

LEMMA SearchTimesOutOK ==
    ASSUME AttemptInv, SearchTimesOut
    PROVE  AttemptInv'
<1>1. /\ parent.at = "asked" /\ Shut("loop") /\ up' = up
      /\ UNCHANGED <<quality, caps, clock, worker, receipt>>
      /\ ledger' = [ledger EXCEPT !.restarts = Append(@, Entry(Silence, "TIMED_OUT", FALSE))]
  BY DEF SearchTimesOut, At, Note, WorldStays
<1>2. ledger \in LedgerType /\ RestartCap \in Nat
  BY <1>1, OpenRestart
<1>3. Silence \in Messages /\ Silence.of = 0
  BY <1>2 DEF Silence, Message, Messages
<1>4. ledger' = [restarts |-> Append(ledger.restarts, Entry(Silence, "TIMED_OUT", FALSE)),
                 validators |-> ledger.validators,
                 compilers |-> ledger.compilers,
                 work_cap_failure |-> ledger.work_cap_failure \/ FALSE,
                 startup_timeout |-> ledger.startup_timeout]
  BY <1>1, <1>2 DEF LedgerType
<1>5. LedgerOK'
  <2>1. /\ Entry(Silence, "TIMED_OUT", FALSE) \in Rows
        /\ Entry(Silence, "TIMED_OUT", FALSE).of = 0
        /\ Entry(Silence, "TIMED_OUT", FALSE).status = "TIMED_OUT"
        /\ ~Entry(Silence, "TIMED_OUT", FALSE).scored
    BY <1>3 DEF Entry, Messages, Rows, Statuses
  <2>2. QED
    BY <1>1, <1>4, <2>1, NotedOK
<1>6. QED
  BY <1>1, <1>5, Shutting

LEMMA ReceivedOK ==
    ASSUME AttemptInv, Received
    PROVE  AttemptInv'
<1>1. /\ parent.at = "asked" /\ up # <<>> /\ up' = Tail(up)
      /\ UNCHANGED <<quality, caps, clock, worker, ledger, receipt>>
  BY DEF Received, At, WorldStays
<1>2. LedgerOK'
  BY <1>1, LedgerStays
<1>3. CASE Head(up).status = "error"
  BY <1>1, <1>2, <1>3, Shutting DEF Received
<1>4. CASE Head(up).status # "error"
  <2>1. parent' = [parent EXCEPT !.at = "got", !.answer = Head(up), !.timed_out = Overrun]
        /\ down' = down /\ Overrun \in BOOLEAN
    BY <1>4 DEF Received, Overrun
  <2>2. AttemptTypeOK /\ Asking /\ AnswersMatch /\ Room
    BY <1>1 DEF AttemptInv, Conversation, At
  <2>3. up' = <<>> /\ Head(up) = up[1] /\ up[1] \in Messages /\ DOMAIN up = {1}
    BY <1>1, OneAnswer
  <2>4. parent' \in [at : Places, after : Places, answer : Messages, timed_out : BOOLEAN]
        /\ parent'.at = "got" /\ parent'.answer = up[1]
    BY <2>1, <2>2, <2>3 DEF AttemptTypeOK, Places
  <2>5. down' = <<>> /\ worker'.at \in {"idle", "dead"}
    BY <1>1, <2>1, <2>2 DEF Asking
  <2>6. Restarts' = Restarts
    BY <1>1 DEF Restarts
  <2>7. AttemptTypeOK'
    BY <1>1, <1>2, <2>2, <2>3, <2>4, <2>5 DEF AttemptTypeOK, LedgerOK, LedgerType
  <2>8. Conversation' /\ Room' /\ ReceiptAccepted'
    BY <1>1, <2>2, <2>3, <2>4, <2>5, <2>6
       DEF Conversation, Quiet, Silent, Room, ReceiptAccepted, At
  <2>9. AnswersMatch'
    <3>1. up[1].of = Restarts + 1
      BY <1>1, <2>2, <2>3 DEF AnswersMatch, At
    <3>2. QED
      BY <1>2, <2>4, <2>6, <3>1 DEF AnswersMatch, LedgerOK, At, answer
  <2>10. QED
    BY <1>2, <2>7, <2>8, <2>9 DEF AttemptInv, LedgerOK
<1>5. QED
  BY <1>3, <1>4

LEMMA NoCandidateOK ==
    ASSUME AttemptInv, NoCandidate
    PROVE  AttemptInv'
<1>1. /\ parent.at = "got" /\ Goto("loop") /\ down' = down /\ up' = up
      /\ UNCHANGED <<quality, caps, clock, worker, receipt>>
  BY DEF NoCandidate, At, Stays, WorldStays
<1>2. PICK status \in {"NO_EMBEDDING", "TIMED_OUT"} :
         ledger' = [ledger EXCEPT !.restarts = Append(@, Entry(answer, status, FALSE))]
  BY DEF NoCandidate, Note
<1>3. ledger \in LedgerType /\ answer \in Messages /\ answer.of = Restarts + 1 /\ Quiet
  BY <1>1, OpenRestart
<1>4. ledger' = [restarts |-> Append(ledger.restarts, Entry(answer, status, FALSE)),
                 validators |-> ledger.validators,
                 compilers |-> ledger.compilers,
                 work_cap_failure |-> ledger.work_cap_failure \/ FALSE,
                 startup_timeout |-> ledger.startup_timeout]
  BY <1>2, <1>3 DEF LedgerType
<1>5. LedgerOK'
  <2>1. /\ Entry(answer, status, FALSE) \in Rows
        /\ Entry(answer, status, FALSE).of = Restarts + 1
        /\ Entry(answer, status, FALSE).status = status
        /\ ~Entry(answer, status, FALSE).scored
    BY <1>3 DEF Entry, Messages, Rows, Statuses
  <2>2. QED
    BY <1>1, <1>4, <2>1, NotedOK
<1>6. QED
  BY <1>1, <1>3, <1>5, Looping DEF Quiet, Silent

LEMMA ValidatorsEndOK ==
    ASSUME AttemptInv, ValidatorsEnd
    PROVE  AttemptInv'
<1> DEFINE e == [status |-> "WORK_CAP_EXHAUSTED", of |-> answer.of, cost |-> 0, scored |-> FALSE]
<1>1. /\ parent.at = "got" /\ Shut("outcome") /\ up' = up
      /\ UNCHANGED <<quality, caps, clock, worker, receipt>>
  BY DEF ValidatorsEnd, Embedding, At, Stays, WorldStays
<1>2. Entry(Message("none", answer.of, 0), "WORK_CAP_EXHAUSTED", FALSE) = e
  BY DEF Entry, Message
<1>3. ledger' = [ledger EXCEPT !.restarts = Append(@, e), !.work_cap_failure = TRUE]
  BY <1>2 DEF ValidatorsEnd
<1>4. ledger \in LedgerType /\ answer \in Messages /\ answer.of = Restarts + 1
  BY <1>1, OpenRestart
<1>5. ledger' = [restarts |-> Append(ledger.restarts, e),
                 validators |-> ledger.validators,
                 compilers |-> ledger.compilers,
                 work_cap_failure |-> ledger.work_cap_failure \/ TRUE,
                 startup_timeout |-> ledger.startup_timeout]
  BY <1>3, <1>4 DEF LedgerType
<1>6. LedgerOK'
  <2>1. e \in Rows /\ e.of = Restarts + 1 /\ e.status = "WORK_CAP_EXHAUSTED" /\ ~e.scored
    BY <1>4 DEF Messages, Rows, Statuses
  <2> HIDE DEF e
  <2>2. QED
    BY <1>1, <1>5, <2>1, NotedOK
<1>7. QED
  BY <1>1, <1>6, Shutting

\* A row with what it costs, as the runner writes it.
LEMMA CountedIs ==
    ASSUME ledger \in LedgerType, NEW e, NEW dv \in Nat, NEW dc \in Nat,
           ledger' = [ledger EXCEPT !.restarts = Append(@, e),
                                    !.validators = @ + dv, !.compilers = @ + dc]
    PROVE  ledger' = [restarts |-> Append(ledger.restarts, e),
                      validators |-> ledger.validators + dv,
                      compilers |-> ledger.compilers + dc,
                      work_cap_failure |-> ledger.work_cap_failure \/ FALSE,
                      startup_timeout |-> ledger.startup_timeout]
BY DEF LedgerType

LEMMA ScreenOK ==
    ASSUME AttemptInv, Screen
    PROVE  AttemptInv'
<1> DEFINE e == Entry(answer, answer.status, FALSE)
<1>1. /\ parent.at = "got" /\ answer.status \in {"INVALID_CANDIDATE", "VALID_CANDIDATE"}
      /\ Goto("loop") /\ down' = down /\ up' = up
      /\ ledger.validators + 1 <= caps.validators
      /\ quality => answer.status = "INVALID_CANDIDATE"
      /\ UNCHANGED <<quality, caps, clock, worker, receipt>>
  BY DEF Screen, Embedding, Validated, At, Stays, WorldStays
<1>2. /\ Restarts + 1 <= RestartCap /\ Restarts + 1 <= caps.restarts
      /\ caps \in CapChoices /\ quality \in BOOLEAN /\ ledger \in LedgerType /\ LedgerOK
      /\ answer \in Messages /\ answer.of = Restarts + 1 /\ Quiet
  BY <1>1, OpenRestart
<1>3. /\ e \in Rows /\ e.of = Restarts + 1 /\ ~e.scored
      /\ e.status = answer.status
  BY <1>1, <1>2 DEF Entry, Messages, Rows, Statuses
<1>4. ledger' = [ledger EXCEPT !.restarts = Append(@, e),
                               !.validators = @ + 1, !.compilers = @ + 0]
  BY DEF Screen, Counted
<1> HIDE DEF e
<1>5. ledger' = [restarts |-> Append(ledger.restarts, e),
                 validators |-> ledger.validators + 1,
                 compilers |-> ledger.compilers + 0,
                 work_cap_failure |-> ledger.work_cap_failure \/ FALSE,
                 startup_timeout |-> ledger.startup_timeout]
  BY <1>2, <1>4, CountedIs
<1>6. ledger.compilers + 0 <= caps.compilers
  BY <1>2 DEF LedgerOK, Books, LedgerType
<1>7. 1 = (IF e.status \in {"VALID_CANDIDATE", "INVALID_CANDIDATE"} THEN 1 ELSE 0)
               + (IF quality /\ e.scored THEN 1 ELSE 0)
  BY <1>1, <1>3
<1>8. 0 = IF quality /\ e.scored THEN 4 ELSE 0
  BY <1>3
<1>9. ~(quality /\ e.status = "VALID_CANDIDATE" /\ ~e.scored)
  BY <1>1, <1>3
<1>10. LedgerOK'
  BY <1>1, <1>2, <1>3, <1>5, <1>6, <1>7, <1>8, <1>9, Ledgered
<1>11. QED
  BY <1>1, <1>2, <1>10, Looping DEF Quiet, Silent

LEMMA RankOK ==
    ASSUME AttemptInv, Rank
    PROVE  AttemptInv'
<1>1. /\ parent.at = "got" /\ answer.status = "VALID_CANDIDATE" /\ up' = up
      /\ ledger.validators + 1 <= caps.validators /\ quality
      /\ UNCHANGED <<quality, caps, clock, worker, receipt>>
  BY DEF Rank, Embedding, Validated, At, Stays, WorldStays
<1>2. /\ Restarts + 1 <= RestartCap /\ Restarts + 1 <= caps.restarts
      /\ caps \in CapChoices /\ quality \in BOOLEAN /\ ledger \in LedgerType /\ LedgerOK
      /\ answer \in Messages /\ answer.of = Restarts + 1 /\ Quiet
  BY <1>1, OpenRestart
<1>3. CASE CanRank
  <2> DEFINE e == Entry(answer, answer.status, TRUE)
  <2>1. /\ e \in Rows /\ e.of = Restarts + 1 /\ e.scored /\ e.status = "VALID_CANDIDATE"
    BY <1>1, <1>2 DEF Entry, Messages, Rows, Statuses
  <2>2. ledger' = [ledger EXCEPT !.restarts = Append(@, e),
                                 !.validators = @ + 2, !.compilers = @ + 4]
        /\ Goto("loop") /\ down' = down
    BY <1>3 DEF Rank, Ranked, Counted
  <2> HIDE DEF e
  <2>3. ledger' = [restarts |-> Append(ledger.restarts, e),
                   validators |-> ledger.validators + 2,
                   compilers |-> ledger.compilers + 4,
                   work_cap_failure |-> ledger.work_cap_failure \/ FALSE,
                   startup_timeout |-> ledger.startup_timeout]
    BY <1>2, <2>2, CountedIs
  <2>4. ledger.validators + 2 <= caps.validators /\ ledger.compilers + 4 <= caps.compilers
    BY <1>3 DEF CanRank
  <2>5. 2 = (IF e.status \in {"VALID_CANDIDATE", "INVALID_CANDIDATE"} THEN 1 ELSE 0)
               + (IF quality /\ e.scored THEN 1 ELSE 0)
    BY <1>1, <2>1
  <2>6. 4 = IF quality /\ e.scored THEN 4 ELSE 0
    BY <1>1, <2>1
  <2>7. LedgerOK'
    BY <1>1, <1>2, <2>1, <2>3, <2>4, <2>5, <2>6, Ledgered
  <2>8. QED
    BY <1>1, <1>2, <2>2, <2>7, Looping DEF Quiet, Silent
<1>4. CASE ~CanRank
  <2> DEFINE e == Entry(answer, answer.status, FALSE)
  <2>1. /\ e \in Rows /\ e.of = Restarts + 1 /\ ~e.scored /\ e.status = "VALID_CANDIDATE"
    BY <1>1, <1>2 DEF Entry, Messages, Rows, Statuses
  <2>2. Shut("outcome")
        /\ ledger' = [[ledger EXCEPT !.restarts = Append(@, e), !.validators = @ + 1,
                                     !.compilers = @ + 0] EXCEPT !.work_cap_failure = TRUE]
    BY <1>4 DEF Rank, Counted
  <2> HIDE DEF e
  <2>3. ledger' = [restarts |-> Append(ledger.restarts, e),
                   validators |-> ledger.validators + 1,
                   compilers |-> ledger.compilers + 0,
                   work_cap_failure |-> ledger.work_cap_failure \/ TRUE,
                   startup_timeout |-> ledger.startup_timeout]
    BY <1>2, <2>2 DEF LedgerType
  <2>4. ledger.compilers + 0 <= caps.compilers
    BY <1>2 DEF LedgerOK, Books, LedgerType
  <2>5. 1 = (IF e.status \in {"VALID_CANDIDATE", "INVALID_CANDIDATE"} THEN 1 ELSE 0)
               + (IF quality /\ e.scored THEN 1 ELSE 0)
    BY <2>1
  <2>6. 0 = IF quality /\ e.scored THEN 4 ELSE 0
    BY <2>1
  <2>7. LedgerOK'
    BY <1>1, <1>2, <2>1, <2>3, <2>4, <2>5, <2>6, Ledgered
  <2>8. QED
    BY <1>1, <2>2, <2>7, Shutting
<1>5. QED
  BY <1>3, <1>4

LEMMA IntegrityErrorOK ==
    ASSUME AttemptInv, IntegrityError
    PROVE  AttemptInv'
<1>1. /\ parent.at \in {"got", "outcome"} /\ parent' = [parent EXCEPT !.at = "raised"]
      /\ UNCHANGED <<quality, caps, clock, worker, down, up, ledger, receipt>>
  BY DEF IntegrityError, Embedding, At, Goto, Stays, WorldStays
<1>2. AttemptTypeOK /\ Quiet
  BY <1>1 DEF AttemptInv, Conversation, Gone, Quiet
<1>3. LedgerOK'
  BY <1>1, LedgerStays
<1>4. parent' \in [at : Places, after : Places, answer : Messages, timed_out : BOOLEAN] /\ parent'.at = "raised"
  BY <1>1, <1>2 DEF AttemptTypeOK, Places
<1>5. AttemptTypeOK'
  BY <1>1, <1>2, <1>3, <1>4 DEF AttemptTypeOK, LedgerOK, LedgerType
<1>6. Conversation' /\ Room' /\ ReceiptAccepted' /\ AnswersMatch'
  BY <1>1, <1>2, <1>3, <1>4
     DEF Conversation, Quiet, Silent, Room, ReceiptAccepted, AnswersMatch, LedgerOK, At
<1>7. QED
  BY <1>3, <1>5, <1>6 DEF AttemptInv, LedgerOK

LEMMA ExpireOK ==
    ASSUME AttemptInv, Expire
    PROVE  AttemptInv'
<1>1. clock' \in 0 .. 2 /\ UNCHANGED <<quality, caps, worker, down, up, parent, ledger, receipt>>
  BY DEF Expire, Overrun, AttemptInv, AttemptTypeOK
<1>2. LedgerOK'
  BY <1>1, LedgerStays
<1>3. Restarts' = Restarts /\ answer' = answer
  BY <1>1 DEF Restarts, answer
<1>4. AttemptTypeOK'
  BY <1>1, <1>3 DEF AttemptInv, AttemptTypeOK
<1>5. Conversation'
  BY <1>1, <1>3 DEF AttemptInv, Conversation, Opening, Quiet, Asking, Ending, Gone, Silent, At
<1>6. Room' /\ ReceiptAccepted' /\ AnswersMatch'
  BY <1>1, <1>3 DEF AttemptInv, Room, ReceiptAccepted, AnswersMatch, At
<1>7. QED
  BY <1>2, <1>4, <1>5, <1>6 DEF AttemptInv, LedgerOK

-----------------------------------------------------------------------------
(* The receipt accepts what the runner concludes                           *)

LEMMA BestIsEligible ==
    ASSUME ledger.restarts \in Seq(Rows), Eligible(ledger.restarts) # {}
    PROVE  /\ Best(ledger.restarts) \in Eligible(ledger.restarts)
           /\ Eligible(ledger.restarts) \subseteq Valid(ledger.restarts)
           /\ Best(ledger.restarts) \in 1 .. Restarts
<1> DEFINE rows == ledger.restarts
<1>1. Eligible(rows) \subseteq Valid(rows) /\ Valid(rows) \subseteq DOMAIN rows
  BY DEF Eligible, Scored, Valid
<1>2. \E i \in Eligible(rows) : \A j \in Eligible(rows) : Better(rows, i, j)
  BY <1>1, BestExists
<1>3. Best(rows) \in Eligible(rows)
  BY <1>2 DEF Best
<1>4. DOMAIN rows = 1 .. Restarts
  BY DEF Restarts
<1>5. QED
  BY <1>1, <1>3, <1>4

ReceiptType == [reason : Reasons, selected : 0 .. RestartCap, validators : Nat,
                compilers : Nat, audits : {0, 1}, compliant : BOOLEAN]

LEMMA FailureAccepted ==
    ASSUME LedgerOK, caps \in CapChoices, quality \in BOOLEAN, clock \in 0 .. 2,
           NEW reason \in Reasons \ {"VALID_RETURN"},
           reason = "WORK_CAP_EXHAUSTED" \/ Valid(ledger.restarts) = {}
    PROVE  Accepts(Failure(reason)) /\ Failure(reason) \in ReceiptType
<1> DEFINE rows == ledger.restarts
           r == Failure(reason)
<1>1. /\ r.reason = reason /\ r.selected = 0 /\ r.audits = 0
      /\ r.validators = ledger.validators /\ r.compilers = ledger.compilers
  BY DEF Failure
<1>2. rows \in Seq(Rows) /\ ledger.validators \in Nat /\ ledger.compilers \in Nat
  BY DEF LedgerOK, LedgerType
<1>3. Scored(rows) \subseteq Valid(rows)
  BY <1>2, Counts
<1>4. Books /\ caps.audits \in Nat
  BY Caps DEF LedgerOK
<1>5. r \in ReceiptType
  <2>1. 0 \in 0 .. RestartCap
    BY AttemptAssumption
  <2>2. QED
    BY <1>2, <2>1 DEF Failure, ReceiptType
<1> HIDE DEF r
<1>6. r.compilers = IF quality THEN 4 * Cardinality(Scored(rows))
                    ELSE IF r.selected # 0 THEN 4 ELSE 0
  BY <1>1, <1>4 DEF Books
<1>7. r.validators = Cardinality(Screened(rows))
          + IF quality THEN Cardinality(Scored(rows)) ELSE IF r.selected # 0 THEN 1 ELSE 0
  BY <1>1, <1>4 DEF Books
<1>8. IF quality THEN Scored(rows) = Valid(rows) \/ r.reason = "WORK_CAP_EXHAUSTED"
      ELSE Scored(rows) = {}
  BY <1>1, <1>3, <1>4 DEF Books
<1>9. /\ Restarts <= caps.restarts /\ r.validators <= caps.validators
      /\ r.compilers <= caps.compilers /\ r.audits <= caps.audits
  BY <1>1, <1>4 DEF Books
<1>10. Accepts(r)
  BY <1>1, <1>6, <1>7, <1>8, <1>9 DEF Accepts
<1>11. QED
  BY <1>5, <1>10 DEF r

LEMMA SelectionAccepted ==
    ASSUME LedgerOK, caps \in CapChoices, quality \in BOOLEAN, clock \in 0 .. 2,
           ~ledger.work_cap_failure, Eligible(ledger.restarts) # {}, CanCompile
    PROVE  Accepts(Selection(Verdict)) /\ Selection(Verdict) \in ReceiptType
<1> DEFINE rows == ledger.restarts
           r == Selection(Verdict)
<1>1. rows \in Seq(Rows) /\ ledger.validators \in Nat /\ ledger.compilers \in Nat
  BY DEF LedgerOK, LedgerType
<1>2. /\ Best(rows) \in Valid(rows) /\ Best(rows) \in 1 .. Restarts
      /\ Restarts \in Nat /\ Restarts <= RestartCap /\ RestartCap \in Nat
  <2>1. Restarts \in Nat
    BY <1>1 DEF Restarts
  <2>2. QED
    BY <1>1, <2>1, BestIsEligible, AttemptAssumption DEF LedgerOK
<1>3. Best(rows) # 0 /\ Best(rows) \in 0 .. RestartCap
  BY <1>2
<1>4. Books /\ caps.audits \in Nat
  BY Caps DEF LedgerOK
<1>5. Verdict \in Reasons /\ (Verdict = "VALID_RETURN" => ~Expired /\ 1 <= caps.audits)
  BY <1>4 DEF Verdict, Reasons
<1>6. /\ r.reason = Verdict /\ r.selected = Best(rows) /\ r.compliant = ~Expired
      /\ r.audits = IF Verdict = "VALID_RETURN" THEN 1 ELSE 0
      /\ r.validators = ledger.validators + (IF quality THEN 0 ELSE 1)
      /\ r.compilers = ledger.compilers + (IF quality THEN 0 ELSE 4)
  BY DEF Selection
<1>7. r \in ReceiptType
  BY <1>1, <1>3, <1>5 DEF Selection, ReceiptType
<1> HIDE DEF r
<1>8. r.compilers = IF quality THEN 4 * Cardinality(Scored(rows))
                    ELSE IF r.selected # 0 THEN 4 ELSE 0
  <2>1. CASE quality
    BY <1>1, <1>4, <1>6, <2>1 DEF Books
  <2>2. CASE ~quality
    BY <1>3, <1>4, <1>6, <2>2 DEF Books
  <2>3. QED
    BY <2>1, <2>2
<1>9. r.validators = Cardinality(Screened(rows))
          + IF quality THEN Cardinality(Scored(rows)) ELSE IF r.selected # 0 THEN 1 ELSE 0
  <2>0. Cardinality(Screened(rows)) \in Nat /\ Cardinality(Scored(rows)) \in Nat
    BY <1>1, Counts
  <2>1. CASE quality
    <3>1. ledger.validators = Cardinality(Screened(rows)) + Cardinality(Scored(rows))
      BY <1>4, <2>1 DEF Books
    <3>2. r.validators = ledger.validators
      BY <1>1, <1>6, <2>1
    <3>3. QED
      BY <2>1, <3>1, <3>2
  <2>2. CASE ~quality
    <3>1. ledger.validators = Cardinality(Screened(rows))
      BY <1>4, <2>0, <2>2 DEF Books
    <3>2. r.validators = ledger.validators + 1 /\ r.selected # 0
      BY <1>3, <1>6, <2>2
    <3>3. QED
      BY <2>2, <3>1, <3>2
  <2>3. QED
    BY <2>1, <2>2
<1>10. IF quality THEN Scored(rows) = Valid(rows) \/ r.reason = "WORK_CAP_EXHAUSTED"
       ELSE Scored(rows) = {}
  BY <1>4 DEF Books
<1>11. r.audits = (IF r.reason = "VALID_RETURN" THEN 1 ELSE 0) /\ r.audits <= caps.audits
  BY <1>4, <1>5, <1>6
<1>12. Restarts <= caps.restarts /\ r.validators <= caps.validators /\ r.compilers <= caps.compilers
  <2>1. CASE quality
    BY <1>1, <1>4, <1>6, <2>1 DEF Books
  <2>2. CASE ~quality
    <3>1. ledger.validators + 1 <= caps.validators /\ ledger.compilers + 4 <= caps.compilers
      BY <2>2 DEF CanCompile
    <3>2. r.validators = ledger.validators + 1 /\ r.compilers = ledger.compilers + 4
      BY <1>6, <2>2
    <3>3. QED
      BY <1>4, <3>1, <3>2 DEF Books
  <2>3. QED
    BY <2>1, <2>2
<1>13. r.reason = "VALID_RETURN" => r.compliant /\ r.selected # 0
  BY <1>3, <1>5, <1>6
<1>14. r.selected # 0 /\ r.selected \in Valid(rows) /\ r.selected = Best(rows)
  BY <1>2, <1>3, <1>6
<1>15. Accepts(r)
  BY <1>8, <1>9, <1>10, <1>11, <1>12, <1>13, <1>14 DEF Accepts
<1>16. QED
  BY <1>7, <1>15 DEF r

LEMMA ConcludeOK ==
    ASSUME AttemptInv, Conclude
    PROVE  AttemptInv'
<1>1. /\ parent.at = "outcome" /\ receipt' = Result
      /\ parent' = [parent EXCEPT !.at = IF Accepts(receipt') THEN "done" ELSE "refused"]
      /\ UNCHANGED <<quality, caps, clock, worker, down, up, ledger>>
  BY DEF Conclude, At, Goto, WorldStays
<1>2. AttemptTypeOK /\ Gone /\ LedgerOK
  BY <1>1, LedgerNow DEF AttemptInv, Conversation
<1>3. LedgerOK'
  BY <1>1, LedgerStays
<1>4. caps \in CapChoices /\ quality \in BOOLEAN /\ clock \in 0 .. 2
  BY <1>2 DEF AttemptTypeOK
<1>5. Accepts(Result) /\ Result \in ReceiptType
  <2>1. CASE ledger.work_cap_failure
    <3>1. Result = Failure("WORK_CAP_EXHAUSTED")
      BY <2>1 DEF Result
    <3>2. QED
      BY <1>2, <1>4, <3>1, FailureAccepted DEF Reasons
  <2>2. CASE ~ledger.work_cap_failure /\ Eligible(ledger.restarts) = {}
    <3>1. PICK reason \in {"WALLCLOCK_EXHAUSTED", "NO_VALID_EMBEDDING"} :
             Result = Failure(reason)
      BY <2>2 DEF Result
    <3>2. Valid(ledger.restarts) = {}
      BY <1>2, <1>4, <2>2 DEF LedgerOK, Books, Eligible
    <3>3. QED
      BY <1>2, <1>4, <3>1, <3>2, FailureAccepted DEF Reasons
  <2>3. CASE ~ledger.work_cap_failure /\ Eligible(ledger.restarts) # {} /\ CanCompile
    <3>1. Result = Selection(Verdict)
      BY <2>3 DEF Result
    <3>2. QED
      BY <1>2, <1>4, <2>3, <3>1, SelectionAccepted
  <2>4. CASE ~ledger.work_cap_failure /\ Eligible(ledger.restarts) # {} /\ ~CanCompile
    <3>1. Result = Failure("WORK_CAP_EXHAUSTED")
      BY <2>4 DEF Result
    <3>2. QED
      BY <1>2, <1>4, <3>1, FailureAccepted DEF Reasons
  <2>5. QED
    BY <2>1, <2>2, <2>3, <2>4
<1>6. parent' = [parent EXCEPT !.at = "done"]
  BY <1>1, <1>5
<1>7. parent' \in [at : Places, after : Places, answer : Messages, timed_out : BOOLEAN] /\ parent'.at = "done"
  BY <1>2, <1>6 DEF AttemptTypeOK, Places
<1>8. receipt' \in ReceiptType
  BY <1>1, <1>5
<1>9. AttemptTypeOK'
  BY <1>1, <1>2, <1>3, <1>7, <1>8 DEF AttemptTypeOK, LedgerOK, LedgerType, ReceiptType
<1>10. Conversation' /\ Room' /\ ReceiptAccepted' /\ AnswersMatch'
  BY <1>1, <1>2, <1>3, <1>7
     DEF Conversation, Gone, Silent, Room, ReceiptAccepted, AnswersMatch, LedgerOK, At
<1>11. QED
  BY <1>3, <1>9, <1>10 DEF AttemptInv, LedgerOK

-----------------------------------------------------------------------------
(* The theorems                                                            *)

LEMMA StepOK ==
    ASSUME AttemptInv, [Next]_vars
    PROVE  AttemptInv'
<1>1. CASE Next
  <2>1. CASE ParentNext
    BY <2>1, OpenedOK, ClosesOK, JoinedOK, SearchOK, SearchTimesOutOK, ReceivedOK,
       NoCandidateOK, ValidatorsEndOK, ScreenOK, RankOK, ConcludeOK, IntegrityErrorOK
       DEF ParentNext
  <2>2. CASE WorkerNext
    BY <2>2, WorkerStartsOK, WorkerTakesOK, WorkerAnswersOK, WorkerDiesOK DEF WorkerNext
  <2>3. CASE Expire
    BY <2>3, ExpireOK
  <2>4. QED
    BY <1>1, <2>1, <2>2, <2>3 DEF Next
<1>2. CASE UNCHANGED vars
  <2>1. UNCHANGED <<quality, caps, clock, worker, down, up, parent, ledger, receipt>>
    BY <1>2 DEF vars
  <2>2. Restarts' = Restarts /\ answer' = answer
    BY <2>1 DEF Restarts, answer
  <2>3. LedgerOK'
    BY <2>1, LedgerStays
  <2>4. AttemptTypeOK'
    BY <2>1, <2>2 DEF AttemptInv, AttemptTypeOK
  <2>5. Conversation'
    BY <2>1, <2>2 DEF AttemptInv, Conversation, Opening, Quiet, Asking, Ending, Gone, Silent, At
  <2>6. Room' /\ ReceiptAccepted' /\ AnswersMatch'
    BY <2>1, <2>2 DEF AttemptInv, Room, ReceiptAccepted, AnswersMatch, At
  <2>7. QED
    BY <2>3, <2>4, <2>5, <2>6 DEF AttemptInv, LedgerOK
<1>3. QED
  BY <1>1, <1>2

\* The invariant of the attempt holds, for any caps and any worker.
THEOREM AttemptInvariant == Spec => []AttemptInv
<1>1. Init => AttemptInv
  BY InitOK
<1>2. AttemptInv /\ [Next]_vars => AttemptInv'
  BY StepOK
<1>3. QED
  BY <1>1, <1>2, PTL DEF Spec

\* Every variable of the attempt keeps its type; no pipe overflows.
THEOREM AttemptTyped == Spec => []AttemptTypeOK
<1>1. AttemptInv => AttemptTypeOK
  BY DEF AttemptInv
<1>2. QED
  BY <1>1, AttemptInvariant, PTL

\* What the runner reads answers what it asked, also after a timeout.
THEOREM AnswersAreTheirs == Spec => []AnswersMatch
<1>1. AttemptInv => AnswersMatch
  BY DEF AttemptInv
<1>2. QED
  BY <1>1, AttemptInvariant, PTL

\* No worker and no pipe outlives the restart loop.
THEOREM WorkerIsStopped == Spec => []WorkerStops
<1>1. AttemptInv => WorkerStops
  BY DEF AttemptInv, Conversation, Gone, Silent, WorkerStops
<1>2. QED
  BY <1>1, AttemptInvariant, PTL

\* The receipt accepts whatever the runner concludes.
THEOREM ReceiptsAccepted == Spec => []ReceiptAccepted
<1>1. AttemptInv => ReceiptAccepted
  BY DEF AttemptInv
<1>2. QED
  BY <1>1, AttemptInvariant, PTL

\* A row that is no candidate changes nothing that was screened.
LEMMA NotScreened ==
    ASSUME AttemptInv, parent.at \in {"asked", "got"},
           NEW from \in Messages, from.of \in {0, Restarts + 1},
           NEW status \in {"NO_EMBEDDING", "TIMED_OUT"},
           Note(from, status, FALSE)
    PROVE  Screened(ledger'.restarts) = Screened(ledger.restarts)
<1>1. ledger \in LedgerType /\ Restarts + 1 \in 0 .. RestartCap /\ RestartCap \in Nat
  BY OpenRestart
<1>2. ledger'.restarts = Append(ledger.restarts, Entry(from, status, FALSE))
  BY <1>1 DEF Note, LedgerType
<1>3. /\ Entry(from, status, FALSE) \in Rows
      /\ Entry(from, status, FALSE).status \notin {"VALID_CANDIDATE", "INVALID_CANDIDATE"}
  BY <1>1 DEF Entry, Messages, Rows, Statuses
<1>4. ledger.restarts \in Seq(Rows)
  BY <1>1 DEF LedgerType
<1>5. QED
  BY <1>2, <1>3, <1>4, OneMore

-----------------------------------------------------------------------------
(* Progress                                                                *)

\* Places the runner can still go through before it notes another restart.
PlaceLeft ==
    CASE parent.at = "open"    -> 7
      [] parent.at = "joining" -> IF parent.after = "loop" THEN 6 ELSE 2
      [] parent.at = "loop"    -> 5
      [] parent.at = "asked"   -> 4
      [] parent.at = "got"     -> 3
      [] parent.at = "outcome" -> 1
      [] OTHER                 -> 0

\* What is left of the attempt: restarts that can still be noted, then places.
RunnerLeft == 8 * (RestartCap - Restarts) + PlaceLeft

LEMMA PlaceBounds == PlaceLeft \in 0 .. 7
BY DEF PlaceLeft

LEMMA RestartsLeft == ASSUME AttemptInv PROVE RestartCap \in Nat /\ Restarts \in 0 .. RestartCap
<1>1. ledger.restarts \in Seq(Rows) /\ Restarts <= RestartCap
  BY DEF AttemptInv, AttemptTypeOK
<1>2. QED
  BY <1>1, AttemptAssumption DEF Restarts

LEMMA Going ==
    ASSUME AttemptInv, NEW place, Goto(place)
    PROVE  parent'.at = place /\ parent'.after = parent.after
BY DEF AttemptInv, AttemptTypeOK, Goto

LEMMA Closing ==
    ASSUME AttemptInv, NEW after, Shut(after)
    PROVE  parent'.at = "joining" /\ parent'.after = after
BY DEF AttemptInv, AttemptTypeOK, Shut

\* A row more is a restart more.
LEMMA NotedOnce ==
    ASSUME AttemptInv, NEW row, ledger'.restarts = Append(ledger.restarts, row)
    PROVE  Restarts' = Restarts + 1
<1>1. ledger.restarts \in Seq(Rows)
  BY DEF AttemptInv, AttemptTypeOK
<1>2. QED
  BY <1>1 DEF Restarts

LEMMA WithinRestart ==
    ASSUME AttemptInv, ledger'.restarts = ledger.restarts,
           NEW before \in 0 .. 7, NEW now \in 0 .. 7,
           PlaceLeft = before, PlaceLeft' = now, now < before
    PROVE  RunnerLeft' < RunnerLeft
<1>1. Restarts' = Restarts
  BY DEF Restarts
<1>2. QED
  BY <1>1, RestartsLeft DEF RunnerLeft

\* One more restart weighs more than every step inside a restart.
LEMMA RestartOutweighs ==
    ASSUME NEW cap \in Nat, NEW n \in Nat, NEW before \in 0 .. 7, NEW now \in 0 .. 7
    PROVE  8 * (cap - (n + 1)) + now < 8 * (cap - n) + before
OBVIOUS

LEMMA BetweenRestarts ==
    ASSUME AttemptInv, NEW row, ledger'.restarts = Append(ledger.restarts, row),
           NEW now \in 0 .. 7, PlaceLeft' = now
    PROVE  RunnerLeft' < RunnerLeft
<1>1. Restarts' = Restarts + 1
  BY NotedOnce
<1>2. PlaceLeft \in 0 .. 7
  BY PlaceBounds
<1>3. RestartCap \in Nat /\ Restarts \in Nat
  BY RestartsLeft
<1>4. 8 * (RestartCap - (Restarts + 1)) + now < 8 * (RestartCap - Restarts) + PlaceLeft
  BY <1>2, <1>3, RestartOutweighs
<1>5. QED
  BY <1>1, <1>4 DEF RunnerLeft

LEMMA RunnerStep ==
    ASSUME AttemptInv, ParentNext
    PROVE  RunnerLeft' < RunnerLeft
<1> USE DEF At
<1>a. ledger \in LedgerType
  BY DEF AttemptInv, AttemptTypeOK, LedgerType
<1>1. CASE Opened
  <2>1. parent.at = "open" /\ ledger' = ledger
    BY <1>1 DEF Opened
  <2>2. parent'.at = "loop" \/ (parent'.at = "joining" /\ parent'.after = "raised")
    BY <1>1, Going, Closing DEF Opened
  <2>3. PlaceLeft = 7 /\ PlaceLeft' \in {2, 5}
    BY <2>1, <2>2 DEF PlaceLeft
  <2>4. QED
    BY <2>1, <2>3, WithinRestart
<1>2. CASE StartupTimesOut \/ WorkerIsGone
  <2>1. parent.at \in {"open", "asked"} /\ ledger'.restarts = ledger.restarts
    BY <1>2, <1>a DEF StartupTimesOut, WorkerIsGone, LedgerType
  <2>2. parent'.at = "joining" /\ parent'.after \in {"outcome", "raised"}
    BY <1>2, Closing DEF StartupTimesOut, WorkerIsGone
  <2>3. PlaceLeft \in {4, 7} /\ PlaceLeft' = 2
    BY <2>1, <2>2 DEF PlaceLeft
  <2>4. QED
    BY <2>1, <2>3, WithinRestart
<1>3. CASE Joined
  <2>1. parent.at = "joining" /\ parent'.at = parent.after /\ ledger' = ledger
    BY <1>3, Going DEF Joined
  <2>2. parent.after \in {"loop", "outcome", "raised"}
    BY <2>1 DEF AttemptInv, Conversation, Ending
  <2>3. \/ PlaceLeft = 6 /\ PlaceLeft' = 5
        \/ PlaceLeft = 2 /\ PlaceLeft' \in {0, 1}
    BY <2>1, <2>2 DEF PlaceLeft
  <2>4. QED
    BY <2>1, <2>3, WithinRestart
<1>4. CASE LoopEnds \/ RestartWorkEnds \/ Search
  <2>1. parent.at = "loop" /\ ledger'.restarts = ledger.restarts
    BY <1>4, <1>a DEF LoopEnds, RestartWorkEnds, Search, LedgerType
  <2>2. parent'.at = "asked"
        \/ (parent'.at = "joining" /\ parent'.after \in {"outcome", "raised"})
    BY <1>4, Going, Closing DEF LoopEnds, RestartWorkEnds, Search
  <2>3. PlaceLeft = 5 /\ PlaceLeft' \in {2, 4}
    BY <2>1, <2>2 DEF PlaceLeft
  <2>4. QED
    BY <2>1, <2>3, WithinRestart
<1>5. CASE Received
  <2>1. parent.at = "asked" /\ ledger' = ledger
    BY <1>5 DEF Received
  <2>2. parent'.at = "got" \/ (parent'.at = "joining" /\ parent'.after = "raised")
    BY <1>5, Closing DEF Received, AttemptInv, AttemptTypeOK
  <2>3. PlaceLeft = 4 /\ PlaceLeft' \in {2, 3}
    BY <2>1, <2>2 DEF PlaceLeft
  <2>4. QED
    BY <2>1, <2>3, WithinRestart
<1>6. CASE SearchTimesOut \/ NoCandidate
  <2>1. PICK row : ledger'.restarts = Append(ledger.restarts, row)
    BY <1>6, <1>a DEF SearchTimesOut, NoCandidate, Note, LedgerType
  <2>2. PlaceLeft' \in 0 .. 7
    BY DEF PlaceLeft
  <2>3. QED
    BY <2>1, <2>2, BetweenRestarts
<1>7. CASE ValidatorsEnd \/ Screen \/ Rank
  <2>1. PICK row : ledger'.restarts = Append(ledger.restarts, row)
    BY <1>7, <1>a DEF ValidatorsEnd, Screen, Rank, Ranked, Counted, LedgerType
  <2>2. PlaceLeft' \in 0 .. 7
    BY DEF PlaceLeft
  <2>3. QED
    BY <2>1, <2>2, BetweenRestarts
<1>8. CASE Conclude \/ IntegrityError
  <2>1. parent.at \in {"outcome", "got"} /\ ledger' = ledger
    BY <1>8 DEF Conclude, IntegrityError, Embedding
  <2>2. parent'.at \in {"done", "refused", "raised"}
    BY <1>8, Going DEF Conclude, IntegrityError
  <2>3. PlaceLeft \in {1, 3} /\ PlaceLeft' = 0
    BY <2>1, <2>2 DEF PlaceLeft
  <2>4. QED
    BY <2>1, <2>3, WithinRestart
<1>9. QED
  BY <1>1, <1>2, <1>3, <1>4, <1>5, <1>6, <1>7, <1>8 DEF ParentNext

\* The safety half of AttemptEnds: each step of run_external_complete_system
\* uses up one of a number of steps fixed by the restart cap, and nothing the
\* worker or the clock does gives one back.
THEOREM AttemptShortens ==
    Spec => /\ [](RunnerLeft \in Nat)
            /\ [][IF ParentNext THEN RunnerLeft' < RunnerLeft ELSE RunnerLeft' = RunnerLeft]_vars
<1>1. AttemptInv => RunnerLeft \in Nat
  BY RestartsLeft, PlaceBounds DEF RunnerLeft
<1>2. AttemptInv /\ [Next]_vars
         => [IF ParentNext THEN RunnerLeft' < RunnerLeft ELSE RunnerLeft' = RunnerLeft]_vars
  <2>1. ASSUME AttemptInv, ParentNext PROVE RunnerLeft' < RunnerLeft
    BY <2>1, RunnerStep
  <2>2. ASSUME WorkerNext \/ Expire PROVE RunnerLeft' = RunnerLeft
    <3>1. parent' = parent /\ ledger' = ledger
      BY <2>2 DEF WorkerNext, WorkerStarts, WorkerTakes, WorkerAnswers, WorkerDies, Expire,
         ParentStays
    <3>2. QED
      BY <3>1 DEF RunnerLeft, PlaceLeft, Restarts
  <2>3. QED
    BY <2>1, <2>2 DEF Next
<1>3. QED
  BY <1>1, <1>2, AttemptInvariant, PTL DEF Spec

-----------------------------------------------------------------------------
(* Late answers                                                            *)

\* What keeps restart k from being screened, once it was too late: it will not
\* begin, its answer will be or was measured to be late, or its row is written.
Barred(k) ==
    \/ Expired /\ Begun < k
    \/ /\ Overrun /\ k = Restarts + 1
       /\ At("asked") \/ (At("got") /\ parent.timed_out)
    \/ k <= Restarts /\ k \notin Screened(ledger.restarts)

LEMMA TooLateBars ==
    ASSUME AttemptInv, NEW k \in 1 .. RestartCap, TooLate(k)
    PROVE  Barred(k)
BY DEF TooLate, Barred, Begun, At

LEMMA BarredUnscreened ==
    ASSUME AttemptInv, NEW k \in 1 .. RestartCap, Barred(k)
    PROVE  k \notin Screened(ledger.restarts)
<1>1. ledger.restarts \in Seq(Rows)
  BY DEF AttemptInv, AttemptTypeOK
<1>2. Screened(ledger.restarts) \subseteq 1 .. Restarts /\ Restarts \in Nat
  BY <1>1 DEF Screened, Restarts
<1>3. RestartCap \in Nat
  BY AttemptAssumption
<1>4. QED
  BY <1>2, <1>3 DEF Barred, Begun

\* A row more: of the restart that was open, whose turn is over.
LEMMA RowNoted ==
    ASSUME AttemptInv, SearchTimesOut \/ NoCandidate \/ ValidatorsEnd \/ Screen \/ Rank
    PROVE  /\ parent.at \in {"asked", "got"} /\ parent'.at \in {"loop", "joining"}
           /\ Restarts' = Restarts + 1
           /\ Screened(ledger'.restarts) \subseteq Screened(ledger.restarts) \cup {Restarts'}
<1>1. parent.at \in {"asked", "got"} /\ (Goto("loop") \/ \E after : Shut(after))
  BY DEF SearchTimesOut, NoCandidate, ValidatorsEnd, Screen, Rank, Embedding, At
<1>2. parent'.at \in {"loop", "joining"}
  BY <1>1, Going, Closing
<1>3. PICK row : ledger'.restarts = Append(ledger.restarts, row)
  <2>1. ledger \in LedgerType
    BY DEF AttemptInv, AttemptTypeOK, LedgerType
  <2>2. QED
    BY <2>1 DEF SearchTimesOut, NoCandidate, ValidatorsEnd, Screen, Rank, Ranked, Counted, Note,
       LedgerType
<1>4. Restarts' = Restarts + 1
  BY <1>3, NotedOnce
<1>5. Screened(ledger'.restarts) \subseteq Screened(ledger.restarts) \cup {Restarts'}
  <2>1. ledger.restarts \in Seq(Rows)
    BY DEF AttemptInv, AttemptTypeOK
  <2>2. /\ DOMAIN ledger'.restarts = 1 .. (Restarts + 1) /\ Restarts \in Nat
        /\ \A i \in 1 .. Restarts : i \in DOMAIN ledger.restarts
                                    /\ ledger'.restarts[i] = ledger.restarts[i]
    BY <1>3, <2>1 DEF Restarts
  <2>3. QED
    BY <1>4, <2>2 DEF Screened
<1>6. QED
  BY <1>1, <1>2, <1>4, <1>5

\* An answer that was not read in time leaves no candidate.
LEMMA LateRow ==
    ASSUME AttemptInv, SearchTimesOut \/ NoCandidate
    PROVE  Screened(ledger'.restarts) = Screened(ledger.restarts)
<1>1. CASE SearchTimesOut
  <2>1. parent.at = "asked" /\ Note(Silence, "TIMED_OUT", FALSE)
    BY <1>1 DEF SearchTimesOut, At
  <2>2. Silence \in Messages /\ Silence.of = 0
    BY <2>1, OpenRestart DEF Silence, Message, Messages
  <2>3. QED
    BY <2>1, <2>2, NotScreened
<1>2. CASE NoCandidate
  <2>1. parent.at = "got"
        /\ \E status \in {"NO_EMBEDDING", "TIMED_OUT"} : Note(answer, status, FALSE)
    BY <1>2 DEF NoCandidate, At
  <2>2. answer \in Messages /\ answer.of = Restarts + 1
    BY <2>1, OpenRestart
  <2>3. QED
    BY <2>1, <2>2, NotScreened
<1>3. QED
  BY <1>1, <1>2

\* The other steps write no row; none begins a restart after the deadline.
LEMMA NoRow ==
    ASSUME AttemptInv, [Next]_vars,
           ~(SearchTimesOut \/ NoCandidate \/ ValidatorsEnd \/ Screen \/ Rank)
    PROVE  /\ ledger'.restarts = ledger.restarts
           /\ Expired => Begun' <= Begun
           /\ At("asked") /\ Overrun =>
                 parent'.at \notin {"asked", "got"} \/ At("asked")' \/ parent'.timed_out
           /\ At("got") => parent'.at \notin {"asked", "got"} \/ parent' = parent
<1> USE DEF At
<1>1. ledger \in LedgerType /\ Restarts \in Nat
  BY DEF AttemptInv, AttemptTypeOK, LedgerType, Restarts
<1>2. CASE WorkerNext \/ Expire \/ UNCHANGED vars
  <2>1. parent' = parent /\ ledger' = ledger
    BY <1>2 DEF WorkerNext, WorkerStarts, WorkerTakes, WorkerAnswers, WorkerDies, Expire,
       ParentStays, vars
  <2>2. QED
    BY <1>1, <2>1 DEF Begun, Restarts
<1>3. CASE Opened \/ StartupTimesOut \/ WorkerIsGone \/ LoopEnds \/ RestartWorkEnds
           \/ (Search /\ worker.at = "dead") \/ Conclude \/ IntegrityError
  <2>1. ledger'.restarts = ledger.restarts
    BY <1>1, <1>3 DEF Opened, StartupTimesOut, WorkerIsGone, LoopEnds, RestartWorkEnds, Search,
       Conclude, IntegrityError, LedgerType
  <2>2. \/ \E after : Shut(after)
        \/ \E place \in {"loop", "done", "refused", "raised"} : Goto(place)
    BY <1>3 DEF Opened, StartupTimesOut, WorkerIsGone, LoopEnds, RestartWorkEnds, Search,
       Conclude, IntegrityError
  <2>3. parent'.at \notin {"asked", "got"}
    BY <2>2, Going, Closing
  <2>4. QED
    BY <1>1, <2>1, <2>3 DEF Begun, Restarts
<1>4. CASE Joined
  <2>1. parent.at = "joining" /\ parent'.at = parent.after /\ ledger' = ledger
    BY <1>4, Going DEF Joined
  <2>2. parent.after \in {"loop", "outcome", "raised"}
    BY <2>1 DEF AttemptInv, Conversation, Ending
  <2>3. QED
    BY <1>1, <2>1, <2>2 DEF Begun, Restarts
<1>5. CASE Search /\ worker.at # "dead"
  <2>1. ledger' = ledger /\ ~Expired /\ parent.at = "loop"
    BY <1>5 DEF Search
  <2>2. QED
    BY <2>1
<1>6. CASE Received
  <2>1. ledger' = ledger /\ parent.at = "asked"
    BY <1>6 DEF Received
  <2>2. parent'.at = "joining" \/ (parent'.at = "got" /\ parent'.timed_out = Overrun)
    BY <1>6, Closing DEF Received, AttemptInv, AttemptTypeOK
  <2>3. QED
    BY <1>1, <2>1, <2>2 DEF Begun, Restarts
<1>7. QED
  BY <1>2, <1>3, <1>4, <1>5, <1>6 DEF Next, ParentNext

LEMMA TimePasses ==
    ASSUME AttemptInv, [Next]_vars
    PROVE  (Expired => Expired') /\ (Overrun => Overrun')
<1>1. clock \in 0 .. 2
  BY DEF AttemptInv, AttemptTypeOK
<1>2. clock' = clock \/ (~Overrun /\ clock' = clock + 1)
  BY DEF Next, ParentNext, WorkerNext, vars, Expire, ParentStays, WorldStays, Stays, Opened,
     StartupTimesOut, WorkerIsGone, Joined, LoopEnds, RestartWorkEnds, Search, SearchTimesOut,
     Received, NoCandidate, ValidatorsEnd, Screen, Rank, Conclude, IntegrityError, WorkerStarts,
     WorkerTakes, WorkerAnswers, WorkerDies
<1>3. QED
  BY <1>1, <1>2 DEF Expired, Overrun

LEMMA BarredStays ==
    ASSUME AttemptInv, [Next]_vars, NEW k \in 1 .. RestartCap, Barred(k)
    PROVE  Barred(k)'
<1> DEFINE Noting == SearchTimesOut \/ NoCandidate \/ ValidatorsEnd \/ Screen \/ Rank
<1>1. RestartCap \in Nat /\ Restarts \in Nat /\ k \in Nat
  BY RestartsLeft
<1>2. (Expired => Expired') /\ (Overrun => Overrun') /\ (Overrun => Expired)
  BY TimePasses DEF Expired, Overrun
<1>3. k \notin Screened(ledger.restarts)
  BY BarredUnscreened
<1>4. CASE Noting
  <2>1. /\ parent.at \in {"asked", "got"} /\ parent'.at \in {"loop", "joining"}
        /\ Restarts' = Restarts + 1
        /\ Screened(ledger'.restarts) \subseteq Screened(ledger.restarts) \cup {Restarts'}
    BY <1>4, RowNoted
  <2>2. Begun = Restarts + 1 /\ Begun' = Restarts + 1
    BY <1>1, <2>1 DEF Begun
  <2>3. CASE Expired /\ Begun < k
    BY <1>2, <2>2, <2>3 DEF Barred
  <2>4. CASE /\ Overrun /\ k = Restarts + 1
             /\ At("asked") \/ (At("got") /\ parent.timed_out)
    <3>1. SearchTimesOut \/ NoCandidate
      BY <1>4, <2>4 DEF ValidatorsEnd, Screen, Rank, Embedding, OnTime, At
    <3>2. QED
      BY <1>1, <1>3, <2>1, <2>4, <3>1, LateRow DEF Barred
  <2>5. CASE k <= Restarts
    BY <1>1, <1>3, <2>1, <2>5 DEF Barred
  <2>6. QED
    BY <2>3, <2>4, <2>5 DEF Barred
<1>5. CASE ~Noting
  <2>1. /\ ledger'.restarts = ledger.restarts
        /\ Expired => Begun' <= Begun
        /\ At("asked") /\ Overrun =>
              parent'.at \notin {"asked", "got"} \/ At("asked")' \/ parent'.timed_out
        /\ At("got") => parent'.at \notin {"asked", "got"} \/ parent' = parent
    BY <1>5, NoRow
  <2>2. Restarts' = Restarts /\ Begun \in Nat /\ Begun' \in Nat
    <3>1. Restarts' = Restarts
      BY <2>1 DEF Restarts
    <3>2. QED
      BY <1>1, <3>1 DEF Begun
  <2>3. CASE Expired /\ Begun < k
    BY <1>1, <1>2, <2>1, <2>2, <2>3 DEF Barred
  <2>4. CASE /\ Overrun /\ k = Restarts + 1
             /\ At("asked") \/ (At("got") /\ parent.timed_out)
    <3>1. CASE parent'.at \notin {"asked", "got"}
      <4>1. Begun' = Restarts
        BY <1>1, <2>2, <3>1 DEF Begun
      <4>2. QED
        BY <1>1, <1>2, <2>4, <4>1 DEF Barred
    <3>2. CASE parent'.at \in {"asked", "got"}
      <4>1. At("asked")' \/ (At("got")' /\ parent'.timed_out)
        BY <2>1, <2>4, <3>2 DEF At
      <4>2. QED
        BY <1>2, <2>2, <2>4, <4>1 DEF Barred
    <3>3. QED
      BY <3>1, <3>2
  <2>5. CASE k <= Restarts
    BY <1>3, <2>1, <2>2, <2>5 DEF Barred
  <2>6. QED
    BY <2>3, <2>4, <2>5 DEF Barred
<1>6. QED
  BY <1>4, <1>5

\* A restart that had not begun when the deadline passed, or had no answer when
\* its budget ended, never becomes a candidate; the clock is not looked at again
\* once its answer has been measured (external_pairing.py).
THEOREM NoLateCandidates == Spec => NoLateCandidate
<1>1. SUFFICES ASSUME NEW k \in 1 .. RestartCap
               PROVE  Spec => [](TooLate(k) => [](k \notin Screened(ledger.restarts)))
  BY DEF NoLateCandidate
<1>2. AttemptInv /\ TooLate(k) => Barred(k)
  BY TooLateBars
<1>3. AttemptInv /\ Barred(k) => k \notin Screened(ledger.restarts)
  BY BarredUnscreened
<1>4. AttemptInv /\ Barred(k) /\ [Next]_vars => Barred(k)'
  BY BarredStays
<1>5. QED
  BY <1>2, <1>3, <1>4, AttemptInvariant, PTL DEF Spec

-----------------------------------------------------------------------------
(* The selection                                                           *)

\* A finished attempt has a receipt that accepts its own ledger, and the row
\* it selects is one of those that count, with none ranked before it.
DoneReceipt ==
    At("done") =>
        /\ Accepts(receipt)
        /\ receipt.selected # 0 =>
              /\ receipt.selected \in Eligible(ledger.restarts)
              /\ \A j \in Eligible(ledger.restarts) :
                    Better(ledger.restarts, receipt.selected, j)

LEMMA ConcludeSelects ==
    ASSUME AttemptInv, Conclude, At("done")'
    PROVE  DoneReceipt'
<1> DEFINE rows == ledger.restarts
<1>1. /\ receipt' = Result /\ UNCHANGED <<quality, caps, ledger>>
      /\ rows \in Seq(Rows)
  BY DEF Conclude, WorldStays, AttemptInv, AttemptTypeOK
<1>2. Accepts(receipt)'
  <2>1. Accepts(receipt')
    <3>1. parent.at = "outcome"
          /\ parent' = [parent EXCEPT !.at = IF Accepts(receipt') THEN "done" ELSE "refused"]
          /\ parent'.at = "done"
      BY DEF Conclude, At, Goto
    <3>2. parent \in [at : Places, after : Places, answer : Messages, timed_out : BOOLEAN]
      BY DEF AttemptInv, AttemptTypeOK
    <3>3. QED
      BY <3>1, <3>2
  <2>2. QED
    BY <1>1, <2>1 DEF Accepts, Restarts, Scored, Valid, Screened, Best, Eligible, Better
<1>3. ASSUME receipt'.selected # 0
      PROVE  /\ receipt'.selected \in Eligible(rows)
             /\ \A j \in Eligible(rows) : Better(rows, receipt'.selected, j)
  <2>1. Eligible(rows) # {} /\ receipt'.selected = Best(rows)
    BY <1>1, <1>3 DEF Result, Failure, Selection
  <2>2. Eligible(rows) \subseteq DOMAIN rows
    BY DEF Eligible, Scored, Valid
  <2>3. \E i \in Eligible(rows) : \A j \in Eligible(rows) : Better(rows, i, j)
    BY <1>1, <2>1, <2>2, BestExists
  <2>4. /\ Best(rows) \in Eligible(rows)
        /\ \A j \in Eligible(rows) : Better(rows, Best(rows), j)
    BY <2>3 DEF Best
  <2>5. QED
    BY <2>1, <2>4
<1>4. Eligible(rows)' = Eligible(rows)
  BY <1>1 DEF Eligible, Scored, Valid
<1>5. QED
  BY <1>1, <1>2, <1>3, <1>4 DEF DoneReceipt, Better

\* Only Conclude finishes an attempt, and nothing happens to a finished one.
LEMMA OnlyConclude ==
    ASSUME AttemptInv, Next, ~Conclude, At("done")'
    PROVE  At("done") /\ UNCHANGED <<quality, caps, ledger, receipt>>
<1> USE DEF At
<1>1. CASE WorkerNext \/ Expire
  BY <1>1 DEF WorkerNext, WorkerStarts, WorkerTakes, WorkerAnswers, WorkerDies, ParentStays,
     Expire
<1>2. CASE Opened \/ StartupTimesOut \/ WorkerIsGone \/ LoopEnds \/ RestartWorkEnds \/ Search
           \/ SearchTimesOut
  <2>1. Goto("loop") \/ Goto("asked") \/ \E after : Shut(after)
    BY <1>2 DEF Opened, StartupTimesOut, WorkerIsGone, LoopEnds, RestartWorkEnds, Search,
       SearchTimesOut
  <2>2. parent'.at \in {"loop", "asked", "joining"}
    BY <2>1, Going, Closing
  <2>3. QED
    BY <2>2
<1>3. CASE Joined
  <2>1. parent.at = "joining" /\ parent'.at = parent.after
    BY <1>3, Going DEF Joined
  <2>2. QED
    BY <2>1 DEF AttemptInv, Conversation, Ending
<1>4. CASE Received
  BY <1>4, Closing DEF Received, AttemptInv, AttemptTypeOK
<1>5. CASE NoCandidate \/ ValidatorsEnd \/ Screen \/ Rank \/ IntegrityError
  <2>1. Goto("loop") \/ Goto("raised") \/ \E after : Shut(after)
    BY <1>5 DEF NoCandidate, ValidatorsEnd, Screen, Rank, IntegrityError
  <2>2. parent'.at \in {"loop", "raised", "joining"}
    BY <2>1, Going, Closing
  <2>3. QED
    BY <2>2
<1>6. QED
  BY <1>1, <1>2, <1>3, <1>4, <1>5 DEF Next, ParentNext

\* What a finished attempt selects is the best of what it screened, or for
\* quality ranking of what it scored (selected_candidate), and the receipt
\* that says so still accepts the ledger it was built from.
THEOREM SelectionIsBest == Spec => []DoneReceipt
<1>1. Init => DoneReceipt
  BY DEF Init, DoneReceipt, At
<1>2. AttemptInv /\ DoneReceipt /\ [Next]_vars => DoneReceipt'
  <2> SUFFICES ASSUME AttemptInv, DoneReceipt, [Next]_vars, At("done")'
               PROVE  DoneReceipt'
    BY DEF DoneReceipt
  <2>1. CASE Conclude
    BY <2>1, ConcludeSelects
  <2>2. CASE At("done") /\ UNCHANGED <<quality, caps, ledger, receipt>>
    <3>1. Accepts(receipt)' <=> Accepts(receipt)
      BY <2>2 DEF Accepts, Restarts, Scored, Valid, Screened, Best, Eligible, Better
    <3>2. Eligible(ledger.restarts)' = Eligible(ledger.restarts)
      BY <2>2 DEF Eligible, Scored, Valid
    <3>3. QED
      BY <2>2, <3>1, <3>2 DEF DoneReceipt, Better
  <2>3. CASE UNCHANGED vars
    BY <2>2, <2>3 DEF vars, At
  <2>4. QED
    BY <2>1, <2>2, <2>3, OnlyConclude
<1>3. QED
  BY <1>1, <1>2, AttemptInvariant, PTL DEF Spec
=============================================================================
