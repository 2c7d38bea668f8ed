--------------------------- MODULE ExternalAttempt ---------------------------
(***************************************************************************)
(* One attempt of the stock baseline: run_external_complete_system asks a  *)
(* worker process for restarts over a pipe until a deadline, ranks the     *)
(* candidates and builds a receipt that checks itself                      *)
(* (external.py, external_pairing.py).                                     *)
(*                                                                         *)
(* Time passes two instants: the attempt's deadline, and the budget of the *)
(* call that is open.  The budget is what was left before the deadline     *)
(* when the call began, so it cannot end first; where the code reads its   *)
(* clock more than once for one test, the model reads it at the test that  *)
(* decides (the tolerance of a nanosecond is left out).  An embedding is   *)
(* its verdict by p_embed and its place in the ranking order; the programs *)
(* of a candidate are counted, and reads are counted in audits.            *)
(***************************************************************************)
EXTENDS Integers, Sequences, FiniteSets

CONSTANTS RestartCap,   \* effective_restart_cap
          CapChoices,   \* context.caps: restarts, validators, compilers, audits
          Costs         \* places in the ranking order, the best first

ASSUME AttemptAssumption ==
    /\ RestartCap \in Nat \ {0}
    /\ CapChoices \subseteq [restarts : Nat, validators : Nat, compilers : Nat, audits : Nat]
    /\ Costs \subseteq Nat

VARIABLES quality,   \* whether the strategy ranks by predicted quality
          caps,
          clock,     \* 1: the deadline has passed; 2: the open call's budget too
          worker,    \* the worker process and the restart it serves
          down, up,  \* the two directions of the pipe
          parent,    \* where the runner is, what follows a close, the answer in hand
                     \* and whether it was read too late
          ledger,    \* what it has counted
          receipt

vars == <<quality, caps, clock, worker, down, up, parent, ledger, receipt>>

Message(status, of, cost) == [status |-> status, of |-> of, cost |-> cost]
Silence == Message("none", 0, 0)
NoReceipt == [reason |-> "none", selected |-> 0, validators |-> 0, compilers |-> 0,
              audits |-> 0, compliant |-> TRUE]
StopCommand == 0

At(place) == parent.at = place
Goto(place) == parent' = [parent EXCEPT !.at = place]
Restarts == Len(ledger.restarts)
Expired == clock >= 1
Overrun == clock = 2

Init ==
    /\ quality \in BOOLEAN
    /\ caps \in CapChoices
    /\ clock = 0
    /\ worker = [at |-> "starting", of |-> 0]
    /\ down = <<>> /\ up = <<>>
    /\ parent = [at |-> "open", after |-> "open", answer |-> Silence, timed_out |-> FALSE]
    /\ ledger = [restarts |-> <<>>, validators |-> 0, compilers |-> 0,
                 work_cap_failure |-> FALSE, startup_timeout |-> FALSE]
    /\ receipt = NoReceipt

-----------------------------------------------------------------------------
(* The worker                                                              *)

ParentStays == UNCHANGED <<quality, caps, clock, parent, ledger, receipt>>

WorkerStarts ==
    /\ worker.at = "starting"
    /\ \E status \in {"ready", "error"} :
          /\ up' = Append(up, Message(status, 0, 0))
          /\ worker' = [worker EXCEPT !.at = IF status = "ready" THEN "idle" ELSE "dead"]
    /\ UNCHANGED down /\ ParentStays

WorkerTakes ==
    /\ worker.at = "idle" /\ down # <<>>
    /\ worker' = IF Head(down) = StopCommand THEN [worker EXCEPT !.at = "dead"]
                 ELSE [at |-> "busy", of |-> Head(down)]
    /\ down' = Tail(down)
    /\ UNCHANGED up /\ ParentStays

Answers(of) ==
    {Message(status, of, 0) : status \in {"NO_EMBEDDING", "INVALID_CANDIDATE", "error"}}
        \cup {Message("VALID_CANDIDATE", of, cost) : cost \in Costs}

WorkerAnswers ==
    /\ worker.at = "busy"
    /\ \E answer \in Answers(worker.of) :
          /\ up' = Append(up, answer)
          /\ worker' = [worker EXCEPT !.at = IF answer.status = "error" THEN "dead" ELSE "idle"]
    /\ UNCHANGED down /\ ParentStays

(* It may also die at any time, or search for ever.                        *)
WorkerDies ==
    /\ worker.at # "dead"
    /\ worker' = [worker EXCEPT !.at = "dead"]
    /\ UNCHANGED <<down, up>> /\ ParentStays

Expire ==
    /\ ~Overrun /\ parent.at \notin {"done", "raised", "refused"}
    /\ clock' = clock + 1
    /\ UNCHANGED <<quality, caps, worker, down, up, parent, ledger, receipt>>

-----------------------------------------------------------------------------
(* Opening and closing the session                                         *)

WorldStays == UNCHANGED <<quality, caps, clock, worker>>

(* close() asks a live worker to stop and waits for it to end.             *)
Shut(after) ==
    /\ parent' = [parent EXCEPT !.at = "joining", !.after = after]
    /\ down' = IF worker.at = "dead" THEN down ELSE Append(down, StopCommand)

JoinedUnkilled ==
    /\ At("joining")
    /\ down' = <<>> /\ up' = <<>>
    /\ Goto(parent.after)
    /\ UNCHANGED <<quality, caps, clock, worker, ledger, receipt>>

(* A worker that has not ended in time is killed; the pipe is gone.        *)
Joined ==
    /\ At("joining")
    /\ worker' = [worker EXCEPT !.at = "dead"]
    /\ down' = <<>> /\ up' = <<>>
    /\ Goto(parent.after)
    /\ UNCHANGED <<quality, caps, clock, ledger, receipt>>

Opened ==
    /\ At("open") /\ up # <<>>
    /\ IF Head(up).status = "ready"
       THEN Goto("loop") /\ UNCHANGED down
       ELSE Shut("raised")
    /\ up' = Tail(up)
    /\ UNCHANGED <<ledger, receipt>> /\ WorldStays

StartupTimesOut ==
    /\ At("open") /\ Overrun
    /\ Shut("outcome")
    /\ ledger' = [ledger EXCEPT !.startup_timeout = TRUE]
    /\ UNCHANGED <<up, receipt>> /\ WorldStays

(* The end of the pipe is read where an answer was awaited.                *)
WorkerIsGone ==
    /\ At("open") \/ At("asked")
    /\ worker.at = "dead" /\ up = <<>>
    /\ Shut("raised")
    /\ UNCHANGED <<up, ledger, receipt>> /\ WorldStays

-----------------------------------------------------------------------------
(* The restart loop                                                        *)

OneMoreRestart == Restarts <= RestartCap
MoreRestarts == Restarts < RestartCap

LoopEnds ==
    /\ At("loop") /\ (~MoreRestarts \/ Expired)
    /\ Shut("outcome")
    /\ UNCHANGED <<up, ledger, receipt>> /\ WorldStays

RestartWorkEnds ==
    /\ At("loop") /\ MoreRestarts /\ ~Expired
    /\ Restarts + 1 > caps.restarts
    /\ Shut("outcome")
    /\ ledger' = [ledger EXCEPT !.work_cap_failure = TRUE]
    /\ UNCHANGED <<up, receipt>> /\ WorldStays

Search ==
    /\ At("loop") /\ MoreRestarts /\ ~Expired
    /\ Restarts + 1 <= caps.restarts
    /\ IF worker.at = "dead"
       THEN Shut("raised")
       ELSE Goto("asked") /\ down' = Append(down, Restarts + 1)
    /\ UNCHANGED <<up, ledger, receipt>> /\ WorldStays

Entry(answer, status, scored) ==
    [status |-> status, of |-> answer.of, cost |-> answer.cost, scored |-> scored]

Note(answer, status, scored) ==
    ledger' = [ledger EXCEPT !.restarts = Append(@, Entry(answer, status, scored))]

TimesOutBusy ==
    /\ At("asked")
    /\ Goto("loop") /\ UNCHANGED down
    /\ Note(Silence, "TIMED_OUT", FALSE)
    /\ UNCHANGED <<up, receipt>> /\ WorldStays

TimesOutNever == FALSE /\ UNCHANGED vars

SearchTimesOut ==
    /\ At("asked") /\ Overrun
    /\ Shut("loop")
    /\ Note(Silence, "TIMED_OUT", FALSE)
    /\ UNCHANGED <<up, receipt>> /\ WorldStays

(* The duration of the call is measured once, when its answer is in hand.  *)
Received ==
    /\ At("asked") /\ up # <<>>
    /\ IF Head(up).status = "error"
       THEN Shut("raised")
       ELSE /\ parent' = [parent EXCEPT !.at = "got", !.answer = Head(up), !.timed_out = Overrun]
            /\ UNCHANGED down
    /\ up' = Tail(up)
    /\ UNCHANGED <<ledger, receipt>> /\ WorldStays

-----------------------------------------------------------------------------
(* Judging an answer: by the duration that was measured, whatever time     *)
(* passes while it is validated, compiled and ranked.                      *)

answer == parent.answer
AnyTime == TRUE
OnTime == ~parent.timed_out
Stays == UNCHANGED <<up, receipt>> /\ WorldStays

(* What is done with an answer that is no candidate costs nothing more.    *)
NoCandidate ==
    /\ At("got")
    /\ \/ ~OnTime /\ Note(answer, "TIMED_OUT", FALSE)
       \/ OnTime /\ answer.status = "NO_EMBEDDING" /\ Note(answer, "NO_EMBEDDING", FALSE)
    /\ Goto("loop")
    /\ UNCHANGED down /\ Stays

Embedding == At("got") /\ answer.status \in {"INVALID_CANDIDATE", "VALID_CANDIDATE"}
Validated == ledger.validators + 1 <= caps.validators

ValidatorsEnd ==
    /\ Embedding /\ OnTime /\ ~Validated
    /\ ledger' = [ledger EXCEPT
          !.restarts = Append(@, Entry(Message("none", answer.of, 0), "WORK_CAP_EXHAUSTED", FALSE)),
          !.work_cap_failure = TRUE]
    /\ Shut("outcome") /\ Stays

Counted(status, scored, validators, compilers) ==
    [ledger EXCEPT
        !.restarts = Append(@, Entry(answer, status, scored)),
        !.validators = @ + validators,
        !.compilers = @ + compilers]

(* The validator accepts or refuses; only resource ranking stops here.     *)
Screen ==
    /\ Embedding /\ OnTime /\ Validated
    /\ quality => answer.status = "INVALID_CANDIDATE"
    /\ ledger' = Counted(answer.status, FALSE, 1, 0)
    /\ Goto("loop")
    /\ UNCHANGED down /\ Stays

CanRank ==
    /\ ledger.validators + 2 <= caps.validators
    /\ ledger.compilers + 4 <= caps.compilers

RankedOnce == Counted(answer.status, TRUE, 1, 4)
Ranked == Counted(answer.status, TRUE, 2, 4)

(* Quality ranking validates and compiles again at once.                   *)
Rank ==
    /\ Embedding /\ OnTime /\ Validated
    /\ quality /\ answer.status = "VALID_CANDIDATE"
    /\ IF CanRank
       THEN ledger' = Ranked /\ Goto("loop") /\ UNCHANGED down
       ELSE /\ ledger' = [Counted(answer.status, FALSE, 1, 0) EXCEPT !.work_cap_failure = TRUE]
            /\ Shut("outcome")
    /\ Stays

-----------------------------------------------------------------------------
(* Outcome and receipt                                                     *)

Valid(rows) == {i \in DOMAIN rows : rows[i].status = "VALID_CANDIDATE"}
Scored(rows) == {i \in Valid(rows) : rows[i].scored}
Screened(rows) ==
    {i \in DOMAIN rows : rows[i].status \in {"VALID_CANDIDATE", "INVALID_CANDIDATE"}}
Eligible(rows) == IF quality THEN Scored(rows) ELSE Valid(rows)

Better(rows, i, j) == rows[i].cost < rows[j].cost \/ (rows[i].cost = rows[j].cost /\ i <= j)
Best(rows) == CHOOSE i \in Eligible(rows) : \A j \in Eligible(rows) : Better(rows, i, j)

(* What the receipt demands of itself.                                     *)
Accepts(r) ==
    LET rows == ledger.restarts IN
    /\ r.selected # 0 => r.selected \in Valid(rows) /\ r.selected = Best(rows)
    /\ r.selected = 0 /\ Valid(rows) # {} => r.reason = "WORK_CAP_EXHAUSTED"
    /\ IF quality
       THEN Scored(rows) = Valid(rows) \/ r.reason = "WORK_CAP_EXHAUSTED"
       ELSE Scored(rows) = {}
    /\ r.reason = "VALID_RETURN" => r.compliant /\ r.selected # 0
    /\ r.compilers = IF quality THEN 4 * Cardinality(Scored(rows))
                     ELSE IF r.selected # 0 THEN 4 ELSE 0
    /\ r.validators = Cardinality(Screened(rows))
          + IF quality THEN Cardinality(Scored(rows)) ELSE IF r.selected # 0 THEN 1 ELSE 0
    /\ r.audits = IF r.reason = "VALID_RETURN" THEN 1 ELSE 0
    /\ Restarts <= caps.restarts /\ r.validators <= caps.validators
    /\ r.compilers <= caps.compilers /\ r.audits <= caps.audits

(* The receipt without a selection.                                        *)
Failure(reason) ==
    [reason |-> reason, selected |-> 0, validators |-> ledger.validators,
     compilers |-> ledger.compilers, audits |-> 0, compliant |-> ~Expired]

CanCompile ==
    quality \/ (ledger.validators + 1 <= caps.validators /\ ledger.compilers + 4 <= caps.compilers)

Selection(reason) ==
    [reason |-> reason,
     selected |-> Best(ledger.restarts),
     validators |-> ledger.validators + (IF quality THEN 0 ELSE 1),
     compilers |-> ledger.compilers + (IF quality THEN 0 ELSE 4),
     audits |-> IF reason = "VALID_RETURN" THEN 1 ELSE 0,
     compliant |-> ~Expired]

VerdictUnclocked == IF caps.audits < 1 THEN "WORK_CAP_EXHAUSTED" ELSE "VALID_RETURN"
Verdict ==
    IF Expired THEN "WALLCLOCK_EXHAUSTED"
    ELSE IF caps.audits < 1 THEN "WORK_CAP_EXHAUSTED" ELSE "VALID_RETURN"

Result ==
    IF ledger.work_cap_failure THEN Failure("WORK_CAP_EXHAUSTED")
    ELSE IF Eligible(ledger.restarts) = {}
    THEN Failure(IF ledger.startup_timeout THEN "WALLCLOCK_EXHAUSTED" ELSE "NO_VALID_EMBEDDING")
    ELSE IF CanCompile THEN Selection(Verdict) ELSE Failure("WORK_CAP_EXHAUSTED")

Conclude ==
    /\ At("outcome")
    /\ receipt' = Result
    /\ Goto(IF Accepts(receipt') THEN "done" ELSE "refused")
    /\ UNCHANGED <<up, down, ledger>> /\ WorldStays

(* A malformed embedding, or a compilation that fails, ends the evaluation *)
(* and leaves the session as it is.                                        *)
IntegrityError ==
    /\ \/ Embedding /\ OnTime /\ Validated
       \/ At("outcome") /\ ~ledger.work_cap_failure /\ Eligible(ledger.restarts) # {} /\ CanCompile
    /\ Goto("raised")
    /\ UNCHANGED <<down, ledger>> /\ Stays

-----------------------------------------------------------------------------
ParentNext ==
    \/ Opened \/ StartupTimesOut \/ WorkerIsGone \/ Joined
    \/ LoopEnds \/ RestartWorkEnds \/ Search \/ SearchTimesOut \/ Received
    \/ NoCandidate \/ ValidatorsEnd \/ Screen \/ Rank
    \/ Conclude \/ IntegrityError

WorkerNext == WorkerStarts \/ WorkerTakes \/ WorkerAnswers \/ WorkerDies

Next == ParentNext \/ WorkerNext \/ Expire

(* The runner runs and time passes; nothing is asked of the worker.        *)
Spec == Init /\ [][Next]_vars /\ WF_vars(ParentNext) /\ WF_vars(Expire)
-----------------------------------------------------------------------------
Statuses == {"NO_EMBEDDING", "TIMED_OUT", "WORK_CAP_EXHAUSTED", "INVALID_CANDIDATE", "VALID_CANDIDATE"}
Reasons == {"none", "VALID_RETURN", "NO_VALID_EMBEDDING", "WALLCLOCK_EXHAUSTED", "WORK_CAP_EXHAUSTED"}
Places == {"open", "loop", "asked", "got", "joining", "outcome", "done", "raised", "refused"}
Messages == [status : Statuses \cup {"ready", "error", "none"}, of : 0 .. RestartCap, cost : Costs \cup {0}]
Rows == [status : Statuses, of : 0 .. RestartCap, cost : Costs \cup {0}, scored : BOOLEAN]

(* At most one answer is on its way, at most one command and the stop.     *)
AttemptTypeOK ==
    /\ quality \in BOOLEAN /\ caps \in CapChoices /\ clock \in 0 .. 2
    /\ worker \in [at : {"starting", "idle", "busy", "dead"}, of : 0 .. RestartCap]
    /\ down \in Seq(0 .. RestartCap) /\ Len(down) <= 2
    /\ up \in Seq(Messages) /\ Len(up) <= 1
    /\ parent \in [at : Places, after : Places, answer : Messages, timed_out : BOOLEAN]
    /\ ledger \in [restarts : Seq(Rows), validators : Nat, compilers : Nat,
                   work_cap_failure : BOOLEAN, startup_timeout : BOOLEAN]
    /\ Restarts <= RestartCap
    /\ receipt \in [reason : Reasons, selected : 0 .. RestartCap, validators : Nat,
                    compilers : Nat, audits : {0, 1}, compliant : BOOLEAN]

(* The answer in hand, or on its way, answers the search that is open; the *)
(* evidence of a restart comes from its own search.                        *)
AnswersMatch ==
    /\ At("got") => answer.of = Restarts + 1
    /\ At("asked") => \A i \in DOMAIN up : up[i].of = Restarts + 1
    /\ \A i \in DOMAIN ledger.restarts : ledger.restarts[i].of \in {0, i}

Begun == Restarts + (IF parent.at \in {"asked", "got"} THEN 1 ELSE 0)

(* Restart k had not begun when the deadline passed, or was still without  *)
(* an answer when its budget ended.                                        *)
TooLate(k) ==
    \/ Expired /\ Begun < k
    \/ Overrun /\ At("asked") /\ Begun = k

(* A restart that was too late never becomes a candidate, valid or not,    *)
(* whatever its worker still sends.  An answer that was read in time may   *)
(* become one after the deadline: it is judged without a look at the clock.*)
NoLateCandidate ==
    \A k \in 1 .. RestartCap : [](TooLate(k) => [](k \notin Screened(ledger.restarts)))

(* The worker is gone, and its pipe, before the outcome is decided.        *)
WorkerStops ==
    parent.at \in {"outcome", "done", "refused"} => worker.at = "dead" /\ down = <<>> /\ up = <<>>

(* The runner's ledger is always what the receipt recounts from the rows,  *)
(* within every cap: no attempt is lost to its own receipt.                *)
ReceiptAccepted == ~At("refused")

(* Whatever the worker does, the attempt ends.                             *)
AttemptEnds == <>(parent.at \in {"done", "raised", "refused"})
=============================================================================
