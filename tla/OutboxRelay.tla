----------------------------- MODULE OutboxRelay -----------------------------
(***************************************************************************)
(* The transactional outbox and the relay instances that drain it into the *)
(* broker (apps/worker/src/relay).  A relay polls, claims a batch of       *)
(* unpublished rows inside one database transaction (FOR UPDATE SKIP       *)
(* LOCKED), publishes them one by one in id order, each with a deadline,   *)
(* marks the confirmed ones inside the same transaction, commits, and only *)
(* then records the failures, each in a transaction of its own.            *)
(*                                                                         *)
(* The database transaction and the JavaScript loop are two things: the    *)
(* database can lose the transaction (timeout, dropped connection) while   *)
(* the loop goes on publishing, and finds out at its next statement.       *)
(***************************************************************************)
EXTENDS Integers, FiniteSets

CONSTANTS
  Relays,        \* relay instances (one per worker process)
  Rows,          \* ids the outbox's autoincrement column hands out
  AggregateOf,   \* the review each row is about
  Poison,        \* rows whose payload this worker's schema does not parse
  BatchSize,     \* OUTBOX_BATCH_SIZE
  MaxAttempts,   \* OUTBOX_MAX_ATTEMPTS
  MaxFaults,     \* bound: lost transactions, lost commits, crashes
  MaxStops       \* bound: graceful shutdowns

ASSUME RelaysAssumption == IsFiniteSet(Relays)
ASSUME RowsAssumption == Rows \subseteq Nat /\ Poison \subseteq Rows
ASSUME SizesAssumption == /\ BatchSize \in Nat \ {0}
                          /\ MaxAttempts \in Nat \ {0}
                          /\ MaxFaults \in Nat /\ MaxStops \in Nat

VARIABLES
  written,    \* rows whose inserting transaction has committed
  published,  \* rows with published_at set, committed
  attempts,   \* the attempts column
  accepted,   \* how many copies of a row's event the broker took
  wire,       \* frames sent whose deadline passed before any confirm
  pc,         \* where the relay's runOnce is
  polling,    \* the interval timer is running
  txOpen,     \* the batch transaction is open in the database
  todo,       \* claimed rows the loop has not dealt with
  marked,     \* rows marked published in the open transaction
  failed,     \* the `failures` list: rows whose failure is not recorded yet
  faults,     \* how many batches were cut short so far (bound MaxFaults)
  stops       \* how many shutdowns were asked for so far (bound MaxStops)

dbVars == <<written, published, attempts>>
brokerVars == <<accepted, wire>>
batchVars == <<txOpen, todo, marked, failed>>
boundVars == <<faults, stops>>
vars == <<dbVars, brokerVars, pc, polling, batchVars, boundVars>>

-----------------------------------------------------------------------------
(* "publishing" is the loop before a row's publish settles, "marking" the  *)
(* loop between a confirm and markPublished, "recording" the failures loop *)
(* after the commit.                                                       *)
PC == {"down", "idle", "publishing", "marking", "recording"}

TypeOK ==
  /\ written \subseteq Rows
  /\ published \subseteq written
  /\ attempts \in [Rows -> Nat]
  /\ accepted \in [Rows -> Nat]
  /\ wire \in [Rows -> Nat]
  /\ pc \in [Relays -> PC]
  /\ polling \in [Relays -> BOOLEAN]
  /\ txOpen \in [Relays -> BOOLEAN]
  /\ todo \in [Relays -> SUBSET written]
  /\ marked \in [Relays -> SUBSET written]
  /\ failed \in [Relays -> SUBSET written]
  /\ faults \in 0..MaxFaults
  /\ stops \in 0..MaxStops

(* Rows whose row lock relay r's open transaction holds: the whole batch,  *)
(* dealt with or not, until the transaction ends.                          *)
Locked(r) == IF txOpen[r] THEN todo[r] \union marked[r] \union failed[r] ELSE {}

(* Mutant: the claim query forgets `attempts < max`. *)
DueForEver == written \ published

(* The claim query's WHERE clause. *)
Due == {row \in written \ published : attempts[row] < MaxAttempts}

(* Mutant: the claim query forgets FOR UPDATE SKIP LOCKED. *)
ClaimableUnlocked == Due

(* What SKIP LOCKED leaves of the due rows. *)
Claimable == Due \ UNION {Locked(r) : r \in Relays}

(* ORDER BY id ... LIMIT: the first `limit` members of a set of rows. *)
FirstOf(rows, limit) ==
  {row \in rows : Cardinality({q \in rows : q < row}) < limit}

(* The row the loop is at: rows are dealt with in id order. *)
Current(r, row) == row \in todo[r] /\ \A q \in todo[r] : row <= q

-----------------------------------------------------------------------------
Init ==
  /\ written = {} /\ published = {}
  /\ attempts = [row \in Rows |-> 0]
  /\ accepted = [row \in Rows |-> 0]
  /\ wire = [row \in Rows |-> 0]
  /\ pc = [r \in Relays |-> "idle"]
  /\ polling = [r \in Relays |-> TRUE]
  /\ txOpen = [r \in Relays |-> FALSE]
  /\ todo = [r \in Relays |-> {}]
  /\ marked = [r \in Relays |-> {}]
  /\ failed = [r \in Relays |-> {}]
  /\ faults = 0 /\ stops = 0

(* A business transaction commits its event row.  Ids are handed out at    *)
(* insert and become visible at commit, so rows of different reviews can   *)
(* appear out of id order and a rolled-back insert leaves a gap.  Rows of  *)
(* one review cannot: every writer locks (or inserts) the review's row     *)
(* before it inserts its events.                                           *)
WriteRow(row) ==
  /\ row \notin written
  /\ \A q \in written : AggregateOf[q] = AggregateOf[row] => q < row
  /\ written' = written \union {row}
  /\ UNCHANGED <<published, attempts, brokerVars, pc, polling, batchVars, boundVars>>

(* tick, then runOnce up to the first publish: one call at a time per      *)
(* relay, only while the timer runs.  A poll that claims nothing changes   *)
(* nothing and is left out.                                                *)
Claim(r) ==
  /\ pc[r] = "idle" /\ polling[r]
  /\ Claimable # {}
  /\ pc' = [pc EXCEPT ![r] = "publishing"]
  /\ txOpen' = [txOpen EXCEPT ![r] = TRUE]
  /\ todo' = [todo EXCEPT ![r] = FirstOf(Claimable, BatchSize)]
  /\ UNCHANGED <<dbVars, brokerVars, polling, marked, failed, boundVars>>

(* The broker confirms the current row's publish within its deadline. *)
PublishConfirmed(r, row) ==
  /\ pc[r] = "publishing" /\ Current(r, row)
  /\ row \notin Poison
  /\ accepted' = [accepted EXCEPT ![row] = @ + 1]
  /\ pc' = [pc EXCEPT ![r] = "marking"]
  /\ UNCHANGED <<dbVars, wire, polling, batchVars, boundVars>>

(* Mutant: the catch block forgets its `continue`. *)
RowFailsAndFallsThrough(r, row) ==
  /\ pc[r] = "publishing" /\ Current(r, row)
  /\ failed' = [failed EXCEPT ![r] = @ \union {row}]
  /\ marked' = [marked EXCEPT ![r] = @ \union {row}]
  /\ todo' = [todo EXCEPT ![r] = @ \ {row}]
  /\ UNCHANGED <<dbVars, pc, polling, txOpen, boundVars>>

(* Mutant: the catch block logs and continues, and records nothing. *)
RowFailsUnrecorded(r, row) ==
  /\ pc[r] = "publishing" /\ Current(r, row)
  /\ todo' = [todo EXCEPT ![r] = @ \ {row}]
  /\ UNCHANGED <<dbVars, pc, polling, txOpen, failed, marked, boundVars>>

(* The catch block of the loop: the row goes to the failures, the loop     *)
(* continues with the next one.                                            *)
RowFails(r, row) ==
  /\ pc[r] = "publishing" /\ Current(r, row)
  /\ failed' = [failed EXCEPT ![r] = @ \union {row}]
  /\ todo' = [todo EXCEPT ![r] = @ \ {row}]
  /\ UNCHANGED <<dbVars, pc, polling, txOpen, marked, boundVars>>

(* The payload does not parse, there is no channel, or the broker nacks. *)
PublishRefused(r, row) ==
  /\ RowFails(r, row)
  /\ UNCHANGED brokerVars

(* The broker took the message but the confirm never arrived: the channel  *)
(* closed first.                                                           *)
ConfirmLost(r, row) ==
  /\ RowFails(r, row)
  /\ row \notin Poison
  /\ accepted' = [accepted EXCEPT ![row] = @ + 1]
  /\ UNCHANGED wire

(* PER_ROW_PUBLISH_BUDGET_MS passes first: the promise is abandoned, not   *)
(* cancelled, and the frame is still on its way.                           *)
PublishTimesOut(r, row) ==
  /\ RowFails(r, row)
  /\ row \notin Poison
  /\ wire' = [wire EXCEPT ![row] = @ + 1]
  /\ UNCHANGED accepted

(* The broker takes an abandoned frame after all, or it is lost with its   *)
(* connection.                                                             *)
LateFrame(row) ==
  /\ wire[row] > 0
  /\ wire' = [wire EXCEPT ![row] = @ - 1]
  /\ \/ accepted' = [accepted EXCEPT ![row] = @ + 1]
     \/ UNCHANGED accepted
  /\ UNCHANGED <<dbVars, pc, polling, batchVars, boundVars>>

(* markPublished, inside the batch's transaction. *)
MarkPublished(r, row) ==
  /\ pc[r] = "marking" /\ txOpen[r] /\ Current(r, row)
  /\ marked' = [marked EXCEPT ![r] = @ \union {row}]
  /\ todo' = [todo EXCEPT ![r] = @ \ {row}]
  /\ pc' = [pc EXCEPT ![r] = "publishing"]
  /\ UNCHANGED <<dbVars, brokerVars, polling, txOpen, failed, boundVars>>

(* What a relay keeps of a batch once runOnce is over. *)
ForgetBatch(r) ==
  /\ txOpen' = [txOpen EXCEPT ![r] = FALSE]
  /\ todo' = [todo EXCEPT ![r] = {}]
  /\ marked' = [marked EXCEPT ![r] = {}]
  /\ failed' = [failed EXCEPT ![r] = {}]

(* markPublished or the commit throws because the transaction is gone:     *)
(* runOnce rejects, so the failures collected so far are never recorded.   *)
BatchThrows(r) ==
  /\ pc[r] \in {"publishing", "marking"} /\ ~txOpen[r]
  /\ pc[r] = "publishing" => todo[r] = {}
  /\ ForgetBatch(r)
  /\ pc' = [pc EXCEPT ![r] = "idle"]
  /\ UNCHANGED <<dbVars, brokerVars, polling, boundVars>>

(* Mutant: the failures are thrown away with the batch. *)
CommitWithoutFailures(r) ==
  /\ pc[r] = "publishing" /\ todo[r] = {} /\ txOpen[r]
  /\ published' = published \union marked[r]
  /\ ForgetBatch(r)
  /\ pc' = [pc EXCEPT ![r] = "idle"]
  /\ UNCHANGED <<written, attempts, brokerVars, polling, boundVars>>

(* Mutant: one UPDATE marks the whole batch, failures included. *)
CommitWholeBatch(r) ==
  /\ pc[r] = "publishing" /\ todo[r] = {} /\ txOpen[r]
  /\ published' = published \union marked[r] \union failed[r]
  /\ txOpen' = [txOpen EXCEPT ![r] = FALSE]
  /\ marked' = [marked EXCEPT ![r] = {}]
  /\ pc' = [pc EXCEPT ![r] = IF failed[r] = {} THEN "idle" ELSE "recording"]
  /\ UNCHANGED <<written, attempts, brokerVars, polling, todo, failed, boundVars>>

(* The end of the transaction's callback: the marks commit, the locks go,  *)
(* and the failures are recorded next.                                     *)
Commit(r) ==
  /\ pc[r] = "publishing" /\ todo[r] = {} /\ txOpen[r]
  /\ published' = published \union marked[r]
  /\ txOpen' = [txOpen EXCEPT ![r] = FALSE]
  /\ marked' = [marked EXCEPT ![r] = {}]
  /\ pc' = [pc EXCEPT ![r] = IF failed[r] = {} THEN "idle" ELSE "recording"]
  /\ UNCHANGED <<written, attempts, brokerVars, polling, todo, failed, boundVars>>

(* Mutant: recordFailure writes last_error only. *)
RecordErrorOnly(r, row) ==
  /\ pc[r] = "recording" /\ \A q \in Relays : row \notin Locked(q)
  /\ row \in failed[r] /\ \A q \in failed[r] : row <= q
  /\ failed' = [failed EXCEPT ![r] = @ \ {row}]
  /\ pc' = [pc EXCEPT ![r] = IF failed[r] = {row} THEN "idle" ELSE "recording"]
  /\ UNCHANGED <<dbVars, brokerVars, polling, txOpen, todo, marked, boundVars>>

(* recordFailure of the next row: attempts + 1, in a transaction of its     *)
(* own, which waits for the row lock of a batch that has claimed the row.   *)
RecordFailure(r, row) ==
  /\ pc[r] = "recording" /\ \A q \in Relays : row \notin Locked(q)
  /\ row \in failed[r] /\ \A q \in failed[r] : row <= q
  /\ attempts' = [attempts EXCEPT ![row] = @ + 1]
  /\ failed' = [failed EXCEPT ![r] = @ \ {row}]
  /\ pc' = [pc EXCEPT ![r] = IF failed[r] = {row} THEN "idle" ELSE "recording"]
  /\ UNCHANGED <<written, published, brokerVars, polling, txOpen, todo, marked, boundVars>>

-----------------------------------------------------------------------------
(* Faults.  Each uses up one of MaxFaults. *)
Fault == faults < MaxFaults /\ faults' = faults + 1 /\ UNCHANGED stops

(* The database rolls the batch transaction back (its timeout, a dropped   *)
(* connection); the loop does not know yet.                                *)
LoseTransaction(r) ==
  /\ Fault /\ txOpen[r]
  /\ txOpen' = [txOpen EXCEPT ![r] = FALSE]
  /\ marked' = [marked EXCEPT ![r] = {}]
  /\ UNCHANGED <<dbVars, brokerVars, pc, polling, todo, failed>>

(* The commit happens and its acknowledgement is lost: runOnce rejects. *)
LoseCommitAck(r) ==
  /\ Fault
  /\ pc[r] = "publishing" /\ todo[r] = {} /\ txOpen[r]
  /\ published' = published \union marked[r]
  /\ ForgetBatch(r)
  /\ pc' = [pc EXCEPT ![r] = "idle"]
  /\ UNCHANGED <<written, attempts, brokerVars, polling>>

(* A recordFailure throws: the remaining failures are not recorded. *)
RecordThrows(r) ==
  /\ Fault /\ pc[r] = "recording"
  /\ ForgetBatch(r)
  /\ pc' = [pc EXCEPT ![r] = "idle"]
  /\ UNCHANGED <<dbVars, brokerVars, polling>>

(* The process dies, or stopAndDrain's deadline passes and the process     *)
(* exits with the batch still running.                                     *)
Crash(r) ==
  /\ Fault /\ pc[r] # "down"
  /\ ForgetBatch(r)
  /\ pc' = [pc EXCEPT ![r] = "down"]
  /\ polling' = [polling EXCEPT ![r] = FALSE]
  /\ UNCHANGED <<dbVars, brokerVars>>

(* stopAndDrain: no further tick, the one in flight goes on. *)
Stop(r) ==
  /\ stops < MaxStops /\ stops' = stops + 1
  /\ pc[r] # "down" /\ polling[r]
  /\ polling' = [polling EXCEPT ![r] = FALSE]
  /\ UNCHANGED <<dbVars, brokerVars, pc, batchVars, faults>>

(* ... and once it has finished the process exits. *)
Drained(r) ==
  /\ pc[r] = "idle" /\ ~polling[r]
  /\ pc' = [pc EXCEPT ![r] = "down"]
  /\ UNCHANGED <<dbVars, brokerVars, polling, batchVars, boundVars>>

(* A process comes up: onApplicationBootstrap starts the timer. *)
Start(r) ==
  /\ pc[r] = "down"
  /\ pc' = [pc EXCEPT ![r] = "idle"]
  /\ polling' = [polling EXCEPT ![r] = TRUE]
  /\ UNCHANGED <<dbVars, brokerVars, batchVars, boundVars>>

-----------------------------------------------------------------------------
(* The steps a running relay takes by itself. *)
RelayStep(r) ==
  \/ Claim(r) \/ BatchThrows(r) \/ Commit(r) \/ Drained(r)
  \/ \E row \in Rows :
       \/ PublishConfirmed(r, row) \/ PublishRefused(r, row)
       \/ ConfirmLost(r, row) \/ PublishTimesOut(r, row)
       \/ MarkPublished(r, row) \/ RecordFailure(r, row)

FaultStep(r) ==
  LoseTransaction(r) \/ LoseCommitAck(r) \/ RecordThrows(r) \/ Crash(r) \/ Stop(r)

Next ==
  \/ \E row \in Rows : WriteRow(row) \/ LateFrame(row)
  \/ \E r \in Relays : RelayStep(r) \/ FaultStep(r) \/ Start(r)

Spec == Init /\ [][Next]_vars

(* The interval timer fires until it is cleared, every publish settles     *)
(* within its deadline and every statement ends: a running relay that can  *)
(* take a step takes one.  Nothing obliges anybody to write, to restart a  *)
(* process, the broker to confirm, or an abandoned frame to arrive.        *)
FairSpec == Spec /\ \A r \in Relays : WF_vars(RelayStep(r))

-----------------------------------------------------------------------------
(* "Publish first, then mark": a row the outbox calls published, or that   *)
(* an open batch has marked, is one whose event the broker has.            *)
NoLostEvent ==
  \A row \in published \union UNION {marked[r] : r \in Relays} : accepted[row] > 0

(* FOR UPDATE SKIP LOCKED lets the relays share the work: while a batch has *)
(* its transaction, none of its rows is in another open batch, dealt with   *)
(* twice in this one, or published already, whatever other batches commit,  *)
(* lose or still have to record.                                            *)
LocksExclude ==
  /\ \A r \in Relays : /\ todo[r] \cap marked[r] = {}
                       /\ todo[r] \cap failed[r] = {} /\ marked[r] \cap failed[r] = {}
  /\ \A r \in Relays : Locked(r) \cap published = {}
  /\ \A r, other \in Relays : r # other => Locked(r) \cap Locked(other) = {}

(* The relays that still owe a row a failed attempt. *)
Owing(row) == {r \in Relays : row \in failed[r]}

(* A copy of a row's event beyond the first is always accounted for: by a  *)
(* recorded attempt, by a failure still to be recorded, or by a batch that *)
(* was cut short.  Without faults the relay duplicates nothing it has not  *)
(* counted as a failed attempt.                                            *)
CopiesAccountedFor ==
  \A row \in Rows :
    accepted[row] + wire[row] <= 1 + attempts[row] + Cardinality(Owing(row)) + faults

(* A row is parked at MaxAttempts, but its attempts can pass it: a relay   *)
(* records a failure after it has given the lock back, and every other     *)
(* relay may have claimed the row in between.                              *)
AttemptsBounded ==
  \A row \in Rows : attempts[row] <= MaxAttempts - 1 + Cardinality(Relays)

(* An event of a review overtakes an earlier one of the same review only   *)
(* if the earlier one failed, is in another relay's hands, or a batch was  *)
(* cut short.                                                              *)
OvertakingExplained ==
  \A early, late \in Rows :
    /\ AggregateOf[early] = AggregateOf[late]
    /\ early < late /\ early \in written
    /\ accepted[late] > 0 /\ accepted[early] = 0
    => \/ attempts[early] > 0 \/ Owing(early) # {}
       \/ \E r \in Relays : early \in todo[r]
       \/ faults > 0

(* The relays implement the abstract outbox: a row is delivered once the   *)
(* broker has a copy, settled once it is published, given up once its      *)
(* attempts reach MaxAttempts.                                             *)
Outbox == INSTANCE EventOutbox WITH
  delivered <- {row \in Rows : accepted[row] > 0},
  settled <- published,
  parked <- {row \in Rows : attempts[row] >= MaxAttempts}

ImplementsOutbox == Outbox!Spec

(* What claimBatch's comment promises: ORDER BY id preserves the order of  *)
(* the events of one review.                                               *)
OrderPreserved ==
  \A early, late \in Rows :
    /\ AggregateOf[early] = AggregateOf[late]
    /\ early < late /\ early \in written
    /\ accepted[late] > 0
    => accepted[early] > 0

(* At-least-once, never zero, as far as the relay goes: a written row ends *)
(* up published or parked, unless from some time on no relay polls.        *)
NobodyPolls == \A r \in Relays : ~polling[r]

EventuallySettled ==
  \A row \in Rows :
    row \in written
      ~> (row \in published \/ attempts[row] >= MaxAttempts \/ []NobodyPolls)
-----------------------------------------------------------------------------
(* The inductive strengthening behind the theorems of OutboxRelayProofs.   *)

(* What each phase of runOnce keeps of the batch, and that a transaction   *)
(* the database no longer has holds no marks.                              *)
PhasesClean ==
  \A r \in Relays :
    /\ pc[r] \in {"down", "idle"} => todo[r] = {} /\ failed[r] = {}
    /\ pc[r] = "recording" => todo[r] = {}
    /\ pc[r] \notin {"publishing", "marking"} => ~txOpen[r]
    /\ ~txOpen[r] => marked[r] = {}

(* Between the confirm and the mark the broker has the current row. *)
ConfirmedIsAccepted ==
  \A r \in Relays, row \in Rows :
    pc[r] = "marking" /\ Current(r, row) => accepted[row] > 0

(* Nothing travels that no committed transaction caused. *)
OnlyWrittenTravels ==
  \A row \in Rows : accepted[row] + wire[row] > 0 => row \in written

(* The relays that may still add to a row's attempts; each adds one. *)
Engaged(row) == {r \in Relays : row \in todo[r] \union failed[r]}

AttemptBudget ==
  \A row \in Rows :
    attempts[row] + Cardinality(Engaged(row)) <= MaxAttempts - 1 + Cardinality(Relays)

IInv ==
  /\ TypeOK /\ PhasesClean /\ ConfirmedIsAccepted /\ NoLostEvent
  /\ OnlyWrittenTravels /\ AttemptBudget
=============================================================================
