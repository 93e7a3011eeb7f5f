----------------------------- MODULE ReviewStore -----------------------------
(***************************************************************************)
(* The reviews table and the event log its writers keep, statement by      *)
(* statement where the order of statements matters: the API's submit,      *)
(* update, remove and decide (apps/api/src/reviews) and the moderation     *)
(* worker's moderate (apps/worker/src/moderation), each one database       *)
(* transaction at READ COMMITTED.                                          *)
(*                                                                         *)
(* update and remove lock the row before they look at it.  decide's and    *)
(* moderate's UPDATE carries its condition in its WHERE clause, which      *)
(* Postgres evaluates on the newest committed row once it has the row      *)
(* lock.  moderate reads the review without a lock first, and judges what  *)
(* it read.  What a transaction that holds the row lock does up to its     *)
(* commit nobody else sees, so that is one step.                           *)
(***************************************************************************)
EXTENDS ModerationPolicy, Sequences, FiniteSets

CONSTANTS
  Authors,     \* authors with an account, all writing about one product
  Ids,         \* review ids, handed out in order
  Bodies,      \* what a review may say: title, body and rating as one
  Says,        \* [Bodies -> Text]: what the policy measures of each body
  Sessions,    \* database sessions: API requests and moderation handlers
  Ops,         \* the operations in play: a subset of AllOps
  MaxRequests, \* bound on the API requests accepted
  MaxFaults    \* bound on crashes, rollbacks and duplicate deliveries

AllOps == {"update", "remove", "decide", "moderate"}
Decisions == {"APPROVED", "REJECTED", "FLAGGED"}

ASSUME IdsAssumption == Ids \subseteq Nat
ASSUME SaysAssumption == Says \in [Bodies -> Text]
ASSUME OpsAssumption == Ops \subseteq AllOps
ASSUME BoundsAssumption == MaxRequests \in Nat /\ MaxFaults \in Nat

VARIABLES
  reviews,   \* the committed row of each id, or Absent
  log,       \* the outbox in commit order
  sent,      \* review.submitted events the relay has delivered once
  queue,     \* deliveries ready in the moderation queue
  dead,      \* its dead-letter queue
  tx,        \* what each session is doing
  requests,  \* API requests so far
  faults     \* crashes, rollbacks and duplicates so far

pipeVars == <<sent, queue, dead>>
vars == <<reviews, log, pipeVars, tx, requests, faults>>

-----------------------------------------------------------------------------
Absent == [status |-> "ABSENT"]
Idle == [op |-> "none"]

Status == {"PENDING", "APPROVED", "REJECTED", "FLAGGED"}
Awaiting == {"PENDING", "FLAGGED"}   \* what decide accepts
NotJudged == "not judged"

(* publishedAt is set or not; judged is the body the decision in force was  *)
(* made about (a history variable, no column).                              *)
Row == {row \in [author: Authors, body: Bodies, status: Status,
                 published: BOOLEAN, judged: Bodies \union {NotJudged}] :
          row.published <=> row.status = "APPROVED"}

Event == [type: {"submitted", "approved", "rejected", "flagged", "unpublished"},
          id: Ids]

Transaction ==
  {Idle}
  \union [op: {"update"}, id: Ids, body: Bodies, at: {"begin"}]
  \union [op: {"update"}, id: Ids, body: Bodies, at: {"locked"}, read: Row]
  \union [op: {"remove"}, id: Ids, at: {"begin", "locked"}]
  \union [op: {"decide"}, id: Ids, at: {"begin", "locked"},
          decision: {"APPROVED", "REJECTED"}, viewed: Bodies]
  \union [op: {"moderate"}, id: Ids, at: {"begin"}, delivery: DOMAIN log]
  \union [op: {"moderate"}, id: Ids, at: {"judged", "locked"},
          delivery: DOMAIN log, read: Row]

TypeOK ==
  /\ reviews \in [Ids -> Row \union {Absent}]
  /\ log \in Seq(Event)
  /\ sent \subseteq DOMAIN log /\ queue \subseteq DOMAIN log /\ dead \subseteq DOMAIN log
  /\ tx \in [Sessions -> Transaction]
  /\ requests \in 0..MaxRequests /\ faults \in 0..MaxFaults

(* What the worker decides of a body.  A flag that a verified purchase lifts *)
(* shows in Says as a body that has nothing to flag.                        *)
Verdict == [body \in Bodies |-> Classify(Says[body], FALSE)]

Exists(id) == reviews[id] # Absent
HasStatus(id, statuses) == Exists(id) /\ reviews[id].status \in statuses

(* The row lock (FOR UPDATE, or the one an UPDATE takes) until commit. *)
RowFree(id) ==
  \A s \in Sessions : tx[s] # Idle => ~(tx[s].id = id /\ tx[s].at = "locked")

At(s, op, at) == tx[s] # Idle /\ tx[s].op = op /\ tx[s].at = at
Become(s, transaction) == tx' = [tx EXCEPT ![s] = transaction]

(* writeOutboxEvent, once or twice, in the same transaction. *)
Record(types, id) ==
  LET events == [i \in 1..Len(types) |-> [type |-> types[i], id |-> id]]
  IN log' = log \o events

EventOf(decision) ==
  CASE decision = "APPROVED" -> "approved"
    [] decision = "REJECTED" -> "rejected"
    [] decision = "FLAGGED"  -> "flagged"

-----------------------------------------------------------------------------
Init ==
  /\ reviews = [id \in Ids |-> Absent]
  /\ log = <<>>
  /\ sent = {} /\ queue = {} /\ dead = {}
  /\ tx = [s \in Sessions |-> Idle]
  /\ requests = 0 /\ faults = 0

(* An API request arrives. *)
Accept == requests < MaxRequests /\ requests' = requests + 1

(* submit: one row per product and author (the unique index makes a second  *)
(* one fail with 409), PENDING, with its review.submitted.                  *)
Submit(author, body) ==
  /\ Accept
  /\ \A id \in Ids : Exists(id) => reviews[id].author # author
  /\ \E id \in Ids :
       /\ \A event \in {log[i] : i \in DOMAIN log} : event.id < id
       /\ \A other \in Ids : other < id => \E i \in DOMAIN log : log[i].id = other
       /\ reviews' = [reviews EXCEPT ![id] =
            [author |-> author, body |-> body, status |-> "PENDING",
             published |-> FALSE, judged |-> NotJudged]]
       /\ Record(<<"submitted">>, id)
  /\ UNCHANGED <<pipeVars, tx, faults>>

(* Requests arrive for ids clients have seen. *)
Known(id) == \E i \in DOMAIN log : log[i].id = id

RequestUpdate(s, id, body) ==
  /\ Accept /\ "update" \in Ops /\ tx[s] = Idle /\ Known(id)
  /\ Become(s, [op |-> "update", id |-> id, body |-> body, at |-> "begin"])
  /\ UNCHANGED <<reviews, log, pipeVars, faults>>

RequestRemove(s, id) ==
  /\ Accept /\ "remove" \in Ops /\ tx[s] = Idle /\ Known(id)
  /\ Become(s, [op |-> "remove", id |-> id, at |-> "begin"])
  /\ UNCHANGED <<reviews, log, pipeVars, faults>>

(* A moderator decides about what the moderation queue showed. *)
RequestDecide(s, id, decision) ==
  /\ Accept /\ "decide" \in Ops /\ tx[s] = Idle /\ HasStatus(id, Awaiting)
  /\ Become(s, [op |-> "decide", id |-> id, at |-> "begin",
                decision |-> decision, viewed |-> reviews[id].body])
  /\ UNCHANGED <<reviews, log, pipeVars, faults>>

(* A request that finds nothing to do ends: 404 or 409, nothing written. *)
Reject(s) == Become(s, Idle) /\ UNCHANGED <<reviews, log, pipeVars, requests, faults>>

(* Mutant: update reads the row with a plain SELECT. *)
ReadWithoutLock(s) ==
  /\ At(s, "update", "begin") /\ Exists(tx[s].id)
  /\ Become(s, [op |-> "update", id |-> tx[s].id, body |-> tx[s].body,
                at |-> "locked", read |-> reviews[tx[s].id]])
  /\ UNCHANGED <<reviews, log, pipeVars, requests, faults>>

(* lockReviewRow at the head of update: waits for the row's lock, then      *)
(* reads the newest committed row.                                          *)
LockForUpdate(s) ==
  /\ At(s, "update", "begin") /\ RowFree(tx[s].id)
  /\ \/ Exists(tx[s].id)
        /\ Become(s, [op |-> "update", id |-> tx[s].id, body |-> tx[s].body,
                      at |-> "locked", read |-> reviews[tx[s].id]])
        /\ UNCHANGED <<reviews, log, pipeVars, requests, faults>>
     \/ ~Exists(tx[s].id) /\ Reject(s)

(* Mutant: the edit leaves publishedAt as it was. *)
EditedStillDated(row, body) ==
  [row EXCEPT !.body = body, !.status = "PENDING", !.judged = NotJudged]

(* The edited row: back to PENDING, publishedAt and reason cleared. *)
Edited(row, body) ==
  [row EXCEPT !.body = body, !.status = "PENDING", !.published = FALSE,
              !.judged = NotJudged]

(* Mutant: the two events in the wrong order. *)
EditEventsSwapped(row) ==
  IF row.status = "APPROVED" THEN <<"submitted", "unpublished">> ELSE <<"submitted">>

(* Mutant: only a published review is announced. *)
EditEventsIfPublished(row) ==
  IF row.status = "APPROVED" THEN <<"unpublished", "submitted">> ELSE <<>>

(* review.unpublished first if the locked row was published, then           *)
(* review.submitted.                                                        *)
EditEvents(row) ==
  IF row.status = "APPROVED" THEN <<"unpublished", "submitted">> ELSE <<"submitted">>

CommitUpdate(s) ==
  /\ At(s, "update", "locked")
  /\ reviews' = [reviews EXCEPT ![tx[s].id] = Edited(tx[s].read, tx[s].body)]
  /\ Record(EditEvents(tx[s].read), tx[s].id)
  /\ Become(s, Idle)
  /\ UNCHANGED <<pipeVars, requests, faults>>

LockForRemove(s) ==
  /\ At(s, "remove", "begin") /\ RowFree(tx[s].id)
  /\ \/ Exists(tx[s].id)
        /\ Become(s, [tx[s] EXCEPT !.at = "locked"])
        /\ UNCHANGED <<reviews, log, pipeVars, requests, faults>>
     \/ ~Exists(tx[s].id) /\ Reject(s)

CommitRemove(s) ==
  /\ At(s, "remove", "locked")
  /\ reviews' = [reviews EXCEPT ![tx[s].id] = Absent]
  /\ Record(<<"unpublished">>, tx[s].id)
  /\ Become(s, Idle)
  /\ UNCHANGED <<pipeVars, requests, faults>>

(* decide's updateMany: locks the row if it still awaits moderation. *)
LockForDecide(s) ==
  /\ At(s, "decide", "begin") /\ RowFree(tx[s].id)
  /\ \/ HasStatus(tx[s].id, Awaiting)
        /\ Become(s, [tx[s] EXCEPT !.at = "locked"])
        /\ UNCHANGED <<reviews, log, pipeVars, requests, faults>>
     \/ ~HasStatus(tx[s].id, Awaiting) /\ Reject(s)

(* The row a decision leaves behind, and what the decision was made about. *)
Decided(row, decision, judged) ==
  [row EXCEPT !.status = decision, !.published = (decision = "APPROVED"),
              !.judged = judged]

CommitDecide(s) ==
  /\ At(s, "decide", "locked")
  /\ reviews' = [reviews EXCEPT ![tx[s].id] = Decided(@, tx[s].decision, tx[s].viewed)]
  /\ Record(<<EventOf(tx[s].decision)>>, tx[s].id)
  /\ Become(s, Idle)
  /\ UNCHANGED <<pipeVars, requests, faults>>

-----------------------------------------------------------------------------
(* The moderation consumer. *)

(* The relay delivers a review.submitted for the first time. *)
Deliver(i) ==
  /\ log[i].type = "submitted" /\ i \notin sent
  /\ sent' = sent \union {i} /\ queue' = queue \union {i}
  /\ UNCHANGED <<reviews, log, dead, tx, requests, faults>>

Receive(s, i) ==
  /\ "moderate" \in Ops /\ tx[s] = Idle /\ i \in queue
  /\ queue' = queue \ {i}
  /\ Become(s, [op |-> "moderate", id |-> log[i].id, at |-> "begin", delivery |-> i])
  /\ UNCHANGED <<reviews, log, sent, dead, requests, faults>>

(* moderate's first read, no lock: a review that is gone or not PENDING is  *)
(* left alone and the delivery acknowledged.                                *)
ReadReview(s) ==
  /\ At(s, "moderate", "begin")
  /\ \/ HasStatus(tx[s].id, {"PENDING"})
        /\ Become(s, [op |-> "moderate", id |-> tx[s].id, at |-> "judged",
                      delivery |-> tx[s].delivery, read |-> reviews[tx[s].id]])
        /\ UNCHANGED <<reviews, log, pipeVars, requests, faults>>
     \/ ~HasStatus(tx[s].id, {"PENDING"}) /\ Reject(s)

(* Mutant: the UPDATE trusts the earlier read. *)
LockWhateverStatus(s) ==
  /\ At(s, "moderate", "judged") /\ RowFree(tx[s].id) /\ Exists(tx[s].id)
  /\ Become(s, [tx[s] EXCEPT !.at = "locked"])
  /\ UNCHANGED <<reviews, log, pipeVars, requests, faults>>

(* The updateMany that writes the verdict: locks the row if it is (still,   *)
(* or again) PENDING.                                                       *)
LockForVerdict(s) ==
  /\ At(s, "moderate", "judged") /\ RowFree(tx[s].id)
  /\ \/ HasStatus(tx[s].id, {"PENDING"})
        /\ Become(s, [tx[s] EXCEPT !.at = "locked"])
        /\ UNCHANGED <<reviews, log, pipeVars, requests, faults>>
     \/ ~HasStatus(tx[s].id, {"PENDING"}) /\ Reject(s)

CommitVerdict(s) ==
  /\ At(s, "moderate", "locked")
  /\ LET judged == tx[s].read.body IN
       /\ reviews' = [reviews EXCEPT ![tx[s].id] = Decided(@, Verdict[judged], judged)]
       /\ Record(<<EventOf(Verdict[judged])>>, tx[s].id)
  /\ Become(s, Idle)
  /\ UNCHANGED <<pipeVars, requests, faults>>

(* The handler throws: rolled back, dead-lettered. *)
Throw(s) ==
  /\ tx[s] # Idle /\ tx[s].op = "moderate"
  /\ dead' = dead \union {tx[s].delivery}
  /\ Become(s, Idle)
  /\ UNCHANGED <<reviews, log, sent, queue, requests, faults>>

-----------------------------------------------------------------------------
(* Faults. *)
Fault == faults < MaxFaults /\ faults' = faults + 1

(* The process dies: the transaction rolls back, and a moderation delivery  *)
(* is requeued.                                                             *)
Abort(s) ==
  /\ Fault /\ tx[s] # Idle
  /\ queue' = IF tx[s].op = "moderate" THEN queue \union {tx[s].delivery} ELSE queue
  /\ Become(s, Idle)
  /\ UNCHANGED <<reviews, log, requests, sent, dead>>

(* The relay delivers an event again, or the broker does because the        *)
(* channel closed, under a handler that runs on.                            *)
Duplicate(i) ==
  /\ Fault /\ i \in sent
  /\ queue' = queue \union {i}
  /\ UNCHANGED <<reviews, log, requests, sent, dead, tx>>

-----------------------------------------------------------------------------
Request(s) ==
  \E id \in Ids :
    \/ \E body \in Bodies : RequestUpdate(s, id, body)
    \/ RequestRemove(s, id)
    \/ \E decision \in {"APPROVED", "REJECTED"} : RequestDecide(s, id, decision)

(* A transaction that has begun goes on by itself. *)
Proceed(s) ==
  \/ LockForUpdate(s) \/ CommitUpdate(s)
  \/ LockForRemove(s) \/ CommitRemove(s)
  \/ LockForDecide(s) \/ CommitDecide(s)
  \/ ReadReview(s) \/ LockForVerdict(s) \/ CommitVerdict(s) \/ Throw(s)

Next ==
  \/ \E author \in Authors, body \in Bodies : Submit(author, body)
  \/ \E s \in Sessions : Request(s) \/ Proceed(s) \/ Abort(s)
  \/ \E i \in DOMAIN log : Deliver(i) \/ Duplicate(i)
  \/ \E s \in Sessions, i \in DOMAIN log : Receive(s, i)

Spec == Init /\ [][Next]_vars

(* Transactions proceed, the relay delivers, and a moderation handler takes *)
(* what is queued, which supposes that some worker is subscribed (what      *)
(* happens when none is: RatingProjection).  Requests need never come.  A   *)
(* row lock is held only by a transaction that itself proceeds, so weak     *)
(* fairness is enough.                                                      *)
FairSpec ==
  /\ Spec
  /\ \A s \in Sessions : WF_vars(Proceed(s))
  /\ \A i \in 1..(3 * MaxRequests) : WF_vars(i \in DOMAIN log /\ Deliver(i))
  /\ WF_vars(\E s \in Sessions, i \in DOMAIN log : Receive(s, i))

-----------------------------------------------------------------------------
(* The log tells the truth about each review: replaying a review's events   *)
(* up to the last one gives the status its row has.                         *)
EventsOf(id) == {i \in DOMAIN log : log[i].id = id}

StatusAfter(type) ==
  CASE type = "submitted"   -> "PENDING"
    [] type = "approved"    -> "APPROVED"
    [] type = "rejected"    -> "REJECTED"
    [] type = "flagged"     -> "FLAGGED"
    [] type = "unpublished" -> "ABSENT"

LogTellsStatus ==
  \A id \in Ids : \A i \in EventsOf(id) :
    (\A j \in EventsOf(id) : j <= i) => reviews[id].status = StatusAfter(log[i].type)

(* What may follow an event of a review: a published review is unpublished  *)
(* before anything else happens to it, a decision is made only about a      *)
(* review that awaits one, and a rejection or a moderator's decision is     *)
(* never overwritten by the automatic one.                                  *)
Follows(type) ==
  CASE type = "submitted"   -> {"approved", "rejected", "flagged", "submitted", "unpublished"}
    [] type = "flagged"     -> {"approved", "rejected", "submitted", "unpublished"}
    [] type = "rejected"    -> {"submitted", "unpublished"}
    [] type = "approved"    -> {"unpublished"}
    [] type = "unpublished" -> {"submitted"}

LogIsLegal ==
  \A i, j \in DOMAIN log :
    /\ i < j /\ log[i].id = log[j].id
    /\ \A k \in (i + 1)..(j - 1) : log[k].id # log[i].id
    => log[j].type \in Follows(log[i].type)

(* What the public can see never changes without an event the rating        *)
(* projection listens to, in the same transaction.                          *)
Visible == {<<id, reviews[id].body>> : id \in {i \in Ids : HasStatus(i, {"APPROVED"})}}
Announced(events) ==
  Cardinality({i \in DOMAIN events : events[i].type \in {"approved", "unpublished"}})

VisibilityIsAnnounced == [][Visible' # Visible => Announced(log') > Announced(log)]_vars

(* moderate's comment: the predicate on its UPDATE closes the window its     *)
(* unlocked read opens, so what gets published is what was judged.          *)
PublishedAsJudged ==
  \A id \in Ids : HasStatus(id, {"APPROVED"}) => reviews[id].judged = reviews[id].body

(* Every submission is decided in the end, whatever edits it while it       *)
(* waits, unless the delivery of the review's last review.submitted was     *)
(* dead-lettered.                                                           *)
LastSubmission(id) ==
  {i \in EventsOf(id) : /\ log[i].type = "submitted"
                        /\ \A j \in EventsOf(id) : log[j].type = "submitted" => j <= i}

EventuallyDecided ==
  \A id \in Ids :
    HasStatus(id, {"PENDING"})
      ~> ~HasStatus(id, {"PENDING"}) \/ LastSubmission(id) \subseteq dead

(* Each transaction is one step of a review's life, taken at its commit,    *)
(* whatever others have done since it began.                                *)
NoBody == "no body"

Life == INSTANCE ReviewLife WITH
  status <- [id \in Ids |-> reviews[id].status],
  body <- [id \in Ids |-> IF Exists(id) THEN reviews[id].body ELSE NoBody]

ImplementsLife == Life!Spec

(* What the public sees, and the announcements of it: a review changes       *)
(* while it is hidden, and appears and disappears with one announcement      *)
(* each, which is what RatingProjection takes for granted.                   *)
Public == INSTANCE PublicReviews WITH
  Reviews <- Ids, Contents <- Bodies, Hidden <- NoBody,
  live <- [id \in Ids |-> IF HasStatus(id, {"APPROVED"}) THEN reviews[id].body ELSE NoBody],
  version <- Announced(log)

ImplementsPublic == Public!Spec

\* Whatever the texts of the store, the rules they are judged by never treat a
\* text with more defects more mildly, and a verified purchase lifts flags and
\* no rejection (policy.ts:49-76).  A fact of the policy and not of a state: it
\* is looked at before anything was written.
DefectsNeverHelp == log = <<>> => RulesAreMonotone
=============================================================================
