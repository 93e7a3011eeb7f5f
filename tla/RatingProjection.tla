--------------------------- MODULE RatingProjection ---------------------------
(***************************************************************************)
(* product_rating_summary and the reviews it summarises, for one product.  *)
(*                                                                         *)
(* The API and the moderation worker change which reviews are APPROVED and *)
(* write review.approved / review.unpublished into the outbox in the same  *)
(* transaction; the relay delivers those events at least once; up to       *)
(* PREFETCH deliveries are handled at the same time, each recomputing the  *)
(* summary from the reviews table under an advisory lock on the product    *)
(* (apps/worker/src/aggregation, apps/worker/src/messaging).               *)
(*                                                                         *)
(* Events are numbered in the order their transactions committed; the      *)
(* handler reads nothing of an event but its product.                      *)
(*                                                                         *)
(* The writers are those of PublicReviews, which ReviewStore implements,   *)
(* and the relay is EventOutbox, which OutboxRelay implements; the module  *)
(* adds the consumer to them.                                              *)
(***************************************************************************)
EXTENDS Integers, FiniteSets

CONSTANTS
  Reviews,     \* the product's reviews
  Ratings,     \* star ratings
  Handlers,    \* concurrent deliveries: PREFETCH per worker process
  MaxEvents,   \* bound on the events written
  MaxFaults    \* bound on what goes wrong: events sent twice or given up,
               \* lost channels, crashes and shutdowns

ASSUME ReviewsAssumption == IsFiniteSet(Reviews)
ASSUME RatingsAssumption == Ratings \subseteq Nat \ {0}
ASSUME BoundsAssumption == MaxEvents \in Nat /\ MaxFaults \in Nat

Hidden == 0    \* a review that is absent or not APPROVED
NoEvent == 0   \* a handler with nothing to acknowledge

VARIABLES
  live,            \* the rating of each APPROVED review, committed
  version,         \* events written so far: 1..version
  sent,            \* events the broker took at least once
  settled,         \* events the relay marked published
  parked,          \* events the relay gave up
  queue,           \* events ready in the aggregation queue
  dead,            \* events in its dead-letter queue
  phase,           \* where each handler call is
  held,            \* the unacknowledged delivery of each handler call
  seen,            \* the aggregate a handler's INSERT ... SELECT computed
  seenVersion,     \* the events committed when it did (history variable)
  summary,         \* the product_rating_summary row
  summaryVersion,  \* the events its content reflects (history variable)
  subscribed,      \* slots the broker still delivers to
  faults           \* how often something went wrong so far

sourceVars == <<live, version>>
relayVars == <<sent, settled, parked>>
brokerVars == <<queue, dead>>
handlerVars == <<phase, held, seen, seenVersion>>
summaryVars == <<summary, summaryVersion>>
faultVars == <<subscribed, faults>>
vars == <<sourceVars, relayVars, brokerVars, handlerVars, summaryVars, faultVars>>

-----------------------------------------------------------------------------
Event == 1..version

(* Something goes wrong, within the bound. *)
Fault == faults < MaxFaults /\ faults' = faults + 1

(* The aggregate query: for each k, the number of APPROVED reviews rated k. *)
(* The row's count, sum and average are functions of these numbers.         *)
Aggregate(ratingOf) ==
  [k \in Ratings |-> Cardinality({review \in Reviews : ratingOf[review] = k})]

NoReviews == [k \in Ratings |-> 0]

(* "waiting" for the advisory lock; "locked"; "computed" the aggregate but  *)
(* not committed; "acking": committed, cache invalidated, about to ack.     *)
Phase == {"idle", "waiting", "locked", "computed", "acking"}
InLock == {"locked", "computed"}
InTransaction == {"waiting", "locked", "computed"}

TypeOK ==
  /\ live \in [Reviews -> Ratings \union {Hidden}]
  /\ version \in 0..MaxEvents
  /\ sent \subseteq Event /\ settled \subseteq Event /\ parked \subseteq Event
  /\ queue \subseteq Event /\ dead \subseteq Event
  /\ phase \in [Handlers -> Phase]
  /\ held \in [Handlers -> Event \union {NoEvent}]
  /\ seen \in [Handlers -> [Ratings -> Nat]]
  /\ seenVersion \in [Handlers -> 0..version]
  /\ summary \in [Ratings -> Nat]
  /\ summaryVersion \in 0..version
  /\ subscribed \in [Handlers -> BOOLEAN]
  /\ faults \in 0..MaxFaults

Source == INSTANCE PublicReviews WITH Contents <- Ratings

Outbox == INSTANCE EventOutbox WITH
  Rows <- 1..MaxEvents, written <- Event, delivered <- sent

Init ==
  /\ Source!Init /\ Outbox!Init
  /\ queue = {} /\ dead = {}
  /\ phase = [h \in Handlers |-> "idle"]
  /\ held = [h \in Handlers |-> NoEvent]
  /\ seen = [h \in Handlers |-> NoReviews]
  /\ seenVersion = [h \in Handlers |-> 0]
  /\ summary = NoReviews /\ summaryVersion = 0
  /\ subscribed = [h \in Handlers |-> TRUE]
  /\ faults = 0

-----------------------------------------------------------------------------
(* The writers: one transaction each, the row change and its event.        *)

WriteEvent ==
  /\ version < MaxEvents
  /\ Outbox!Write(version + 1)
  /\ UNCHANGED <<brokerVars, handlerVars, summaryVars, faultVars>>

(* moderate or decide approves a review, with the rating it has by now. *)
Approve(review, rating) == Source!Approve(review, rating) /\ WriteEvent

(* Mutant: an edit that forgets review.unpublished. *)
UnpublishSilently(review) ==
  /\ live' = [live EXCEPT ![review] = Hidden]
  /\ UNCHANGED <<version, relayVars, brokerVars, handlerVars, summaryVars, faultVars>>

(* An edit sends an APPROVED review back to PENDING; a removal deletes a    *)
(* review, APPROVED or not.  Both write review.unpublished.                 *)
Unpublish(review) == Source!Unpublish(review) /\ WriteEvent

-----------------------------------------------------------------------------
(* The relay, as the outbox's promise lets it behave. *)

(* Possibly again, which is a fault, and even after the row is settled or   *)
(* parked: a frame that was given up on may still be on its way.            *)
Deliver(e) ==
  /\ UNCHANGED <<sourceVars, dead, handlerVars, summaryVars, subscribed>>
  /\ IF e \in sent THEN Fault ELSE UNCHANGED faults
  /\ Outbox!Deliver(e)
  /\ queue' = queue \union {e}

Settle(batch) ==
  /\ UNCHANGED <<sourceVars, brokerVars, handlerVars, summaryVars, faultVars>>
  /\ Outbox!Settle(batch)

Park(e) ==
  /\ UNCHANGED <<sourceVars, brokerVars, handlerVars, summaryVars, subscribed>>
  /\ Fault /\ Outbox!GiveUp(e)

-----------------------------------------------------------------------------
(* The consumer. *)

Goto(h, to) == phase' = [phase EXCEPT ![h] = to]

(* The broker hands a delivery to a free slot; the handler's transaction   *)
(* begins and asks for pg_advisory_xact_lock.                              *)
Receive(h, e) ==
  /\ phase[h] = "idle" /\ subscribed[h] /\ e \in queue
  /\ queue' = queue \ {e}
  /\ held' = [held EXCEPT ![h] = e]
  /\ Goto(h, "waiting")
  /\ UNCHANGED <<sourceVars, relayVars, dead, seen, seenVersion, summaryVars, faultVars>>

(* Mutant: recompute without the advisory lock. *)
DoNotLock(h) ==
  /\ phase[h] = "waiting"
  /\ Goto(h, "locked")
  /\ UNCHANGED <<sourceVars, relayVars, brokerVars, held, seen, seenVersion, summaryVars, faultVars>>

AcquireLock(h) ==
  /\ phase[h] = "waiting"
  /\ \A g \in Handlers : phase[g] \notin InLock
  /\ Goto(h, "locked")
  /\ UNCHANGED <<sourceVars, relayVars, brokerVars, held, seen, seenVersion, summaryVars, faultVars>>

(* What a transaction computed is gone with it. *)
Forget(h) ==
  /\ seen' = [seen EXCEPT ![h] = NoReviews]
  /\ seenVersion' = [seenVersion EXCEPT ![h] = 0]

(* INSERT ... SELECT takes its snapshot of the committed reviews. *)
Compute(h) ==
  /\ phase[h] = "locked"
  /\ seen' = [seen EXCEPT ![h] = Aggregate(live)]
  /\ seenVersion' = [seenVersion EXCEPT ![h] = version]
  /\ Goto(h, "computed")
  /\ UNCHANGED <<sourceVars, relayVars, brokerVars, held, summaryVars, faultVars>>

(* The transaction commits: the row has the computed values, the lock is   *)
(* released.  The cache invalidation that follows catches its own errors.  *)
Commit(h) ==
  /\ phase[h] = "computed"
  /\ summary' = seen[h] /\ summaryVersion' = seenVersion[h]
  /\ Goto(h, "acking") /\ Forget(h)
  /\ UNCHANGED <<sourceVars, relayVars, brokerVars, held, faultVars>>

(* safeAck: a delivery the channel still knows is acknowledged, one whose   *)
(* channel is gone is left to the broker.                                   *)
Ack(h) ==
  /\ phase[h] = "acking"
  /\ held' = [held EXCEPT ![h] = NoEvent]
  /\ Goto(h, "idle")
  /\ UNCHANGED <<sourceVars, relayVars, brokerVars, seen, seenVersion, summaryVars, faultVars>>

(* Mutant: a nack for a delivery the channel no longer knows. *)
DeadLetterBlindly(h) ==
  /\ dead' = dead \union {held[h]}
  /\ held' = [held EXCEPT ![h] = NoEvent]
  /\ Goto(h, "idle")

(* Mutant: the catch block acknowledges the delivery too. *)
AckInCatch(h) ==
  /\ UNCHANGED dead
  /\ held' = [held EXCEPT ![h] = NoEvent]
  /\ Goto(h, "idle")

(* safeNack without requeue: the dead-letter queue takes the delivery.      *)
DeadLetter(h) ==
  /\ dead' = IF held[h] = NoEvent THEN dead ELSE dead \union {held[h]}
  /\ held' = [held EXCEPT ![h] = NoEvent]
  /\ Goto(h, "idle")

(* The handler throws before its commit: database error, transaction       *)
(* timeout while waiting for the lock.                                     *)
Throw(h) ==
  /\ phase[h] \in InTransaction
  /\ DeadLetter(h) /\ Forget(h)
  /\ UNCHANGED <<sourceVars, relayVars, queue, summaryVars, faultVars>>

(* ... or because the acknowledgement of the commit is lost. *)
ThrowAfterCommit(h) ==
  /\ phase[h] = "computed"
  /\ summary' = seen[h] /\ summaryVersion' = seenVersion[h]
  /\ DeadLetter(h) /\ Forget(h)
  /\ UNCHANGED <<sourceVars, relayVars, queue, faultVars>>

-----------------------------------------------------------------------------
(* Faults and shutdowns.  What happens to a process or a channel is one of   *)
(* these steps for each of its slots.  Consumers are registered when a       *)
(* process starts and never again: a slot whose channel is gone stays        *)
(* without deliveries, though the connection comes back, until the process   *)
(* is replaced.                                                              *)
Unsubscribe(h) == subscribed' = [subscribed EXCEPT ![h] = FALSE]

(* The broker takes back what a channel held without acknowledging it. *)
Requeue(h) ==
  /\ queue' = IF held[h] = NoEvent THEN queue ELSE queue \union {held[h]}
  /\ held' = [held EXCEPT ![h] = NoEvent]
  /\ UNCHANGED <<sourceVars, relayVars, dead, summaryVars>>

(* The channel closes, perhaps under a running handler: the broker takes    *)
(* the delivery back, the handler runs on.                                  *)
LoseChannel(h) ==
  /\ Fault /\ (subscribed[h] \/ held[h] # NoEvent)
  /\ Requeue(h) /\ Unsubscribe(h) /\ UNCHANGED <<phase, seen, seenVersion>>

(* The process dies: the transaction, if any, rolls back. *)
Crash(h) == Fault /\ Requeue(h) /\ Unsubscribe(h) /\ Goto(h, "idle") /\ Forget(h)

(* Graceful shutdown cancels the consumer; what is in flight goes on, and   *)
(* is cut off by LoseChannel or Crash if the drain runs out of time.        *)
Cancel(h) ==
  /\ Fault /\ subscribed[h]
  /\ Unsubscribe(h)
  /\ UNCHANGED <<sourceVars, relayVars, brokerVars, handlerVars, summaryVars>>

(* A new process registers its consumers. *)
Restart(h) ==
  /\ phase[h] = "idle" /\ ~subscribed[h]
  /\ subscribed' = [subscribed EXCEPT ![h] = TRUE]
  /\ UNCHANGED <<sourceVars, relayVars, brokerVars, handlerVars, summaryVars, faults>>

-----------------------------------------------------------------------------
RelayStep ==
  \/ \E e \in Event : Deliver(e) \/ Park(e)
  \/ \E batch \in SUBSET Event : Settle(batch)

HandlerStep(h) ==
  \/ \E e \in Event : Receive(h, e)
  \/ AcquireLock(h) \/ Compute(h) \/ Commit(h) \/ Ack(h)
  \/ Throw(h) \/ ThrowAfterCommit(h)

Next ==
  \/ \E review \in Reviews :
       Unpublish(review) \/ \E rating \in Ratings : Approve(review, rating)
  \/ RelayStep
  \/ \E h \in Handlers : HandlerStep(h) \/ LoseChannel(h) \/ Crash(h) \/ Cancel(h) \/ Restart(h)

Spec == Init /\ [][Next]_vars

(* The relay still owes the broker this event, or itself the mark. *)
Unsettled(e) == e \in Event /\ e \notin settled \union parked

(* The relay settles or parks every row (OutboxRelay!EventuallySettled), a  *)
(* subscribed free slot is handed what is queued, and a handler call that   *)
(* can continue does: Postgres grants a free lock and ends every statement. *)
(* A queue hands its events out in the order they came, so copies of one do *)
(* not keep another waiting.  Nothing obliges anybody to restart a process. *)
FairSpec ==
  /\ Spec
  /\ \A e \in 1..MaxEvents : WF_vars(Unsettled(e) /\ Deliver(e))
                             /\ WF_vars(Unsettled(e) /\ Settle({e}))
                             /\ SF_vars(e \in Event /\ \E h \in Handlers : Receive(h, e))
  /\ \A h \in Handlers : WF_vars(HandlerStep(h))

-----------------------------------------------------------------------------
(* An event whose recompute has still to commit: it is in the outbox, in    *)
(* the queue, or in the hands of a handler whose transaction is open.       *)
AtConsumer(e) ==
  \/ e \in queue
  \/ \E h \in Handlers : held[h] = e /\ phase[h] \in InTransaction

InProgress(e) == Unsettled(e) \/ AtConsumer(e)

(* The pipeline gave this event up. *)
Lost(e) == e \in parked \union dead

(* "The projection can never drift": a summary that reflects every event   *)
(* is what the reviews table says now, and an event it does not reflect    *)
(* is still in progress or was given up.  So once nothing is in progress   *)
(* and nothing was lost, summary and reviews agree.                        *)
UpToDateWhenReflected == summaryVersion = version => summary = Aggregate(live)

NoEventForgotten ==
  \A e \in Event : e <= summaryVersion \/ InProgress(e) \/ Lost(e)

NoDrift == UpToDateWhenReflected /\ NoEventForgotten

(* A recompute never overwrites the result of one that saw more: what the  *)
(* advisory lock, taken before the snapshot, is for.                       *)
NeverOverwritesNewer == [][summaryVersion' >= summaryVersion]_summaryVars

(* Every event not lost is reflected in the summary in the end, unless from *)
(* some time on nothing is subscribed to the queue any more.                *)
NobodyListens == \A h \in Handlers : ~subscribed[h]

EventuallyReflected ==
  \A e \in 1..MaxEvents :
    version >= e ~> (summaryVersion >= e \/ Lost(e) \/ []NobodyListens)

-----------------------------------------------------------------------------
(* The inductive strengthening behind the theorems. *)

LockExclusive ==
  \A g, h \in Handlers : phase[g] \in InLock /\ phase[h] \in InLock => g = h

(* What a handler knows in each phase. *)
HandlersKnow ==
  \A h \in Handlers :
    /\ phase[h] = "idle" => held[h] = NoEvent
    /\ phase[h] = "computed" =>
         /\ held[h] <= seenVersion[h] /\ summaryVersion <= seenVersion[h]
         /\ seenVersion[h] = version => seen[h] = Aggregate(live)
    /\ phase[h] = "acking" => held[h] <= summaryVersion

(* What the relay may rely on when it settles an event. *)
SentIsTracked ==
  \A e \in sent : e <= summaryVersion \/ AtConsumer(e) \/ Lost(e)

IInv == TypeOK /\ LockExclusive /\ HandlersKnow /\ NoDrift /\ SentIsTracked
=============================================================================
