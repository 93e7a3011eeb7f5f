----------------------- MODULE RatingProjectionProofs -----------------------
(* Theorems about the rating projection, for any number of reviews, events  *)
(* and concurrent handlers.                                                 *)
EXTENDS RatingProjection, TLAPS, FiniteSetTheorems

(* The aggregate query returns a row of natural numbers. *)
LEMMA AggregateType ==
  ASSUME NEW ratingOf PROVE Aggregate(ratingOf) \in [Ratings -> Nat]
<1>1. ASSUME NEW k \in Ratings
      PROVE  Cardinality({review \in Reviews : ratingOf[review] = k}) \in Nat
  <2>1. {review \in Reviews : ratingOf[review] = k} \subseteq Reviews
    OBVIOUS
  <2>2. QED
    BY <2>1, ReviewsAssumption, FS_Subset, FS_CardinalityType
<1>2. QED
  BY <1>1 DEF Aggregate

(* No review, no stars. *)
LEMMA AggregateOfNone ==
  Aggregate([review \in Reviews |-> Hidden]) = NoReviews
<1>1. ASSUME NEW k \in Ratings
      PROVE  Cardinality({review \in Reviews : [r \in Reviews |-> Hidden][review] = k}) = 0
  <2>1. {review \in Reviews : [r \in Reviews |-> Hidden][review] = k} = {}
    BY RatingsAssumption DEF Hidden
  <2>2. QED
    BY <2>1, FS_EmptySet
<1>2. QED
  BY <1>1 DEF Aggregate, NoReviews

(* Type correctness: every event in a queue, a handler's hands or the       *)
(* outbox is one that was written, and no aggregate is of the future.       *)
THEOREM TypeCorrect == Spec => []TypeOK
<1> USE RatingsAssumption, BoundsAssumption
<1>1. Init => TypeOK
  BY DEF Init, Source!Init, Outbox!Init, TypeOK, Event, Phase, NoReviews
<1>2. TypeOK /\ [Next]_vars => TypeOK'
  <2> SUFFICES ASSUME TypeOK, [Next]_vars PROVE TypeOK'
    OBVIOUS
  <2> USE DEF TypeOK, Event, Phase, sourceVars, relayVars, brokerVars, handlerVars, summaryVars, faultVars
  <2>1. vars' = vars => TypeOK'
    BY DEF vars
  <2>2. \A review \in Reviews : Unpublish(review) => TypeOK'
    BY DEF Unpublish, Source!Unpublish, Source!Announce, WriteEvent, Outbox!Write
  <2>3. \A review \in Reviews, rating \in Ratings : Approve(review, rating) => TypeOK'
    BY DEF Approve, Source!Approve, Source!Announce, WriteEvent, Outbox!Write
  <2>4. \A e \in Event : Deliver(e) => TypeOK'
    BY DEF Deliver, Fault, Outbox!Deliver
  <2>5. \A batch \in SUBSET Event : Settle(batch) => TypeOK'
    BY DEF Settle, Outbox!Settle
  <2>6. \A e \in Event : Park(e) => TypeOK'
    BY DEF Park, Fault, Outbox!GiveUp
  <2>7. \A h \in Handlers, e \in Event : Receive(h, e) => TypeOK'
    BY DEF Receive, Goto
  <2>8. \A h \in Handlers : AcquireLock(h) => TypeOK'
    BY DEF AcquireLock, Goto
  <2>9. \A h \in Handlers : Compute(h) => TypeOK'
    BY AggregateType DEF Compute, Goto
  <2>10. \A h \in Handlers : Commit(h) => TypeOK'
    BY DEF Commit, Forget, Goto, NoReviews
  <2>11. \A h \in Handlers : Ack(h) => TypeOK'
    BY DEF Ack, Goto
  <2>12. \A h \in Handlers : Throw(h) => TypeOK'
    <3> SUFFICES ASSUME NEW h \in Handlers, Throw(h) PROVE TypeOK'
      OBVIOUS
    <3>1. dead' \subseteq Event /\ held' \in [Handlers -> Event \union {NoEvent}]
      BY DEF Throw, DeadLetter, NoEvent
    <3>2. phase' \in [Handlers -> Phase]
      BY DEF Throw, DeadLetter, Forget, Goto
    <3>3. QED
      BY <3>1, <3>2 DEF Throw, DeadLetter, Forget, NoReviews
  <2>13. \A h \in Handlers : ThrowAfterCommit(h) => TypeOK'
    <3> SUFFICES ASSUME NEW h \in Handlers, ThrowAfterCommit(h) PROVE TypeOK'
      OBVIOUS
    <3>1. dead' \subseteq Event /\ held' \in [Handlers -> Event \union {NoEvent}]
      BY DEF ThrowAfterCommit, DeadLetter, NoEvent
    <3>2. phase' \in [Handlers -> Phase]
      BY DEF ThrowAfterCommit, DeadLetter, Forget, Goto
    <3>3. QED
      BY <3>1, <3>2 DEF ThrowAfterCommit, DeadLetter, Forget, NoReviews
  <2>14. \A h \in Handlers : LoseChannel(h) => TypeOK'
    <3> SUFFICES ASSUME NEW h \in Handlers, LoseChannel(h) PROVE TypeOK'
      OBVIOUS
    <3>1. queue' \subseteq Event /\ held' \in [Handlers -> Event \union {NoEvent}]
      BY DEF LoseChannel, Fault, Unsubscribe, Requeue, NoEvent
    <3>2. phase' \in [Handlers -> Phase]
      BY DEF LoseChannel, Fault, Unsubscribe, Requeue
    <3>3. QED
      BY <3>1, <3>2 DEF LoseChannel, Fault, Unsubscribe, Requeue
  <2>15. \A h \in Handlers : Crash(h) => TypeOK'
    <3> SUFFICES ASSUME NEW h \in Handlers, Crash(h) PROVE TypeOK'
      OBVIOUS
    <3>1. queue' \subseteq Event /\ held' \in [Handlers -> Event \union {NoEvent}]
      BY DEF Crash, Requeue, NoEvent
    <3>2. phase' \in [Handlers -> Phase]
      BY DEF Crash, Goto
    <3>3. QED
      BY <3>1, <3>2 DEF Crash, Fault, Unsubscribe, Requeue, Forget, NoReviews
  <2>16. \A h \in Handlers : Cancel(h) => TypeOK'
    BY DEF Cancel, Fault, Unsubscribe
  <2>17. \A h \in Handlers : Restart(h) => TypeOK'
    BY DEF Restart
  <2>18. QED
    BY <2>1, <2>2, <2>3, <2>4, <2>5, <2>6, <2>7, <2>8,
       <2>9, <2>10, <2>11, <2>12, <2>13, <2>14, <2>15, <2>16, <2>17
    DEF Next, RelayStep, HandlerStep
<1>3. QED
  BY <1>1, <1>2, PTL DEF Spec

(* The advisory lock admits one recompute at a time. *)
LEMMA LockIsExclusive == Spec => []LockExclusive
<1>1. Init => LockExclusive
  BY DEF Init, LockExclusive, InLock
<1>2. TypeOK /\ LockExclusive /\ [Next]_vars => LockExclusive'
  <2> SUFFICES ASSUME TypeOK, LockExclusive, [Next]_vars PROVE LockExclusive'
    OBVIOUS
  <2> USE DEF TypeOK, Phase, LockExclusive, InLock, InTransaction, sourceVars, relayVars, brokerVars, handlerVars, summaryVars, faultVars
  <2>1. vars' = vars => LockExclusive'
    BY DEF vars
  <2>2. \A review \in Reviews : Unpublish(review) => LockExclusive'
    BY DEF Unpublish, Source!Unpublish, Source!Announce, WriteEvent, Outbox!Write
  <2>3. \A review \in Reviews, rating \in Ratings : Approve(review, rating) => LockExclusive'
    BY DEF Approve, Source!Approve, Source!Announce, WriteEvent, Outbox!Write
  <2>4. \A e \in Event : Deliver(e) => LockExclusive'
    BY DEF Deliver, Fault, Outbox!Deliver
  <2>5. \A batch \in SUBSET Event : Settle(batch) => LockExclusive'
    BY DEF Settle, Outbox!Settle
  <2>6. \A e \in Event : Park(e) => LockExclusive'
    BY DEF Park, Fault, Outbox!GiveUp
  <2>7. \A h \in Handlers, e \in Event : Receive(h, e) => LockExclusive'
    BY DEF Receive, Goto
  <2>8. \A h \in Handlers : AcquireLock(h) => LockExclusive'
    BY DEF AcquireLock, Goto
  <2>9. \A h \in Handlers : Compute(h) => LockExclusive'
    BY DEF Compute, Goto
  <2>10. \A h \in Handlers : Commit(h) => LockExclusive'
    BY DEF Commit, Forget, Goto
  <2>11. \A h \in Handlers : Ack(h) => LockExclusive'
    BY DEF Ack, Goto
  <2>12. \A h \in Handlers : Throw(h) => LockExclusive'
    BY DEF Throw, DeadLetter, Forget, Goto
  <2>13. \A h \in Handlers : ThrowAfterCommit(h) => LockExclusive'
    BY DEF ThrowAfterCommit, DeadLetter, Forget, Goto
  <2>14. \A h \in Handlers : LoseChannel(h) => LockExclusive'
    BY DEF LoseChannel, Fault, Unsubscribe, Requeue
  <2>15. \A h \in Handlers : Crash(h) => LockExclusive'
    BY DEF Crash, Fault, Unsubscribe, Requeue, Forget, Goto
  <2>16. \A h \in Handlers : Cancel(h) => LockExclusive'
    BY DEF Cancel, Fault, Unsubscribe
  <2>17. \A h \in Handlers : Restart(h) => LockExclusive'
    BY DEF Restart
  <2>18. QED
    BY <2>1, <2>2, <2>3, <2>4, <2>5, <2>6, <2>7, <2>8,
       <2>9, <2>10, <2>11, <2>12, <2>13, <2>14, <2>15, <2>16, <2>17
    DEF Next, RelayStep, HandlerStep
<1>3. QED
  BY <1>1, <1>2, TypeCorrect, PTL DEF Spec
(* What a handler knows in each phase, and that a summary reflecting every  *)
(* event is the current aggregate: inductive together.                      *)
LEMMA ContentIsRight == Spec => [](HandlersKnow /\ UpToDateWhenReflected)
<1> DEFINE J == HandlersKnow /\ UpToDateWhenReflected
<1>1. Init => J
  BY AggregateOfNone DEF Init, Source!Init, HandlersKnow, UpToDateWhenReflected
<1>2. TypeOK /\ LockExclusive /\ J /\ [Next]_vars => J'
  <2> SUFFICES ASSUME TypeOK, LockExclusive, J, [Next]_vars PROVE J'
    OBVIOUS
  <2> USE DEF TypeOK, Event, Phase, InLock, InTransaction, NoEvent, HandlersKnow, UpToDateWhenReflected, sourceVars, relayVars, brokerVars, handlerVars, summaryVars, faultVars
  <2>1. vars' = vars => J'
    BY DEF vars
  <2>2. \A review \in Reviews : Unpublish(review) => J'
    BY DEF Unpublish, Source!Unpublish, Source!Announce, WriteEvent, Outbox!Write
  <2>3. \A review \in Reviews, rating \in Ratings : Approve(review, rating) => J'
    BY DEF Approve, Source!Approve, Source!Announce, WriteEvent, Outbox!Write
  <2>4. \A e \in Event : Deliver(e) => J'
    BY DEF Deliver, Fault, Outbox!Deliver
  <2>5. \A batch \in SUBSET Event : Settle(batch) => J'
    BY DEF Settle, Outbox!Settle
  <2>6. \A e \in Event : Park(e) => J'
    BY DEF Park, Fault, Outbox!GiveUp
  <2>7. \A h \in Handlers, e \in Event : Receive(h, e) => J'
    BY DEF Receive, Goto
  <2>8. \A h \in Handlers : AcquireLock(h) => J'
    BY DEF AcquireLock, Goto
  <2>9. \A h \in Handlers : Compute(h) => J'
    BY DEF Compute, Goto
  <2>10. \A h \in Handlers : Commit(h) => J'
    <3> SUFFICES ASSUME NEW h \in Handlers, Commit(h) PROVE J'
      OBVIOUS
    <3>1. /\ phase[h] = "computed" /\ phase' = [phase EXCEPT ![h] = "acking"]
          /\ summary' = seen[h] /\ summaryVersion' = seenVersion[h]
          /\ UNCHANGED <<live, version>>
          /\ \A g \in Handlers \ {h} : seen'[g] = seen[g] /\ seenVersion'[g] = seenVersion[g]
      BY DEF Commit, Forget, Goto
    <3>2. /\ held[h] <= seenVersion[h] /\ summaryVersion <= seenVersion[h]
          /\ seenVersion[h] = version => seen[h] = Aggregate(live)
      BY <3>1
    <3>3. held' = held \/ held' = [held EXCEPT ![h] = NoEvent]
      BY DEF Commit
    <3>4. UpToDateWhenReflected'
      BY <3>1, <3>2
    <3>5. ASSUME NEW g \in Handlers
          PROVE  /\ phase'[g] # "computed"
                 /\ phase'[g] = "idle" => held'[g] = NoEvent
                 /\ phase'[g] = "acking" => held'[g] <= summaryVersion'
      <4>1. CASE g = h
        BY <3>1, <3>2, <4>1 DEF Commit
      <4>2. CASE g # h
        <5>1. phase'[g] = phase[g] /\ held'[g] = held[g] /\ phase[g] # "computed"
          BY <3>1, <3>3, <4>2 DEF LockExclusive
        <5>2. phase[g] = "acking" => held[g] <= summaryVersion
          OBVIOUS
        <5>3. QED
          BY <3>1, <3>2, <5>1, <5>2
      <4>3. QED
        BY <4>1, <4>2
    <3>6. QED
      BY <3>4, <3>5
  <2>11. \A h \in Handlers : Ack(h) => J'
    BY DEF Ack, Goto
  <2>12. \A h \in Handlers : Throw(h) => J'
    BY DEF Throw, DeadLetter, Forget, Goto
  <2>13. \A h \in Handlers : ThrowAfterCommit(h) => J'
    <3> SUFFICES ASSUME NEW h \in Handlers, ThrowAfterCommit(h) PROVE J'
      OBVIOUS
    <3>1. /\ phase[h] = "computed" /\ phase' = [phase EXCEPT ![h] = "idle"]
          /\ summary' = seen[h] /\ summaryVersion' = seenVersion[h]
          /\ UNCHANGED <<live, version>>
          /\ \A g \in Handlers \ {h} : seen'[g] = seen[g] /\ seenVersion'[g] = seenVersion[g]
      BY DEF ThrowAfterCommit, DeadLetter, Forget, Goto
    <3>2. /\ held[h] <= seenVersion[h] /\ summaryVersion <= seenVersion[h]
          /\ seenVersion[h] = version => seen[h] = Aggregate(live)
      BY <3>1
    <3>3. held' = held \/ held' = [held EXCEPT ![h] = NoEvent]
      BY DEF ThrowAfterCommit, DeadLetter
    <3>4. UpToDateWhenReflected'
      BY <3>1, <3>2
    <3>5. ASSUME NEW g \in Handlers
          PROVE  /\ phase'[g] # "computed"
                 /\ phase'[g] = "idle" => held'[g] = NoEvent
                 /\ phase'[g] = "acking" => held'[g] <= summaryVersion'
      <4>1. CASE g = h
        BY <3>1, <3>2, <4>1 DEF ThrowAfterCommit, DeadLetter
      <4>2. CASE g # h
        <5>1. phase'[g] = phase[g] /\ held'[g] = held[g] /\ phase[g] # "computed"
          BY <3>1, <3>3, <4>2 DEF LockExclusive
        <5>2. phase[g] = "acking" => held[g] <= summaryVersion
          OBVIOUS
        <5>3. QED
          BY <3>1, <3>2, <5>1, <5>2
      <4>3. QED
        BY <4>1, <4>2
    <3>6. QED
      BY <3>4, <3>5
  <2>14. \A h \in Handlers : LoseChannel(h) => J'
    BY DEF LoseChannel, Fault, Unsubscribe, Requeue
  <2>15. \A h \in Handlers : Crash(h) => J'
    BY DEF Crash, Fault, Unsubscribe, Requeue, Forget, Goto
  <2>16. \A h \in Handlers : Cancel(h) => J'
    BY DEF Cancel, Fault, Unsubscribe
  <2>17. \A h \in Handlers : Restart(h) => J'
    BY DEF Restart
  <2>18. QED
    BY <2>1, <2>2, <2>3, <2>4, <2>5, <2>6, <2>7, <2>8,
       <2>9, <2>10, <2>11, <2>12, <2>13, <2>14, <2>15, <2>16, <2>17
    DEF Next, RelayStep, HandlerStep
<1>3. QED
  BY <1>1, <1>2, TypeCorrect, LockIsExclusive, PTL DEF Spec

(* An event not reflected yet is somewhere, or was given up. *)
LEMMA EventsAreTracked == Spec => [](NoEventForgotten /\ SentIsTracked)
<1> DEFINE J == NoEventForgotten /\ SentIsTracked
<1>1. Init => J
  BY DEF Init, Source!Init, Outbox!Init, NoEventForgotten, SentIsTracked, Event
<1>2. TypeOK /\ HandlersKnow /\ J /\ [Next]_vars => J'
  <2> SUFFICES ASSUME TypeOK, HandlersKnow, J, [Next]_vars PROVE J'
    OBVIOUS
  <2> USE DEF TypeOK, Event, Phase, InTransaction, NoEvent, HandlersKnow, NoEventForgotten, SentIsTracked, AtConsumer, InProgress, Unsettled, Lost, sourceVars, relayVars, brokerVars, handlerVars, summaryVars, faultVars
  <2>1. vars' = vars => J'
    BY DEF vars
  <2>2. \A review \in Reviews : Unpublish(review) => J'
    BY DEF Unpublish, Source!Unpublish, Source!Announce, WriteEvent, Outbox!Write
  <2>3. \A review \in Reviews, rating \in Ratings : Approve(review, rating) => J'
    BY DEF Approve, Source!Approve, Source!Announce, WriteEvent, Outbox!Write
  <2>4. \A e \in Event : Deliver(e) => J'
    BY DEF Deliver, Fault, Outbox!Deliver
  <2>5. \A batch \in SUBSET Event : Settle(batch) => J'
    BY DEF Settle, Outbox!Settle
  <2>6. \A e \in Event : Park(e) => J'
    BY DEF Park, Fault, Outbox!GiveUp
  <2>7. \A h \in Handlers, e \in Event : Receive(h, e) => J'
    BY DEF Receive, Goto
  <2>8. \A h \in Handlers : AcquireLock(h) => J'
    BY DEF AcquireLock, Goto
  <2>9. \A h \in Handlers : Compute(h) => J'
    BY DEF Compute, Goto
  <2>10. \A h \in Handlers : Commit(h) => J'
    <3> SUFFICES ASSUME NEW h \in Handlers, Commit(h) PROVE J'
      OBVIOUS
    <3>1. /\ phase[h] = "computed" /\ phase' = [phase EXCEPT ![h] = "acking"]
          /\ summaryVersion' = seenVersion[h]
          /\ UNCHANGED <<version, sent, settled, parked, queue>>
          /\ dead \subseteq dead'
          /\ \A g \in Handlers : g # h => held'[g] = held[g]
      BY DEF Commit, Forget, Goto
    <3>2. held[h] <= seenVersion[h] /\ summaryVersion <= seenVersion[h]
      BY <3>1
    <3>3. ASSUME NEW e \in Event, e <= summaryVersion \/ AtConsumer(e) \/ Lost(e)
          PROVE  e <= summaryVersion' \/ AtConsumer(e)' \/ Lost(e)'
      <4>1. CASE e <= summaryVersion
        BY <3>1, <3>2, <4>1
      <4>2. CASE e \in queue \/ Lost(e)
        BY <3>1, <4>2
      <4>3. ASSUME NEW g \in Handlers, held[g] = e, phase[g] \in InTransaction
            PROVE  e <= summaryVersion' \/ AtConsumer(e)'
        <5>1. CASE g = h
          BY <3>1, <3>2, <4>3, <5>1
        <5>2. CASE g # h
          <6>1. held'[g] = e /\ phase'[g] \in InTransaction
            BY <3>1, <4>3, <5>2
          <6>2. QED
            BY <6>1
        <5>3. QED
          BY <5>1, <5>2
      <4>4. QED
        BY <3>3, <4>1, <4>2, <4>3
    <3> HIDE DEF AtConsumer, Lost
    <3>4. QED
      BY <3>1, <3>3
  <2>11. \A h \in Handlers : Ack(h) => J'
    BY DEF Ack, Goto
  <2>12. \A h \in Handlers : Throw(h) => J'
    BY DEF Throw, DeadLetter, Forget, Goto
  <2>13. \A h \in Handlers : ThrowAfterCommit(h) => J'
    <3> SUFFICES ASSUME NEW h \in Handlers, ThrowAfterCommit(h) PROVE J'
      OBVIOUS
    <3>1. /\ phase[h] = "computed" /\ phase' = [phase EXCEPT ![h] = "idle"]
          /\ summaryVersion' = seenVersion[h]
          /\ UNCHANGED <<version, sent, settled, parked, queue>>
          /\ dead \subseteq dead'
          /\ \A g \in Handlers : g # h => held'[g] = held[g]
      BY DEF ThrowAfterCommit, DeadLetter, Forget, Goto
    <3>2. held[h] <= seenVersion[h] /\ summaryVersion <= seenVersion[h]
      BY <3>1
    <3>3. ASSUME NEW e \in Event, e <= summaryVersion \/ AtConsumer(e) \/ Lost(e)
          PROVE  e <= summaryVersion' \/ AtConsumer(e)' \/ Lost(e)'
      <4>1. CASE e <= summaryVersion
        BY <3>1, <3>2, <4>1
      <4>2. CASE e \in queue \/ Lost(e)
        BY <3>1, <4>2
      <4>3. ASSUME NEW g \in Handlers, held[g] = e, phase[g] \in InTransaction
            PROVE  e <= summaryVersion' \/ AtConsumer(e)'
        <5>1. CASE g = h
          BY <3>1, <3>2, <4>3, <5>1
        <5>2. CASE g # h
          <6>1. held'[g] = e /\ phase'[g] \in InTransaction
            BY <3>1, <4>3, <5>2
          <6>2. QED
            BY <6>1
        <5>3. QED
          BY <5>1, <5>2
      <4>4. QED
        BY <3>3, <4>1, <4>2, <4>3
    <3> HIDE DEF AtConsumer, Lost
    <3>4. QED
      BY <3>1, <3>3
  <2>14. \A h \in Handlers : LoseChannel(h) => J'
    BY DEF LoseChannel, Fault, Unsubscribe, Requeue
  <2>15. \A h \in Handlers : Crash(h) => J'
    BY DEF Crash, Fault, Unsubscribe, Requeue, Forget, Goto
  <2>16. \A h \in Handlers : Cancel(h) => J'
    BY DEF Cancel, Fault, Unsubscribe
  <2>17. \A h \in Handlers : Restart(h) => J'
    BY DEF Restart
  <2>18. QED
    BY <2>1, <2>2, <2>3, <2>4, <2>5, <2>6, <2>7, <2>8,
       <2>9, <2>10, <2>11, <2>12, <2>13, <2>14, <2>15, <2>16, <2>17
    DEF Next, RelayStep, HandlerStep
<1>3. QED
  BY <1>1, <1>2, TypeCorrect, ContentIsRight, PTL DEF Spec

(* The projection never drifts: whatever is duplicated, requeued, dead-      *)
(* lettered or crashes, a summary that reflects every event is the current   *)
(* aggregate, and one that does not is still being worked on or lost events. *)
THEOREM ProjectionNeverDrifts == Spec => []NoDrift
BY ContentIsRight, EventsAreTracked, PTL DEF NoDrift

(* Under the advisory lock no recompute overwrites a newer one. *)
THEOREM RecomputesNeverGoBack == Spec => NeverOverwritesNewer
<1>1. TypeOK /\ HandlersKnow /\ [Next]_vars => [summaryVersion' >= summaryVersion]_summaryVars
  <2> DEFINE Forward == [summaryVersion' >= summaryVersion]_summaryVars
  <2> SUFFICES ASSUME TypeOK, HandlersKnow, [Next]_vars PROVE Forward
    OBVIOUS
  <2>1. \A h \in Handlers : Commit(h) \/ ThrowAfterCommit(h) => Forward
    <3> SUFFICES ASSUME NEW h \in Handlers, Commit(h) \/ ThrowAfterCommit(h)
                 PROVE  summaryVersion' >= summaryVersion
      OBVIOUS
    <3>1. summaryVersion' = seenVersion[h] /\ summaryVersion <= seenVersion[h]
      BY DEF Commit, ThrowAfterCommit, HandlersKnow
    <3>2. QED
      BY <3>1 DEF TypeOK
  <2>2. UNCHANGED summaryVars \/ \E h \in Handlers : Commit(h) \/ ThrowAfterCommit(h)
    BY DEF Next, RelayStep, HandlerStep, vars, Unpublish, Approve, WriteEvent,
       Deliver, Settle, Park, Receive, AcquireLock, Compute, Ack, Throw,
       LoseChannel, Crash, Requeue, Cancel, Restart
  <2>3. QED
    BY <2>1, <2>2
<1>2. QED
  BY <1>1, TypeCorrect, ContentIsRight, PTL DEF Spec, NeverOverwritesNewer
=============================================================================
