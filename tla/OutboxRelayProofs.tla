-------------------------- MODULE OutboxRelayProofs --------------------------
(* Theorems about the outbox relay, for any number of relays and rows.      *)
EXTENDS OutboxRelay, TLAPS, FiniteSetTheorems

(* What a batch claims is due. *)
LEMMA ClaimedIsDue == FirstOf(Claimable, BatchSize) \subseteq Due
BY DEF FirstOf, Claimable

(* Type correctness: every variable stays in its domain, and a relay only   *)
(* ever works on rows whose transaction has committed.                      *)
THEOREM TypeCorrect == Spec => []TypeOK
<1> USE RowsAssumption, SizesAssumption
<1>1. Init => TypeOK
  BY DEF Init, TypeOK, PC
<1>2. TypeOK /\ [Next]_vars => TypeOK'
  <2> SUFFICES ASSUME TypeOK, [Next]_vars PROVE TypeOK'
    OBVIOUS
  <2> USE DEF TypeOK, PC, dbVars, brokerVars, batchVars, boundVars
  <2>1. vars' = vars => TypeOK'
    BY DEF vars
  <2>2. \A row \in Rows : WriteRow(row) => TypeOK'
    BY DEF WriteRow
  <2>3. \A row \in Rows : LateFrame(row) => TypeOK'
    BY DEF LateFrame
  <2>4. \A r \in Relays : Claim(r) => TypeOK'
    BY ClaimedIsDue DEF Claim, Due
  <2>5. \A r \in Relays, row \in Rows : PublishConfirmed(r, row) => TypeOK'
    BY DEF PublishConfirmed
  <2>6. \A r \in Relays, row \in Rows : PublishRefused(r, row) => TypeOK'
    BY DEF PublishRefused, RowFails, Current
  <2>7. \A r \in Relays, row \in Rows : ConfirmLost(r, row) => TypeOK'
    BY DEF ConfirmLost, RowFails, Current
  <2>8. \A r \in Relays, row \in Rows : PublishTimesOut(r, row) => TypeOK'
    BY DEF PublishTimesOut, RowFails, Current
  <2>9. \A r \in Relays, row \in Rows : MarkPublished(r, row) => TypeOK'
    BY DEF MarkPublished, Current
  <2>10. \A r \in Relays : BatchThrows(r) => TypeOK'
    BY DEF BatchThrows, ForgetBatch
  <2>11. \A r \in Relays : Commit(r) => TypeOK'
    BY DEF Commit
  <2>12. \A r \in Relays, row \in Rows : RecordFailure(r, row) => TypeOK'
    BY DEF RecordFailure
  <2>13. \A r \in Relays : LoseTransaction(r) => TypeOK'
    BY DEF LoseTransaction, Fault
  <2>14. \A r \in Relays : LoseCommitAck(r) => TypeOK'
    <3> SUFFICES ASSUME NEW r \in Relays, LoseCommitAck(r) PROVE TypeOK'
      OBVIOUS
    <3>1. published' \subseteq written'
      BY DEF LoseCommitAck
    <3>2. faults' \in 0..MaxFaults /\ stops' = stops
      BY DEF LoseCommitAck, Fault
    <3>3. QED
      BY <3>1, <3>2 DEF LoseCommitAck, ForgetBatch
  <2>15. \A r \in Relays : RecordThrows(r) => TypeOK'
    BY DEF RecordThrows, Fault, ForgetBatch
  <2>16. \A r \in Relays : Crash(r) => TypeOK'
    BY DEF Crash, Fault, ForgetBatch
  <2>17. \A r \in Relays : Stop(r) => TypeOK'
    BY DEF Stop
  <2>18. \A r \in Relays : Drained(r) => TypeOK'
    BY DEF Drained
  <2>19. \A r \in Relays : Start(r) => TypeOK'
    BY DEF Start
  <2> HIDE DEF TypeOK, PC, dbVars, brokerVars, batchVars, boundVars
  <2>20. QED
    BY <2>1, <2>2, <2>3, <2>4, <2>5, <2>6, <2>7, <2>8, <2>9, <2>10, <2>11,
       <2>12, <2>13, <2>14, <2>15, <2>16, <2>17, <2>18, <2>19 DEF Next, RelayStep, FaultStep
<1>3. QED
  BY <1>1, <1>2, PTL DEF Spec

(* Each phase of runOnce keeps only its part of the batch. *)
THEOREM PhasesAreClean == Spec => []PhasesClean
<1>1. Init => PhasesClean
  BY DEF Init, PhasesClean
<1>2. TypeOK /\ PhasesClean /\ [Next]_vars => PhasesClean'
  <2> SUFFICES ASSUME TypeOK, PhasesClean, [Next]_vars PROVE PhasesClean'
    OBVIOUS
  <2> USE DEF TypeOK, PC, PhasesClean, dbVars, brokerVars, batchVars, boundVars
  <2>1. vars' = vars => PhasesClean'
    BY DEF vars
  <2>2. \A row \in Rows : WriteRow(row) => PhasesClean'
    BY DEF WriteRow
  <2>3. \A row \in Rows : LateFrame(row) => PhasesClean'
    BY DEF LateFrame
  <2>4. \A r \in Relays : Claim(r) => PhasesClean'
    BY DEF Claim
  <2>5. \A r \in Relays, row \in Rows : PublishConfirmed(r, row) => PhasesClean'
    BY DEF PublishConfirmed
  <2>6. \A r \in Relays, row \in Rows : PublishRefused(r, row) => PhasesClean'
    BY DEF PublishRefused, RowFails
  <2>7. \A r \in Relays, row \in Rows : ConfirmLost(r, row) => PhasesClean'
    BY DEF ConfirmLost, RowFails
  <2>8. \A r \in Relays, row \in Rows : PublishTimesOut(r, row) => PhasesClean'
    BY DEF PublishTimesOut, RowFails
  <2>9. \A r \in Relays, row \in Rows : MarkPublished(r, row) => PhasesClean'
    BY DEF MarkPublished
  <2>10. \A r \in Relays : BatchThrows(r) => PhasesClean'
    BY DEF BatchThrows, ForgetBatch
  <2>11. \A r \in Relays : Commit(r) => PhasesClean'
    BY DEF Commit
  <2>12. \A r \in Relays, row \in Rows : RecordFailure(r, row) => PhasesClean'
    BY DEF RecordFailure
  <2>13. \A r \in Relays : LoseTransaction(r) => PhasesClean'
    BY DEF LoseTransaction, Fault
  <2>14. \A r \in Relays : LoseCommitAck(r) => PhasesClean'
    BY DEF LoseCommitAck, Fault, ForgetBatch
  <2>15. \A r \in Relays : RecordThrows(r) => PhasesClean'
    BY DEF RecordThrows, Fault, ForgetBatch
  <2>16. \A r \in Relays : Crash(r) => PhasesClean'
    BY DEF Crash, Fault, ForgetBatch
  <2>17. \A r \in Relays : Stop(r) => PhasesClean'
    BY DEF Stop
  <2>18. \A r \in Relays : Drained(r) => PhasesClean'
    BY DEF Drained
  <2>19. \A r \in Relays : Start(r) => PhasesClean'
    BY DEF Start
  <2>20. QED
    BY <2>1, <2>2, <2>3, <2>4, <2>5, <2>6, <2>7, <2>8, <2>9, <2>10, <2>11,
       <2>12, <2>13, <2>14, <2>15, <2>16, <2>17, <2>18, <2>19 DEF Next, RelayStep, FaultStep
<1>3. QED
  BY <1>1, <1>2, TypeCorrect, PTL DEF Spec

(* The invariant behind NothingLost: NoLostEvent is inductive only together *)
(* with what the relay knows of the row it is about to mark.                *)
LEMMA MarksFollowConfirms == Spec => [](ConfirmedIsAccepted /\ NoLostEvent)
<1> DEFINE J == ConfirmedIsAccepted /\ NoLostEvent
<1> USE RowsAssumption
<1>1. Init => J
  BY DEF Init, ConfirmedIsAccepted, NoLostEvent
<1>2. TypeOK /\ PhasesClean /\ J /\ [Next]_vars => J'
  <2> SUFFICES ASSUME TypeOK, PhasesClean, J, [Next]_vars PROVE J'
    OBVIOUS
  <2> USE DEF TypeOK, PC, ConfirmedIsAccepted, NoLostEvent, Current, dbVars, brokerVars, batchVars, boundVars
  <2>1. vars' = vars => J'
    BY DEF vars
  <2>2. \A row \in Rows : WriteRow(row) => J'
    BY DEF WriteRow
  <2>3. \A row \in Rows : LateFrame(row) => J'
    BY DEF LateFrame
  <2>4. \A r \in Relays : Claim(r) => J'
    BY DEF Claim
  <2>5. \A r \in Relays, row \in Rows : PublishConfirmed(r, row) => J'
    BY DEF PublishConfirmed
  <2>6. \A r \in Relays, row \in Rows : PublishRefused(r, row) => J'
    BY DEF PublishRefused, RowFails
  <2>7. \A r \in Relays, row \in Rows : ConfirmLost(r, row) => J'
    BY DEF ConfirmLost, RowFails
  <2>8. \A r \in Relays, row \in Rows : PublishTimesOut(r, row) => J'
    BY DEF PublishTimesOut, RowFails
  <2>9. \A r \in Relays, row \in Rows : MarkPublished(r, row) => J'
    BY DEF MarkPublished
  <2>10. \A r \in Relays : BatchThrows(r) => J'
    BY DEF BatchThrows, ForgetBatch
  <2>11. \A r \in Relays : Commit(r) => J'
    BY DEF Commit
  <2>12. \A r \in Relays, row \in Rows : RecordFailure(r, row) => J'
    BY DEF RecordFailure
  <2>13. \A r \in Relays : LoseTransaction(r) => J'
    BY DEF LoseTransaction, Fault
  <2>14. \A r \in Relays : LoseCommitAck(r) => J'
    BY DEF LoseCommitAck, Fault, ForgetBatch
  <2>15. \A r \in Relays : RecordThrows(r) => J'
    BY DEF RecordThrows, Fault, ForgetBatch
  <2>16. \A r \in Relays : Crash(r) => J'
    BY DEF Crash, Fault, ForgetBatch
  <2>17. \A r \in Relays : Stop(r) => J'
    <3> SUFFICES ASSUME NEW r \in Relays, Stop(r) PROVE J'
      OBVIOUS
    <3>1. UNCHANGED <<pc, todo, marked, accepted, published>>
      BY DEF Stop
    <3>2. QED
      BY <3>1
  <2>18. \A r \in Relays : Drained(r) => J'
    BY DEF Drained
  <2>19. \A r \in Relays : Start(r) => J'
    BY DEF Start
  <2>20. QED
    BY <2>1, <2>2, <2>3, <2>4, <2>5, <2>6, <2>7, <2>8, <2>9, <2>10, <2>11,
       <2>12, <2>13, <2>14, <2>15, <2>16, <2>17, <2>18, <2>19 DEF Next, RelayStep, FaultStep
<1>3. QED
  BY <1>1, <1>2, TypeCorrect, PhasesAreClean, PTL DEF Spec

(* "Publish first, then mark": the event of a row marked or published is    *)
(* one the broker has, whatever fails in between.                           *)
THEOREM NothingLost == Spec => []NoLostEvent
BY MarksFollowConfirms, PTL

(* The relays that may still add to a row's attempts are finitely many. *)
LEMMA EngagedFinite ==
  ASSUME NEW row
  PROVE  /\ IsFiniteSet(Engaged(row)) /\ Cardinality(Engaged(row)) \in Nat
         /\ Cardinality(Engaged(row)) <= Cardinality(Relays)
         /\ Cardinality(Relays) \in Nat
<1>1. Engaged(row) \subseteq Relays
  BY DEF Engaged
<1>2. QED
  BY <1>1, RelaysAssumption, FS_Subset, FS_CardinalityType

(* The invariant behind AttemptsAreBounded: what a row's attempts are and   *)
(* what the relays engaged with it may still add.                           *)
LEMMA BudgetKept == Spec => []AttemptBudget
<1>1. Init => AttemptBudget
  <2> SUFFICES ASSUME Init, NEW row \in Rows
               PROVE  attempts[row] + Cardinality(Engaged(row))
                        <= MaxAttempts - 1 + Cardinality(Relays)
    BY DEF AttemptBudget
  <2>1. attempts[row] = 0 /\ Engaged(row) = {}
    BY DEF Init, Engaged
  <2>2. QED
    BY <2>1, EngagedFinite, FS_EmptySet, SizesAssumption
<1>2. TypeOK /\ TypeOK' /\ PhasesClean /\ AttemptBudget /\ [Next]_vars => AttemptBudget'
  <2> SUFFICES ASSUME TypeOK, TypeOK', PhasesClean, AttemptBudget, [Next]_vars
               PROVE  AttemptBudget'
    OBVIOUS
  <2> DEFINE Shrinks ==
        /\ attempts' = attempts
        /\ \A row \in Rows, r \in Relays :
             row \in todo'[r] \union failed'[r] => row \in todo[r] \union failed[r]
  <2> USE DEF TypeOK, PC, Current, dbVars, brokerVars, batchVars, boundVars
  <2>1. vars' = vars => Shrinks
    BY DEF vars
  <2>2. \A row \in Rows : WriteRow(row) => Shrinks
    BY DEF WriteRow
  <2>3. \A row \in Rows : LateFrame(row) => Shrinks
    BY DEF LateFrame
  <2>4. \A r \in Relays, row \in Rows : PublishConfirmed(r, row) => Shrinks
    BY DEF PublishConfirmed
  <2>5. \A r \in Relays, row \in Rows : PublishRefused(r, row) => Shrinks
    BY DEF PublishRefused, RowFails
  <2>6. \A r \in Relays, row \in Rows : ConfirmLost(r, row) => Shrinks
    BY DEF ConfirmLost, RowFails
  <2>7. \A r \in Relays, row \in Rows : PublishTimesOut(r, row) => Shrinks
    BY DEF PublishTimesOut, RowFails
  <2>8. \A r \in Relays, row \in Rows : MarkPublished(r, row) => Shrinks
    BY DEF MarkPublished
  <2>9. \A r \in Relays : BatchThrows(r) => Shrinks
    BY DEF BatchThrows, ForgetBatch
  <2>10. \A r \in Relays : Commit(r) => Shrinks
    BY DEF Commit
  <2>11. \A r \in Relays : LoseTransaction(r) => Shrinks
    BY DEF LoseTransaction, Fault
  <2>12. \A r \in Relays : LoseCommitAck(r) => Shrinks
    BY DEF LoseCommitAck, Fault, ForgetBatch
  <2>13. \A r \in Relays : RecordThrows(r) => Shrinks
    BY DEF RecordThrows, Fault, ForgetBatch
  <2>14. \A r \in Relays : Crash(r) => Shrinks
    BY DEF Crash, Fault, ForgetBatch
  <2>15. \A r \in Relays : Stop(r) => Shrinks
    BY DEF Stop
  <2>16. \A r \in Relays : Drained(r) => Shrinks
    BY DEF Drained
  <2>17. \A r \in Relays : Start(r) => Shrinks
    BY DEF Start
  <2> HIDE DEF TypeOK, PC, Current, dbVars, brokerVars, batchVars, boundVars
  <2>18. Shrinks => AttemptBudget'
    <3> SUFFICES ASSUME Shrinks, NEW row \in Rows
                 PROVE  (attempts[row] + Cardinality(Engaged(row))
                           <= MaxAttempts - 1 + Cardinality(Relays))'
      BY DEF AttemptBudget
    <3>1. Engaged(row)' \subseteq Engaged(row)
      BY DEF Engaged
    <3>2. Cardinality(Engaged(row)') <= Cardinality(Engaged(row))
      BY <3>1, EngagedFinite, FS_Subset
    <3>3. Cardinality(Engaged(row)') \in Nat
      BY <3>1, EngagedFinite, FS_Subset, FS_CardinalityType
    <3>4. attempts[row] + Cardinality(Engaged(row)) <= MaxAttempts - 1 + Cardinality(Relays)
      BY DEF AttemptBudget
    <3>5. attempts'[row] = attempts[row] /\ attempts[row] \in Nat
      BY DEF TypeOK
    <3>6. QED
      BY <3>2, <3>3, <3>4, <3>5, EngagedFinite, SizesAssumption
  <2>19. ASSUME NEW r \in Relays, Claim(r) PROVE AttemptBudget'
    <3> SUFFICES ASSUME NEW row \in Rows
                 PROVE  (attempts[row] + Cardinality(Engaged(row))
                           <= MaxAttempts - 1 + Cardinality(Relays))'
      BY DEF AttemptBudget
    <3>1. /\ attempts' = attempts /\ attempts[row] \in Nat
          /\ failed' = failed /\ todo[r] = {}
          /\ todo' = [todo EXCEPT ![r] = FirstOf(Claimable, BatchSize)]
      BY <2>19 DEF Claim, TypeOK, PhasesClean, dbVars
    <3>2. CASE row \in FirstOf(Claimable, BatchSize)
      <4>1. attempts[row] < MaxAttempts
        BY <3>2, ClaimedIsDue DEF Due
      <4>2. Engaged(row)' \subseteq Relays
        BY DEF Engaged
      <4>3. /\ Cardinality(Engaged(row)') \in Nat
            /\ Cardinality(Engaged(row)') <= Cardinality(Relays)
        BY <4>2, RelaysAssumption, FS_Subset, FS_CardinalityType
      <4>4. attempts'[row] \in Nat /\ attempts'[row] <= MaxAttempts - 1
        BY <3>1, <4>1, SizesAssumption
      <4>5. Cardinality(Relays) \in Nat
        BY EngagedFinite
      <4>6. QED
        BY <4>3, <4>4, <4>5, SizesAssumption
    <3>3. CASE row \notin FirstOf(Claimable, BatchSize)
      <4>1. Engaged(row)' = Engaged(row)
        BY <3>1, <3>3 DEF Engaged, TypeOK
      <4>2. QED
        BY <3>1, <4>1 DEF AttemptBudget
    <3>4. QED
      BY <3>2, <3>3
  <2>20. ASSUME NEW r \in Relays, NEW now \in Rows, RecordFailure(r, now)
        PROVE  AttemptBudget'
    <3> SUFFICES ASSUME NEW row \in Rows
                 PROVE  (attempts[row] + Cardinality(Engaged(row))
                           <= MaxAttempts - 1 + Cardinality(Relays))'
      BY DEF AttemptBudget
    <3>1. /\ attempts' = [attempts EXCEPT ![now] = @ + 1]
          /\ attempts[row] \in Nat
          /\ failed' = [failed EXCEPT ![r] = @ \ {now}]
          /\ todo' = todo /\ todo[r] = {} /\ now \in failed[r]
      BY <2>20 DEF RecordFailure, TypeOK, PhasesClean
    <3>2. attempts[row] + Cardinality(Engaged(row)) <= MaxAttempts - 1 + Cardinality(Relays)
      BY DEF AttemptBudget
    <3>3. CASE row = now
      <4>1. r \in Engaged(row) /\ Engaged(row)' = Engaged(row) \ {r}
        BY <3>1, <3>3 DEF Engaged, TypeOK
      <4>2. Cardinality(Engaged(row)') = Cardinality(Engaged(row)) - 1
        BY <4>1, EngagedFinite, FS_RemoveElement
      <4>3. attempts'[row] = attempts[row] + 1
        BY <3>1, <3>3 DEF TypeOK
      <4>4. QED
        BY <3>1, <3>2, <4>2, <4>3, EngagedFinite, SizesAssumption
    <3>4. CASE row # now
      <4>1. Engaged(row)' = Engaged(row)
        BY <3>1, <3>4 DEF Engaged, TypeOK
      <4>2. attempts'[row] = attempts[row]
        BY <3>1, <3>4 DEF TypeOK
      <4>3. QED
        BY <3>2, <4>1, <4>2
    <3>5. QED
      BY <3>3, <3>4
  <2>21. QED
    <3> HIDE DEF Shrinks
    <3>1. QED
      BY <2>1, <2>2, <2>3, <2>4, <2>5, <2>6, <2>7, <2>8, <2>9, <2>10,
         <2>11, <2>12, <2>13, <2>14, <2>15, <2>16, <2>17, <2>18, <2>19, <2>20
      DEF Next, RelayStep, FaultStep
<1>3. QED
  BY <1>1, <1>2, TypeCorrect, PhasesAreClean, PTL DEF Spec

(* A row's attempts pass MaxAttempts - 1 by at most one per relay, although *)
(* a failure is recorded after the row's lock is gone.                      *)
THEOREM AttemptsAreBounded == Spec => []AttemptsBounded
<1>1. TypeOK /\ AttemptBudget => AttemptsBounded
  <2> SUFFICES ASSUME TypeOK, AttemptBudget, NEW row \in Rows
               PROVE  attempts[row] <= MaxAttempts - 1 + Cardinality(Relays)
    BY DEF AttemptsBounded
  <2>1. attempts[row] + Cardinality(Engaged(row)) <= MaxAttempts - 1 + Cardinality(Relays)
    BY DEF AttemptBudget
  <2>2. attempts[row] \in Nat
    BY DEF TypeOK
  <2>3. QED
    BY <2>1, <2>2, EngagedFinite, SizesAssumption
<1>2. QED
  BY <1>1, TypeCorrect, BudgetKept, PTL

(* Nothing travels to the broker that no committed transaction caused. *)
LEMMA OnlyWrittenTravelsHolds == Spec => []OnlyWrittenTravels
<1>1. Init => OnlyWrittenTravels
  BY DEF Init, OnlyWrittenTravels
<1>2. TypeOK /\ OnlyWrittenTravels /\ [Next]_vars => OnlyWrittenTravels'
  <2> SUFFICES ASSUME TypeOK, OnlyWrittenTravels, [Next]_vars PROVE OnlyWrittenTravels'
    OBVIOUS
  <2> USE DEF TypeOK, Current, OnlyWrittenTravels, dbVars, brokerVars, batchVars, boundVars
  <2>1. vars' = vars => OnlyWrittenTravels'
    BY DEF vars
  <2>2. \A row \in Rows : WriteRow(row) => OnlyWrittenTravels'
    BY DEF WriteRow
  <2>3. \A row \in Rows : LateFrame(row) => OnlyWrittenTravels'
    BY DEF LateFrame
  <2>4. \A r \in Relays : Claim(r) => OnlyWrittenTravels'
    BY DEF Claim
  <2>5. \A r \in Relays, row \in Rows : PublishConfirmed(r, row) => OnlyWrittenTravels'
    BY DEF PublishConfirmed
  <2>6. \A r \in Relays, row \in Rows : PublishRefused(r, row) => OnlyWrittenTravels'
    BY DEF PublishRefused, RowFails
  <2>7. \A r \in Relays, row \in Rows : ConfirmLost(r, row) => OnlyWrittenTravels'
    BY DEF ConfirmLost, RowFails
  <2>8. \A r \in Relays, row \in Rows : PublishTimesOut(r, row) => OnlyWrittenTravels'
    BY DEF PublishTimesOut, RowFails
  <2>9. \A r \in Relays, row \in Rows : MarkPublished(r, row) => OnlyWrittenTravels'
    BY DEF MarkPublished
  <2>10. \A r \in Relays : BatchThrows(r) => OnlyWrittenTravels'
    BY DEF BatchThrows, ForgetBatch
  <2>11. \A r \in Relays : Commit(r) => OnlyWrittenTravels'
    BY DEF Commit
  <2>12. \A r \in Relays, row \in Rows : RecordFailure(r, row) => OnlyWrittenTravels'
    BY DEF RecordFailure
  <2>13. \A r \in Relays : LoseTransaction(r) => OnlyWrittenTravels'
    BY DEF LoseTransaction, Fault
  <2>14. \A r \in Relays : LoseCommitAck(r) => OnlyWrittenTravels'
    BY DEF LoseCommitAck, Fault, ForgetBatch
  <2>15. \A r \in Relays : RecordThrows(r) => OnlyWrittenTravels'
    BY DEF RecordThrows, Fault, ForgetBatch
  <2>16. \A r \in Relays : Crash(r) => OnlyWrittenTravels'
    BY DEF Crash, Fault, ForgetBatch
  <2>17. \A r \in Relays : Stop(r) => OnlyWrittenTravels'
    BY DEF Stop
  <2>18. \A r \in Relays : Drained(r) => OnlyWrittenTravels'
    BY DEF Drained
  <2>19. \A r \in Relays : Start(r) => OnlyWrittenTravels'
    BY DEF Start
  <2>20. QED
    BY <2>1, <2>2, <2>3, <2>4, <2>5, <2>6, <2>7, <2>8, <2>9, <2>10, <2>11,
       <2>12, <2>13, <2>14, <2>15, <2>16, <2>17, <2>18, <2>19 DEF Next, RelayStep, FaultStep
<1>3. QED
  BY <1>1, <1>2, TypeCorrect, PTL DEF Spec

(* One more copy of an event makes it delivered and changes no other. *)
LEMMA OneMoreCopy ==
  ASSUME TypeOK, NEW row \in Rows, accepted' = [accepted EXCEPT ![row] = @ + 1]
  PROVE  {q \in Rows : accepted'[q] > 0} = {q \in Rows : accepted[q] > 0} \union {row}
BY DEF TypeOK

(* The relays, their faults included, implement the abstract outbox: every  *)
(* step writes, delivers, settles delivered events, gives up, or stutters.  *)
THEOREM RelaysImplementOutbox == Spec => ImplementsOutbox
<1>1. Init => Outbox!Init
  BY SizesAssumption DEF Init, Outbox!Init
<1>2. /\ TypeOK /\ NoLostEvent /\ OnlyWrittenTravels
      /\ [Next]_vars
      => [Outbox!Next]_(Outbox!vars)
  <2> DEFINE Refined == [Outbox!Next]_(Outbox!vars)
  <2> SUFFICES ASSUME TypeOK, NoLostEvent, OnlyWrittenTravels, [Next]_vars PROVE Refined
    OBVIOUS
  <2> USE DEF TypeOK, dbVars, brokerVars, batchVars, boundVars
  <2>1. vars' = vars => Refined
    BY DEF vars, Outbox!vars
  <2>2. \A row \in Rows : WriteRow(row) => Refined
    BY DEF WriteRow, Outbox!Next, Outbox!Write
  <2>3. \A row \in Rows : LateFrame(row) => Refined
    <3> SUFFICES ASSUME NEW row \in Rows, LateFrame(row) PROVE Refined
      OBVIOUS
    <3>1. row \in written /\ UNCHANGED <<written, published, attempts>>
      BY DEF LateFrame, OnlyWrittenTravels
    <3>2. CASE accepted' = [accepted EXCEPT ![row] = @ + 1]
      BY <3>1, <3>2, OneMoreCopy DEF Outbox!Next, Outbox!Deliver
    <3>3. CASE UNCHANGED accepted
      BY <3>1, <3>3 DEF Outbox!vars
    <3>4. QED
      BY <3>2, <3>3 DEF LateFrame
  <2>4. \A r \in Relays : Claim(r) => Refined
    BY DEF Outbox!vars, Claim
  <2>5. \A r \in Relays, row \in Rows : PublishConfirmed(r, row) => Refined
    <3> SUFFICES ASSUME NEW r \in Relays, NEW row \in Rows, PublishConfirmed(r, row) PROVE Refined
      OBVIOUS
    <3>1. /\ row \in written /\ UNCHANGED <<written, published, attempts>>
          /\ accepted' = [accepted EXCEPT ![row] = @ + 1]
      BY DEF PublishConfirmed, Current
    <3>2. QED
      BY <3>1, OneMoreCopy DEF Outbox!Next, Outbox!Deliver
  <2>6. \A r \in Relays, row \in Rows : PublishRefused(r, row) => Refined
    BY DEF Outbox!vars, PublishRefused, RowFails
  <2>7. \A r \in Relays, row \in Rows : ConfirmLost(r, row) => Refined
    <3> SUFFICES ASSUME NEW r \in Relays, NEW row \in Rows, ConfirmLost(r, row) PROVE Refined
      OBVIOUS
    <3>1. /\ row \in written /\ UNCHANGED <<written, published, attempts>>
          /\ accepted' = [accepted EXCEPT ![row] = @ + 1]
      BY DEF ConfirmLost, RowFails, Current
    <3>2. QED
      BY <3>1, OneMoreCopy DEF Outbox!Next, Outbox!Deliver
  <2>8. \A r \in Relays, row \in Rows : PublishTimesOut(r, row) => Refined
    BY DEF Outbox!vars, PublishTimesOut, RowFails
  <2>9. \A r \in Relays, row \in Rows : MarkPublished(r, row) => Refined
    BY DEF Outbox!vars, MarkPublished
  <2>10. \A r \in Relays : BatchThrows(r) => Refined
    BY DEF Outbox!vars, BatchThrows, ForgetBatch
  <2>11. \A r \in Relays : Commit(r) => Refined
    <3> SUFFICES ASSUME NEW r \in Relays, Commit(r) PROVE Refined
      OBVIOUS
    <3>1. /\ published' = published \union marked[r]
          /\ UNCHANGED <<written, accepted, attempts>>
      BY DEF Commit
    <3>2. marked[r] \subseteq {row \in Rows : accepted[row] > 0}
      BY DEF NoLostEvent
    <3>3. Outbox!Settle(marked[r])
      BY <3>1, <3>2 DEF Outbox!Settle
    <3>4. QED
      BY <3>2, <3>3 DEF Outbox!Next
  <2>12. \A r \in Relays, row \in Rows : RecordFailure(r, row) => Refined
    <3> SUFFICES ASSUME NEW r \in Relays, NEW row \in Rows, RecordFailure(r, row) PROVE Refined
      OBVIOUS
    <3>1. /\ row \in written /\ UNCHANGED <<written, published, accepted>>
          /\ attempts' = [attempts EXCEPT ![row] = @ + 1]
      BY DEF RecordFailure
    <3>2. CASE attempts[row] + 1 >= MaxAttempts
      <4>1. {q \in Rows : attempts'[q] >= MaxAttempts}
              = {q \in Rows : attempts[q] >= MaxAttempts} \union {row}
        BY <3>1, <3>2
      <4>2. Outbox!GiveUp(row)
        BY <3>1, <4>1 DEF Outbox!GiveUp
      <4>3. QED
        BY <4>2 DEF Outbox!Next
    <3>3. CASE attempts[row] + 1 < MaxAttempts
      <4>1. {q \in Rows : attempts'[q] >= MaxAttempts}
              = {q \in Rows : attempts[q] >= MaxAttempts}
        BY <3>1, <3>3, SizesAssumption
      <4>2. QED
        BY <3>1, <4>1 DEF Outbox!vars
    <3>4. QED
      BY <3>2, <3>3, SizesAssumption
  <2>13. \A r \in Relays : LoseTransaction(r) => Refined
    BY DEF Outbox!vars, LoseTransaction, Fault
  <2>14. \A r \in Relays : LoseCommitAck(r) => Refined
    <3> SUFFICES ASSUME NEW r \in Relays, LoseCommitAck(r) PROVE Refined
      OBVIOUS
    <3>1. /\ published' = published \union marked[r]
          /\ UNCHANGED <<written, accepted, attempts>>
      BY DEF LoseCommitAck
    <3>2. marked[r] \subseteq {row \in Rows : accepted[row] > 0}
      BY DEF NoLostEvent
    <3>3. Outbox!Settle(marked[r])
      BY <3>1, <3>2 DEF Outbox!Settle
    <3>4. QED
      BY <3>2, <3>3 DEF Outbox!Next
  <2>15. \A r \in Relays : RecordThrows(r) => Refined
    BY DEF Outbox!vars, RecordThrows, Fault, ForgetBatch
  <2>16. \A r \in Relays : Crash(r) => Refined
    BY DEF Outbox!vars, Crash, Fault, ForgetBatch
  <2>17. \A r \in Relays : Stop(r) => Refined
    BY DEF Outbox!vars, Stop
  <2>18. \A r \in Relays : Drained(r) => Refined
    BY DEF Outbox!vars, Drained
  <2>19. \A r \in Relays : Start(r) => Refined
    BY DEF Outbox!vars, Start
  <2>20. QED
    BY <2>1, <2>2, <2>3, <2>4, <2>5, <2>6, <2>7, <2>8, <2>9, <2>10, <2>11,
       <2>12, <2>13, <2>14, <2>15, <2>16, <2>17, <2>18, <2>19 DEF Next, RelayStep, FaultStep
<1>3. QED
  BY <1>1, <1>2, TypeCorrect, NothingLost, OnlyWrittenTravelsHolds, PTL
  DEF Spec, ImplementsOutbox, Outbox!Spec
-----------------------------------------------------------------------------
(* How copies are accounted for, and why an event overtakes an earlier one. *)

(* The database keeps a relay's transaction open while its loop runs,       *)
(* unless a fault ended it.                                                 *)
OpenUnlessFaulty ==
  faults = 0 => \A r \in Relays : pc[r] \in {"publishing", "marking"} => txOpen[r]

(* A row some relay may be sending, or has sent, and what holds an earlier  *)
(* row of the same review back.                                             *)
Sent(row) == accepted[row] > 0 \/ wire[row] > 0 \/ \E r \in Relays : row \in todo[r]
HeldBack(row) ==
  \/ accepted[row] > 0 \/ attempts[row] > 0
  \/ \E r \in Relays : row \in todo[r] \union failed[r]

SentInOrder ==
  faults = 0 =>
    \A row, next \in Rows :
      AggregateOf[row] = AggregateOf[next] /\ row < next /\ row \in written /\ Sent(next)
        => HeldBack(row)

(* A row that was confirmed in a batch that may still commit, or has.       *)
Confirmed(r, row) == txOpen[r] /\ (row \in marked[r] \/ (pc[r] = "marking" /\ Current(r, row)))
Succeeded(row) == row \in published \/ \E r \in Relays : Confirmed(r, row)

(* The relays whose failure for a row is sure to be recorded unless another *)
(* fault comes, and the ones about to publish it for a transaction they do  *)
(* not know to be gone.                                                     *)
Recording(row) == {r \in Relays : row \in failed[r] /\ (txOpen[r] \/ pc[r] = "recording")}
Unaware(row) ==
  {r \in Relays : /\ row \in todo[r] /\ ~txOpen[r]
                  /\ ~(pc[r] = "marking" /\ Current(r, row))}

Balanced(row) ==
  accepted[row] + wire[row] + Cardinality(Unaware(row))
    <= attempts[row] + Cardinality(Recording(row)) + faults + (IF Succeeded(row) THEN 1 ELSE 0)

CopyBudget == \A row \in Rows : Balanced(row)

(* Without faults a running batch has its transaction. *)
LEMMA OpenHolds == Spec => []OpenUnlessFaulty
<1>1. Init => OpenUnlessFaulty
  BY DEF Init, OpenUnlessFaulty
<1>2. TypeOK /\ OpenUnlessFaulty /\ [Next]_vars => OpenUnlessFaulty'
  <2> SUFFICES ASSUME TypeOK, OpenUnlessFaulty, [Next]_vars PROVE OpenUnlessFaulty'
    OBVIOUS
  <2> USE DEF TypeOK, OpenUnlessFaulty, dbVars, brokerVars, batchVars, boundVars
  <2>1. vars' = vars => OpenUnlessFaulty'
    BY DEF vars
  <2>2. \A row \in Rows : WriteRow(row) \/ LateFrame(row) => OpenUnlessFaulty'
    BY DEF WriteRow, LateFrame
  <2>3. \A r \in Relays : Claim(r) => OpenUnlessFaulty'
    BY DEF Claim
  <2>4. \A r \in Relays, row \in Rows : PublishConfirmed(r, row) => OpenUnlessFaulty'
    BY DEF PublishConfirmed
  <2>5. \A r \in Relays, row \in Rows :
          PublishRefused(r, row) \/ ConfirmLost(r, row) \/ PublishTimesOut(r, row) => OpenUnlessFaulty'
    BY DEF PublishRefused, ConfirmLost, PublishTimesOut, RowFails
  <2>6. \A r \in Relays, row \in Rows : MarkPublished(r, row) => OpenUnlessFaulty'
    BY DEF MarkPublished
  <2>7. \A r \in Relays : BatchThrows(r) => OpenUnlessFaulty'
    BY DEF BatchThrows, ForgetBatch
  <2>8. \A r \in Relays : Commit(r) => OpenUnlessFaulty'
    BY DEF Commit
  <2>9. \A r \in Relays, row \in Rows : RecordFailure(r, row) => OpenUnlessFaulty'
    BY DEF RecordFailure
  <2>10. \A r \in Relays :
           LoseTransaction(r) \/ LoseCommitAck(r) \/ RecordThrows(r) \/ Crash(r) => OpenUnlessFaulty'
    BY SizesAssumption DEF LoseTransaction, LoseCommitAck, RecordThrows, Crash, Fault
  <2>11. \A r \in Relays : Stop(r) \/ Drained(r) \/ Start(r) => OpenUnlessFaulty'
    BY DEF Stop, Drained, Start
  <2> HIDE DEF TypeOK, OpenUnlessFaulty, dbVars, brokerVars, batchVars, boundVars
  <2> QED
    BY <2>1, <2>2, <2>3, <2>4, <2>5, <2>6, <2>7, <2>8, <2>9, <2>10, <2>11
    DEF Next, RelayStep, FaultStep
<1> QED
  BY <1>1, <1>2, TypeCorrect, PTL DEF Spec

(* A batch with a row in it has every claimable row before it. *)
LEMMA EarlierIsClaimedFirst ==
  ASSUME NEW due, due \subseteq Rows, NEW limit \in Nat,
         NEW first \in due, NEW next \in FirstOf(due, limit), first < next
  PROVE  first \in FirstOf(due, limit)
<1> DEFINE Before(row) == {q \in due : q < row}
           few == Before(first)
           more == Before(next)
<1>1. \A q \in due : q \in Nat /\ q \in Int
  BY RowsAssumption
<1>2. next \in due /\ Cardinality(more) < limit
  BY DEF FirstOf
<1>3. /\ \A q : q \in more <=> q \in due /\ q < next
      /\ \A q : q \in few <=> q \in due /\ q < first
  OBVIOUS
<1>4. (FirstOf(due, limit) = {row \in due : Cardinality(Before(row)) < limit}) /\ next \in Int
  BY <1>1, <1>2 DEF FirstOf
<1> HIDE DEF few, more
<1>5. \A q \in more : q \in 0..next
  BY <1>1, <1>2, <1>3
<1>6. IsFiniteSet(0..next)
  BY <1>1, <1>2, FS_Interval
<1>7. IsFiniteSet(more)
  BY <1>5, <1>6, FS_Subset
<1>8. \A q \in few : q \in more
  BY <1>1, <1>2, <1>3
<1>9. /\ Cardinality(few) <= Cardinality(more)
      /\ Cardinality(few) \in Nat /\ Cardinality(more) \in Nat
  BY <1>7, <1>8, FS_Subset, FS_CardinalityType
<1>10. Cardinality(few) < limit
  BY <1>2, <1>9
<1> QED
  BY <1>4, <1>10 DEF few

(* Only a claim can make a row Sent, and it takes every earlier due row too; *)
(* an event is never written before one of its review with a smaller id.    *)
LEMMA OrderHolds == Spec => []SentInOrder
<1>1. Init => SentInOrder
  BY DEF Init, SentInOrder, Sent
<1>2. /\ TypeOK /\ PhasesClean /\ ConfirmedIsAccepted /\ NoLostEvent /\ OnlyWrittenTravels
      /\ OpenUnlessFaulty /\ SentInOrder /\ [Next]_vars
      => SentInOrder'
  <2> SUFFICES ASSUME TypeOK, PhasesClean, ConfirmedIsAccepted, NoLostEvent, OnlyWrittenTravels,
                      OpenUnlessFaulty, SentInOrder, [Next]_vars
               PROVE  SentInOrder'
    OBVIOUS
  <2> DEFINE Keeps ==
        faults' = 0 =>
          /\ faults = 0 /\ written' = written
          /\ \A row \in Rows : (Sent(row)' => Sent(row)) /\ (HeldBack(row) => HeldBack(row)')
  <2> USE DEF TypeOK, Sent, HeldBack, Current, dbVars, brokerVars, batchVars, boundVars
  <2>1. vars' = vars => Keeps
    BY DEF vars
  <2>2. \A row \in Rows : LateFrame(row) => Keeps
    BY DEF LateFrame
  <2>3. \A r \in Relays, row \in Rows : PublishConfirmed(r, row) => Keeps
    BY DEF PublishConfirmed
  <2>4. \A r \in Relays, row \in Rows : PublishRefused(r, row) => Keeps
    BY DEF PublishRefused, RowFails
  <2>5. \A r \in Relays, row \in Rows : ConfirmLost(r, row) => Keeps
    BY DEF ConfirmLost, RowFails
  <2>6. \A r \in Relays, row \in Rows : PublishTimesOut(r, row) => Keeps
    BY DEF PublishTimesOut, RowFails
  <2>7. \A r \in Relays, row \in Rows : MarkPublished(r, row) => Keeps
    BY DEF MarkPublished, ConfirmedIsAccepted
  <2>8. \A r \in Relays : BatchThrows(r) => Keeps
    BY DEF BatchThrows, OpenUnlessFaulty
  <2>9. \A r \in Relays : Commit(r) => Keeps
    BY DEF Commit
  <2>10. \A r \in Relays, row \in Rows : RecordFailure(r, row) => Keeps
    BY DEF RecordFailure
  <2>11. \A r \in Relays :
           LoseTransaction(r) \/ LoseCommitAck(r) \/ RecordThrows(r) \/ Crash(r) => Keeps
    BY SizesAssumption DEF LoseTransaction, LoseCommitAck, RecordThrows, Crash, Fault
  <2>12. \A r \in Relays : Stop(r) \/ Drained(r) \/ Start(r) => Keeps
    BY DEF Stop, Drained, Start
  <2> HIDE DEF TypeOK, Sent, HeldBack, Current, dbVars, brokerVars, batchVars, boundVars
  <2>13. Keeps => SentInOrder'
    BY DEF SentInOrder
  <2>14. ASSUME NEW now \in Rows, WriteRow(now) PROVE SentInOrder'
    <3> SUFFICES ASSUME faults = 0, NEW row \in Rows, NEW next \in Rows,
                        AggregateOf[row] = AggregateOf[next], row < next,
                        row \in written', Sent(next)'
                 PROVE  HeldBack(row)'
      BY <2>14 DEF SentInOrder, WriteRow, boundVars
    <3>1. /\ written' = written \union {now}
          /\ \A q \in written : AggregateOf[q] = AggregateOf[now] => q < now
          /\ UNCHANGED <<attempts, accepted, wire, todo, failed>>
      BY <2>14 DEF WriteRow, brokerVars, batchVars
    <3>2. Sent(next)
      BY <3>1 DEF Sent
    <3>3. next \in written
      BY <3>2 DEF Sent, OnlyWrittenTravels, TypeOK
    <3>4. row \in written
      <4>1. row \in Nat /\ next \in Nat
        BY RowsAssumption
      <4> QED
        BY <3>1, <3>3, <4>1
    <3> QED
      BY <3>1, <3>2, <3>4 DEF SentInOrder, HeldBack
  <2>15. ASSUME NEW r \in Relays, Claim(r) PROVE SentInOrder'
    <3> SUFFICES ASSUME faults = 0, NEW row \in Rows, NEW next \in Rows,
                        AggregateOf[row] = AggregateOf[next], row < next,
                        row \in written, Sent(next)'
                 PROVE  HeldBack(row)'
      BY <2>15 DEF SentInOrder, Claim, boundVars, dbVars
    <3>1. /\ UNCHANGED <<attempts, accepted, wire, failed>> /\ todo[r] = {}
          /\ todo' = [todo EXCEPT ![r] = FirstOf(Claimable, BatchSize)]
      BY <2>15 DEF Claim, PhasesClean, dbVars, brokerVars
    <3>2. /\ todo'[r] = FirstOf(Claimable, BatchSize)
          /\ \A q \in Relays : q # r => todo'[q] = todo[q]
      BY <3>1 DEF TypeOK
    <3>3. CASE Sent(next)
      <4>1. HeldBack(row)
        BY <3>3 DEF SentInOrder
      <4> QED
        BY <3>1, <3>2, <4>1 DEF HeldBack
    <3>4. CASE ~Sent(next)
      <4>1. next \in FirstOf(Claimable, BatchSize)
        BY <3>1, <3>2, <3>4 DEF Sent
      <4>2. CASE row \in Claimable
        <5>1. Claimable \subseteq Rows /\ BatchSize \in Nat
          BY SizesAssumption DEF Claimable, Due, TypeOK
        <5>2. row \in todo'[r]
          BY <3>2, <4>1, <4>2, <5>1, EarlierIsClaimedFirst
        <5> QED
          BY <5>2 DEF HeldBack
      <4>3. CASE row \in published
        BY <3>1, <4>3 DEF NoLostEvent, HeldBack
      <4>4. CASE row \notin published /\ row \notin Due
        <5>1. attempts[row] > 0
          BY <4>4, SizesAssumption DEF Due, TypeOK
        <5> QED
          BY <3>1, <5>1 DEF HeldBack
      <4>5. CASE row \in Due /\ row \notin Claimable
        <5>1. PICK other \in Relays : row \in Locked(other)
          BY <4>5 DEF Claimable
        <5>2. row \in todo[other] \union marked[other] \union failed[other]
          BY <5>1 DEF Locked
        <5>3. other # r
          BY <2>15, <5>1 DEF Claim, PhasesClean, Locked
        <5>4. row \in marked[other] => accepted[row] > 0
          BY DEF NoLostEvent
        <5> QED
          BY <3>1, <3>2, <5>2, <5>3, <5>4 DEF HeldBack
      <4> QED
        BY <4>2, <4>3, <4>4, <4>5
    <3> QED
      BY <3>3, <3>4
  <2> HIDE DEF Keeps
  <2> QED
    BY <2>1, <2>2, <2>3, <2>4, <2>5, <2>6, <2>7, <2>8, <2>9, <2>10, <2>11, <2>12,
       <2>13, <2>14, <2>15
    DEF Next, RelayStep, FaultStep
<1> QED
  BY <1>1, <1>2, TypeCorrect, PhasesAreClean, MarksFollowConfirms, OnlyWrittenTravelsHolds,
     OpenHolds, PTL DEF Spec

(* OvertakingExplained: without faults, the broker has an event before an   *)
(* earlier one of the same review only if a publish of the earlier one      *)
(* failed or a relay still has it in its batch (ORDER BY id and SKIP LOCKED *)
(* of claimBatch).                                                          *)
THEOREM OvertakingHasACause == Spec => []OvertakingExplained
<1>1. TypeOK /\ SentInOrder => OvertakingExplained
  <2> SUFFICES ASSUME TypeOK, SentInOrder, NEW row \in Rows, NEW next \in Rows,
                      AggregateOf[row] = AggregateOf[next], row < next, row \in written,
                      accepted[next] > 0, accepted[row] = 0, ~(faults > 0)
               PROVE  attempts[row] > 0 \/ Owing(row) # {} \/ \E r \in Relays : row \in todo[r]
    BY DEF OvertakingExplained
  <2>1. faults = 0
    BY SizesAssumption DEF TypeOK
  <2>2. HeldBack(row)
    BY <2>1 DEF SentInOrder, Sent
  <2> QED
    BY <2>2 DEF HeldBack, Owing
<1> QED
  BY <1>1, TypeCorrect, OrderHolds, PTL

(* SKIP LOCKED: a batch takes no row another open batch has, and none that   *)
(* is published, for any number of relays, rows and lost transactions.       *)
THEOREM LocksHold == Spec => []LocksExclude
<1>1. Init => LocksExclude
  BY DEF Init, LocksExclude, Locked
<1>2. TypeOK /\ PhasesClean /\ LocksExclude /\ [Next]_vars => LocksExclude'
  <2> SUFFICES ASSUME TypeOK, PhasesClean, LocksExclude, [Next]_vars PROVE LocksExclude'
    OBVIOUS
  <2> USE DEF TypeOK, Locked, dbVars, brokerVars, batchVars, boundVars
  <2>1. vars' = vars => LocksExclude'
    BY DEF vars, LocksExclude
  <2>2. \A row \in Rows : WriteRow(row) \/ LateFrame(row) => LocksExclude'
    BY DEF WriteRow, LateFrame, LocksExclude
  <2>3. ASSUME NEW r \in Relays, Claim(r) PROVE LocksExclude'
    <3> DEFINE claimed == FirstOf(Claimable, BatchSize)
    <3>1. /\ todo' = [todo EXCEPT ![r] = claimed] /\ txOpen' = [txOpen EXCEPT ![r] = TRUE]
          /\ UNCHANGED <<published, marked, failed>>
          /\ marked[r] = {} /\ failed[r] = {}
      BY <2>3 DEF Claim, PhasesClean
    <3>2. /\ claimed \cap published = {}
          /\ \A q \in Relays : claimed \cap Locked(q) = {}
      BY DEF FirstOf, Claimable, Due
    <3> HIDE DEF claimed
    <3>3. /\ Locked(r)' = claimed
          /\ \A q \in Relays : q # r => Locked(q)' = Locked(q) /\ todo'[q] = todo[q]
          /\ todo'[r] = claimed
      BY <3>1
    <3> QED
      BY <3>1, <3>2, <3>3 DEF LocksExclude
  <2>4. \A r \in Relays, row \in Rows : PublishConfirmed(r, row) => LocksExclude'
    BY DEF PublishConfirmed, LocksExclude
  <2>5. \A r \in Relays, row \in Rows : RowFails(r, row) => LocksExclude'
    BY DEF RowFails, Current, LocksExclude
  <2>6. \A r \in Relays, row \in Rows : MarkPublished(r, row) => LocksExclude'
    BY DEF MarkPublished, Current, LocksExclude
  <2>7. \A r \in Relays : BatchThrows(r) => LocksExclude'
    BY DEF BatchThrows, ForgetBatch, LocksExclude
  <2>8. \A r \in Relays : Commit(r) => LocksExclude'
    BY DEF Commit, LocksExclude
  <2>9. \A r \in Relays, row \in Rows : RecordFailure(r, row) => LocksExclude'
    BY DEF RecordFailure, LocksExclude, PhasesClean
  <2>10. \A r \in Relays : LoseTransaction(r) => LocksExclude'
    BY DEF LoseTransaction, LocksExclude
  <2>11. \A r \in Relays : LoseCommitAck(r) => LocksExclude'
    BY DEF LoseCommitAck, ForgetBatch, LocksExclude
  <2>12. \A r \in Relays : RecordThrows(r) \/ Crash(r) => LocksExclude'
    BY DEF RecordThrows, Crash, ForgetBatch, LocksExclude
  <2>13. \A r \in Relays : Stop(r) \/ Drained(r) \/ Start(r) => LocksExclude'
    BY DEF Stop, Drained, Start, LocksExclude
  <2> HIDE DEF TypeOK, Locked, dbVars, brokerVars, batchVars, boundVars
  <2> QED
    BY <2>1, <2>2, <2>3, <2>4, <2>5, <2>6, <2>7, <2>8, <2>9, <2>10, <2>11, <2>12, <2>13
    DEF Next, RelayStep, FaultStep, PublishRefused, ConfirmLost, PublishTimesOut
<1> QED
  BY <1>1, <1>2, TypeCorrect, PhasesAreClean, PTL DEF Spec

(* Counting relays. *)
LEMMA RelaysCount ==
  ASSUME NEW S, S \subseteq Relays, NEW T, T \subseteq Relays, NEW r \in Relays
  PROVE  /\ Cardinality(S) \in Nat /\ Cardinality(T) \in Nat
         /\ S \subseteq T => Cardinality(S) <= Cardinality(T)
         /\ S \subseteq T \union {r} => Cardinality(S) <= Cardinality(T) + 1
         /\ r \in T /\ S \subseteq T \ {r} => Cardinality(S) + 1 <= Cardinality(T)
<1>1. IsFiniteSet(S) /\ IsFiniteSet(T)
  BY RelaysAssumption, FS_Subset
<1>2. Cardinality(S) \in Nat /\ Cardinality(T) \in Nat
  BY <1>1, FS_CardinalityType
<1>3. S \subseteq T => Cardinality(S) <= Cardinality(T)
  BY <1>1, FS_Subset
<1>4. ASSUME S \subseteq T \union {r} PROVE Cardinality(S) <= Cardinality(T) + 1
  <2>1. /\ IsFiniteSet(T \union {r})
        /\ Cardinality(T \union {r}) = Cardinality(T) \/ Cardinality(T \union {r}) = Cardinality(T) + 1
    BY <1>1, FS_AddElement
  <2>2. Cardinality(S) <= Cardinality(T \union {r})
    BY <1>4, <2>1, FS_Subset
  <2> QED
    BY <1>2, <2>1, <2>2
<1>5. ASSUME r \in T, S \subseteq T \ {r} PROVE Cardinality(S) + 1 <= Cardinality(T)
  <2>1. IsFiniteSet(T \ {r}) /\ Cardinality(T \ {r}) = Cardinality(T) - 1
    BY <1>1, <1>5, FS_RemoveElement
  <2>2. Cardinality(S) <= Cardinality(T \ {r})
    BY <1>5, <2>1, FS_Subset
  <2> QED
    BY <1>2, <2>1, <2>2
<1> QED
  BY <1>2, <1>3, <1>4, <1>5

(* What a step adds to a row's copies, or takes from what accounts for them. *)
LEMMA StillBalanced ==
  ASSUME TypeOK, TypeOK', NEW row \in Rows, NEW r \in Relays, Balanced(row),
         LET copies == accepted[row] + wire[row] IN
         \/ /\ accepted'[row] + wire'[row] <= copies
            /\ Unaware(row)' \subseteq Unaware(row) /\ Recording(row) \subseteq Recording(row)'
            /\ attempts'[row] = attempts[row] /\ faults' = faults
            /\ Succeeded(row) => Succeeded(row)'
         \/ /\ accepted'[row] + wire'[row] = copies + 1
            /\ attempts'[row] = attempts[row] /\ faults' = faults
            /\ Succeeded(row) => Succeeded(row)'
            /\ Unaware(row)' \subseteq Unaware(row) /\ Recording(row) \subseteq Recording(row)'
            /\ \/ r \in Unaware(row) \ Unaware(row)'
               \/ r \in Recording(row)' \ Recording(row)
               \/ Succeeded(row)' /\ ~Succeeded(row)
         \/ /\ accepted'[row] + wire'[row] = copies
            /\ \/ attempts'[row] = attempts[row] + 1 /\ faults' = faults
               \/ attempts'[row] = attempts[row] /\ faults' = faults + 1
            /\ \/ /\ Unaware(row)' \subseteq Unaware(row)
                  /\ Recording(row) \subseteq Recording(row)' \union {r}
                  /\ Succeeded(row) => Succeeded(row)'
               \/ /\ Unaware(row)' \subseteq Unaware(row) \union {r}
                  /\ Recording(row) \subseteq Recording(row)'
                  /\ Succeeded(row) => Succeeded(row)'
               \/ /\ Unaware(row)' \subseteq Unaware(row)
                  /\ Recording(row) \subseteq Recording(row)'
  PROVE  Balanced(row)'
<1> DEFINE u == Cardinality(Unaware(row))
           w == Cardinality(Unaware(row)')
           g == Cardinality(Recording(row))
           h == Cardinality(Recording(row)')
<1>1. /\ Unaware(row) \subseteq Relays /\ Unaware(row)' \subseteq Relays
      /\ Recording(row) \subseteq Relays /\ Recording(row)' \subseteq Relays
  BY DEF Unaware, Recording
<1>2. /\ u \in Nat /\ w \in Nat
      /\ Unaware(row)' \subseteq Unaware(row) => w <= u
      /\ Unaware(row)' \subseteq Unaware(row) \union {r} => w <= u + 1
      /\ Unaware(row)' \subseteq Unaware(row) /\ r \in Unaware(row) \ Unaware(row)' => w + 1 <= u
  <2> DEFINE S == Unaware(row)'
             T == Unaware(row)
  <2>1. S \subseteq Relays /\ T \subseteq Relays
    BY <1>1
  <2> HIDE DEF S, T
  <2>2. /\ Cardinality(S) \in Nat /\ Cardinality(T) \in Nat
        /\ S \subseteq T => Cardinality(S) <= Cardinality(T)
        /\ S \subseteq T \union {r} => Cardinality(S) <= Cardinality(T) + 1
        /\ S \subseteq T /\ r \in T \ S => Cardinality(S) + 1 <= Cardinality(T)
    BY <2>1, RelaysCount
  <2> QED
    BY <2>2 DEF S, T
<1>3. /\ g \in Nat /\ h \in Nat
      /\ Recording(row) \subseteq Recording(row)' => g <= h
      /\ Recording(row) \subseteq Recording(row)' \union {r} => g <= h + 1
      /\ Recording(row) \subseteq Recording(row)' /\ r \in Recording(row)' \ Recording(row) => g + 1 <= h
  <2> DEFINE S == Recording(row)
             T == Recording(row)'
  <2>1. S \subseteq Relays /\ T \subseteq Relays
    BY <1>1
  <2> HIDE DEF S, T
  <2>2. /\ Cardinality(S) \in Nat /\ Cardinality(T) \in Nat
        /\ S \subseteq T => Cardinality(S) <= Cardinality(T)
        /\ S \subseteq T \union {r} => Cardinality(S) <= Cardinality(T) + 1
        /\ S \subseteq T /\ r \in T \ S => Cardinality(S) + 1 <= Cardinality(T)
    BY <2>1, RelaysCount
  <2> QED
    BY <2>2 DEF S, T
<1>4. /\ accepted[row] \in Nat /\ wire[row] \in Nat /\ attempts[row] \in Nat /\ faults \in Nat
      /\ accepted'[row] \in Nat /\ wire'[row] \in Nat /\ attempts'[row] \in Nat /\ faults' \in Nat
  BY SizesAssumption DEF TypeOK
<1>5. /\ accepted[row] + wire[row] + u <= attempts[row] + g + faults + (IF Succeeded(row) THEN 1 ELSE 0)
      /\ Balanced(row)' <=>
           accepted'[row] + wire'[row] + w
             <= attempts'[row] + h + faults' + (IF Succeeded(row)' THEN 1 ELSE 0)
  BY DEF Balanced
<1> HIDE DEF u, w, g, h
<1> QED
  BY <1>2, <1>3, <1>4, <1>5

(* A step that gives row no copy and takes nothing from its account. *)
Harmless(row) ==
  /\ accepted'[row] + wire'[row] <= accepted[row] + wire[row]
  /\ Unaware(row)' \subseteq Unaware(row) /\ Recording(row) \subseteq Recording(row)'
  /\ attempts'[row] = attempts[row] /\ faults' = faults
  /\ Succeeded(row) => Succeeded(row)'

(* Steps that send nothing, or only give a row a failure. *)
LEMMA QuietSteps ==
  ASSUME TypeOK, TypeOK', PhasesClean, LocksExclude, NEW row \in Rows,
         \/ vars' = vars
         \/ \E now \in Rows : WriteRow(now) \/ LateFrame(now)
         \/ \E r \in Relays :
              \/ Claim(r) \/ BatchThrows(r) \/ Commit(r) \/ Drained(r) \/ Stop(r) \/ Start(r)
              \/ \E now \in Rows : MarkPublished(r, now) \/ PublishRefused(r, now)
  PROVE  Harmless(row)
<1> USE DEF TypeOK, Harmless, Unaware, Recording, Succeeded, Confirmed, dbVars, brokerVars, batchVars, boundVars
<1>1. vars' = vars => Harmless(row)
  BY DEF vars, Current
<1>2. \A now \in Rows : WriteRow(now) => Harmless(row)
  BY DEF WriteRow, Current
<1>3. \A now \in Rows : LateFrame(now) => Harmless(row)
  BY DEF LateFrame, Current
<1>4. \A r \in Relays : Claim(r) => Harmless(row)
  BY DEF Claim, PhasesClean, Current
<1>5. \A r \in Relays : BatchThrows(r) => Harmless(row)
  BY DEF BatchThrows, ForgetBatch, Current
<1>6. \A r \in Relays : Commit(r) => Harmless(row)
  BY DEF Commit, Current
<1>7. \A r \in Relays : Drained(r) \/ Stop(r) \/ Start(r) => Harmless(row)
  BY DEF Drained, Stop, Start, PhasesClean, Current
<1>8. \A r \in Relays, now \in Rows : MarkPublished(r, now) => Harmless(row)
  BY RowsAssumption DEF MarkPublished, Current
<1>9. \A r \in Relays, now \in Rows : PublishRefused(r, now) => Harmless(row)
  BY DEF PublishRefused, RowFails, Current
<1> HIDE DEF TypeOK, Harmless, Unaware, Recording, Succeeded, Confirmed, dbVars, brokerVars, batchVars, boundVars
<1> QED
  BY <1>1, <1>2, <1>3, <1>4, <1>5, <1>6, <1>7, <1>8, <1>9

(* A copy is paid for: by the mark that follows, by the failure that is     *)
(* recorded, or by the fault that took the transaction.                     *)
LEMMA PublishingBalances ==
  ASSUME TypeOK, TypeOK', PhasesClean, LocksExclude, NEW row \in Rows, Balanced(row),
         NEW r \in Relays, NEW now \in Rows,
         PublishConfirmed(r, now) \/ ConfirmLost(r, now) \/ PublishTimesOut(r, now)
  PROVE  Balanced(row)'
<1>1. /\ pc[r] = "publishing" /\ Current(r, now) /\ now \in todo[r]
      /\ UNCHANGED <<published, attempts, faults, txOpen, marked>>
      /\ \A q \in Relays : q # r => pc'[q] = pc[q] /\ todo'[q] = todo[q] /\ failed'[q] = failed[q]
      /\ accepted'[row] + wire'[row] = accepted[row] + wire[row] + (IF row = now THEN 1 ELSE 0)
  BY DEF PublishConfirmed, ConfirmLost, PublishTimesOut, RowFails, Current, TypeOK,
    dbVars, batchVars, boundVars
<1>2. \/ pc'[r] = "marking" /\ todo'[r] = todo[r] /\ failed'[r] = failed[r]
      \/ pc'[r] = pc[r] /\ todo'[r] = todo[r] \ {now} /\ failed'[r] = failed[r] \union {now}
  BY DEF PublishConfirmed, ConfirmLost, PublishTimesOut, RowFails, TypeOK, batchVars
<1>3. \A q \in Relays, one \in Rows : q # r => (Current(q, one)' <=> Current(q, one))
  BY <1>1 DEF Current
<1>4. Current(r, row) => row = now
  BY <1>1, RowsAssumption DEF Current
<1>5. pc'[r] = "marking" => Current(r, now)'
  BY <1>1, <1>2 DEF Current
<1>6. Current(r, row)' /\ pc'[r] = "marking" => row = now
  BY <1>1, <1>2, <1>4 DEF Current
<1>7. Unaware(row)' \subseteq Unaware(row)
  BY <1>1, <1>2, <1>3 DEF Unaware
<1>8. Recording(row) \subseteq Recording(row)'
  BY <1>1, <1>2 DEF Recording
<1>9. Succeeded(row) => Succeeded(row)'
  BY <1>1, <1>3 DEF Succeeded, Confirmed
<1>10. CASE row # now
  BY <1>1, <1>7, <1>8, <1>9, <1>10, StillBalanced DEF TypeOK
<1>11. CASE row = now
  <2>1. CASE ~txOpen[r]
    <3>1. r \in Unaware(row) /\ r \notin Unaware(row)'
      BY <1>1, <1>2, <1>5, <1>11, <2>1 DEF Unaware
    <3> QED
      BY <1>1, <1>7, <1>8, <1>9, <1>11, <3>1, StillBalanced
  <2>2. CASE txOpen[r] /\ pc'[r] = "marking"
    <3>1. Succeeded(row)'
      BY <1>1, <1>5, <1>11, <2>2 DEF Succeeded, Confirmed
    <3>2. row \in Locked(r)
      BY <1>1, <1>11, <2>2 DEF Locked
    <3>3. row \notin published /\ \A q \in Relays : q # r => row \notin Locked(q)
      BY <3>2 DEF LocksExclude
    <3>4. ~Confirmed(r, row)
      BY <1>1, <1>11 DEF Confirmed, LocksExclude
    <3>5. \A q \in Relays : q # r => ~Confirmed(q, row)
      BY <3>3 DEF Confirmed, Locked, Current
    <3>6. ~Succeeded(row)
      BY <3>3, <3>4, <3>5 DEF Succeeded
    <3> QED
      BY <1>1, <1>7, <1>8, <1>9, <1>11, <3>1, <3>6, StillBalanced
  <2>3. CASE txOpen[r] /\ pc'[r] # "marking"
    <3>1. r \notin Recording(row) /\ r \in Recording(row)'
      BY <1>1, <1>2, <1>11, <2>3 DEF Recording, LocksExclude
    <3> QED
      BY <1>1, <1>7, <1>8, <1>9, <1>11, <3>1, StillBalanced
  <2> QED
    BY <2>1, <2>2, <2>3
<1> QED
  BY <1>10, <1>11

(* A failure to be recorded becomes an attempt. *)
LEMMA RecordingBalances ==
  ASSUME TypeOK, TypeOK', PhasesClean, NEW row \in Rows, Balanced(row),
         NEW r \in Relays, NEW now \in Rows, RecordFailure(r, now)
  PROVE  Balanced(row)'
<1>1. /\ pc[r] = "recording" /\ now \in failed[r] /\ todo[r] = {}
      /\ UNCHANGED <<published, accepted, wire, faults, txOpen, marked, todo>>
      /\ attempts'[row] = IF row = now THEN attempts[row] + 1 ELSE attempts[row]
      /\ failed'[r] = failed[r] \ {now} /\ pc'[r] = IF failed[r] = {now} THEN "idle" ELSE "recording"
      /\ \A q \in Relays : q # r => pc'[q] = pc[q] /\ failed'[q] = failed[q]
  BY DEF RecordFailure, PhasesClean, TypeOK, brokerVars, boundVars
<1>2. \A q \in Relays, one \in Rows : Current(q, one)' <=> Current(q, one)
  BY <1>1 DEF Current
<1>3. Unaware(row)' \subseteq Unaware(row)
  BY <1>1, <1>2 DEF Unaware
<1>4. Succeeded(row) => Succeeded(row)'
  BY <1>1, <1>2 DEF Succeeded, Confirmed
<1>5. Recording(row) \subseteq Recording(row)' \union {r}
  BY <1>1 DEF Recording
<1>6. row # now => Recording(row) \subseteq Recording(row)'
  BY <1>1 DEF Recording
<1>7. accepted'[row] + wire'[row] = accepted[row] + wire[row]
  BY <1>1
<1>8. accepted'[row] + wire'[row] <= accepted[row] + wire[row]
  BY <1>1 DEF TypeOK
<1> QED
  BY <1>1, <1>3, <1>4, <1>5, <1>6, <1>7, <1>8, StillBalanced

(* A fault takes at most one thing from a row's account, and is one itself. *)
LEMMA FaultsBalance ==
  ASSUME TypeOK, TypeOK', PhasesClean, LocksExclude, NEW row \in Rows, Balanced(row),
         NEW r \in Relays,
         LoseTransaction(r) \/ LoseCommitAck(r) \/ RecordThrows(r) \/ Crash(r)
  PROVE  Balanced(row)'
<1>1. /\ UNCHANGED <<accepted, wire, attempts>> /\ faults' = faults + 1
      /\ \A q \in Relays : q # r =>
           /\ pc'[q] = pc[q] /\ todo'[q] = todo[q] /\ failed'[q] = failed[q]
           /\ marked'[q] = marked[q] /\ txOpen'[q] = txOpen[q]
      /\ txOpen'[r] = FALSE /\ marked'[r] = {}
      /\ published \subseteq published'
  BY DEF LoseTransaction, LoseCommitAck, RecordThrows, Crash, ForgetBatch, Fault, TypeOK,
    dbVars, brokerVars
<1>2. \A q \in Relays, one \in Rows : q # r => (Current(q, one)' <=> Current(q, one))
  BY <1>1 DEF Current
<1>3. accepted'[row] + wire'[row] = accepted[row] + wire[row] /\ attempts'[row] = attempts[row]
  BY <1>1
<1>4. Recording(row) \subseteq Recording(row)' \union {r}
  BY <1>1 DEF Recording
<1>5. Unaware(row)' \subseteq Unaware(row) \union {r}
  BY <1>1, <1>2 DEF Unaware
<1>6. row \in published \/ (\E q \in Relays : q # r /\ Confirmed(q, row)) => Succeeded(row)'
  BY <1>1, <1>2 DEF Succeeded, Confirmed
<1>7. ~Confirmed(r, row) => (Succeeded(row) => Succeeded(row)')
  BY <1>6 DEF Succeeded
<1>8. CASE row \in failed[r]
  <2>1. row \notin todo[r] /\ ~Confirmed(r, row)
    BY <1>8 DEF LocksExclude, Confirmed, Current
  <2>2. todo'[r] \subseteq todo[r]
    BY DEF LoseTransaction, LoseCommitAck, RecordThrows, Crash, ForgetBatch, TypeOK
  <2>3. Unaware(row)' \subseteq Unaware(row)
    BY <1>1, <1>2, <2>1, <2>2 DEF Unaware
  <2> QED
    BY <1>1, <1>3, <1>4, <1>7, <2>1, <2>3, StillBalanced
<1>9. CASE row \notin failed[r]
  <2>1. Recording(row) \subseteq Recording(row)'
    BY <1>1, <1>9 DEF Recording
  <2>2. CASE ~Confirmed(r, row)
    BY <1>1, <1>3, <1>5, <1>7, <2>1, <2>2, StillBalanced
  <2>3. CASE Confirmed(r, row)
    <3>1. \/ row \notin todo'[r]
          \/ pc'[r] = "marking" /\ Current(r, row)'
      BY <2>3 DEF Confirmed, Current, LocksExclude, LoseTransaction, LoseCommitAck,
        RecordThrows, Crash, ForgetBatch, TypeOK
    <3>2. Unaware(row)' \subseteq Unaware(row)
      BY <1>1, <1>2, <3>1 DEF Unaware
    <3> QED
      BY <1>1, <1>3, <2>1, <3>2, StillBalanced
  <2> QED
    BY <2>2, <2>3
<1> QED
  BY <1>8, <1>9

LEMMA CopiesBalance == Spec => []CopyBudget
<1>1. Init => CopyBudget
  <2> SUFFICES ASSUME Init, NEW row \in Rows PROVE Balanced(row)
    BY DEF CopyBudget
  <2>1. /\ Unaware(row) = {} /\ Recording(row) = {} /\ ~Succeeded(row)
        /\ accepted[row] = 0 /\ wire[row] = 0 /\ attempts[row] = 0 /\ faults = 0
    BY DEF Init, Unaware, Recording, Succeeded, Confirmed
  <2> QED
    BY <2>1, FS_EmptySet DEF Balanced
<1>2. TypeOK /\ TypeOK' /\ PhasesClean /\ LocksExclude /\ CopyBudget /\ [Next]_vars => CopyBudget'
  <2> SUFFICES ASSUME TypeOK, TypeOK', PhasesClean, LocksExclude, CopyBudget, [Next]_vars,
                      NEW row \in Rows
               PROVE  Balanced(row)'
    BY DEF CopyBudget
  <2>1. Balanced(row)
    BY DEF CopyBudget
  <2>2. ASSUME Harmless(row) PROVE Balanced(row)'
    <3>1. CASE Relays # {}
      BY <2>1, <2>2, <3>1, StillBalanced DEF Harmless
    <3>2. CASE Relays = {}
      <4>1. Unaware(row) = {} /\ Unaware(row)' = {} /\ Recording(row) = {} /\ Recording(row)' = {}
        BY <3>2 DEF Unaware, Recording
      <4>2. /\ accepted[row] \in Nat /\ wire[row] \in Nat /\ attempts[row] \in Nat /\ faults \in Nat
            /\ accepted'[row] \in Nat /\ wire'[row] \in Nat
        BY SizesAssumption DEF TypeOK
      <4> QED
        BY <2>1, <2>2, <4>1, <4>2, FS_EmptySet DEF Harmless, Balanced
    <3> QED
      BY <3>1, <3>2
  <2> QED
    BY <2>1, <2>2, QuietSteps, PublishingBalances, RecordingBalances, FaultsBalance
    DEF Next, RelayStep, FaultStep
<1> QED
  BY <1>1, <1>2, TypeCorrect, PhasesAreClean, LocksHold, PTL DEF Spec

(* CopiesAccountedFor: each copy of an event beyond the first has a failed  *)
(* attempt, recorded or about to be, or a batch that was cut short (the     *)
(* publish-then-mark loop of runOnce).                                      *)
THEOREM CopiesHaveACause == Spec => []CopiesAccountedFor
<1>1. TypeOK /\ CopyBudget => CopiesAccountedFor
  <2> SUFFICES ASSUME TypeOK, CopyBudget, NEW row \in Rows
               PROVE  accepted[row] + wire[row] <= 1 + attempts[row] + Cardinality(Owing(row)) + faults
    BY DEF CopiesAccountedFor
  <2>1. Balanced(row)
    BY DEF CopyBudget
  <2>2. /\ Recording(row) \subseteq Owing(row)
        /\ IsFiniteSet(Owing(row)) /\ IsFiniteSet(Unaware(row)) /\ IsFiniteSet(Recording(row))
    BY RelaysAssumption, FS_Subset DEF Recording, Owing, Unaware
  <2>3. /\ Cardinality(Recording(row)) <= Cardinality(Owing(row))
        /\ Cardinality(Recording(row)) \in Nat /\ Cardinality(Owing(row)) \in Nat
        /\ Cardinality(Unaware(row)) \in Nat
    BY <2>2, FS_Subset, FS_CardinalityType
  <2>4. accepted[row] \in Nat /\ wire[row] \in Nat /\ attempts[row] \in Nat /\ faults \in Nat
    BY SizesAssumption DEF TypeOK
  <2> QED
    BY <2>1, <2>3, <2>4 DEF Balanced
<1> QED
  BY <1>1, TypeCorrect, CopiesBalance, PTL
=============================================================================
