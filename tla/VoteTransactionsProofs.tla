------------------------ MODULE VoteTransactionsProofs ------------------------
(* Theorems about the vote transactions, for any number of users and        *)
(* concurrent sessions.                                                     *)
EXTENDS VoteTransactions, TLAPS

(* The order in which castVote and removeVote run their statements. *)
LEMMA StatementOrder ==
  /\ After.begin = "lock" /\ After.lock = "vote"
  /\ After.vote = "count" /\ After.count = "commit"
BY DEF After

(* Which row locks exclude each other. *)
LEMMA Conflicts ==
  /\ Conflicting("UPDATE") = Modes
  /\ "UPDATE" \in Conflicting("NO KEY UPDATE")
  /\ "UPDATE" \in Conflicting("KEY SHARE")
BY DEF Conflicting, Modes

(* A session inside a transaction was asked for something, an idle one was not. *)
LEMMA Requests ==
  /\ NoRequest \notin Request
  /\ \A asked \in Request :
       /\ asked.user \in Users
       /\ asked.op = "cast" => asked.value \in Values
BY DEF Request, NoRequest

(* A lock that shows means the holder is past its first statement and has   *)
(* the review to itself.                                                    *)
LEMMA HolderHasTheRow ==
  ASSUME IInv, NEW s \in Sessions, locks[s] # {}
  PROVE  /\ at[s] \in {"vote", "count", "commit"} /\ Locked(s)
         /\ \A t \in Sessions \ {s} : locks[t] = {}
BY DEF IInv, TypeOK, LockedWhenWriting, HolderIsAlone

(* A table with the session's own vote is a table of votes. *)
LEMMA OwnVote ==
  ASSUME IInv, NEW s \in Sessions, at[s] # "idle"
  PROVE  /\ WithOwn(s) \in [Users -> Values \union {NoVote}]
         /\ status = "ABSENT" /\ ~Casting(s) => WithOwn(s) = NoVotes
<1>1. request[s] \in Request
  BY DEF IInv, TypeOK
<1>2. votes \in [Users -> Values \union {NoVote}]
  BY DEF IInv, TypeOK
<1>3. CASE Casting(s)
  BY <1>1, <1>2, <1>3, Requests DEF WithOwn, Casting
<1>4. CASE ~Casting(s)
  <2>1. WithOwn(s) = [votes EXCEPT ![request[s].user] = NoVote]
    BY <1>4 DEF WithOwn
  <2>2. status = "ABSENT" => votes = NoVotes
    BY DEF IInv, TypeOK
  <2>3. QED
    BY <1>1, <1>2, <1>4, <2>1, <2>2, Requests DEF NoVotes
<1>5. QED
  BY <1>3, <1>4

(* Nobody else is writing when a statement that needs the whole row gets it. *)
LEMMA FreeRowIsUnlocked ==
  ASSUME IInv, RowFree("UPDATE")
  PROVE  \A s \in Sessions : locks[s] = {}
BY Conflicts DEF RowFree, Holds, IInv, TypeOK

LEMMA NobodyWrites ==
  ASSUME IInv, status # "ABSENT", RowFree("NO KEY UPDATE") \/ RowFree("UPDATE")
  PROVE  \A s \in Sessions : at[s] \in {"idle", "lock"} /\ locks[s] = {}
<1>1. \A s \in Sessions : ~Locked(s)
  BY Conflicts DEF RowFree, Holds, Locked, Modes
<1>2. QED
  BY <1>1 DEF IInv, TypeOK, LockedWhenWriting

(* The invariant survives the end of a session's transaction. *)
LEMMA EndKeeps ==
  ASSUME IInv, NEW s \in Sessions, at[s] # "idle", End(s),
         UNCHANGED reviewVars
  PROVE  IInv'
<1> USE DEF End, Goto, reviewVars
<1>1. TypeOK'
  BY DEF IInv, TypeOK, NoVotes
<1>2. CountsMatchVotes'
  BY DEF IInv, CountsMatchVotes, Tally
<1>3. LockedWhenWriting' /\ HolderIsAlone'
  BY DEF IInv, TypeOK, LockedWhenWriting, HolderIsAlone, Locked, Casting
<1>4. CheckedWhenWriting'
  BY DEF IInv, TypeOK, CheckedWhenWriting, Casting, Votable
<1>5. SnapshotIsCurrent'
  BY DEF IInv, TypeOK, SnapshotIsCurrent, WithOwn, Casting
<1>6. QED
  BY <1>1, <1>2, <1>3, <1>4, <1>5 DEF IInv

(* When a transaction commits, no other one has written or counted. *)
LEMMA CommitterIsAlone ==
  ASSUME IInv, NEW s \in Sessions, at[s] = "commit", NEW t \in Sessions, t # s,
         at[t] \in {"vote", "count", "commit"}
  PROVE  status = "ABSENT" /\ ~Casting(s) /\ ~Casting(t)
<1>1. CASE Locked(s) \/ Locked(t)
  <2>1. locks[s] = {} \/ locks[t] = {}
    BY <1>1 DEF IInv, HolderIsAlone
  <2>2. status = "ABSENT"
    BY <2>1 DEF IInv, LockedWhenWriting, Locked
  <2>3. QED
    BY <2>2 DEF IInv, CheckedWhenWriting, Votable
<1>2. CASE ~Locked(s) /\ ~Locked(t)
  BY <1>2 DEF IInv, LockedWhenWriting
<1>3. QED
  BY <1>1, <1>2

(* The commit keeps the invariant: its counters are those of its snapshot,  *)
(* and its snapshot is still the table.                                     *)
LEMMA CommitKeeps ==
  ASSUME IInv, NEW s \in Sessions, Commit(s)
  PROVE  IInv'
<1> USE DEF Commit, End, Goto
<1>1. seen[s] = WithOwn(s)
  BY DEF IInv, SnapshotIsCurrent
<1>2. votes' \in [Users -> Values \union {NoVote}]
  BY OwnVote
<1>3. status = "ABSENT" => votes' = NoVotes
  <2>1. SUFFICES ASSUME status = "ABSENT" PROVE votes' = NoVotes
    OBVIOUS
  <2>2. ~Casting(s)
    BY <2>1 DEF IInv, CheckedWhenWriting, Votable
  <2>3. QED
    BY <2>1, <2>2, OwnVote
<1>4. TypeOK'
  BY <1>2, <1>3 DEF IInv, TypeOK, NoVotes
<1>5. CountsMatchVotes'
  <2>1. CASE status = "ABSENT"
    <3>1. votes = NoVotes /\ votes' = NoVotes
      BY <2>1, <1>3 DEF IInv, TypeOK
    <3>2. counts' = counts /\ counts = Tally(votes)
      BY <2>1 DEF IInv, CountsMatchVotes
    <3>3. QED
      BY <3>1, <3>2 DEF CountsMatchVotes, Tally
  <2>2. CASE status # "ABSENT"
    <3>1. counts' = Tally(votes')
      BY <1>1, <2>2
    <3>2. QED
      BY <3>1 DEF CountsMatchVotes, Tally
  <2>3. QED
    BY <2>1, <2>2
<1>6. LockedWhenWriting' /\ HolderIsAlone'
  BY DEF IInv, TypeOK, LockedWhenWriting, HolderIsAlone, Locked, Casting
<1>7. CheckedWhenWriting'
  BY DEF IInv, TypeOK, CheckedWhenWriting, Casting, Votable
<1>8. SnapshotIsCurrent'
  <2>1. SUFFICES ASSUME NEW t \in Sessions, at'[t] = "commit"
                 PROVE  (seen[t] = WithOwn(t))'
    BY DEF SnapshotIsCurrent
  <2>2. t # s /\ at[t] = "commit" /\ request'[t] = request[t] /\ seen'[t] = seen[t]
    BY <2>1 DEF IInv, TypeOK
  <2>3. status = "ABSENT" /\ ~Casting(s) /\ ~Casting(t)
    BY <2>2, CommitterIsAlone
  <2>4. votes = NoVotes /\ votes' = NoVotes
    BY <2>3, <1>3 DEF IInv, TypeOK
  <2>5. seen[t] = WithOwn(t)
    BY <2>2 DEF IInv, SnapshotIsCurrent
  <2>6. QED
    BY <2>2, <2>4, <2>5 DEF WithOwn, Casting
<1>9. QED
  BY <1>4, <1>5, <1>6, <1>7, <1>8 DEF IInv

(* So does a change of the review's status: nobody is voting then. *)
LEMMA StatusKeeps ==
  ASSUME IInv, Approve \/ Hide
  PROVE  IInv'
<1>1. /\ status # "ABSENT" /\ status' \in {"APPROVED", "HIDDEN"}
      /\ RowFree("NO KEY UPDATE") \/ RowFree("UPDATE")
      /\ UNCHANGED <<votes, counts, at, request, locks, seen>>
  BY DEF Approve, Hide
<1>2. \A s \in Sessions : at[s] \in {"idle", "lock"} /\ locks[s] = {}
  BY <1>1, NobodyWrites
<1>3. QED
  BY <1>1, <1>2 DEF IInv, TypeOK, CountsMatchVotes, Tally, LockedWhenWriting,
     HolderIsAlone, CheckedWhenWriting, SnapshotIsCurrent, Locked

(* And its deletion. *)
LEMMA DeleteKeeps ==
  ASSUME IInv, Delete
  PROVE  IInv'
<1>1. /\ status # "ABSENT" /\ status' = "ABSENT" /\ votes' = NoVotes
      /\ counts' = Tally(NoVotes) /\ RowFree("UPDATE")
      /\ UNCHANGED <<at, request, locks, seen>>
  BY DEF Delete
<1>2. \A s \in Sessions : at[s] \in {"idle", "lock"} /\ locks[s] = {}
  BY <1>1, NobodyWrites
<1>3. TypeOK'
  BY <1>1 DEF IInv, TypeOK, NoVotes
<1>4. CountsMatchVotes'
  BY <1>1 DEF CountsMatchVotes, Tally
<1>5. QED
  BY <1>1, <1>2, <1>3, <1>4 DEF IInv, LockedWhenWriting, HolderIsAlone,
     CheckedWhenWriting, SnapshotIsCurrent, Locked

(* The statements before the commit touch only the session's own bookkeeping. *)
LEMMA StatementKeeps ==
  ASSUME IInv, NEW s \in Sessions,
         LockReview(s) \/ WriteVote(s) \/ CountVotes(s)
            \/ \E asked \in Request : Begin(s, asked)
  PROVE  IInv'
<1> USE StatementOrder DEF Goto, reviewVars
<1>1. UNCHANGED reviewVars
  BY DEF LockReview, WriteVote, CountVotes, Begin
<1>2. CountsMatchVotes'
  BY <1>1 DEF IInv, CountsMatchVotes, Tally
<1>3. CASE \E asked \in Request : Begin(s, asked)
  <2>1. PICK asked \in Request : Begin(s, asked)
    BY <1>3
  <2>2. TypeOK'
    BY <1>1, <2>1, Requests DEF IInv, TypeOK, Begin
  <2>3. LockedWhenWriting' /\ HolderIsAlone'
    BY <1>1, <2>1 DEF IInv, TypeOK, LockedWhenWriting, HolderIsAlone, Locked, Casting, Begin
  <2>4. CheckedWhenWriting' /\ SnapshotIsCurrent'
    BY <1>1, <2>1 DEF IInv, TypeOK, CheckedWhenWriting, SnapshotIsCurrent,
       WithOwn, Casting, Votable, Begin
  <2>5. QED
    BY <1>2, <2>2, <2>3, <2>4 DEF IInv
<1>4. CASE LockReview(s)
  <2>1. \A t \in Sessions \ {s} : locks[t] = {}
    BY <1>4, Conflicts DEF LockReview, Granted, WaitsFor, Needs, Holds, IInv, TypeOK
  <2>2. locks[s] = {} /\ at[s] = "lock"
    BY <1>4 DEF LockReview, IInv, LockedWhenWriting
  <2>3. locks' = [locks EXCEPT ![s] = IF status = "ABSENT" THEN {} ELSE {"UPDATE"}]
    BY <1>4, <2>2 DEF LockReview, Take
  <2>4. at' = [at EXCEPT ![s] = "vote"] /\ UNCHANGED <<request, seen>>
    BY <1>4 DEF LockReview
  <2>5. Casting(s) => Votable(s)
    BY <1>4 DEF LockReview
  <2>6. TypeOK'
    BY <1>1, <2>2, <2>3, <2>4 DEF IInv, TypeOK, Modes
  <2>7. LockedWhenWriting' /\ HolderIsAlone'
    BY <1>1, <2>1, <2>2, <2>3, <2>4, <2>5
    DEF IInv, TypeOK, LockedWhenWriting, HolderIsAlone, Locked, Casting, Votable
  <2>8. CheckedWhenWriting' /\ SnapshotIsCurrent'
    BY <1>1, <2>2, <2>4, <2>5 DEF IInv, TypeOK, CheckedWhenWriting, SnapshotIsCurrent,
       WithOwn, Casting, Votable
  <2>9. QED
    BY <1>2, <2>6, <2>7, <2>8 DEF IInv
<1>5. CASE WriteVote(s)
  <2>1. at[s] = "vote" /\ at' = [at EXCEPT ![s] = "count"] /\ UNCHANGED <<request, seen>>
    BY <1>5 DEF WriteVote
  <2>2. locks' = [locks EXCEPT ![s] = @ \union Needs(s)]
    BY <1>5 DEF WriteVote, Take
  <2>3. Needs(s) \subseteq {"KEY SHARE"} /\ (Needs(s) # {} => Casting(s))
    BY <2>1 DEF Needs, Inserting
  <2>4. TypeOK'
    BY <1>1, <2>1, <2>2, <2>3 DEF IInv, TypeOK, Modes
  <2>5. LockedWhenWriting' /\ HolderIsAlone'
    BY <1>1, <2>1, <2>2, <2>3
    DEF IInv, TypeOK, LockedWhenWriting, HolderIsAlone, Locked, Casting
  <2>6. CheckedWhenWriting' /\ SnapshotIsCurrent'
    BY <1>1, <2>1 DEF IInv, TypeOK, CheckedWhenWriting, SnapshotIsCurrent,
       WithOwn, Casting, Votable
  <2>7. QED
    BY <1>2, <2>4, <2>5, <2>6 DEF IInv
<1>6. CASE CountVotes(s)
  <2>1. /\ at[s] = "count" /\ at' = [at EXCEPT ![s] = "commit"]
        /\ UNCHANGED <<request, locks>> /\ seen' = [seen EXCEPT ![s] = WithOwn(s)]
    BY <1>6 DEF CountVotes
  <2>2. TypeOK'
    <3>1. seen' \in [Sessions -> [Users -> Values \union {NoVote}]]
      BY <2>1, OwnVote DEF IInv, TypeOK
    <3>2. QED
      BY <1>1, <2>1, <3>1 DEF IInv, TypeOK
  <2>3. LockedWhenWriting' /\ HolderIsAlone'
    BY <1>1, <2>1 DEF IInv, TypeOK, LockedWhenWriting, HolderIsAlone, Locked, Casting
  <2>4. CheckedWhenWriting'
    BY <1>1, <2>1 DEF IInv, TypeOK, CheckedWhenWriting, Casting, Votable
  <2>5. SnapshotIsCurrent'
    BY <1>1, <2>1 DEF IInv, TypeOK, SnapshotIsCurrent, WithOwn, Casting
  <2>6. QED
    BY <1>2, <2>2, <2>3, <2>4, <2>5 DEF IInv
<1>7. QED
  BY <1>3, <1>4, <1>5, <1>6

(* The inductive invariant: whoever is past the lock statement holds the    *)
(* review alone, votes on a review it checked, and has a current count.     *)
THEOREM InvariantHolds == Spec => []IInv
<1>1. Init => IInv
  BY DEF Init, IInv, TypeOK, CountsMatchVotes, LockedWhenWriting, HolderIsAlone,
     CheckedWhenWriting, SnapshotIsCurrent, NoVotes, Locked
<1>2. IInv /\ [Next]_vars => IInv'
  <2> SUFFICES ASSUME IInv, [Next]_vars PROVE IInv'
    OBVIOUS
  <2>1. ASSUME vars' = vars PROVE IInv'
    BY <2>1 DEF vars, reviewVars, IInv, TypeOK, CountsMatchVotes, Tally,
       LockedWhenWriting, HolderIsAlone, CheckedWhenWriting, SnapshotIsCurrent,
       Locked, Casting, Votable, WithOwn
  <2>2. ASSUME NEW s \in Sessions, Refuse(s) \/ Rollback(s) PROVE IInv'
    BY <2>2, EndKeeps DEF Refuse, Rollback
  <2>3. QED
    BY <2>1, <2>2, StatementKeeps, CommitKeeps, StatusKeeps, DeleteKeeps
    DEF Next, Statement
<1>3. QED
  BY <1>1, <1>2, PTL DEF Spec

(* Type correctness; the foreign key (no vote without its review) is part   *)
(* of it.                                                                   *)
THEOREM TypeCorrect == Spec => []TypeOK
<1>1. IInv => TypeOK
  BY DEF IInv
<1>2. QED
  BY <1>1, InvariantHolds, PTL

(* The counters of a review are the number of its votes in every state, for *)
(* any number of concurrent voters.                                         *)
THEOREM CountsAlwaysMatch == Spec => []CountsMatchVotes
<1>1. IInv => CountsMatchVotes
  BY DEF IInv
<1>2. QED
  BY <1>1, InvariantHolds, PTL

(* However many sessions vote at once, they never wait for each other in a  *)
(* circle.                                                                  *)
THEOREM NeverDeadlocks == Spec => []NoDeadlock
<1>1. IInv => NoDeadlock
  <2> SUFFICES ASSUME IInv, NEW waiting \in (SUBSET Sessions) \ {{}}
               PROVE  \E s \in waiting : \A t \in waiting : ~WaitsFor(s, t)
    BY DEF NoDeadlock
  <2>1. CASE \E s \in waiting : locks[s] # {}
    <3>1. PICK s \in waiting : locks[s] # {}
      BY <2>1
    <3>2. \A t \in waiting : t # s => locks[t] = {}
      BY <3>1, HolderHasTheRow
    <3>3. QED
      BY <3>2 DEF WaitsFor, Holds
  <2>2. CASE \A s \in waiting : locks[s] = {}
    BY <2>2 DEF WaitsFor, Holds
  <2>3. QED
    BY <2>1, <2>2
<1>2. QED
  BY <1>1, InvariantHolds, PTL

(* The statements of any number of sessions implement the atomic ballot:    *)
(* every vote is counted as it is cast, on a review that is public then.    *)
THEOREM TransactionsImplementBallot == Spec => ImplementsBallot
<1> USE DEF B!vars, reviewVars
<1>0. \A voteOf : B!Tally(voteOf) = Tally(voteOf)
  <2>1. \A S : B!Cardinality(S) = Cardinality(S)
    BY DEF Cardinality, B!Cardinality
  <2>2. QED
    BY <2>1 DEF Tally, B!Tally, Values, B!Values
<1>1. Init => B!Init
  BY <1>0 DEF Init, B!Init, NoVotes, B!NoVotes, NoVote, B!NoVote
<1>2. IInv /\ IInv' /\ [Next]_vars => [B!Next]_(B!vars)
  <2> SUFFICES ASSUME IInv, IInv', [Next]_vars PROVE [B!Next]_(B!vars)
    OBVIOUS
  <2> DEFINE Refined == [B!Next]_(B!vars)
  <2>1. ASSUME vars' = vars PROVE Refined
    BY <2>1 DEF vars
  <2>2. ASSUME NEW s \in Sessions,
               LockReview(s) \/ Refuse(s) \/ WriteVote(s) \/ CountVotes(s)
                  \/ Rollback(s) \/ \E asked \in Request : Begin(s, asked)
        PROVE  Refined
    BY <2>2 DEF LockReview, Refuse, WriteVote, CountVotes, Rollback, Begin
  <2>3. ASSUME NEW s \in Sessions, Commit(s) PROVE Refined
    <3>1. counts' = Tally(votes')
      BY DEF IInv, CountsMatchVotes, Tally
    <3>2. votes' = WithOwn(s) /\ UNCHANGED status
      BY <2>3 DEF Commit
    <3>3. request[s] \in Request
      BY <2>3 DEF Commit, IInv, TypeOK
    <3>4. CASE Casting(s)
      <4>1. Votable(s)
        BY <2>3, <3>4 DEF Commit, IInv, CheckedWhenWriting
      <4>2. /\ request[s].user \in Users /\ request[s].value \in Values
        BY <3>3, <3>4, Requests DEF Casting
      <4>3. B!Cast(request[s].user, request[s].value)
        BY <1>0, <3>1, <3>2, <3>4, <4>1 DEF B!Cast, B!Count, Votable, WithOwn
      <4>4. QED
        BY <4>2, <4>3 DEF B!Next, Values, B!Values
    <3>5. CASE ~Casting(s)
      <4>1. request[s].user \in Users
        BY <3>3, Requests
      <4>2. B!Retract(request[s].user)
        BY <1>0, <3>1, <3>2, <3>5 DEF B!Retract, B!Count, WithOwn, NoVote, B!NoVote
      <4>3. QED
        BY <4>1, <4>2 DEF B!Next
    <3>6. QED
      BY <3>4, <3>5
  <2>4. ASSUME Approve \/ Hide PROVE Refined
    BY <2>4 DEF Approve, Hide, B!Next, B!ChangeStatus
  <2>5. ASSUME Delete PROVE Refined
    BY <1>0, <2>5 DEF Delete, B!Next, B!Delete, NoVotes, B!NoVotes, NoVote, B!NoVote
  <2>6. QED
    BY <2>1, <2>2, <2>3, <2>4, <2>5 DEF Next, Statement
<1>3. QED
  BY <1>1, <1>2, InvariantHolds, PTL DEF Spec, ImplementsBallot, B!Spec
=============================================================================
