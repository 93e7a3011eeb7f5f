-------------------------- MODULE VoteTransactions --------------------------
(***************************************************************************)
(* The transactions that write votes on one review (castVote, removeVote   *)
(* in apps/api/src/reviews/reviews.repository.ts), statement by statement: *)
(* the row locks each statement takes on the review's row, the snapshot    *)
(* the counting UPDATE works on, and the transactions that change or       *)
(* delete the review meanwhile.                                            *)
(*                                                                         *)
(* PostgreSQL at READ COMMITTED: a statement sees what was committed when  *)
(* it began and its own transaction's writes; an UPDATE that then has to   *)
(* wait for a row lock keeps that view of every other row.                 *)
(***************************************************************************)
EXTENDS FiniteSets

CONSTANTS
  Users,     \* users who may try to vote
  Author,    \* the one who wrote the review
  Sessions   \* concurrent database sessions

ASSUME AuthorAssumption == Author \in Users

VARIABLES
  status,    \* the committed review: "APPROVED", "HIDDEN" or "ABSENT"
  votes,     \* the committed review_votes rows
  counts,    \* the committed helpful_count and not_helpful_count
  at,        \* the statement each session runs next
  request,   \* what each session was asked to do
  locks,     \* the lock modes each session holds on the review's row
  seen       \* the votes each session's counting UPDATE saw

reviewVars == <<status, votes, counts>>
vars == <<reviewVars, at, request, locks, seen>>

-----------------------------------------------------------------------------
Values == {"HELPFUL", "NOT_HELPFUL"}
NoVote == "none"
NoVotes == [user \in Users |-> NoVote]

(* The two FILTERed counts of recomputeVoteCounts.                          *)
Tally(voteOf) ==
  [value \in Values |-> Cardinality({user \in Users : voteOf[user] = value})]

Request == [op: {"cast"}, user: Users, value: Values] \union [op: {"remove"}, user: Users]
NoRequest == [op |-> "none"]

Modes == {"UPDATE", "NO KEY UPDATE", "KEY SHARE"}

(* Row locks that exclude each other. *)
Conflicting(mode) ==
  CASE mode = "UPDATE"        -> Modes
    [] mode = "NO KEY UPDATE" -> {"UPDATE", "NO KEY UPDATE"}
    [] mode = "KEY SHARE"     -> {"UPDATE"}

(* Mutant: the vote is written before the review is locked. *)
LockAfterVote ==
  [begin |-> "vote", vote |-> "lock", lock |-> "count", count |-> "commit"]

(* Mutant: the counting UPDATE is left to take the lock. *)
NoLeadingLock ==
  [begin |-> "vote", vote |-> "count", lock |-> "vote", count |-> "commit"]

(* The order of the statements. *)
After ==
  [begin |-> "lock", lock |-> "vote", vote |-> "count", count |-> "commit"]

TypeOK ==
  /\ status \in {"APPROVED", "HIDDEN", "ABSENT"}
  /\ votes \in [Users -> Values \union {NoVote}]
  /\ status = "ABSENT" => votes = NoVotes       \* the foreign key
  /\ at \in [Sessions -> {"idle", "lock", "vote", "count", "commit"}]
  /\ request \in [Sessions -> Request \union {NoRequest}]
  /\ \A s \in Sessions : request[s] = NoRequest <=> at[s] = "idle"
  /\ locks \in [Sessions -> SUBSET Modes]
  /\ seen \in [Sessions -> [Users -> Values \union {NoVote}]]

Init ==
  /\ status = "HIDDEN" /\ votes = NoVotes /\ counts = Tally(NoVotes)
  /\ at = [s \in Sessions |-> "idle"]
  /\ request = [s \in Sessions |-> NoRequest]
  /\ locks = [s \in Sessions |-> {}]
  /\ seen = [s \in Sessions |-> NoVotes]

-----------------------------------------------------------------------------
Casting(s) == request[s].op = "cast"

(* Whether the vote statement inserts a row, and so checks the foreign key. *)
Inserting(s) == Casting(s) /\ votes[request[s].user] = NoVote

(* The lock modes on the review's row the next statement has to get. *)
Needs(s) ==
  CASE at[s] = "lock"                 -> {"UPDATE"}
    [] at[s] = "vote" /\ Inserting(s) -> {"KEY SHARE"}
    [] at[s] = "commit"               -> {"NO KEY UPDATE"}
    [] OTHER                          -> {}

Holds(s, mode) == locks[s] \intersect Conflicting(mode) # {}

(* Session s has to wait for session t. *)
WaitsFor(s, t) == s # t /\ \E mode \in Needs(s) : Holds(t, mode)
Granted(s) == \A t \in Sessions : ~WaitsFor(s, t)

Goto(s, statement) == at' = [at EXCEPT ![s] = statement]
Take(s, modes) == locks' = [locks EXCEPT ![s] = @ \union modes]

(* Commit or rollback: the locks go with the transaction. *)
End(s) ==
  /\ Goto(s, "idle")
  /\ request' = [request EXCEPT ![s] = NoRequest]
  /\ locks' = [locks EXCEPT ![s] = {}]
  /\ seen' = [seen EXCEPT ![s] = NoVotes]

(* The votes as session s sees them: its own write included. *)
WithOwn(s) ==
  [votes EXCEPT ![request[s].user] = IF Casting(s) THEN request[s].value ELSE NoVote]

-----------------------------------------------------------------------------
(* A request arrives; its transaction begins. *)
Begin(s, asked) ==
  /\ at[s] = "idle"
  /\ request' = [request EXCEPT ![s] = asked]
  /\ Goto(s, After.begin)
  /\ UNCHANGED <<reviewVars, locks, seen>>

Votable(s) == status = "APPROVED" /\ request[s].user # Author

(* Mutant: status and author are read without a lock. *)
ReadReview(s) ==
  /\ at[s] = "lock"
  /\ Casting(s) => Votable(s)
  /\ Goto(s, After.lock)
  /\ UNCHANGED <<reviewVars, request, locks, seen>>

(* lockReviewRow, and castVote's two checks on the row it read.  A review   *)
(* that is gone locks nothing, which removeVote does not mind.              *)
LockReview(s) ==
  /\ at[s] = "lock" /\ Granted(s)
  /\ Casting(s) => Votable(s)
  /\ Take(s, IF status = "ABSENT" THEN {} ELSE {"UPDATE"})
  /\ Goto(s, After.lock)
  /\ UNCHANGED <<reviewVars, request, seen>>

(* ReviewNotVotableError or SelfVoteError: rolled back. *)
Refuse(s) ==
  /\ at[s] = "lock" /\ Granted(s)
  /\ Casting(s) /\ ~Votable(s)
  /\ End(s) /\ UNCHANGED reviewVars

(* The upsert or deleteMany; the write itself shows at the commit. *)
WriteVote(s) ==
  /\ at[s] = "vote" /\ Granted(s)
  /\ Take(s, Needs(s))
  /\ Goto(s, After.vote)
  /\ UNCHANGED <<reviewVars, request, seen>>

(* recomputeVoteCounts begins: its snapshot. *)
CountVotes(s) ==
  /\ at[s] = "count"
  /\ seen' = [seen EXCEPT ![s] = WithOwn(s)]
  /\ Goto(s, After.count)
  /\ UNCHANGED <<reviewVars, request, locks>>

(* ... gets the row lock it may have waited for, writes both counters, and  *)
(* the transaction commits.  No row, no counters.                           *)
Commit(s) ==
  /\ at[s] = "commit" /\ Granted(s)
  /\ votes' = WithOwn(s)
  /\ counts' = IF status = "ABSENT" THEN counts ELSE Tally(seen[s])
  /\ End(s) /\ UNCHANGED status

(* A dropped connection, a timeout, a crash of the API process. *)
Rollback(s) ==
  /\ at[s] # "idle"
  /\ End(s) /\ UNCHANGED reviewVars

-----------------------------------------------------------------------------
(* The review's other writers (ReviewStore), each one transaction. *)

RowFree(mode) == \A s \in Sessions : ~Holds(s, mode)

(* moderate or decide: an UPDATE that changes no key column. *)
Approve ==
  /\ status = "HIDDEN" /\ RowFree("NO KEY UPDATE")
  /\ status' = "APPROVED"
  /\ UNCHANGED <<votes, counts, at, request, locks, seen>>

(* update: FOR UPDATE, then back to PENDING.  The votes stay. *)
Hide ==
  /\ status = "APPROVED" /\ RowFree("UPDATE")
  /\ status' = "HIDDEN"
  /\ UNCHANGED <<votes, counts, at, request, locks, seen>>

(* Mutant: the votes are left behind. *)
DeleteReviewOnly ==
  /\ status # "ABSENT" /\ RowFree("UPDATE")
  /\ status' = "ABSENT" /\ counts' = Tally(NoVotes)
  /\ UNCHANGED <<votes, at, request, locks, seen>>

(* remove: the votes go with the row (ON DELETE CASCADE). *)
Delete ==
  /\ status # "ABSENT" /\ RowFree("UPDATE")
  /\ status' = "ABSENT" /\ votes' = NoVotes /\ counts' = Tally(NoVotes)
  /\ UNCHANGED <<at, request, locks, seen>>

-----------------------------------------------------------------------------
Statement(s) ==
  LockReview(s) \/ Refuse(s) \/ WriteVote(s) \/ CountVotes(s) \/ Commit(s)

Next ==
  \/ \E s \in Sessions :
       Statement(s) \/ Rollback(s) \/ \E asked \in Request : Begin(s, asked)
  \/ Approve \/ Hide \/ Delete

Spec == Init /\ [][Next]_vars

-----------------------------------------------------------------------------
(* Whatever commits in whatever order, the counters the list shows are the  *)
(* votes the table holds.                                                   *)
CountsMatchVotes == counts = Tally(votes)

(* No set of sessions in which each one waits for another: PostgreSQL never *)
(* has to report 40P01.                                                     *)
NoDeadlock ==
  \A waiting \in (SUBSET Sessions) \ {{}} :
    \E s \in waiting : \A t \in waiting : ~WaitsFor(s, t)

(* The transactions implement the ballot: each commit is one atomic vote on *)
(* a review that is public at that moment, by somebody else than its author.*)
B == INSTANCE Ballot
ImplementsBallot == B!Spec

-----------------------------------------------------------------------------
(* The inductive strengthening behind the theorems. *)

(* Past its first statement a transaction holds the review's row alone,     *)
(* unless the row is gone and there is nothing to hold.                     *)
Locked(s) == "UPDATE" \in locks[s]

LockedWhenWriting ==
  \A s \in Sessions :
    /\ at[s] \in {"idle", "lock"} => locks[s] = {}
    /\ at[s] \in {"vote", "count", "commit"} =>
         Locked(s) \/ (status = "ABSENT" /\ ~Casting(s) /\ locks[s] = {})

HolderIsAlone ==
  \A s, t \in Sessions : Locked(s) /\ locks[t] # {} => s = t

CheckedWhenWriting ==
  \A s \in Sessions :
    at[s] \in {"vote", "count", "commit"} /\ Casting(s) => Votable(s)

SnapshotIsCurrent ==
  \A s \in Sessions : at[s] = "commit" => seen[s] = WithOwn(s)

IInv ==
  /\ TypeOK /\ CountsMatchVotes /\ LockedWhenWriting /\ HolderIsAlone
  /\ CheckedWhenWriting /\ SnapshotIsCurrent
=============================================================================
