------------------------------- MODULE Ballot -------------------------------
(***************************************************************************)
(* What voting on one review promises: every user but the author has at    *)
(* most one vote, cast only while the review is public, and the counters   *)
(* are the number of votes at every moment.                                *)
(***************************************************************************)
EXTENDS FiniteSets

CONSTANTS Users, Author

VARIABLES status, votes, counts
vars == <<status, votes, counts>>

Values == {"HELPFUL", "NOT_HELPFUL"}
NoVote == "none"
NoVotes == [user \in Users |-> NoVote]

(* The number of votes of each value. *)
Tally(voteOf) ==
  [value \in Values |-> Cardinality({user \in Users : voteOf[user] = value})]

Init == status = "HIDDEN" /\ votes = NoVotes /\ counts = Tally(NoVotes)

Count(voteOf) == votes' = voteOf /\ counts' = Tally(voteOf) /\ UNCHANGED status

Cast(user, value) ==
  /\ status = "APPROVED" /\ user # Author
  /\ Count([votes EXCEPT ![user] = value])

Retract(user) == Count([votes EXCEPT ![user] = NoVote])

ChangeStatus(to) ==
  /\ status # "ABSENT" /\ status' = to
  /\ UNCHANGED <<votes, counts>>

Delete ==
  /\ status' = "ABSENT" /\ votes' = NoVotes /\ counts' = Tally(NoVotes)

Next ==
  \/ \E user \in Users : Retract(user) \/ \E value \in Values : Cast(user, value)
  \/ \E to \in {"APPROVED", "HIDDEN"} : ChangeStatus(to)
  \/ Delete

Spec == Init /\ [][Next]_vars
=============================================================================
