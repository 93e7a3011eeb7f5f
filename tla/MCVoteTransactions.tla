-------------------------- MODULE MCVoteTransactions --------------------------
(* The instance of VoteTransactions for TLC: one review, its author and two  *)
(* other users, three sessions, so that a transaction can meet one that      *)
(* holds the review and one that waits for it.                               *)
EXTENDS VoteTransactions, TLC

SessionSymmetry == Permutations(Sessions)
Others == Users \ {Author}
UserAndSessionSymmetry == SessionSymmetry \union Permutations(Others)
=============================================================================
