---------------------------- MODULE PublicReviews ----------------------------
(***************************************************************************)
(* What the writers of reviews promise to whoever summarises them: a       *)
(* review appears or disappears in a transaction that announces it, and    *)
(* what it shows changes only while it is hidden.  An announcement may     *)
(* also be of nothing: a removal announces a review that was hidden.       *)
(***************************************************************************)
EXTENDS Naturals

CONSTANTS Reviews, Contents, Hidden

VARIABLES
  live,     \* what each review shows the public, or Hidden
  version   \* announcements so far

Init == live = [review \in Reviews |-> Hidden] /\ version = 0

Announce == version' = version + 1

Approve(review, content) ==
  /\ live[review] = Hidden
  /\ live' = [live EXCEPT ![review] = content]
  /\ Announce

Unpublish(review) ==
  /\ live' = [live EXCEPT ![review] = Hidden]
  /\ Announce

Next ==
  \E review \in Reviews :
    Unpublish(review) \/ \E content \in Contents : Approve(review, content)

Spec == Init /\ [][Next]_<<live, version>>
=============================================================================
