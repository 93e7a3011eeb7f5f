---------------------------- MODULE MCOutboxRelay ----------------------------
(* Instances of OutboxRelay for TLC: one review with two events in a row,   *)
(* review.unpublished then review.submitted.                                *)
EXTENDS OutboxRelay

MCRows == 1..2
MCAggregateOf == [row \in MCRows |-> "review1"]
=============================================================================
