-------------------------- MODULE MCReviewListing --------------------------
(* Three reviews, two of them created in the same millisecond.                *)
EXTENDS ReviewListing

MCIds == 1..3
MCCreated == [id \in MCIds |-> IF id = 1 THEN 10 ELSE 20]
MCFirstRows == [id \in MCIds |-> [status |-> IF id = 2 THEN "PENDING" ELSE "APPROVED",
                                  helpful |-> 1, rating |-> 4]]
MCSwings == {1}
MCPublic(sort, rating) == [source |-> "reviews", sort |-> sort, rating |-> rating]
MCHelpful == MCPublic("helpful", 0)
MCNewest == MCPublic("newest", 4)
MCListKeys == {MCHelpful, MCNewest}
MCOwn(source) == [source |-> source, sort |-> "newest", rating |-> 0]
MCSetting(list, keys, m, n) == [list |-> list, keys |-> keys, changes |-> m, faults |-> n]
MCSettings ==
  {MCSetting(MCHelpful, {MCHelpful}, 2, 0),
   MCSetting(MCNewest, {MCNewest}, 1, 1),
   MCSetting(MCOwn("queue"), {}, 2, 0),
   MCSetting(MCOwn("mine"), {MCHelpful, MCNewest, Detail}, 1, 1)}
=============================================================================
