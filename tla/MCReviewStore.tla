---------------------------- MODULE MCReviewStore ----------------------------
(* Instances of ReviewStore for TLC: bodies the policy approves, flags and   *)
(* rejects.                                                                  *)
EXTENDS ReviewStore

MCIds2 == 1..2
MCIds1 == 1..1
MCTexts == [clean |-> Plain,
            shouting |-> [Plain EXCEPT !.length = 41, !.capitals = 15],
            banned |-> [Plain EXCEPT !.banned = TRUE]]
MCBodies == DOMAIN MCTexts
MCRejectingBodies == {"clean", "banned"}
MCRejecting == [body \in MCRejectingBodies |-> MCTexts[body]]
=============================================================================
