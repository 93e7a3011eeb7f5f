----------------------------- MODULE EventOutbox -----------------------------
(***************************************************************************)
(* What the outbox promises, whoever drains it: an event is handed to the  *)
(* broker only after the transaction that caused it committed, at least    *)
(* once before it is called published, possibly again at any later time,   *)
(* and it can be given up, which is not the same as being published.       *)
(***************************************************************************)
CONSTANT Rows
VARIABLES written, delivered, settled, parked

vars == <<written, delivered, settled, parked>>

Init == written = {} /\ delivered = {} /\ settled = {} /\ parked = {}

Write(row) ==
  /\ written' = written \union {row}
  /\ UNCHANGED <<delivered, settled, parked>>

Deliver(row) ==
  /\ row \in written
  /\ delivered' = delivered \union {row}
  /\ UNCHANGED <<written, settled, parked>>

(* A batch settles together; only delivered events can. *)
Settle(batch) ==
  /\ batch \subseteq delivered
  /\ settled' = settled \union batch
  /\ UNCHANGED <<written, delivered, parked>>

GiveUp(row) ==
  /\ row \in written
  /\ parked' = parked \union {row}
  /\ UNCHANGED <<written, delivered, settled>>

Next ==
  \/ \E row \in Rows : Write(row) \/ Deliver(row) \/ GiveUp(row)
  \/ \E batch \in SUBSET Rows : Settle(batch)

Spec == Init /\ [][Next]_vars
=============================================================================
