----------------------------- MODULE ReviewLife -----------------------------
(***************************************************************************)
(* The life of a review as everybody else may think of it: each operation  *)
(* is one step that changes the row and records what happened to it, and   *)
(* no operation sees another half done.                                    *)
(***************************************************************************)
EXTENDS Sequences, Naturals

CONSTANTS Ids, Bodies, NoBody

VARIABLES
  status,  \* of each review, "ABSENT" before it is submitted and once removed
  body,    \* what each says, or NoBody
  log      \* the events in the order they were recorded

vars == <<status, body, log>>

Init ==
  /\ status = [id \in Ids |-> "ABSENT"]
  /\ body = [id \in Ids |-> NoBody]
  /\ log = <<>>

Record(id, types) ==
  log' = log \o [i \in 1..Len(types) |-> [type |-> types[i], id |-> id]]

Become(id, newStatus, newBody) ==
  /\ status' = [status EXCEPT ![id] = newStatus]
  /\ body' = [body EXCEPT ![id] = newBody]

(* Ids are never given twice. *)
Submit(id, text) ==
  /\ status[id] = "ABSENT" /\ \A i \in DOMAIN log : log[i].id # id
  /\ Become(id, "PENDING", text) /\ Record(id, <<"submitted">>)

(* An edit of a public review hides it before it submits it again. *)
Edit(id, text) ==
  /\ status[id] # "ABSENT"
  /\ Become(id, "PENDING", text)
  /\ \/ status[id] = "APPROVED" /\ Record(id, <<"unpublished", "submitted">>)
     \/ status[id] # "APPROVED" /\ Record(id, <<"submitted">>)

Remove(id) ==
  /\ status[id] # "ABSENT"
  /\ Become(id, "ABSENT", NoBody) /\ Record(id, <<"unpublished">>)

Rule(id, decision, event) ==
  Become(id, decision, body[id]) /\ Record(id, <<event>>)

(* A moderator decides what awaits a decision, the worker what nobody has    *)
(* judged, and only the worker may leave it to a moderator.  Which body the *)
(* decision was made about is not promised.                                 *)
Approve(id) == status[id] \in {"PENDING", "FLAGGED"} /\ Rule(id, "APPROVED", "approved")
Reject(id) == status[id] \in {"PENDING", "FLAGGED"} /\ Rule(id, "REJECTED", "rejected")
Flag(id) == status[id] = "PENDING" /\ Rule(id, "FLAGGED", "flagged")

Next ==
  \E id \in Ids :
    \/ \E text \in Bodies : Submit(id, text) \/ Edit(id, text)
    \/ Remove(id) \/ Approve(id) \/ Reject(id) \/ Flag(id)

Spec == Init /\ [][Next]_vars
=============================================================================
