----------------------------- MODULE AuthorPage -----------------------------
(* One author's own review of one product, as a tab shows it: the query that  *)
(* reads and polls it (use-my-review.ts), the section that decides between    *)
(* form and panel (write-review-section.tsx, your-review-section.tsx), the    *)
(* form, the dialog, and the three calls: submit, edit, delete, through their *)
(* route handlers to the API.  The worker, a moderator and another tab of the *)
(* same author change the review meanwhile.                                   *)
(*                                                                            *)
(* `seq` numbers the states of the row; `shown.at` is the number of the one  *)
(* the page shows.  Bounds: MaxCalls calls of this tab; MaxFaults failed      *)
(* requests and changes by others together.                                   *)
EXTENDS Integers, FiniteSets

CONSTANTS MaxCalls, MaxFaults

VARIABLES
  row,      \* the review in the database, or NoReview
  seq,      \* how often it changed
  shown,   \* the data of the query, numbered
  broken,   \* the query is in its error state
  poll,     \* the fetch of the query under way
  editing,  \* isEditing of YourReviewSection
  dialog,   \* DeleteReviewDialog: "closed", "open", "busy"
  form,     \* the mounted form: something typed, submitting
  calls,    \* [Calls -> call]
  adrift,   \* calls the route handler gave up while the API still had them
  gone,     \* history: ids whose deletion was confirmed to this tab
  due,      \* history: the newest state a settled call told this tab about
  losses,   \* failed requests and changes by others so far
  cookie    \* "live", "expired" or "none" (module Session)

section == <<shown, broken, editing, dialog, form, calls>>
authorState == <<row, seq, section, adrift, poll, gone, due, losses>>
vars == <<authorState, cookie>>

NoReview == [id |-> 0, text |-> 0, status |-> "NONE"]
Statuses == {"PENDING", "FLAGGED", "APPROVED", "REJECTED"}
Awaiting(review) == review.status \in {"PENDING", "FLAGGED"}

Unloaded == [review |-> NoReview, at |-> -1]
BlankForm == [typed |-> FALSE, busy |-> FALSE]
NoPoll == [at |-> "none"]
AskedPoll == [at |-> "asked"]

\* kind, target id, how far it is, and what of the page still waits for it.
Calls == 1..MaxCalls
Unused == [kind |-> "unused", id |-> 0, phase |-> "unused", at |-> 0, watched |-> "none"]
Later(a, b) == IF a > b THEN a ELSE b

Init ==
  /\ row \in {NoReview, [id |-> 1, text |-> 0, status |-> "APPROVED"]}
  /\ seq = 1
  /\ shown = Unloaded /\ broken = FALSE /\ poll = AskedPoll
  /\ editing = FALSE /\ dialog = "closed" /\ form = BlankForm
  /\ calls = [k \in Calls |-> Unused]
  /\ adrift = {} /\ gone = {} /\ due = 0 /\ losses \in {0, MaxFaults}

-----------------------------------------------------------------------------
\* WriteReviewSection: what the section renders.
View(data, failed) ==
  IF failed \/ data.at < 0 THEN "nothing"
  ELSE IF data.review = NoReview THEN "form" ELSE "panel"

\* Mutant: the status is part of the key.
KeyWithStatus(data, failed, edits) ==
  IF View(data, failed) = "form" THEN <<0, 0>>
  ELSE IF View(data, failed) = "panel" /\ edits
    THEN <<data.review.id, data.review.text, data.review.status>>
  ELSE <<>>

\* The mounted form: React keeps its instance while this stays the same.  The
\* edit form's key is the review's id and text; its status is not in it.
FormKey(data, failed, edits) ==
  IF View(data, failed) = "form" THEN <<0, 0>>
  ELSE IF View(data, failed) = "panel" /\ edits THEN <<data.review.id, data.review.text>>
  ELSE <<>>

\* A render: YourReviewSection loses its state when it leaves the screen, a
\* form when its instance is replaced; a call goes on without them.
Render(data, failed, edits, dlg, frm, cls) ==
  LET stays == View(shown, broken) = "panel" /\ View(data, failed) = "panel"
      edits2 == edits /\ stays
      same == FormKey(data, failed, edits2) = FormKey(shown, broken, editing)
      Watched(c) == IF c.watched = "form" /\ ~same
                      THEN IF stays THEN "section" ELSE "none"
                    ELSE IF c.watched = "section" /\ ~stays THEN "none" ELSE c.watched
  IN  /\ shown' = data /\ broken' = failed /\ editing' = edits2
      /\ dialog' = IF stays THEN dlg ELSE "closed"
      /\ form' = IF same THEN frm ELSE BlankForm
      /\ calls' = [k \in Calls |-> [cls[k] EXCEPT !.watched = Watched(cls[k])]]

-----------------------------------------------------------------------------
Type ==
  /\ FormKey(shown, broken, editing) # <<>> /\ ~form.typed
  /\ form' = [form EXCEPT !.typed = TRUE]
  /\ UNCHANGED <<row, seq, shown, broken, editing, dialog, calls, adrift, poll, gone, due, losses, cookie>>

OpenEdit ==
  /\ View(shown, broken) = "panel" /\ ~editing /\ dialog = "closed"
  /\ Render(shown, broken, TRUE, dialog, form, calls)
  /\ UNCHANGED <<row, seq, adrift, poll, gone, due, losses, cookie>>

CancelEdit ==
  /\ editing
  /\ Render(shown, broken, FALSE, dialog, form, calls)
  /\ UNCHANGED <<row, seq, adrift, poll, gone, due, losses, cookie>>

OpenDialog ==
  /\ View(shown, broken) = "panel" /\ ~editing /\ dialog = "closed"
  /\ dialog' = "open"
  /\ UNCHANGED <<row, seq, shown, broken, editing, form, calls, adrift, poll, gone, due, losses, cookie>>

\* "Keep it", Escape, a click outside: refused while the deletion is on its way.
CloseDialog ==
  /\ dialog = "open"
  /\ dialog' = "closed"
  /\ UNCHANGED <<row, seq, shown, broken, editing, form, calls, adrift, poll, gone, due, losses, cookie>>

Sent(k, kind, id, watched) ==
  /\ calls[k] = Unused /\ \A j \in 1..(k - 1) : calls[j] # Unused
  /\ calls' = [calls EXCEPT ![k] =
    [kind |-> kind, id |-> id, phase |-> "sent", at |-> 0, watched |-> watched]]

\* onValid of the form, as a submission or as an edit of the review shown.
SendForm(k) ==
  /\ form.typed /\ ~form.busy
  /\ form' = [form EXCEPT !.busy = TRUE]
  /\ Sent(k, IF editing THEN "update" ELSE "submit", shown.review.id, "form")
  /\ UNCHANGED <<row, seq, shown, broken, editing, dialog, adrift, poll, gone, due, losses, cookie>>

\* confirm() of the dialog.
SendDelete(k) ==
  /\ dialog = "open"
  /\ dialog' = "busy"
  /\ Sent(k, "delete", shown.review.id, "section")
  /\ UNCHANGED <<row, seq, shown, broken, editing, form, adrift, poll, gone, due, losses, cookie>>

-----------------------------------------------------------------------------
\* The row a call leaves, or the row as it is when the call is refused.
Written(kind, id) ==
  CASE kind = "submit" /\ row = NoReview ->
         [id |-> seq + 1, text |-> 0, status |-> "PENDING"]
    [] kind = "update" /\ row.id = id /\ row # NoReview ->
         [row EXCEPT !.text = 1 - @, !.status = "PENDING"]
    [] kind = "delete" /\ row.id = id -> NoReview
    [] OTHER -> row

Write(new) == row' = new /\ seq' = IF new = row THEN seq ELSE seq + 1

\* submit, update, remove of ReviewsService: 202, 200, 204, or 409, 404.
Carry(k) ==
  LET c == calls[k]
      new == Written(c.kind, c.id)
  IN  /\ c.phase = "sent" /\ cookie = "live"
      /\ Write(new)
      /\ calls' = [calls EXCEPT ![k].phase = IF new # row THEN "ok"
                                  ELSE IF c.kind = "submit" THEN "conflict" ELSE "missing",
                                ![k].at = seq']
      /\ UNCHANGED <<shown, broken, editing, dialog, form, adrift, poll, gone, due, losses, cookie>>

\* 401 without a live session; 429 over the limit, a 5xx; or the answer to a
\* call that was carried out is lost.
Refuse(k) ==
  /\ \/ calls[k].phase = "sent" /\ cookie # "live" /\ losses' = losses
     \/ calls[k].phase \in {"sent", "ok"} /\ losses < MaxFaults /\ losses' = losses + 1
  /\ calls' = [calls EXCEPT ![k].phase = "refused"]
  /\ UNCHANGED <<row, seq, shown, broken, editing, dialog, form, adrift, poll, gone, due, cookie>>

\* The route handler answers 502 for a call the API may still carry out ...
Abandon(k) ==
  LET c == calls[k] IN
  /\ c.phase = "sent" /\ cookie = "live" /\ losses < MaxFaults
  /\ calls' = [calls EXCEPT ![k].phase = "refused"]
  /\ adrift' = adrift \cup {[kind |-> c.kind, id |-> c.id]}
  /\ losses' = losses + 1
  /\ UNCHANGED <<row, seq, shown, broken, editing, dialog, form, poll, gone, due, cookie>>

\* ... and does, at any time later.
CarryLate(c) ==
  /\ Write(Written(c.kind, c.id))
  /\ adrift' = adrift \ {c}
  /\ UNCHANGED <<section, poll, gone, due, losses, cookie>>

\* Mutant: a 409 is shown, and the query is left alone.
OnlySuccessInvalidates(kind, phase) == phase = "ok" \/ (kind = "delete" /\ phase = "missing")

\* Which answers invalidate the author's own query.
Invalidates(kind, phase) ==
  phase = "ok" \/ (kind = "submit" /\ phase = "conflict") \/ (kind = "delete" /\ phase = "missing")

\* Mutant: the direct write is trusted, and nothing is fetched again.
SettleDelete(c, data, told) ==
  IF c.kind = "delete" /\ told
    THEN [data |-> [review |-> NoReview, at |-> data.at], poll |-> poll]
    ELSE [data |-> data, poll |-> IF told THEN AskedPoll ELSE poll]

\* onSuccess and onError: a confirmed deletion, or one that found nothing to
\* delete, writes null; what invalidates cancels the fetch under way and starts
\* another one.
Told(c, data, told) ==
  [data |-> IF c.kind = "delete" /\ told THEN [review |-> NoReview, at |-> data.at] ELSE data,
   poll |-> IF told THEN AskedPoll ELSE poll]

\* Then the promise of the form or the dialog settles, if they are still there.
Settle(k) ==
  LET c == calls[k]
      told == Invalidates(c.kind, c.phase)
      then == Told(c, shown, told)
      edits == editing /\ ~(c.kind = "update" /\ c.phase = "ok" /\ c.watched # "none")
      frm == IF c.watched = "form" THEN [form EXCEPT !.busy = FALSE] ELSE form
      dlg == IF c.kind = "delete" /\ c.watched = "section"
               THEN IF told THEN "closed" ELSE "open" ELSE dialog
  IN  /\ c.phase \in {"ok", "conflict", "missing", "refused"}
      /\ Render(then.data, IF c.kind = "delete" /\ told THEN FALSE ELSE broken, edits, dlg, frm,
                [calls EXCEPT ![k] = [Unused EXCEPT !.phase = "settled"]])
      /\ poll' = then.poll
      /\ gone' = IF c.kind = "delete" /\ told THEN gone \cup {c.id} ELSE gone
      /\ due' = IF c.phase \in {"ok", "conflict"} THEN Later(due, c.at) ELSE due
      /\ UNCHANGED <<row, seq, adrift, losses, cookie>>

-----------------------------------------------------------------------------
\* Mutant: no polling under an open edit form.
PollUnlessEditing ==
  /\ poll = NoPoll /\ Awaiting(shown.review) /\ ~editing
  /\ poll' = AskedPoll
  /\ UNCHANGED <<row, seq, section, adrift, gone, due, losses, cookie>>

\* refetchInterval: every two seconds while the review shown is awaited.
Poll ==
  /\ poll = NoPoll /\ Awaiting(shown.review)
  /\ poll' = AskedPoll
  /\ UNCHANGED <<row, seq, section, adrift, gone, due, losses, cookie>>

Refocused ==
  /\ poll = NoPoll
  /\ poll' = AskedPoll
  /\ UNCHANGED <<row, seq, section, adrift, gone, due, losses, cookie>>

\* GET /me/reviews?productId=: the author's one review, null without a session.
PollReads ==
  /\ poll = AskedPoll
  /\ poll' = [at |-> "read",
              data |-> [review |-> IF cookie = "live" THEN row ELSE NoReview, at |-> seq]]
  /\ UNCHANGED <<row, seq, section, adrift, gone, due, losses, cookie>>

PollArrives ==
  /\ poll.at = "read"
  /\ Render(poll.data, FALSE, editing, dialog, form, calls)
  /\ poll' = NoPoll
  /\ UNCHANGED <<row, seq, adrift, gone, due, losses, cookie>>

\* The retries are used up: the query is in error, whatever data it has.
PollFails ==
  /\ poll # NoPoll /\ losses < MaxFaults
  /\ Render(shown, TRUE, editing, dialog, form, calls)
  /\ poll' = NoPoll /\ losses' = losses + 1
  /\ UNCHANGED <<row, seq, adrift, gone, due, cookie>>

\* The worker classifies, a moderator decides.
Judged(status) ==
  /\ losses < MaxFaults /\ Awaiting(row) /\ status \notin {"PENDING", row.status}
  /\ Write([row EXCEPT !.status = status])
  /\ losses' = losses + 1
  /\ UNCHANGED <<section, adrift, poll, gone, due, cookie>>

\* The same author in another tab.
OtherTab(kind) ==
  /\ losses < MaxFaults /\ Written(kind, row.id) # row
  /\ Write(Written(kind, row.id))
  /\ losses' = losses + 1
  /\ UNCHANGED <<section, adrift, poll, gone, due, cookie>>

Next ==
  \/ Type \/ OpenEdit \/ CancelEdit \/ OpenDialog \/ CloseDialog
  \/ \E k \in Calls : SendForm(k) \/ SendDelete(k) \/ Carry(k) \/ Refuse(k) \/ Abandon(k) \/ Settle(k)
  \/ \E c \in adrift : CarryLate(c)
  \/ Poll \/ Refocused \/ PollReads \/ PollArrives \/ PollFails
  \/ \E status \in Statuses : Judged(status)
  \/ \E kind \in {"submit", "update", "delete"} : OtherTab(kind)

\* The timer fires and its request is answered; promises settle.
Polling == Poll \/ PollReads \/ PollArrives
Settling == \E k \in Calls : Settle(k)
Fairness == WF_vars(Polling) /\ WF_vars(Settling)

-----------------------------------------------------------------------------
MaxSeq == 1 + MaxCalls + MaxFaults

TypeOK ==
  /\ row \in [id : 0..MaxSeq, text : 0..1, status : Statuses \cup {"NONE"}]
  /\ seq \in 1..MaxSeq /\ due \in 0..MaxSeq /\ losses \in 0..MaxFaults
  /\ shown.at \in -1..MaxSeq
  /\ dialog \in {"closed", "open", "busy"} /\ editing \in BOOLEAN
  /\ \A k \in Calls : calls[k].watched \in {"none", "section", "form"}
  /\ editing \/ dialog # "closed" => View(shown, broken) = "panel"

\* A review whose deletion this tab was told about never comes back on it: no
\* poll that had read it before may put it back.
DeletedStaysGone == \A id \in gone : shown.review.id # id

\* What is typed into a form, of a new review or of an edit, is dropped only
\* with a change of the review's identity or text, with the query in error, or
\* by a step that ends the edit and brings no data: the author cancelled or the
\* edit was saved.  No poll and no other call's answer drops it, so not the
\* worker or a moderator who changes the status.
DraftSurvives ==
  [][(form.typed /\ ~form'.typed /\ ~broken' /\ shown'.review.id = shown.review.id
        /\ shown'.review.text = shown.review.text)
       => editing /\ ~editing' /\ shown' = shown]_vars

\* What an answered call or a conflict told the author about is shown in the
\* end, or something newer.
SeenInTheEnd == (0 < due /\ shown.at < due) ~> (shown.at >= due \/ broken \/ cookie # "live")

\* A review shown as awaited is not shown so for ever once it was judged.
PollCatchesUp ==
  (Awaiting(shown.review) /\ shown.review # row) ~>
     (~Awaiting(shown.review) \/ shown.review = row)
=============================================================================
