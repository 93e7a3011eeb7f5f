--------------------------- MODULE ModerationDesk ---------------------------
(* The moderation page in one tab: two sections, one per status, each with    *)
(* its own query and its own hidden rows (moderation-section.tsx,             *)
(* moderation-queue.tsx), the reject dialog (moderation-decision-dialog.tsx), *)
(* the decision call and what it invalidates (use-moderation.ts), the route   *)
(* handlers and the API behind them.  Authors, the worker and another         *)
(* moderator change the reviews meanwhile.                                    *)
(*                                                                            *)
(* A submission is a review and the number of its text.  Bounds: MaxDecisions *)
(* decisions; MaxMishaps changes by others, reloads and failed requests       *)
(* together.  A queue is one page; its cursors are those of module Keyset.    *)
EXTENDS Integers, FiniteSets

CONSTANTS Filed, Flagged, MaxDecisions, MaxMishaps

VARIABLES
  status,     \* [Filed -> status]: the reviews in the database
  text,       \* [Filed -> Nat]: which submission that is
  listed,     \* [Queues -> set of submissions]: the pages in the query cache
  failed,     \* [Queues -> BOOLEAN]: the query is in its error state
  load,       \* [Queues -> the fetch under way]
  removed,    \* [Queues -> set of reviews]: removedIds
  pending,    \* [Queues -> review or none]: pendingApprovalId
  errors,     \* [Queues -> set of reviews]: approveErrors
  rejecting,  \* [Queues -> its dialog]: rejectTarget, isSubmitting
  decisions,  \* [1..MaxDecisions -> decision]
  confirmed,  \* history: submissions this desk decided and was told so
  mishaps,
  cookie      \* "live", "expired" or "none" (module Session)

reviews == <<status, text>>
local == <<removed, pending, errors, rejecting>>
deskState == <<reviews, listed, failed, load, local, decisions, confirmed, mishaps>>
vars == <<deskState, cookie>>

Queues == {"FLAGGED", "PENDING"}
Nobody == "nobody"
NoLoad == [at |-> "none"]
AskedLoad == [at |-> "asked"]
Closed == [review |-> Nobody, busy |-> FALSE]
Untaken == [phase |-> "untaken"]
Awaits(r) == status[r] \in Queues

\* listQueue: the submissions in one status.
Queue(q) == {<<r, text[r]>> : r \in {f \in Filed : status[f] = q}}

\* The two queries loaded one after the other; the worker flagged some of the
\* reviews in between, and those are in both lists.
Init ==
  /\ status = [r \in Filed |-> IF r \in Flagged THEN "FLAGGED" ELSE "PENDING"]
  /\ text = [r \in Filed |-> 0]
  /\ listed = [q \in Queues |-> IF q = "PENDING" THEN Filed \X {0} ELSE Flagged \X {0}]
  /\ failed = [q \in Queues |-> FALSE]
  /\ load = [q \in Queues |-> NoLoad]
  /\ removed = [q \in Queues |-> {}]
  /\ pending = [q \in Queues |-> Nobody]
  /\ errors = [q \in Queues |-> {}]
  /\ rejecting = [q \in Queues |-> Closed]
  /\ decisions = [k \in 1..MaxDecisions |-> Untaken]
  /\ confirmed = {}
  /\ mishaps \in {0, MaxMishaps}

\* visibleReviews of a queue, and of a section that shows its queue.
VisibleIn(page, hidden) == {r \in Filed \ hidden : \E n \in 0..MaxMishaps : <<r, n>> \in page}
Visible(q) == IF failed[q] THEN {} ELSE VisibleIn(listed[q], removed[q])

\* An empty queue renders no dialog; its rejectTarget stays and brings a new
\* one when rows come back.  An open dialog covers the page.
Covered == \E q \in Queues : rejecting[q] # Closed /\ Visible(q) # {}
Redrawn(dialog, rows) == IF rows = {} THEN [dialog EXCEPT !.busy = FALSE] ELSE dialog

\* What of the page still waits for a decision when a queue shows those rows.
Waiting(decs, q, rows) ==
  [k \in DOMAIN decs |->
     IF rows = {} /\ decs[k].phase \in {"sent", "ok", "refused"} /\ decs[k].queue = q
          /\ decs[k].watched = "dialog"
       THEN [decs[k] EXCEPT !.watched = "queue"] ELSE decs[k]]

-----------------------------------------------------------------------------
Taken(k, q, r, verdict) ==
  /\ decisions[k] = Untaken /\ \A j \in 1..(k - 1) : decisions[j] # Untaken
  /\ decisions' = [decisions EXCEPT ![k] =
       [phase |-> "sent", queue |-> q, review |-> r, verdict |-> verdict, on |-> 0,
        watched |-> IF verdict = "REJECTED" THEN "dialog" ELSE "queue"]]

\* handleApprove.  Its button is disabled only while this review is the last
\* one whose approval was clicked.
Approve(k, q, r) ==
  /\ r \in Visible(q) /\ pending[q] # r /\ ~Covered
  /\ Taken(k, q, r, "APPROVED")
  /\ errors' = [errors EXCEPT ![q] = @ \ {r}]
  /\ pending' = [pending EXCEPT ![q] = r]
  /\ UNCHANGED <<reviews, listed, failed, load, removed, rejecting, confirmed, mishaps, cookie>>

OpenReject(q, r) ==
  /\ r \in Visible(q) /\ ~Covered
  /\ rejecting' = [rejecting EXCEPT ![q] = [review |-> r, busy |-> FALSE]]
  /\ UNCHANGED <<reviews, listed, failed, load, removed, pending, errors, decisions, confirmed, mishaps, cookie>>

\* Cancel, Escape or a click outside, unless a rejection is on its way.
CloseReject(q) ==
  /\ rejecting[q] # Closed /\ ~rejecting[q].busy /\ Visible(q) # {}
  /\ rejecting' = [rejecting EXCEPT ![q] = Closed]
  /\ UNCHANGED <<reviews, listed, failed, load, removed, pending, errors, decisions, confirmed, mishaps, cookie>>

\* handleSubmit of the dialog with a reason, then handleConfirmReject.
Reject(k, q) ==
  /\ rejecting[q] # Closed /\ ~rejecting[q].busy /\ Visible(q) # {}
  /\ Taken(k, q, rejecting[q].review, "REJECTED")
  /\ rejecting' = [rejecting EXCEPT ![q].busy = TRUE]
  /\ UNCHANGED <<reviews, listed, failed, load, removed, pending, errors, confirmed, mishaps, cookie>>

-----------------------------------------------------------------------------
\* ModerationService.decide: whatever submission is waiting is decided; 409 or
\* 404 when none is.
Decide(k) ==
  LET d == decisions[k] IN
  /\ d.phase = "sent" /\ cookie = "live"
  /\ IF Awaits(d.review)
       THEN /\ status' = [status EXCEPT ![d.review] = d.verdict]
            /\ decisions' = [decisions EXCEPT ![k].phase = "ok", ![k].on = text[d.review]]
       ELSE /\ decisions' = [decisions EXCEPT ![k].phase = "refused"]
            /\ UNCHANGED status
  /\ UNCHANGED <<text, listed, failed, load, local, confirmed, mishaps, cookie>>

\* 401 without a live session, a 5xx or 502, or a lost answer.
RefuseDecision(k) ==
  /\ \/ decisions[k].phase = "sent" /\ cookie # "live" /\ mishaps' = mishaps
     \/ decisions[k].phase \in {"sent", "ok"} /\ mishaps < MaxMishaps /\ mishaps' = mishaps + 1
  /\ decisions' = [decisions EXCEPT ![k].phase = "refused"]
  /\ UNCHANGED <<reviews, listed, failed, load, local, confirmed, cookie>>

\* Mutant: the row that leaves is the one the state names when the answer comes.
HidesPending(d) == IF pending[d.queue] = Nobody THEN {d.review} ELSE {pending[d.queue]}

\* markDecided: the review of the click, whatever was clicked since.
Hides(d) == {d.review}

\* Mutant: only the queue the decision was taken in is invalidated.
InvalidatesOwn(q, d) == q = d.queue

\* onSettled: the prefix of the key matches both queues.
InvalidatesQueue(q, d) == q \in Queues

\* The answer arrives: both queries are fetched anew in place of a fetch under
\* way, and the row or the dialog that waits for it is told.
SettleDecision(k) ==
  LET d == decisions[k]
      ok == d.phase = "ok"
      approval == d.verdict = "APPROVED"
      seen == d.watched # "none"
      hidden == IF ok /\ seen THEN removed[d.queue] \cup Hides(d) ELSE removed[d.queue]
      rows == VisibleIn(listed[d.queue], hidden)
      told == IF approval \/ ~seen THEN rejecting[d.queue]
              ELSE IF ok THEN Closed
              ELSE IF d.watched = "dialog" THEN [rejecting[d.queue] EXCEPT !.busy = FALSE]
              ELSE rejecting[d.queue]
  IN  /\ d.phase \in {"ok", "refused"}
      /\ decisions' = Waiting([decisions EXCEPT ![k] = [phase |-> "settled"]], d.queue, rows)
      /\ load' = [q \in Queues |-> IF InvalidatesQueue(q, d) THEN AskedLoad ELSE load[q]]
      /\ confirmed' = IF ok THEN confirmed \cup {<<d.review, d.on>>} ELSE confirmed
      /\ removed' = [removed EXCEPT ![d.queue] = hidden]
      /\ errors' = IF ~ok /\ approval /\ seen
                     THEN [errors EXCEPT ![d.queue] = @ \cup {d.review}] ELSE errors
      /\ pending' = IF approval /\ seen THEN [pending EXCEPT ![d.queue] = Nobody] ELSE pending
      /\ rejecting' = [rejecting EXCEPT ![d.queue] = Redrawn(told, rows)]
      /\ UNCHANGED <<reviews, listed, failed, mishaps, cookie>>

-----------------------------------------------------------------------------
\* The window gets the focus back, "Try again".
Reload(q) ==
  /\ load[q] = NoLoad /\ mishaps < MaxMishaps
  /\ load' = [load EXCEPT ![q] = AskedLoad]
  /\ mishaps' = mishaps + 1
  /\ UNCHANGED <<reviews, listed, failed, local, decisions, confirmed, cookie>>

LoadReads(q) ==
  /\ load[q] = AskedLoad /\ cookie = "live"
  /\ load' = [load EXCEPT ![q] = [at |-> "read", page |-> Queue(q)]]
  /\ UNCHANGED <<reviews, listed, failed, local, decisions, confirmed, mishaps, cookie>>

LoadArrives(q) ==
  LET rows == VisibleIn(load[q].page, removed[q]) IN
  /\ load[q].at = "read"
  /\ listed' = [listed EXCEPT ![q] = load[q].page]
  /\ failed' = [failed EXCEPT ![q] = FALSE]
  /\ load' = [load EXCEPT ![q] = NoLoad]
  /\ rejecting' = [rejecting EXCEPT ![q] = Redrawn(@, rows)]
  /\ decisions' = Waiting(decisions, q, rows)
  /\ UNCHANGED <<reviews, removed, pending, errors, confirmed, mishaps, cookie>>

\* Out of retries, or a 401: the section shows the error in place of its queue,
\* whose local state, dialog included, is gone.
LoadFails(q) ==
  /\ load[q] # NoLoad
  /\ \/ cookie # "live" /\ load[q] = AskedLoad /\ mishaps' = mishaps
     \/ mishaps < MaxMishaps /\ mishaps' = mishaps + 1
  /\ failed' = [failed EXCEPT ![q] = TRUE]
  /\ load' = [load EXCEPT ![q] = NoLoad]
  /\ removed' = [removed EXCEPT ![q] = {}]
  /\ pending' = [pending EXCEPT ![q] = Nobody]
  /\ errors' = [errors EXCEPT ![q] = {}]
  /\ rejecting' = [rejecting EXCEPT ![q] = Closed]
  /\ decisions' = [k \in DOMAIN decisions |->
                     IF decisions[k].phase \in {"sent", "ok", "refused"} /\ decisions[k].queue = q
                       THEN [decisions[k] EXCEPT !.watched = "none"] ELSE decisions[k]]
  /\ UNCHANGED <<reviews, listed, confirmed, cookie>>

\* The author edits it, the worker classifies it, another moderator decides it.
Changed(r, to) ==
  /\ mishaps < MaxMishaps
  /\ \/ to = "PENDING" /\ text' = [text EXCEPT ![r] = @ + 1]
     \/ to = "FLAGGED" /\ status[r] = "PENDING" /\ text' = text
     \/ to = "REJECTED" /\ Awaits(r) /\ text' = text
  /\ status' = [status EXCEPT ![r] = to]
  /\ mishaps' = mishaps + 1
  /\ UNCHANGED <<listed, failed, load, local, decisions, confirmed, cookie>>

Next ==
  \/ \E k \in 1..MaxDecisions :
       \/ \E q \in Queues, r \in Filed : Approve(k, q, r)
       \/ \E q \in Queues : Reject(k, q)
       \/ Decide(k) \/ RefuseDecision(k) \/ SettleDecision(k)
  \/ \E q \in Queues : \/ \E r \in Filed : OpenReject(q, r)
                       \/ CloseReject(q) \/ Reload(q) \/ LoadReads(q) \/ LoadArrives(q) \/ LoadFails(q)
  \/ \E r \in Filed, to \in {"PENDING", "FLAGGED", "REJECTED"} : Changed(r, to)

\* What is being loaded arrives or fails.
Loading == \E q \in Queues : LoadReads(q) \/ LoadArrives(q) \/ LoadFails(q)
Fairness == WF_vars(Loading)

-----------------------------------------------------------------------------
TypeOK ==
  /\ status \in [Filed -> Queues \cup {"APPROVED", "REJECTED"}]
  /\ text \in [Filed -> 0..MaxMishaps]
  /\ listed \in [Queues -> SUBSET (Filed \X (0..MaxMishaps))]
  /\ removed \in [Queues -> SUBSET Filed] /\ errors \in [Queues -> SUBSET Filed]
  /\ pending \in [Queues -> Filed \cup {Nobody}]
  /\ \A q \in Queues : rejecting[q].busy => \E k \in 1..MaxDecisions :
       /\ decisions[k].phase \in {"sent", "ok", "refused"}
       /\ decisions[k].queue = q /\ decisions[k].review = rejecting[q].review
  /\ mishaps \in 0..MaxMishaps

\* A hidden row is one whose decision this desk took and was told of, however
\* many other rows were clicked while the answer was on its way.
HiddenWasDecided ==
  \A q \in Queues : \A r \in removed[q] : \E n \in 0..MaxMishaps : <<r, n>> \in confirmed

\* A submission this desk decided leaves both queues in the end, also the one
\* it was not decided in, or that queue fails to load.
StillListed == {q \in Queues : ~failed[q] /\ listed[q] \cap confirmed # {}}
DecidedLeavesBoth == (StillListed # {}) ~> (StillListed = {})
=============================================================================
