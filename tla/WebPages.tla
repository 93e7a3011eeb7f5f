------------------------------ MODULE WebPages ------------------------------
(* The pages of the web app, one open at a time, over the one session cookie  *)
(* every route handler reads: voting (VoteWidget), the author's own review    *)
(* (AuthorPage), moderation (ModerationDesk), signing in (Session).  A        *)
(* session may end under any of them.  Which page is open is chosen at the    *)
(* start; one whose session is about to end has no other fault to meet.       *)
EXTENDS Integers

CONSTANTS
  Pages,
  Reviews, Values, MaxClicks, SweepsFail,     \* VoteWidget
  MaxCalls, MaxFaults,                        \* AuthorPage, and VoteWidget
  Filed, Flagged, MaxDecisions, MaxMishaps,   \* ModerationDesk
  Second, Lifetime, Fallback, MaxTime         \* Session

ASSUME BoundsAssumption ==
  /\ MaxCalls \in Nat /\ MaxFaults \in Nat
  /\ MaxDecisions \in Nat /\ MaxMishaps \in Nat
ASSUME ClockAssumption ==
  /\ Second \in Nat \ {0} /\ Lifetime \in Nat /\ Fallback \in Nat
  /\ MaxTime \in Nat

VARIABLES
  page,
  mine, others, late, redis, filling, mounted, button, missed, cached, fetch, outlived,
  mutations, clicks, faults, sure,
  row, seq, shown, broken, editing, dialog, form, calls, adrift, poll, gone, due, losses,
  status, text, listed, failed, load, removed, pending, errors, rejecting, decisions,
  confirmed, mishaps,
  clock, login, jar, cookie

Voter == INSTANCE VoteWidget
Author == INSTANCE AuthorPage
Desk == INSTANCE ModerationDesk
Cookie == INSTANCE Session

voterVars == <<mine, others, late, redis, filling, mounted, button, missed, cached, fetch,
               outlived, mutations, clicks, faults, sure>>
authorVars == <<row, seq, shown, broken, editing, dialog, form, calls, adrift, poll, gone, due,
                losses>>
deskVars == <<status, text, listed, failed, load, removed, pending, errors, rejecting,
              decisions, confirmed, mishaps>>
vars == <<page, voterVars, authorVars, deskVars, clock, login, jar, cookie>>

Init ==
  /\ page \in Pages
  /\ Voter!Init /\ (page # "voter" => faults = 0)
  /\ Author!Init /\ (page # "author" => row = Author!NoReview /\ losses = 0)
  /\ Desk!Init /\ (page # "moderator" => mishaps = 0)
  /\ IF page = "login" THEN Cookie!SignedOut
     ELSE \E last \in BOOLEAN :
            /\ Cookie!SignedIn(last)
            /\ last <=> CASE page = "voter" -> faults = MaxFaults
                          [] page = "author" -> losses = MaxFaults
                          [] page = "moderator" -> mishaps = MaxMishaps

VoterStep ==
  page = "voter" /\ Voter!Next
    /\ UNCHANGED <<page, authorVars, deskVars, clock, login, jar>>
AuthorStep ==
  page = "author" /\ Author!Next
    /\ UNCHANGED <<page, voterVars, deskVars, clock, login, jar>>
DeskStep ==
  page = "moderator" /\ Desk!Next
    /\ UNCHANGED <<page, voterVars, authorVars, clock, login, jar>>
SessionStep ==
  /\ IF page = "login" THEN Cookie!Next ELSE Cookie!Tick
  /\ UNCHANGED <<page, voterVars, authorVars, deskVars>>

Next == VoterStep \/ AuthorStep \/ DeskStep \/ SessionStep

\* Each page's own fairness, while it is the one that is open.
Fairness ==
  /\ WF_voterVars(page = "voter" /\ Voter!Answering)
  /\ WF_voterVars(page = "voter" /\ Voter!Fetching)
  /\ WF_authorVars(page = "author" /\ Author!Polling)
  /\ WF_authorVars(page = "author" /\ Author!Settling)
  /\ WF_deskVars(page = "moderator" /\ Desk!Loading)

Spec == Init /\ [][Next]_vars /\ Fairness

-----------------------------------------------------------------------------
\* What each page keeps in its variables.
TypeOK == Voter!TypeOK /\ Author!TypeOK /\ Desk!TypeOK /\ Cookie!TypeOK

\* A vote button that was confirmed shows the vote in the database
\* (vote-buttons.tsx, use-vote.ts).
VoteAgrees == Voter!VoteAgrees

\* At rest the counts on the page are those of the database, or of a page of
\* Redis that the sweep did not catch (onError and onSettled of use-vote.ts,
\* invalidateReviewList of votes.service.ts, list of reviews.service.ts).
RestsOnTruth == Voter!RestsOnTruth

\* "so a refetch after this settles converges on the server's own truth rather
\* than trusting either side's guess forever" (use-vote.ts:93-95).
ConvergesOnTruth == Voter!ConvergesOnTruth

\* A pending vote is released and counted in the end (handleClick of
\* vote-buttons.tsx, onSettled of use-vote.ts).
EventuallyCounted == Voter!EventuallyCounted

\* A deleted review does not come back on the author's page
\* (useDeleteReview of use-manage-review.ts).
DeletedStaysGone == Author!DeletedStaysGone

\* No data that arrives empties a form whose review and text it leaves alone,
\* a new status least of all (the key of your-review-section.tsx).
DraftSurvives == Author!DraftSurvives

\* What a submission, an edit, a deletion or a 409 told the author is shown in
\* the end (the invalidations of use-submit-review.ts, use-manage-review.ts).
SeenInTheEnd == Author!SeenInTheEnd

\* A judged review is not shown as awaited for ever (refetchInterval of
\* use-my-review.ts).
PollCatchesUp == Author!PollCatchesUp

\* Only a decided row is hidden (markDecided of moderation-queue.tsx).
HiddenWasDecided == Desk!HiddenWasDecided

\* A decided submission leaves both queues (onSettled of use-moderation.ts).
DecidedLeavesBoth == Desk!DecidedLeavesBoth

\* The cookie ends with the token it holds (maxAgeFromToken of
\* app/api/session/route.ts).
CookieFollowsToken == Cookie!CookieFollowsToken
=============================================================================
