----------------------------- MODULE VoteWidget -----------------------------
(* Voting on the reviews of one product page, in one tab: the buttons and     *)
(* their own optimistic counts (vote-buttons.tsx), the mutation that patches  *)
(* and rolls back the cached pages (use-vote.ts), the refetch that follows    *)
(* it, the route handler that forwards the vote (vote/route.ts), the votes    *)
(* the API keeps and the first page of the list it caches in Redis, which is  *)
(* what a refetch is answered from (reviews.service.ts, votes.service.ts).    *)
(* Other users vote, and other clients read the list, meanwhile.              *)
(*                                                                            *)
(* A count is kept as the part that counts this user's vote and the part that *)
(* counts the others'; what is compared and displayed is their sum.  Bounds:  *)
(* MaxClicks clicks; MaxFaults votes and reads by others, requests and sweeps *)
(* that fail and lists that have to be loaded anew together.  A page of the   *)
(* list remembers, for the properties, whether it is `old`: read before a     *)
(* sweep of this user's vote and still there, or on its way into Redis, after *)
(* it.                                                                        *)
EXTENDS Integers, FiniteSets

CONSTANTS
  Reviews, Values, MaxClicks, MaxFaults,
  SweepsFail    \* whether Redis may refuse a sweep

VARIABLES
  mine,       \* [Reviews -> vote]: this user's vote in the database
  others,     \* [Reviews -> [Values -> Nat]]: the others' votes
  cached,     \* [Reviews -> count]: the pages in the query cache, the props
  fetch,      \* the fetch of the pages under way
  outlived,   \* history: the page last fetched was old
  mounted,    \* the list, with its buttons, is on the screen
  button,     \* [Reviews -> local state of VoteButtons]
  mutations,  \* [Slots -> a vote on its way, or Resting]
  late,       \* requests the route handler gave up while the API still had them
  redis,      \* the first page in Redis, as a set of one page or none
  filling,    \* pages the API has read for requests nobody here waits for
  clicks, faults,
  sure,       \* [Reviews -> BOOLEAN]: history: the pressed button was confirmed
  missed,     \* [Reviews -> BOOLEAN]: history: new props came while pending
  cookie      \* "live", "expired" or "none" (module Session)

server == <<mine, others, late>>
api == <<redis, filling>>
screen == <<mounted, button, missed>>
voterState == <<server, api, screen, cached, fetch, outlived, mutations, clicks, faults, sure>>
vars == <<voterState, cookie>>

None == "none"
Votes == Values \cup {None}
Slots == 1..MaxClicks
Resting == [phase |-> "resting"]
InFlight(r) == {m \in Slots : mutations[m].phase # "resting" /\ mutations[m].review = r}

-----------------------------------------------------------------------------
OwnOf(vote) == [v \in Values |-> IF v = vote THEN 1 ELSE 0]

\* toPublicReviewDto: the counters of the reviews as a SELECT reads them.
Counted == [r \in Reviews |-> [own |-> OwnOf(mine[r]), others |-> others[r]]]

Sum(count) == [v \in Values |-> count.own[v] + count.others[v]]

\* withMovedVote and moveVote: one vote moves from one value to another.
Delta(from, to) == [v \in Values |-> OwnOf(to)[v] - OwnOf(from)[v]]

Patched(count, from, to) ==
  [count EXCEPT !.own = [v \in Values |-> @[v] + Delta(from, to)[v]]]

\* A button as it mounts: the counts of the props, no vote pressed.
Fresh(count) == [shown |-> Sum(count), active |-> None, pending |-> FALSE]

\* fetchPage: a page as the database has it now.
PageNow == [counts |-> Counted, old |-> FALSE]
Aged(p) == [p EXCEPT !.old = TRUE]

NoFetch == [at |-> "none"]
Asked == [at |-> "asked"]
Read(p) == [at |-> "read", page |-> p]

Init ==
  /\ mine = [r \in Reviews |-> None]
  /\ others = [r \in Reviews |-> [v \in Values |-> 0]]
  /\ cached = Counted
  /\ fetch = NoFetch
  /\ mounted = TRUE
  /\ button = [r \in Reviews |-> Fresh(cached[r])]
  /\ mutations = [m \in Slots |-> Resting]
  /\ late = {}
  /\ redis = {PageNow} /\ filling = {} /\ outlived = FALSE
  /\ clicks = 0 /\ faults \in {0, MaxFaults}
  /\ sure = [r \in Reviews |-> FALSE]
  /\ missed = [r \in Reviews |-> FALSE]

\* The effect on [helpfulCount, notHelpfulCount]: a button whose props change
\* from `cached` to `props` takes them over, unless it is pending.
TakeProps(buttons, props) ==
  LET Changed(r) == mounted /\ Sum(props[r]) # Sum(cached[r])
  IN  /\ button' = [r \in Reviews |->
                      IF Changed(r) /\ ~buttons[r].pending
                        THEN [buttons[r] EXCEPT !.shown = Sum(props[r])] ELSE buttons[r]]
      /\ missed' = [r \in Reviews |->
                      IF Changed(r) THEN buttons[r].pending ELSE missed[r]]

-----------------------------------------------------------------------------
\* handleClick, then onMutate: the button moves its own counts; the fetch under
\* way is cancelled; the cached pages are remembered and patched.
Click(m, r, target) ==
  LET before == button[r]
      next == IF before.active = target THEN None ELSE target
  IN  /\ mounted /\ ~before.pending /\ clicks < MaxClicks
      /\ m = clicks + 1
      /\ button' = [button EXCEPT ![r] =
           [shown |-> [v \in Values |-> before.shown[v] + Delta(before.active, next)[v]],
            active |-> next, pending |-> TRUE]]
      /\ mutations' = [mutations EXCEPT ![m] =
           [phase |-> "sent", review |-> r, value |-> next, before |-> before,
            snapshot |-> cached, watched |-> TRUE,
            alone |-> InFlight(r) = {} /\ \A q \in late : q.review # r]]
      /\ cached' = [cached EXCEPT ![r] = Patched(@, before.active, next)]
      /\ fetch' = NoFetch
      /\ clicks' = clicks + 1
      /\ UNCHANGED <<server, api, mounted, missed, outlived, faults, sure, cookie>>

\* The API commits the vote (castVote, removeVote: last write wins) ...
CommitVote(m) ==
  /\ mutations[m].phase = "sent" /\ cookie = "live"
  /\ mine' = [mine EXCEPT ![mutations[m].review] = mutations[m].value]
  /\ mutations' = [mutations EXCEPT ![m].phase = "stored"]
  /\ UNCHANGED <<others, late, api, screen, cached, fetch, outlived, clicks, faults, sure, cookie>>

\* ... or refuses it: 401 without a live session, 404 for a review unpublished
\* meanwhile, 500.
RefuseVote(m) ==
  /\ mutations[m].phase = "sent"
  /\ \/ cookie # "live" /\ faults' = faults
     \/ cookie = "live" /\ faults < MaxFaults /\ faults' = faults + 1
  /\ mutations' = [mutations EXCEPT ![m].phase = "error"]
  /\ UNCHANGED <<server, api, screen, cached, fetch, outlived, clicks, sure, cookie>>

\* invalidateReviewList, awaited before the answer: the page in Redis goes, or
\* stays because Redis fails.  Either way a page read before is old from now on.
Sweep(m) ==
  /\ mutations[m].phase = "stored"
  /\ \/ redis' = {} /\ faults' = faults
     \/ /\ SweepsFail /\ redis # {} /\ faults < MaxFaults /\ faults' = faults + 1
        /\ redis' = {Aged(p) : p \in redis}
  /\ filling' = {Aged(p) : p \in filling}
  /\ mutations' = [mutations EXCEPT ![m].phase = "ok"]
  /\ UNCHANGED <<server, screen, cached, fetch, outlived, clicks, sure, cookie>>

\* The route handler answers 502 for a request the API may still carry out, or
\* the answer to one it has carried out is lost.
LoseAnswer(m) ==
  LET q == mutations[m] IN
  /\ q.phase \in {"sent", "stored", "ok"} /\ faults < MaxFaults
  /\ mutations' = [mutations EXCEPT ![m].phase = "error"]
  /\ late' = IF q.phase = "ok" THEN late
             ELSE late \cup {[review |-> q.review, value |-> q.value, done |-> q.phase = "stored"]}
  /\ sure' = [sure EXCEPT ![q.review] = FALSE]
  /\ faults' = faults + 1
  /\ UNCHANGED <<mine, others, api, screen, cached, fetch, outlived, clicks, cookie>>

\* The API carries out a request the route handler gave up; what its sweep then
\* does to Redis is among what FetchMisses allows at any time.
CommitLate(q) ==
  /\ q \in late /\ ~q.done
  /\ mine' = [mine EXCEPT ![q.review] = q.value]
  /\ late' = (late \ {q}) \cup {[q EXCEPT !.done = TRUE]}
  /\ UNCHANGED <<others, api, screen, cached, fetch, outlived, mutations, clicks, faults, sure, cookie>>

\* Mutant: only onSuccess invalidates.
SettleAndKeep(m) ==
  LET q == mutations[m]
      failed == q.phase = "error"
      props == IF failed THEN q.snapshot ELSE cached
      released == [button[q.review] EXCEPT !.pending = FALSE]
      rolledBack == IF failed THEN q.before ELSE released
  IN  /\ q.phase \in {"ok", "error"}
      /\ mutations' = [mutations EXCEPT ![m] = Resting]
      /\ cached' = props
      /\ TakeProps(IF q.watched THEN [button EXCEPT ![q.review] = rolledBack] ELSE button, props)
      /\ sure' = IF q.watched /\ ~failed THEN [sure EXCEPT ![q.review] = q.alone] ELSE sure
      /\ fetch' = IF failed THEN fetch ELSE Asked
      /\ UNCHANGED <<server, api, mounted, outlived, clicks, faults, cookie>>

\* Mutant: the catch block of handleClick leaves the button pressed.
SettleAndStay(m) ==
  LET q == mutations[m]
      failed == q.phase = "error"
      props == IF failed THEN q.snapshot ELSE cached
      released == [button[q.review] EXCEPT !.pending = FALSE]
  IN  /\ q.phase \in {"ok", "error"}
      /\ mutations' = [mutations EXCEPT ![m] = Resting]
      /\ cached' = props
      /\ TakeProps(IF q.watched THEN [button EXCEPT ![q.review] = released] ELSE button, props)
      /\ sure' = IF q.watched /\ ~failed THEN [sure EXCEPT ![q.review] = q.alone] ELSE sure
      /\ fetch' = Asked
      /\ UNCHANGED <<server, api, mounted, outlived, clicks, faults, cookie>>

\* Mutant: setIsPending(false) is called after the await, not in a finally.
SettleInTheEnd(m) ==
  LET q == mutations[m]
      failed == q.phase = "error"
      props == IF failed THEN q.snapshot ELSE cached
      released == [button[q.review] EXCEPT !.pending = FALSE]
      rolledBack == IF failed THEN [q.before EXCEPT !.pending = TRUE] ELSE released
  IN  /\ q.phase \in {"ok", "error"}
      /\ mutations' = [mutations EXCEPT ![m] = Resting]
      /\ cached' = props
      /\ TakeProps(IF q.watched THEN [button EXCEPT ![q.review] = rolledBack] ELSE button, props)
      /\ sure' = IF q.watched /\ ~failed THEN [sure EXCEPT ![q.review] = q.alone] ELSE sure
      /\ fetch' = Asked
      /\ UNCHANGED <<server, api, mounted, outlived, clicks, faults, cookie>>

\* onError puts back every page as it was remembered, onSettled starts a new
\* fetch in place of the one under way; then the promise of the click settles
\* and the button, if it is still there, is released or rolled back.
Settle(m) ==
  LET q == mutations[m]
      failed == q.phase = "error"
      props == IF failed THEN q.snapshot ELSE cached
      released == [button[q.review] EXCEPT !.pending = FALSE]
      rolledBack == IF failed THEN q.before ELSE released
  IN  /\ q.phase \in {"ok", "error"}
      /\ mutations' = [mutations EXCEPT ![m] = Resting]
      /\ cached' = props
      /\ TakeProps(IF q.watched THEN [button EXCEPT ![q.review] = rolledBack] ELSE button, props)
      /\ sure' = IF q.watched /\ ~failed THEN [sure EXCEPT ![q.review] = q.alone] ELSE sure
      /\ fetch' = Asked
      /\ UNCHANGED <<server, api, mounted, outlived, clicks, faults, cookie>>

-----------------------------------------------------------------------------
\* The window gets the focus back and the stale pages are fetched again.
Refocus ==
  /\ fetch = NoFetch
  /\ fetch' = Asked
  /\ UNCHANGED <<server, api, screen, cached, outlived, mutations, clicks, faults, sure, cookie>>

\* ReviewsService.list: the page Redis holds is the answer ...
FetchHits ==
  /\ fetch = Asked
  /\ \E p \in redis : fetch' = Read(p)
  /\ UNCHANGED <<server, api, screen, cached, outlived, mutations, clicks, faults, sure, cookie>>

\* ... or, when the GET failed or found nothing any more (the page expired, or a
\* sweep of another vote erased it), it is read from the database and stored.
FetchMisses ==
  /\ fetch = Asked
  /\ redis' = {PageNow}
  /\ fetch' = Read(PageNow)
  /\ UNCHANGED <<server, filling, screen, cached, outlived, mutations, clicks, faults, sure, cookie>>

FetchArrives ==
  /\ fetch.at = "read"
  /\ cached' = fetch.page.counts
  /\ outlived' = fetch.page.old
  /\ fetch' = NoFetch
  /\ IF mounted THEN TakeProps(button, fetch.page.counts) /\ UNCHANGED mounted
                ELSE /\ mounted' = TRUE
                     /\ button' = [r \in Reviews |-> Fresh(fetch.page.counts[r])]
                     /\ UNCHANGED missed
  /\ UNCHANGED <<server, api, mutations, clicks, faults, sure, cookie>>

\* A request nobody here waits for misses and reads, and stores the page later:
\* another client's, or one this tab gave up (no abort signal is passed on).
ReaderSelects ==
  /\ faults < MaxFaults
  /\ filling' = filling \cup {PageNow}
  /\ faults' = faults + 1
  /\ UNCHANGED <<server, redis, screen, cached, fetch, outlived, mutations, clicks, sure, cookie>>

ReaderStores(p) ==
  /\ redis' = {p} /\ filling' = filling \ {p}
  /\ UNCHANGED <<server, screen, cached, fetch, outlived, mutations, clicks, faults, sure, cookie>>

\* Another sort is chosen, or a fetch failed for good: the list, its buttons
\* and what they believed are gone until the next pages arrive.  Votes on
\* their way go on without a button.
Unmount ==
  /\ mounted /\ faults < MaxFaults
  /\ mounted' = FALSE
  /\ fetch' = Asked
  /\ mutations' = [m \in Slots |-> IF mutations[m] = Resting THEN Resting
                                   ELSE [mutations[m] EXCEPT !.watched = FALSE]]
  /\ sure' = [r \in Reviews |-> FALSE]
  /\ missed' = [r \in Reviews |-> FALSE]
  /\ button' = [r \in Reviews |-> Fresh(cached[r])]
  /\ faults' = faults + 1
  /\ UNCHANGED <<server, api, cached, outlived, clicks, cookie>>

OtherVotes(r, v) ==
  /\ faults < MaxFaults
  /\ others' = [others EXCEPT ![r][v] = @ + 1]
  /\ faults' = faults + 1
  /\ UNCHANGED <<mine, late, api, screen, cached, fetch, outlived, mutations, clicks, sure, cookie>>

Next ==
  \/ \E m \in Slots, r \in Reviews, v \in Values : Click(m, r, v)
  \/ \E m \in Slots : CommitVote(m) \/ Sweep(m) \/ RefuseVote(m) \/ LoseAnswer(m) \/ Settle(m)
  \/ \E q \in late : CommitLate(q)
  \/ \E r \in Reviews, v \in Values : OtherVotes(r, v)
  \/ Refocus \/ FetchHits \/ FetchMisses \/ FetchArrives \/ Unmount
  \/ ReaderSelects \/ \E p \in filling : ReaderStores(p)

\* Requests are answered, promises settle, fetches complete.
Answering == \E m \in Slots : CommitVote(m) \/ Sweep(m) \/ RefuseVote(m) \/ Settle(m)
Fetching == FetchHits \/ FetchMisses \/ FetchArrives
Fairness == WF_vars(Answering) /\ WF_vars(Fetching)

-----------------------------------------------------------------------------
TypeOK ==
  /\ mine \in [Reviews -> Votes]
  /\ others \in [Reviews -> [Values -> 0..MaxFaults]]
  /\ cached \in [Reviews -> [own : [Values -> -1..2], others : [Values -> 0..MaxFaults]]]
  /\ button \in [Reviews -> [shown : [Values -> -1..(2 + MaxFaults)], active : Votes, pending : BOOLEAN]]
  /\ fetch.at \in {"none", "asked", "read"}
  /\ \A m \in Slots : mutations[m].phase \in {"resting", "sent", "stored", "ok", "error"}
  /\ \A p \in redis \cup filling : p.old \in BOOLEAN
  /\ outlived \in BOOLEAN
  /\ clicks \in 0..MaxClicks /\ faults \in 0..MaxFaults

\* The pressed button is the vote in the database: once the click behind it
\* was confirmed, no request for the review is on its way and none was
\* abandoned half-way, whatever was rolled back, refetched or refused since.
VoteAgrees ==
  \A r \in Reviews :
    mounted /\ sure[r] /\ InFlight(r) = {} => mine[r] = button[r].active

\* Nothing of this user's is on its way, and nothing was ever abandoned.
AtRest == mounted /\ fetch = NoFetch /\ late = {} /\ \A r \in Reviews : InFlight(r) = {}

CountsMyVote(r) == cached[r].own = OwnOf(mine[r])

\* At rest the cached pages count this user's votes as the database does, unless
\* the page they came from is one the sweep after a vote did not catch: only
\* such a page can keep a tab on an old count.  A button shows the count of its
\* props unless a change of props reached it while it was pending: that one is
\* never taken over (vote-buttons.tsx:129).
RestsOnTruth ==
  AtRest =>
    \A r \in Reviews : /\ outlived \/ CountsMyVote(r)
                       /\ missed[r] \/ button[r].shown = Sum(cached[r])

\* What use-vote.ts:92-95 says: the refetch after a vote settled converges on
\* the truth of the server.
ConvergesOnTruth == AtRest => \A r \in Reviews : CountsMyVote(r)

\* Pending buttons are all released in the end, with the votes counted in the
\* cached pages as they are in the database or a page fetched since that the
\* sweep did not catch, or the list is loaded anew, or a request was abandoned.
EventuallyCounted ==
  (\E r \in Reviews : mounted /\ button[r].pending) ~>
    (~mounted \/ late # {}
      \/ \A r \in Reviews :
           ~button[r].pending /\ (CountsMyVote(r) \/ (outlived /\ fetch = NoFetch)))
=============================================================================
