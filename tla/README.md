# Product reviews platform: models, checks and proofs

TLA+ models of the parts of this repository whose correctness depends on the
order in which concurrent things happen: the transactional outbox and its relay,
the writers of the `reviews` table, the vote counters, the rating projection, the
life of the worker's broker connection, the lists with their cursors and their
cache, and the pages of the web app that show something before the server has
answered. Each model is checked by TLC on small instances; the theorems listed in
section 4 are proved with TLAPS for instances of any size.

## 1. The system

```
 browser ── web (Next.js) ── api (NestJS) ──┬── PostgreSQL: reviews, review_votes,
                                            │   product_rating_summary, outbox
                                            └── Redis: cache-aside entries, throttle
                                                     ▲
 worker (NestJS) ── relay:  outbox ──▶ RabbitMQ      │ invalidation
                 ├─ moderation consumer  ◀── review.submitted
                 └─ aggregation consumer ◀── review.approved, review.unpublished
```

| Component | State it keeps | Operations | Interacts through | Hard about it | Correct when |
|---|---|---|---|---|---|
| Reviews writers (`apps/api/src/reviews`, `apps/api/src/moderation`) | `reviews` rows: text, status, `published_at` | submit, update, remove, decide | row locks; outbox rows in the same transaction | unlocked reads, two deciders, edits during moderation | the outbox tells each row's status; a public change is announced |
| Vote writers (same repository) | `review_votes`, `helpful_count` | castVote, removeVote | row lock before the vote row and its foreign-key lock | lock upgrade, counting uncommitted votes | counters equal votes; nobody deadlocks |
| Outbox (`packages/db/src/outbox.ts`) | `outbox` rows | writeOutboxEvent | the caller's transaction | ids appear out of order at commit | an event exists iff its change committed |
| Relay (`apps/worker/src/relay`) | batch transaction, failures list, timer | tick, runOnce, stopAndDrain | SKIP LOCKED claims, publisher confirms | transaction lost under the loop, abandoned publishes, several relays | at least once, never zero |
| AMQP connection (`apps/worker/src/messaging`) | channel, reconnect timer | connect, close, getChannel | events of the socket | reconnects against shutdown | a live channel exists whenever it can; none after close |
| Consumers (`consumer.base.ts`) | in-flight deliveries | deliver, ack, nack, cancel | prefetch 10 | channel gone under a running handler | a delivery is acked only after its work committed |
| Moderation (`apps/worker/src/moderation`) | none | moderate | reads and updates `reviews` | redelivery, racing moderators and editors | each pending review decided once, on its own text |
| Aggregation (`apps/worker/src/aggregation`) | `product_rating_summary` | recompute, invalidate | advisory lock per product | concurrent recomputes | the summary is the aggregate of the approved reviews |
| Moderation policy (`apps/worker/src/moderation/policy.ts`) | none | classify | called by moderation | thresholds, order of the rules | a defect never helps a text |
| Cache-aside (`apps/api/src/common/cache`, `apps/worker/src/cache`) | Redis entries with TTL | get, set, del, delByPrefix | sweeps after votes and recomputes | fill racing a sweep, key without page size | stale for at most one TTL |
| Lists (`common/pagination`) | none (cursor held by the client) | keyset pages | `reviews`, Redis | sort keys that move between pages, pages of different age and size | a review that stays put is listed once |
| Voting page (`apps/web/hooks/use-vote.ts`, `vote-buttons.tsx`) | optimistic counts of a button and of the cached pages | vote, roll back, refetch | route handler, API | late answers, roll-backs over newer pages | comes to agree with the database, as far as Redis lets it |
| Author's page (`use-my-review.ts`, `write-review-section.tsx`, ...) | query, form, dialog | submit, edit, delete, poll | route handlers, API | polls that cross calls, lost answers, forms that unmount | a deleted review stays gone, a draft survives a verdict |
| Moderation page (`moderation-queue.tsx`, `use-moderation.ts`) | two queues, hidden rows, one dialog per queue | approve, reject, reload | route handlers, API | two queues read at different times, two clicks on their way | only decided rows are hidden |
| Session (`app/api/session/route.ts`, `lib/session.ts`) | the cookie | sign in, sign out, expire | every route handler | seconds rounded down, expiry under an open page | the cookie ends with its token |
| Throttle | Redis counters | consume | Redis | fail-open fallback | limit holds while Redis does |
| Health, config, filters, OpenAPI | none | | | | no protocol state |

## 2. The modules

| Module | What it is | Kind |
|---|---|---|
| `EventOutbox` | what an outbox promises, whoever drains it | abstract specification |
| `OutboxRelay` | outbox table and the relays that drain it | detailed, implements `EventOutbox` |
| `OutboxRelayProofs` | theorems about `OutboxRelay` | proofs |
| `PublicReviews` | what the writers of reviews promise to whoever summarises them | abstract specification |
| `RatingProjection` | approved reviews, events, deliveries, advisory lock, summary row | detailed; its writers are `PublicReviews` and its relay is `EventOutbox`, by INSTANCE |
| `RatingProjectionProofs` | theorems about `RatingProjection` | proofs |
| `ReviewLife` | the life of a review, each operation one atomic step | abstract specification |
| `ReviewStore` | the writers of `reviews`, their locks, the event log, the moderation consumer | detailed, implements `ReviewLife` and `PublicReviews` |
| `ReviewStoreProofs` | theorems about `ReviewStore` | proofs |
| `Ballot` | what voting on one review promises | abstract specification |
| `VoteTransactions` | castVote and removeVote, statement by statement, with PostgreSQL's row locks | detailed, implements `Ballot` |
| `VoteTransactionsProofs` | theorems about `VoteTransactions` | proofs |
| `ModerationPolicy` | `classify` as an operator; its verdicts are the ones `ReviewStore` runs with | pure algorithm |
| `WorkerLifecycle` | the broker connection's reconnect loop beside boot and shutdown of the worker | detailed |
| `WorkerLifecycleProofs` | theorems about `WorkerLifecycle` | proofs |
| `Keyset` | the four sorts, the cursor and its WHERE clause | pure algorithm |
| `KeysetProofs` | theorems about `Keyset` | proofs |
| `ReviewListing` | lists read page by page, through the cache, while reviews change | detailed, uses `Keyset` |
| `ReviewListingProofs` | theorems about the cache and the lists of `ReviewListing` | proofs |
| `VoteWidget` | vote buttons, the cached pages, the votes the API keeps and the page it keeps in Redis | detailed |
| `AuthorPage` | an author's own review: query, form, dialog and three calls | detailed |
| `ModerationDesk` | the two moderation queues and the decisions taken at them | detailed |
| `Session` | sign-in, the cookie and its token | detailed |
| `WebPages` | the four above as the pages of one tab over one session cookie | composition |
| `WebPagesProofs` | theorems about `WebPages` | proofs |
| `MC...` | definitions TLC needs for an instance of the module named after MC; `RatingProjection` and `WebPages` need none | model checking |

How they fit together: `ReviewStore` writes the event log, `OutboxRelay` carries it
to the broker, `RatingProjection` takes it from there to the summary row, and
`WorkerLifecycle` decides whether anybody is consuming at all. They meet in two
abstract specifications. `ReviewStore` is proved to implement `PublicReviews` and
`OutboxRelay` to implement `EventOutbox`; `RatingProjection` moves its reviews by the
actions of the one and its outbox by the actions of the other, so what is shown of it
is shown for any writers and any relay that keep those promises. What a review shows
is a body in `ReviewStore` and the rating of that body in `RatingProjection`.

The three are not one state space: the promises are about each part by itself, and
that an event is written in the transaction of its change is in `RatingProjection` one
step of the writer and the outbox together. For liveness `RatingProjection!FairSpec`
takes what `OutboxRelay!EventuallySettled` shows. `VoteTransactions` takes the status
changes of `ReviewStore` as three one-step writers, `ReviewListing` takes the committed
changes of both as its history of rows, and the web modules take what one API call
does to a row as one step. `WebPages` is a composition by INSTANCE: every page reads
the `cookie` that `Session` changes.

### OutboxRelay and EventOutbox

| Model | Code |
|---|---|
| `written`, `published`, `attempts` | the committed columns of `outbox` |
| `accepted`, `wire` | copies the broker took; frames sent whose publish was abandoned at its deadline |
| `pc`, `todo`, `failed` | where `runOnce` is, its claimed rows, its `failures` list |
| `txOpen`, `marked` | the batch transaction as the database sees it, and the rows marked in it |
| `polling` | the interval timer |
| `Claim` | `tick` and `claimBatch`: the first `BatchSize` due rows nobody has locked, in id order |
| `PublishConfirmed`, `PublishRefused`, `ConfirmLost`, `PublishTimesOut`, `LateFrame` | the ways one `publish` under `withDeadline` can end, and the frame that arrives afterwards |
| `MarkPublished`, `Commit`, `RecordFailure` | the mark, the commit of the batch, and the failures recorded one by one after it |
| `LoseTransaction`, `LoseCommitAck`, `RecordThrows`, `BatchThrows`, `Crash` | the errors `runOnce` lets end the batch |
| `Stop`, `Drained`, `Start` | `stop`, `stopAndDrain`, a new process |

The JavaScript loop and the database transaction are separate state because they
fail separately: a transaction the server has already rolled back does not stop the
loop from publishing the next row.

### RatingProjection

`live` and `version` are the variables of `PublicReviews` (`Approve`, `Unpublish`
change the reviews and write an event in one step); `sent`, `settled`, `parked` are
those of `EventOutbox`: copies with the broker, rows marked published, rows given up.
`Deliver` is possible at any time, since an abandoned publish can arrive after its row
was settled or parked. `queue`, `dead` are the broker's; one `Handlers` element per
prefetch slot goes through `waiting`, `locked`, `computed`, `acking`, the statements
of `SummaryRepository.recompute` and the ack after it. `Throw`, `ThrowAfterCommit`
dead-letter; `LoseChannel` requeues the delivery while the handler runs on; `Crash`,
`Cancel`, `Restart` end and begin a process's slots. `Forget` empties what a handler
computed when its transaction ends. `summaryVersion` and
`seenVersion` are history variables: which events a result reflects. The writers and
the relay are the actions of `PublicReviews` and `EventOutbox`, so that the module
keeps those two promises holds by construction and is not a theorem;
`StoreFeedsProjection` and `RelaysImplementOutbox` are what has to be proved.

### ReviewStore

One row per id, the outbox as a sequence `log` in commit order, and one transaction
per session (`tx`). `update` and `remove` lock first and look afterwards, `decide`
and `moderate` put their condition in the UPDATE's WHERE clause, and `moderate`
reads the text it classifies without a lock; each of these is a step of its own,
everything a transaction does while it holds the row up to its commit is one step.
`Deliver`, `Receive`, `Throw`, `Duplicate`, `Abort` are the moderation queue.
`judged` is a history variable: the body the decision in force was made about.

To `ReviewLife` a transaction is one step, its commit: `Life` shows it each row's
status and body and the log, and hides locks, reads and deliveries. To `PublicReviews`
only approved rows show a body, and `version` counts the events that are announcements
(`Public`). `ReviewLife` promises nothing about which body a verdict was made about;
`ReviewStore_judged` shows why it cannot.

### VoteTransactions and Ballot

`at` is the next statement of each session's transaction, `locks` the row lock modes
it holds on the review, `seen` the votes the counting UPDATE's snapshot showed it.
`After` is the order of the statements and `Needs` the lock mode each one has to
get: FOR UPDATE for `lockReviewRow`, the foreign key's KEY SHARE for an inserted
vote, NO KEY UPDATE for the counters. The snapshot (`CountVotes`) and the write
(`Commit`) are two steps because a statement that waits for its row lock keeps the
snapshot it began with. `Approve`, `Hide`, `Delete` are `decide`/`moderate`,
`update` and `remove` as they look to a voter.

### WorkerLifecycle

`conn`, `channel`, `timers` are `AmqpConnection`; `captured`, `registered`,
`running` the channel the bootstrap hook captured, the consumer handles and their
`inFlightCount`; `stage` is how far boot or shutdown has come. Each `await` of
`onApplicationBootstrap` and `onApplicationShutdown` ends a step, so connections can
be lost between any two. `CancelRejects` is what `channel.cancel` does on a closed
channel.

### ModerationPolicy

A text is what the rules measure of it: `banned`, `length`, `letters`, `capitals`,
`urls`, `tokens`, `run`, `duplicate`. The ratios of `policy.ts` are comparisons of
products of integers. `ReviewStore`'s constant
`Says` gives the measures of each body, and `Verdict` is what `Classify` answers to
them; `MCReviewStore` gives three bodies, one per verdict.

### ReviewListing and Keyset

| Model | Code |
|---|---|
| `history` | the rows of one product after each commit; a page names the version it was read from |
| `jobs`, `summary` | the invalidation each commit owes: a vote's own sweep, or the worker's recompute, `del` and sweep |
| `cache`, `swept` | the Redis entries; `swept` is a history variable |
| `requests` | list requests between their GET, their SELECT and their SET |
| `tab` | the pages of one infinite query, and the fetch under way |
| `Vote`, `Publish`, `Edit`, `Remove` | what the writers do to a row, as a list sees it |
| `Recompute`, `DeleteDetail`, `SweepAfterVote`, `ScanAndDelete`, `SweepFails` | the worker's and the API's invalidation; `delByPrefix` deletes in batches |
| `OtherAsks`, `TabHits`, `TabMisses`, `GetFails`, `ReadRows`, `Store`, `StoreFails`, `ReadUncached` | cache-aside reads, each Redis call and the SELECT a step of its own |
| `Expire` | the TTL |
| `Refetch`, `LoadMore` | the infinite query: all pages one by one, or one more |

A page is not stored as rows but as what determines it, (version, limit, cursor);
`Items` recomputes the rows. That keeps a state small, and lets a property ask where
a row stood when each page was read.

### The pages of the web app

A route handler is what it can answer: refused without a live session, refused or
failed by the API, unreachable while the API still carries the request out, or done.

- `VoteWidget`: `button` is the state of `VoteButtons`, `cached` the counts in the
  query cache, `mutations` the votes on their way with the snapshot `onMutate` took,
  `late` the requests a 502 was answered for while the API still has them. A count is
  kept as this user's part and the others' part, so that a property can say which of
  them is wrong; code and screen know only their sum. `redis` is the first page
  `ReviewsService.list` keeps there, `filling` pages read for requests nobody in this
  tab waits for (another client's, or one this tab gave up: no abort signal is passed
  on), which are stored whenever those requests get there (`ReaderSelects`,
  `ReaderStores`). A vote is `CommitVote`, then `Sweep` (`invalidateReviewList`, which
  may fail), then its answer. A fetch of the tab finds the page of Redis (`FetchHits`)
  or reads the database and stores what it read (`FetchMisses`, possible at any time:
  the TTL ended, the GET failed, or somebody else's sweep erased the page). Each page
  remembers whether it is `old`, read before a sweep of this user's vote and still in
  Redis or on its way there after it, and `outlived` whether the page last shown is.
- `AuthorPage`: `View` and `FormKey` are the conditions and the React key that decide
  which component instance stays; `Render` applies them after every change, so a form
  that unmounts loses its text and a call that outlives its component settles without
  it. `adrift` are the calls a 502 was answered for while the API still has them
  (`Abandon`, `CarryLate`). `gone` and `due` are history variables.
- `ModerationDesk`: each queue has its `listed` rows, its `removed` ids, its one
  `pending` approval and its dialog. `Decide` decides whichever submission waits.
- `Session`: a clock in ticks, `Second` ticks to the second; `MaxAgeFromToken` is the
  route handler's rounding.

## 3. What the runs show

Passing runs:

| Run | Instance | Shows |
|---|---|---|
| `OutboxRelay_pipeline` | 2 relays, 2 rows of one review, batches of 2, limit 2, the first row unparseable, 1 fault, 1 stop | `LocksExclude`, `NoLostEvent`, `CopiesAccountedFor`, `AttemptsBounded`, `OvertakingExplained`, the refinement `ImplementsOutbox`, `EventuallySettled` |
| `RatingProjection_summary` | 2 reviews of one rating, 2 handlers, 2 events, 2 faults | `NoDrift`, `NeverOverwritesNewer`, `EventuallyReflected` |
| `ReviewStore_moderated` | 2 ids, 2 sessions, 3 requests, 1 fault; one body per verdict | `LogTellsStatus`, `LogIsLegal`, the refinement `ImplementsLife`, `EventuallyDecided`, and of the policy `DefectsNeverHelp` |
| `VoteTransactions_safety` | 3 users, one of them the author, 3 sessions, no bound on requests | `CountsMatchVotes`, `NoDeadlock`, the refinement `ImplementsBallot` |
| `WorkerLifecycle_process` | 2 connections, 2 deliveries per consumer, 3 faults | `OneReconnector`, `DrainedBeforeClosed`, `EventuallyConnected`, `ShutdownEnds` |
| `ReviewListing_pages` | 3 reviews, two created in the same millisecond; up to 2 changes or 1 change and 1 Redis failure; 4 settings (helpful, newest filtered by rating, the moderation queue, the author's list); pages of 1 for the tab, 2 for others | `CachedSinceSweep`, `NewestNeverRepeats`, `UnmovedListedOnce`, `EventuallyFresh` |
| `WebPages_tabs` | one page at a time: 2 clicks on 2 reviews, sweeps may fail; 2 calls of an author; 2 decisions about 2 reviews; a sign-in over 8 half-second ticks; each with 1 fault or a session that ends | `VoteAgrees`, `RestsOnTruth`, `EventuallyCounted`; `DeletedStaysGone`, `DraftSurvives`, `SeenInTheEnd`, `PollCatchesUp`; `HiddenWasDecided`, `DecidedLeavesBoth`; `CookieFollowsToken` |

Runs that end in a violation, each of something the repository says of itself:

| Run | What is said | What happens |
|---|---|---|
| `ReviewStore_judged` | `moderation.repository.ts:47-49`: the WHERE predicate closes the window the unlocked read opens | an edit in the window leaves the row PENDING, so a verdict on the old text is written to the new one |
| `OutboxRelay_ordering` | `outbox.repository.ts:80-83`: ORDER BY id preserves the order of a review's events | after a failed publish the review's next event goes first; `OvertakingExplained` says exactly when that can happen |
| `WorkerLifecycle_comeback` | `consumer.base.ts:144-146`: deliveries come again once a consumer reconnects | after a reconnect no consumer is registered again |
| `WebPages_counts` | `use-vote.ts:93-95`: "a refetch after this settles converges on the server's own truth" | a reader that missed before the vote committed stores its page after the sweep, the refetch is answered from it, and the tab is at rest without the vote; no sweep has to fail for that. `RestsOnTruth` says that a page the sweep did not catch is the only way |
| `WorkerLifecycle_drain` | `main.ts:12-13`: the shutdown does not drop in-flight work | after a reconnect `cancel` rejects and the drain is skipped |

One statement is contradicted by a property that holds. The comment at
`your-review-section.tsx:41-44` says that the edit form remounts when the review
changes under it, from "the moderation worker rewriting the status" among others. Its
key is made of id, rating, title and body, so a new status remounts nothing and what
was typed stays (`DraftSurvives` in `WebPages_tabs`). The mutant of `DraftSurvives`
is the code the comment describes: it loses the draft with every verdict.

Three further statements that the models make precise: a reconnect under way when
`AmqpConnection.close` runs is not stopped by it, because the timer does not look at
`shuttingDown`, but it never exists beside another connection (`OneReconnector`); a
row's attempts can reach `MaxAttempts - 1 + |Relays|` (`AttemptsBounded`), because a
failure is recorded after the lock is given back;
and every copy of an event beyond the first has a recorded cause
(`CopiesAccountedFor`).

Statements of the code that the web models showed to be narrower than they read, each
written into the property that covers it rather than given a run of its own:

- `use-vote.ts:93-95` once more: even when the refetch brings the truth into the cached
  pages, a button that was pending when its props changed ignores them
  (`vote-buttons.tsx:129`) and keeps its own count until they change again
  (`RestsOnTruth`, with `missed`).
- `review-form.tsx:151-154`: nothing typed is lost. A poll that fails for good
  unmounts the form (`write-review-section.tsx:57`), with what was typed
  (`DraftSurvives` excepts it).
- `moderation-queue.tsx:102`: `removedIds` only grows. A review that its author
  submits again is a row of the queue once more, and stays hidden at the desk that
  decided it before until the page is reloaded (`HiddenWasDecided` says no more than
  that some submission of it was decided).
- `app/api/session/route.ts:35`: a token with less than a second left gets the
  fallback age of twelve hours. `CookieFollowsToken` covers the rounding and excepts
  this case (`dead`).
- `products.service.ts:63`: a reader that missed before a sweep and stores after it
  leaves a stale page behind. That is the only way (`CachedSinceSweep`), and it lasts
  for one TTL (`EventuallyFresh`).

### Bounds, and why they are enough

- Two relays, two rows of one review: a relay can hold one row while the other claims
  the next, fail it, or meet it again after the lock is free. A limit of 2 attempts
  lets a row fail once and be retried, and reach the limit. One fault ends a batch at
  any point of it; two rows are enough for one to have been published and one not.
- Two handlers: one waits for the advisory lock while the other holds it. Two events:
  one is older than the other. Two reviews: the one count, of the one rating, goes up
  to two. Two faults, of any kind: a delivery can be lost with its channel and its event be
  sent again, or one event be parked and the handler of the other crash. Redelivery and
  parking count as faults, so at most two copies beyond the first or two parked rows
  occur; the theorems about this module have no such bound.
- Two sessions in `ReviewStore`: an API request against the moderation worker, or
  against another request. Three requests: a submission and two of edit, decide, remove,
  beside the automatic verdict and its redelivery.
- Three sessions in `VoteTransactions`: one holds the row, one waits, one starts.
- Three faults in `WorkerLifecycle`: a lost connection, a failed reconnect and a
  connection lost again; two connections, since at most one exists (`OneReconnector`).
- Pages of one row over three reviews: a second page exists, a row can move from
  either side of the seam to the other, and two rows tie on their key. The cached page
  is of size two, so the sizes differ.
- Two clicks, calls or decisions: one is answered while the other is on its way. A
  third adds no pair. One fault or one change by somebody else may fall anywhere
  between them; a behaviour without any is there as well, so nothing holds only
  because of the fault. Giving up a call with a 502 is the fault; that the API carries
  it out later is none, so the two occur together. Two faults in one behaviour do not:
  of the voting page and of `DraftSurvives`, `DeletedStaysGone` the theorems cover
  them; of `SeenInTheEnd` and `PollCatchesUp` nothing does.
- One vote value in `WebPages_tabs`: a vote is cast or taken back. Changing one value
  for the other is in `WebPages_counts`, and in the theorems about the page, which
  hold for any values.
- The session of an open page ends one tick after the start or never, and the page
  has no other fault when it does.
- Symmetry is used in `VoteTransactions_safety` only, over sessions and over the users
  other than the author, whom nothing in the module tells apart.
- Deadlock is checked for `VoteTransactions`, which can always go on. The other
  instances stop when their bounds are used up or the process has exited, so their
  configurations switch it off.

### Fairness

- `OutboxRelay`: weak fairness of each relay's own steps. The interval timer fires
  until it is cleared and every publish has a deadline. Nobody is obliged to write,
  to restart a worker (the compose file sets no restart policy for it), or to deliver
  an abandoned frame; so `EventuallySettled` exempts the case that no relay polls
  any more.
- `RatingProjection`: the relay delivers and settles each event it has not settled or
  given up yet (what `OutboxRelay_pipeline` shows; a late frame need not arrive), each
  handler goes on, and each queued event is received, under strong fairness since a
  slot is free again and again only: the queue is first in, first out, so other events
  and their copies cannot keep one waiting for ever. Restarts are not fair, so
  `EventuallyReflected` exempts the case that nobody stays subscribed.
- `ReviewStore`: weak fairness of transactions, deliveries and the moderation
  consumer. That some moderation consumer is subscribed is an assumption; the finding
  of `WorkerLifecycle_comeback` is how it fails.
- `ReviewListing`: weak fairness of each change's invalidation, of each request that
  has been accepted, and of each TTL. Nobody is obliged to ask, and the tab need never
  refetch.
- `WebPages`: per page, weak fairness of what needs nobody outside the tab. A request
  to the API is answered, with whatever outcome, and its promise settles
  (`Answering`, `Settling`; the sweep before a vote's answer is part of `Answering`,
  and may fail); a fetch under way is answered, from Redis or from the database
  (`Fetching`), or completes or fails (`Loading`); the poll's timer fires while it is set (`Polling`). Users need not
  click, other readers need not store what they read, and the author's calls need not be carried out: `SeenInTheEnd` begins with
  an answer that has arrived.
- `WorkerLifecycle`: weak fairness of boot, reconnect and shutdown steps, that is of
  timers, deadlines and answers. Handlers and relay ticks may hang for ever.

## 4. What is proved

The theorems hold for every value of the constants that satisfies the modules' named
assumptions: the bounds are natural numbers, sizes and limits are positive, relays
and reviews are finite sets, a list is of a known source and sort, and no text has
more capitals than letters.

| Theorem | States | Argument |
|---|---|---|
| `OutboxRelayProofs!TypeCorrect` | `TypeOK` | inductive as it stands |
| `OutboxRelayProofs!LocksHold` | `LocksExclude` | a claim takes only rows that nobody has locked and that are not published, and a commit publishes only rows its own batch holds, so no other open batch meets them |
| `OutboxRelayProofs!NothingLost` | `NoLostEvent` | needs `ConfirmedIsAccepted`: between confirm and mark the broker has the row; and `PhasesClean`: a transaction that is gone holds no marks |
| `OutboxRelayProofs!AttemptsAreBounded` | `AttemptsBounded` | `AttemptBudget`: attempts plus the relays still engaged with the row never exceed the bound, since a row is claimed only below the limit and each engaged relay adds at most one |
| `OutboxRelayProofs!CopiesHaveACause` | `CopiesAccountedFor` | `CopyBudget`: a copy is paid for by the mark that follows it, by the failure still sure to be recorded, by an attempt or by a fault, and a loop that does not know its transaction is gone still owes its fault's copy; `LocksExclude`: open batches share no row and hold none that is published |
| `OutboxRelayProofs!OvertakingHasACause` | `OvertakingExplained` | `SentInOrder`: without faults, once a later event of a review is sent, the earlier one was sent, failed or is in a batch; a claim takes the earlier due rows with the later (`EarlierIsClaimedFirst`) |
| `OutboxRelayProofs!RelaysImplementOutbox` | `ImplementsOutbox` | step simulation, with `NoLostEvent` for settling and `OnlyWrittenTravels` for delivering |
| `RatingProjectionProofs!TypeCorrect` | `TypeOK` | inductive as it stands |
| `RatingProjectionProofs!ProjectionNeverDrifts` | `NoDrift` | `HandlersKnow` (what a handler computed reflects every event up to its `seenVersion`, so at least the one it holds) under `LockExclusive`; `SentIsTracked`: an event the broker took is reflected, still at the consumer, or lost |
| `RatingProjectionProofs!RecomputesNeverGoBack` | `NeverOverwritesNewer` | a handler that computed under the lock saw no less than the summary reflects |
| `ReviewStoreProofs!TypeCorrect` | `TypeOK` | projected from `IInv` |
| `ReviewStoreProofs!LogAlwaysTellsStatus` | `LogTellsStatus` | `LocksHold`: row locks are exclusive, and a row stays as the transaction that locked it found it, so the event written at the commit belongs to the status the row gets |
| `ReviewStoreProofs!LogIsAlwaysLegal` | `LogIsLegal` | the last event tells the status (`LogTellsStatus`), and each writer's guard on the status is exactly what makes its event a legal next one |
| `ReviewStoreProofs!StoreImplementsLife` | `ImplementsLife` | step simulation: each commit is one step of `ReviewLife` because under the lock the row is still what the transaction decided on (`LocksHold`), and a new id has no event yet (`RowsAreLogged`) |
| `ReviewStoreProofs!StoreFeedsProjection` | `ImplementsPublic`: the source `RatingProjection` takes | each commit appends at most one announcement, and an approved body is never replaced without being unpublished first |
| `ReviewStoreProofs!PolicyIsMonotone` | for all texts: more defects are not judged more mildly; a verified purchase lifts flags, no rejection | rule by rule: each compares counts or a ratio of counts, of which the second text has no less |
| `ReviewStoreProofs!DefectsHelpNobody` | `DefectsNeverHelp` | `PolicyIsMonotone` for the texts the run enumerates |
| `ReviewStoreProofs!ChangesAreAnnounced` | `VisibilityIsAnnounced`: a change of what the public sees has its event in the same step | per writer, from `LocksHold`: the status it checked is still the status it overwrites |
| `VoteTransactionsProofs!TypeCorrect` | `TypeOK`, with the foreign key | projected from `IInv` |
| `VoteTransactionsProofs!CountsAlwaysMatch` | `CountsMatchVotes` | `SnapshotIsCurrent`: no other transaction can commit a vote between a session's snapshot and its commit, because `HolderIsAlone` |
| `VoteTransactionsProofs!NeverDeadlocks` | `NoDeadlock` | a session that holds a lock on the review holds it alone, so it waits for nobody |
| `VoteTransactionsProofs!TransactionsImplementBallot` | `ImplementsBallot` | step simulation, with `CheckedWhenWriting`: the check made under the lock still holds at the commit |
| `WorkerLifecycleProofs!TypeCorrect` | `TypeOK` | inductive as it stands |
| `WorkerLifecycleProofs!AlwaysOneReconnector` | `OneReconnector` | `SingleLink`: a timer, an attempt and a live connection exclude each other, because only the close of the one live connection starts a timer |
| `WorkerLifecycleProofs!ClosedOnlyWhenDrained` | `DrainedBeforeClosed` | `Quiet`: what a phase of the shutdown has waited for stays finished, since nothing new is taken once consumers and relay are told to stop |
| `KeysetProofs!ListsAreTotallyOrdered` | the order of each sort is total | the id breaks every tie of the key |
| `KeysetProofs!CursorResumesAfterItsRow` | the WHERE clause of a cursor is the order | by cases on the sort and the comparison of the keys |
| `KeysetProofs!CursorSelectsATail` | a row listed after a selected row is selected | from the two above |
| `KeysetProofs!ListsHaveEnds` | a finite list that is not empty has a first and a last row | the row with the smallest set of rows listed before it (after it): strict subsets of a finite set are well founded |
| `KeysetProofs!PagesEndInOneRow` | a page ends in one row, and what it leaves out is what is listed after that row | of a finite list the kept rows are closed under what is listed before them, so the last of them (`ListsHaveEnds`) divides the list |
| `ReviewListingProofs!CacheNeverOlderThanSweep` | `CachedSinceSweep` | `ReadsAreCurrent`: what a request reads is as new as the sweeps before its miss, which for the product's detail needs `SweptIsReadable` |
| `ReviewListingProofs!DetailSweptAfterRecompute` | the sweep of the detail never runs ahead of its summary | the worker's job is recomputed before it deletes (`SweptIsReadable`) |
| `ReviewListingProofs!NewestListsEachOnce` | `NewestNeverRepeats` | `TabInv`: what a page of the tab reaches lies after the cursors of all pages before it; a creation time never changes, so a row has the same place in every version and lies on one side of each cursor |
| `ReviewListingProofs!UnmovedIsListedOnce` | `UnmovedListedOnce` | `TabInv` also has the versions of the pages never go back: a row that stood still from the first to the last was there for each page, and each cursor divided the list at it or beside it (`PagesEndInOneRow`), so it is in exactly one page or past the last cursor |
| `WebPagesProofs!CookieAndTokenEndTogether` | `CookieFollowsToken` | `AgeFollowsToken`: the age in an answer on its way was rounded down from the token's end at the moment it was made |
| `WebPagesProofs!OnlyDecidedIsHidden` | `HiddenWasDecided` | rows are hidden by answers only; `TextsCounted` and `DeskTypes` give that the answer names a review and a submission of it |
| `WebPagesProofs!PressedIsTheVote` | `VoteAgrees` | `SureIsKept`: what was confirmed survives the clicks that follow, whose answers roll back to it or commit in its place; `AloneStaysAlone`: a vote clicked when nothing else of the review was on its way stays the only one; `WatchedPresses`: a button has one vote on its way |
| `WebPagesProofs!CountsRestOnTruth` | `RestsOnTruth` | `PagesAreSound`: with none of this user's votes between commit and sweep (`Swept`), each page in Redis or on its way there counts the database's votes or is marked old; `OwnsAreTrue`: so does, with no vote on its way, what a fetch has read or left, since every settled vote asks for a new fetch; `ButtonsShowProps`: what a refused click rolls the button back to is the sum of what it rolls the cache back to |
| `WebPagesProofs!TypedIsKept` | `DraftSurvives` | `DraftInv`: something typed is in a form on the screen, so a render that drops it has replaced the form by one with another key: the review or its text changed, the query failed, or the edit ended |
| `WebPagesProofs!DeletedNeverComesBack` | `DeletedStaysGone` | `Alive`: neither the row, nor what the page shows, nor what a poll under way has read is a deleted review; `Deletions`: a deletion that is answered left no such row; ids are never given twice |

Hardly any of these invariants is inductive by itself: `NoLostEvent` says nothing of
the row a relay is about to mark, `NoDrift` nothing of the result a handler is about
to commit, `CountsMatchVotes` nothing of a snapshot about to be written,
`DeletedStaysGone` nothing of the poll about to arrive. The strengthening
stated at the head of each proof (one or more per page in `WebPagesProofs`) adds that.

Only model-checked are the liveness properties (`EventuallySettled`,
`EventuallyReflected`, `EventuallyDecided`, `EventuallyConnected`, `ShutdownEnds`,
`EventuallyFresh`, `EventuallyCounted`, `SeenInTheEnd`, `PollCatchesUp`,
`DecidedLeavesBoth`): they rest on fairness, which the prover does not reason about.

The type invariants of `ReviewListing` and of the web modules are there to say what
the variables hold; no run lists them. The proofs use type invariants of their own.

## 5. Abstractions

- A body stands for title, body and rating together. Its verdict is what
  `ModerationPolicy` computes from the measures of a text (lengths, counts, ratios);
  characters, word list and regular expressions do not appear. Whether the author
  bought the product does not appear either: `Says` of such a body has nothing in it
  that a purchase would excuse.
- `RatingProjection` and `ReviewStore` keep a queue as a set of events: two copies of
  one event waiting at the same time are one element. Handling an event twice is
  still possible, one copy after the other or a copy in two hands.
- One product, one review for the votes: transactions on different products or
  reviews share no row and no advisory lock key.
- A failure of a statement rolls its transaction back; partial writes do not occur,
  as PostgreSQL guarantees.
- Row locks wait without an order: PostgreSQL's queue is one of the orders allowed.
- Time is left out, except in `Session`: a timer, timeout or deadline may end at any
  moment it is pending.
- A channel that closes while its connection stays up is not modelled in
  `WorkerLifecycle`: `AmqpConnection` listens to its connection only, so what it does
  then is nothing. `RatingProjection` has the lost channel as the consumers see it.
- The page of Redis in `VoteWidget` is one entry, whatever sort and filter: a vote's
  sweep deletes them all, and a tab shows one. The SELECT and the SET of the tab's own
  fetch are one step, since its answer comes after both; the same two of other
  requests are two steps. Sweeps by others and the TTL are the miss that is possible at
  any time. A failed sweep leaves the page; `ReviewListing` has the sweep in batches.
- `LockForUpdate` and `LockForRemove` leave out that the caller has to be the author
  (or a moderator): refusing a caller changes nothing, so the model only allows more.
- A topology that the broker refuses while the connection stays up is not
  modelled; `ConnectFails` closes the connection that failed.
- `ReviewListing` reads a list as of a version of the rows: each SELECT sees one
  committed state, as a single statement does in PostgreSQL.
- One user, one tab and one open page at a time; what other tabs, users and the worker do is a
  change of the database. In the web modules a queue or a list is one page of it; its
  cursors are the business of `ReviewListing`.
- A vote count is split into the user's own part and the others' (section 2).

## 6. Not modelled, and the plan

Left out:

- Throttling. The fixed window is counted by the throttler library's script in Redis;
  the guard of this repository names the key and fails open. A 429 is one of the
  refusals the web models allow.
- Rendering, the catalogue and search: they read and keep nothing.
- Configuration, health checks, exception filters, OpenAPI, deployment, seed data and
  CI: start-up validation, formatting and set-up.
- Roles and password hashing: checks without state. Declaring exchanges and queues:
  idempotent.
- Of the web app: `router.refresh`, which renews the server-rendered summary; the
  text of an error message; and a query client that outlives a sign-out, since a tab
  has one user here.

Next, in this order:

1. `ReviewStore`, `OutboxRelay` and `RatingProjection` in one small state space, to
   check together what each is now shown to promise the next by itself.
2. The chain as one theorem: `RatingProjection` with the variables of `ReviewStore`
   and `OutboxRelay` substituted for its source and its outbox.
3. A channel that closes alone in `WorkerLifecycle`.
4. A refinement for the worker's connection: that a session of the broker is used only
   while it lives, as an abstract specification `WorkerLifecycle` implements.
