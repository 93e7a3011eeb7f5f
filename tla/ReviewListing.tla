--------------------------- MODULE ReviewListing ---------------------------
(* Reading lists while they change.  Votes, publications, edits and deletions *)
(* commit one after another; the API answers list requests from Postgres,     *)
(* keeping the first page of every public list and the product detail in      *)
(* Redis (cache-aside, reviews.service.ts and products.service.ts); a vote     *)
(* sweeps the lists out of the cache after its commit (votes.service.ts), a    *)
(* publication or withdrawal after the worker recomputed the rating summary   *)
(* (aggregation.consumer.ts).  A browser tab pages through one list with      *)
(* TanStack's infinite query (use-reviews.ts): "load more" appends a page,    *)
(* an invalidation fetches all its pages again, one by one, and swaps them    *)
(* in together.                                                               *)
(*                                                                            *)
(* A page is kept as what determines it: the version of the rows it was read  *)
(* from, the page size and the cursor.  A behaviour is bounded by its setting  *)
(* (committed changes, Redis failures) and by MaxPages.                       *)
EXTENDS Keyset, Sequences, FiniteSets

CONSTANTS
  Ids,          \* reviews of one product, integers ordered like their UUIDv7
  Movers,       \* those that change while the lists are read
  Created,      \* [Ids -> Int]: createdAt, never rewritten
  Mine,         \* the reviews written by the author who lists their own
  FirstRows,    \* [Ids -> [status, helpful, rating]] before any change
  Ratings,      \* the ratings an edit may choose
  Swings,       \* what one vote may do to helpfulCount
  ListKeys,     \* the public lists read: [source |-> "reviews", sort, rating]
  Settings,     \* [list, keys, changes, faults]: the list of the tab, the
                \* cache keys read, the bounds on changes and Redis failures
  Limits,       \* page sizes other clients ask for
  TabLimit,     \* page size of the tab (the schema's default, 20)
  Clients,      \* request slots of the API
  MaxPages      \* pages the tab loads

ASSUME RowsAssumption ==
  /\ Ids \subseteq Int /\ IsFiniteSet(Ids)
  /\ Movers \subseteq Ids /\ Mine \subseteq Ids
  /\ Created \in [Ids -> Int]
  /\ FirstRows \in [Ids -> [status : {"PENDING", "APPROVED", "DELETED"},
                            helpful : Nat, rating : 1..5]]
  /\ Ratings \subseteq 1..5 /\ Swings \subseteq Int
\* A tab lists the product's reviews, its user's own or the queue, in an order
\* the query schema knows.
ASSUME ListsAssumption ==
  \A s \in Settings : s.list.source \in {"reviews", "mine", "queue"} /\ s.list.sort \in Sorts
ASSUME SizesAssumption ==
  /\ Limits \subseteq Nat \ {0}
  /\ TabLimit \in Nat \ {0}
  /\ MaxPages \in Nat \ {0}
  /\ \A s \in Settings : s.changes \in Nat /\ s.faults \in Nat

VARIABLES
  history,      \* the rows after each commit, oldest first; the last is now
  summary,      \* the version of the rows the rating summary was computed from
  cache,        \* [Keys -> a stored page, or Miss]
  swept,        \* [Keys -> newest version whose invalidation deleted the key]
  jobs,         \* the invalidation each change owes, in the order of changes
  setting,      \* the member of Settings this behaviour is about
  requests,     \* [Clients -> a list request being served, or Idle]
  tab,          \* what the tab shows and is fetching
  faults        \* Redis failures so far

data == <<history, summary, jobs, setting>>
vars == <<history, summary, cache, swept, jobs, setting, requests, tab, faults>>

Now == Len(history)
\* cacheKeys.productDetail and reviewListFirstPage: no page size in the key.
Detail == [source |-> "detail", sort |-> "none", rating |-> 0]
Keys == ListKeys \cup {Detail}
ASSUME KeysAssumption == \A s \in Settings : s.keys \subseteq Keys
MaxChanges == CHOOSE n \in {s.changes : s \in Settings} : \A s \in Settings : n >= s.changes
Miss == [version |-> 0, limit |-> 0, floor |-> 0, since |-> 0, expires |-> FALSE]
NoCursor == [key |-> 0, id |-> 0, scope |-> "start"]
Idle == [at |-> "idle", owner |-> "other", list |-> Detail, limit |-> 0,
         cursor |-> NoCursor, version |-> 0, floor |-> 0]

-----------------------------------------------------------------------------
(* The rows a list selects, and one page of them.                             *)

Row(version, id) ==
  [id |-> id, createdAt |-> Created[id],
   helpful |-> history[version][id].helpful, rating |-> history[version][id].rating]

\* listApproved: only APPROVED reviews, of one rating when the filter is set.
ListApproved(version, list) ==
  {id \in Ids : /\ history[version][id].status = "APPROVED"
                /\ list.rating \in {0, history[version][id].rating}}

\* listByAuthor: the caller's own reviews, in every status.
ListByAuthor(version) == {id \in Mine : history[version][id].status # "DELETED"}

\* listQueue: the reviews of one status.
ListQueue(version) == {id \in Ids : history[version][id].status = "PENDING"}

Selected(version, list) ==
  {Row(version, id) : id \in CASE list.source = "reviews" -> ListApproved(version, list)
                               [] list.source = "mine" -> ListByAuthor(version)
                               [] list.source = "queue" -> ListQueue(version)}

\* The rows the query finds: after the cursor when there is one.
Remaining(page, list) ==
  {r \in Selected(page.version, list) :
     page.cursor = NoCursor \/ ResumesAfter(list.sort, r, page.cursor)}

\* take: limit + 1 and slice(0, limit): the first limit rows in list order.
Items(page, list) ==
  LET rows == Remaining(page, list)
  IN  {r \in rows : Cardinality({s \in rows : ListedBefore(list.sort, s, r)}) < page.limit}

HasMore(page, list) == Cardinality(Remaining(page, list)) > page.limit

\* Mutant: the cursor names the extra row, which the next page then skips.
NextCursorAtExtraRow(page, list) ==
  LET beyond == Remaining(page, list) \ Items(page, list)
      next == CHOOSE r \in beyond : \A s \in beyond \ {r} : ListedBefore(list.sort, r, s)
  IN  IF HasMore(page, list) THEN CursorAt(list.sort, next) ELSE NoCursor

\* fetchPage: nextCursor names the last row of the trimmed page.
NextCursor(page, list) ==
  LET items == Items(page, list)
      last == CHOOSE r \in items : \A s \in items \ {r} : ListedBefore(list.sort, s, r)
  IN  IF HasMore(page, list) THEN CursorAt(list.sort, last) ELSE NoCursor

Page(version, limit, cursor) == [version |-> version, limit |-> limit, cursor |-> cursor]

-----------------------------------------------------------------------------
Init ==
  /\ history = <<FirstRows>>
  /\ summary = 1
  /\ cache = [k \in Keys |-> Miss]
  /\ swept = [k \in Keys |-> 1]
  /\ jobs = <<>>
  /\ requests = [c \in Clients |-> Idle]
  /\ setting \in Settings
  /\ tab = [list |-> setting.list, pages |-> <<>>, fetch |-> "none", building |-> <<>>]
  /\ faults = 0

(* Changes.  Each commits the rows and leaves one invalidation to do.         *)

Commit(id, row, kind) ==
  /\ Now <= setting.changes
  /\ history' = Append(history, [history[Now] EXCEPT ![id] = row])
  /\ jobs' = Append(jobs, [at |-> kind, left |-> {}])
  /\ UNCHANGED <<summary, cache, swept, setting, requests, tab, faults>>

\* castVote or removeVote on an APPROVED review; the sweep follows the commit.
Vote(id) ==
  LET row == history[Now][id] IN
  /\ row.status = "APPROVED"
  /\ \E d \in Swings : /\ row.helpful + d >= 0
                       /\ Commit(id, [row EXCEPT !.helpful = @ + d], "vote")

\* The moderation worker or a moderator approves a waiting review.
Publish(id) ==
  LET row == history[Now][id] IN
  /\ row.status = "PENDING"
  /\ Commit(id, [row EXCEPT !.status = "APPROVED"], "recompute")

\* The author edits a published review, which returns to PENDING.
Edit(id) ==
  LET row == history[Now][id] IN
  /\ row.status = "APPROVED"
  /\ \E r \in Ratings : Commit(id, [row EXCEPT !.status = "PENDING", !.rating = r], "recompute")

\* A published review is deleted.
Remove(id) ==
  LET row == history[Now][id] IN
  /\ row.status = "APPROVED"
  /\ Commit(id, [row EXCEPT !.status = "DELETED"], "recompute")

-----------------------------------------------------------------------------
(* Invalidation.  A job for change j concerns the rows of version j + 1.      *)

Moved(j, at, left) == jobs' = [jobs EXCEPT ![j] = [at |-> at, left |-> left]]

\* Mutant: the sweep builds keys other than the ones the API stores under.
EraseOtherKeys(keys, version) ==
  /\ cache' = cache
  /\ swept' = [k \in Keys |-> IF k \in keys /\ version > swept[k] THEN version ELSE swept[k]]

Erase(keys, version) ==
  /\ cache' = [k \in Keys |-> IF k \in keys THEN Miss ELSE cache[k]]
  /\ swept' = [k \in Keys |-> IF k \in keys /\ version > swept[k] THEN version ELSE swept[k]]

\* The aggregation worker recomputes the summary from the rows of now.
Recompute(j) ==
  /\ jobs[j].at = "recompute"
  /\ summary' = Now
  /\ Moved(j, "detail", {})
  /\ UNCHANGED <<history, cache, swept, setting, requests, tab, faults>>

\* ... then deletes the product detail ...
DeleteDetail(j) ==
  /\ jobs[j].at = "detail"
  /\ Erase({Detail}, j + 1)
  /\ Moved(j, "scan", setting.keys \ {Detail})
  /\ UNCHANGED <<history, summary, setting, requests, tab, faults>>

\* invalidateReviewList of a vote: no detail to delete.
SweepAfterVote(j) ==
  /\ jobs[j].at = "vote"
  /\ Moved(j, "scan", setting.keys \ {Detail})
  /\ UNCHANGED <<history, summary, cache, swept, setting, requests, tab, faults>>

\* delByPrefix: one SCAN call and the DEL of what it returned.  A key that
\* stays in the cache for the whole scan is returned by some call.
ScanAndDelete(j) ==
  /\ jobs[j].at = "scan"
  /\ \E batch \in (SUBSET jobs[j].left \ {{}}) \cup {jobs[j].left} :
       LET left == jobs[j].left \ batch IN
       /\ Erase(batch, j + 1)
       /\ Moved(j, IF left = {} THEN "done" ELSE "scan", left)
  /\ UNCHANGED <<history, summary, setting, requests, tab, faults>>

\* A Redis error is logged and the rest of the sweep is given up.
SweepFails(j) ==
  /\ faults < setting.faults
  /\ jobs[j].at \in {"vote", "detail", "scan"}
  /\ Moved(j, "done", {})
  /\ faults' = faults + 1
  /\ UNCHANGED <<history, summary, cache, swept, setting, requests, tab>>

-----------------------------------------------------------------------------
(* Requests.                                                                  *)

\* An infinite query is complete when it has as many pages as it had before,
\* one more for "load more", or when the list ends.
Arrive(page) ==
  LET pages == Append(tab.building, page)
      complete == \/ tab.fetch = "more"
                  \/ Len(pages) >= Len(tab.pages)
                  \/ ~HasMore(page, tab.list)
  IN  tab' = IF complete THEN [tab EXCEPT !.pages = pages, !.fetch = "none", !.building = <<>>]
                         ELSE [tab EXCEPT !.building = pages]

Answer(c, page) ==
  /\ requests' = [requests EXCEPT ![c] = Idle]
  /\ IF requests[c].owner = "tab" THEN Arrive(page) ELSE UNCHANGED tab

\* A first-page request whose GET missed; the floor is the newest change whose
\* sweep had already deleted this key.
Missed(owner, list, limit) ==
  [Idle EXCEPT !.at = "read", !.owner = owner, !.list = list, !.limit = limit,
               !.floor = swept[list]]

\* Another client asks for a first page or the detail and the cache has none.
OtherAsks(c) ==
  /\ requests[c] = Idle
  /\ \E key \in setting.keys, limit \in Limits :
       /\ cache[key] = Miss
       /\ requests' = [requests EXCEPT ![c] = Missed("other", key, limit)]
  /\ UNCHANGED <<data, cache, swept, tab, faults>>

TabWaits == tab.fetch # "none" /\ \A c \in Clients : requests[c].owner # "tab"

\* The tab asks for the first page of a public list: a hit is the answer,
\* whatever page size it was stored with.
TabHits ==
  /\ TabWaits /\ tab.building = <<>> /\ tab.list \in ListKeys
  /\ cache[tab.list] # Miss
  /\ Arrive(Page(cache[tab.list].version, cache[tab.list].limit, NoCursor))
  /\ UNCHANGED <<data, cache, swept, requests, faults>>

TabMisses(c) ==
  /\ TabWaits /\ tab.building = <<>> /\ tab.list \in ListKeys
  /\ requests[c] = Idle
  /\ cache[tab.list] = Miss
  /\ requests' = [requests EXCEPT ![c] = Missed("tab", tab.list, TabLimit)]
  /\ UNCHANGED <<data, cache, swept, tab, faults>>

\* safeCacheGet: a Redis error reads Postgres instead, cached page or not.
GetFails(c) ==
  /\ requests[c] = Idle /\ faults < setting.faults
  /\ \/ /\ TabWaits /\ tab.building = <<>> /\ tab.list \in ListKeys
        /\ cache[tab.list] # Miss
        /\ requests' = [requests EXCEPT ![c] = Missed("tab", tab.list, TabLimit)]
     \/ \E key \in setting.keys, limit \in Limits :
          /\ cache[key] # Miss
          /\ requests' = [requests EXCEPT ![c] = Missed("other", key, limit)]
  /\ faults' = faults + 1
  /\ UNCHANGED <<data, cache, swept, tab>>

\* A page the cache never holds: a later page, or a list of one's own.
ReadUncached ==
  /\ TabWaits
  /\ tab.building # <<>> \/ tab.list \notin ListKeys
  /\ LET cursor == IF tab.building = <<>> THEN NoCursor
                   ELSE NextCursor(tab.building[Len(tab.building)], tab.list)
     IN  Arrive(Page(Now, TabLimit, cursor))
  /\ UNCHANGED <<data, cache, swept, requests, faults>>

\* fetchPage / findBySlug: the rows are read ...
ReadRows(c) ==
  /\ requests[c].at = "read"
  /\ requests' = [requests EXCEPT ![c].at = "set",
                    ![c].version = IF requests[c].list = Detail THEN summary ELSE Now]
  /\ UNCHANGED <<data, cache, swept, tab, faults>>

\* Mutant: SET without EX.
StoredForGood(r) ==
  [version |-> r.version, limit |-> r.limit, floor |-> r.floor,
   since |-> swept[r.list], expires |-> FALSE]

Stored(r) == [version |-> r.version, limit |-> r.limit, floor |-> r.floor,
              since |-> swept[r.list], expires |-> TRUE]

\* ... and stored with a time to live before the answer goes out.
Store(c) ==
  LET r == requests[c] IN
  /\ r.at = "set"
  /\ cache' = [cache EXCEPT ![r.list] = Stored(r)]
  /\ Answer(c, Page(r.version, r.limit, NoCursor))
  /\ UNCHANGED <<data, swept, faults>>

\* safeCacheSet: a Redis error is logged and the answer goes out all the same.
StoreFails(c) ==
  LET r == requests[c] IN
  /\ r.at = "set" /\ faults < setting.faults
  /\ Answer(c, Page(r.version, r.limit, NoCursor))
  /\ faults' = faults + 1
  /\ UNCHANGED <<data, cache, swept>>

Expire(k) ==
  /\ cache[k].expires
  /\ cache' = [cache EXCEPT ![k] = Miss]
  /\ UNCHANGED <<data, swept, requests, tab, faults>>

-----------------------------------------------------------------------------
(* The tab.  A fetch that is replaced leaves its request running in the API.  *)

StartFetch(fetch, building) ==
  /\ tab' = [tab EXCEPT !.fetch = fetch, !.building = building]
  /\ requests' = [c \in Clients |-> IF requests[c] = Idle THEN Idle
                                    ELSE [requests[c] EXCEPT !.owner = "other"]]
  /\ UNCHANGED <<data, cache, swept, faults>>

\* The list is shown for the first time, or its query was invalidated.
Refetch ==
  /\ tab.list.source = "reviews" \/ tab.pages = <<>>
  /\ tab.fetch = "none" \/ (tab.fetch = "more" /\ tab.pages # <<>>)
  /\ StartFetch("refetch", <<>>)

\* "Load more" replaces a refetch that is under way.
LoadMore ==
  /\ tab.pages # <<>> /\ tab.fetch # "more" /\ Len(tab.pages) < MaxPages
  /\ HasMore(tab.pages[Len(tab.pages)], tab.list)
  /\ StartFetch("more", tab.pages)

-----------------------------------------------------------------------------
Invalidation(j) ==
  Recompute(j) \/ DeleteDetail(j) \/ SweepAfterVote(j) \/ ScanAndDelete(j)

Serve(c) == ReadRows(c) \/ Store(c)

Next ==
  \/ \E id \in Movers : Vote(id) \/ Publish(id) \/ Edit(id) \/ Remove(id)
  \/ \E j \in DOMAIN jobs : Invalidation(j) \/ SweepFails(j)
  \/ \E c \in Clients : OtherAsks(c) \/ TabMisses(c) \/ GetFails(c) \/ Serve(c) \/ StoreFails(c)
  \/ TabHits \/ ReadUncached
  \/ \E k \in Keys : Expire(k)
  \/ Refetch \/ LoadMore

Spec == Init /\ [][Next]_vars

\* Sweeps and requests run to their end, and a stored page expires.
FairSpec ==
  /\ Spec
  /\ \A j \in 1..MaxChanges : WF_vars(j \in DOMAIN jobs /\ Invalidation(j))
  /\ \A c \in Clients : WF_vars(Serve(c))
  /\ \A k \in Keys : WF_vars(Expire(k))

-----------------------------------------------------------------------------
TypeOK ==
  /\ Now \in 1..(setting.changes + 1) /\ Len(jobs) = Now - 1
  /\ summary \in 1..Now
  /\ DOMAIN cache = Keys /\ DOMAIN swept = Keys
  /\ \A k \in Keys : swept[k] \in 1..Now /\ cache[k].version \in 0..Now
  /\ \A c \in Clients : requests[c].at \in {"idle", "read", "set"}
  /\ tab.fetch \in {"none", "refetch", "more"}
  /\ Len(tab.pages) <= MaxPages
  /\ faults \in 0..setting.faults

\* A sweep is final for everyone who asks afterwards: a page found in the cache
\* was stored after the last sweep of its key, and was read from rows at least
\* as new as every change swept before its reader missed.  So the one way to
\* serve a page older than a finished sweep is a reader that missed before the
\* sweep and stored after it (products.service.ts:63).
CachedSinceSweep ==
  \A k \in Keys : cache[k] # Miss =>
    cache[k].version >= cache[k].floor /\ cache[k].since = swept[k]

Shown(id) ==
  {i \in DOMAIN tab.pages : id \in {r.id : r \in Items(tab.pages[i], tab.list)}}

\* Under a creation-time order no review is ever shown twice, however many
\* pages were read between changes: its key is never rewritten.
NewestNeverRepeats ==
  tab.list.sort = "newest" => \A id \in Ids : Cardinality(Shown(id)) <= 1

\* A review that kept its place while the pages were read is shown exactly
\* once when the pages reach it, whatever moved around it and whatever page
\* size the cached first page was stored with; and not at all beyond the end.
UnmovedListedOnce ==
  tab.pages # <<>> =>
    LET first == tab.pages[1]
        last == tab.pages[Len(tab.pages)]
        end == NextCursor(last, tab.list)
    IN  \A r \in Selected(first.version, tab.list) :
          (\A v \in first.version..last.version : r \in Selected(v, tab.list)) =>
            Cardinality(Shown(r.id)) =
              IF HasMore(last, tab.list) /\ ResumesAfter(tab.list.sort, r, end) THEN 0 ELSE 1

\* Once changes stop, every page left in the cache is the page of now: a stale
\* one, stored by a reader the sweep overtook or left by a failed sweep, goes
\* with its time to live and is not stored again.
EventuallyFresh ==
  <>[](\A k \in Keys : cache[k] # Miss =>
         cache[k].version = IF k = Detail THEN summary ELSE Now)
=============================================================================
