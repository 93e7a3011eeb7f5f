------------------------- MODULE ReviewListingProofs -------------------------
(* What the cache may hold and what a tab shows, for any number of reviews,   *)
(* keys, clients, pages, changes and Redis failures.                          *)
EXTENDS ReviewListing, KeysetProofs, TLAPS

RowState == [status : {"PENDING", "APPROVED", "DELETED"}, helpful : Int, rating : 1..5]
Job == [at : {"vote", "recompute", "detail", "scan", "done"}, left : SUBSET (Keys \ {Detail})]
Entry == [version : Nat, limit : Nat, floor : Nat, since : Nat, expires : BOOLEAN]

Types ==
  /\ setting \in Settings
  /\ history \in Seq([Ids -> RowState]) /\ history # <<>>
  /\ jobs \in Seq(Job) /\ Len(jobs) + 1 = Now
  /\ summary \in 1..Now
  /\ swept \in [Keys -> 1..Now]
  /\ cache \in [Keys -> Entry]
  /\ DOMAIN requests = Clients

\* A finished sweep is no newer than what a read would see: the detail is
\* deleted only after the summary it shows was recomputed.
SweptIsReadable ==
  /\ swept[Detail] <= summary
  /\ \A j \in DOMAIN jobs : jobs[j].at = "detail" => j < summary

\* What a request reads is as new as the sweeps before its miss: the rows of
\* now, or, for the product's detail, the rows of the summary.
ReadsAreCurrent ==
  \A c \in Clients :
    LET r == requests[c] IN
    /\ r.at \in {"read", "set"} => r.list \in Keys /\ r.floor \in Nat /\ r.limit \in Nat
    /\ r.at = "read" => r.floor <= (IF r.list = Detail THEN summary ELSE Now)
    /\ r.at = "set" => r.version \in Nat /\ r.floor <= r.version

IInv == Types /\ SweptIsReadable /\ ReadsAreCurrent /\ CachedSinceSweep

-----------------------------------------------------------------------------
LEMMA NowIsPositive == Types => Now \in Nat \ {0} /\ Detail \in Keys
BY DEF Types, Now, Keys

\* A step that leaves cache and sweeps alone and takes back nothing readable.
LEMMA CacheUntouched ==
  ASSUME IInv, Types', SweptIsReadable', UNCHANGED <<cache, swept>>,
         Now' >= Now, summary' >= summary,
         \A c \in Clients : \/ /\ requests'[c].at = requests[c].at
                               /\ requests'[c].list = requests[c].list
                               /\ requests'[c].floor = requests[c].floor
                               /\ requests'[c].limit = requests[c].limit
                               /\ requests'[c].version = requests[c].version
                            \/ requests'[c].at = "idle"
  PROVE  IInv'
<1> USE DEF IInv
<1>1. ReadsAreCurrent'
  <2> SUFFICES ASSUME NEW c \in Clients
               PROVE  /\ requests'[c].at \in {"read", "set"} =>
                           /\ requests'[c].list \in Keys
                           /\ requests'[c].floor \in Nat /\ requests'[c].limit \in Nat
                      /\ requests'[c].at = "read" =>
                           requests'[c].floor <= IF requests'[c].list = Detail THEN summary' ELSE Now'
                      /\ requests'[c].at = "set" =>
                           /\ requests'[c].version \in Nat
                           /\ requests'[c].floor <= requests'[c].version
    BY DEF ReadsAreCurrent
  <2> DEFINE r == requests[c]
  <2>1. /\ r.at \in {"read", "set"} => r.list \in Keys /\ r.floor \in Nat /\ r.limit \in Nat
        /\ r.at = "read" => r.floor <= IF r.list = Detail THEN summary ELSE Now
        /\ r.at = "set" => r.version \in Nat /\ r.floor <= r.version
    BY DEF ReadsAreCurrent
  <2>2. /\ Now \in Int /\ Now' \in Int /\ Now <= Now'
        /\ summary \in Int /\ summary' \in Int /\ summary <= summary'
    BY DEF Types, Now
  <2>3. r.at = "read" => r.floor <= IF r.list = Detail THEN summary' ELSE Now'
    BY <2>1, <2>2
  <2>4. CASE requests'[c].at = "idle"
    BY <2>4
  <2>5. CASE requests'[c].at # "idle"
    <3>1. /\ requests'[c].at = r.at /\ requests'[c].list = r.list /\ requests'[c].floor = r.floor
          /\ requests'[c].limit = r.limit /\ requests'[c].version = r.version
      BY <2>5
    <3> HIDE DEF r
    <3> QED
      BY <2>1, <2>3, <3>1
  <2> QED
    BY <2>4, <2>5
<1>2. CachedSinceSweep'
  BY DEF IInv, CachedSinceSweep
<1> QED
  BY <1>1, <1>2 DEF IInv

LEMMA InitHolds == Init => IInv
<1> SUFFICES ASSUME Init PROVE IInv
  OBVIOUS
<1>1. Now = 1 /\ history \in Seq([Ids -> RowState]) /\ history # <<>>
  <2>1. FirstRows \in [Ids -> RowState]
    BY RowsAssumption DEF RowState
  <2> QED
    BY <2>1 DEF Init, Now
<1>2. jobs \in Seq(Job) /\ Len(jobs) = 0
  BY DEF Init
<1>3. Miss \in Entry
  BY DEF Miss, Entry
<1>4. Types
  BY <1>1, <1>2, <1>3 DEF Init, Types
<1>5. SweptIsReadable /\ CachedSinceSweep
  BY <1>1, <1>2, <1>3 DEF Init, SweptIsReadable, CachedSinceSweep, Keys
<1>6. ReadsAreCurrent
  BY DEF Init, ReadsAreCurrent, Idle
<1> QED
  BY <1>4, <1>5, <1>6 DEF IInv

-----------------------------------------------------------------------------
(* Changes. *)

LEMMA CommitHolds ==
  ASSUME IInv, NEW id \in Ids, NEW row \in RowState, NEW kind \in {"vote", "recompute"},
         Commit(id, row, kind)
  PROVE  IInv'
<1> USE DEF IInv
<1>1. Now \in Nat \ {0} /\ Detail \in Keys
  BY NowIsPositive
<1>2. [history[Now] EXCEPT ![id] = row] \in [Ids -> RowState]
  BY <1>1 DEF Types, Now
<1>3. history' \in Seq([Ids -> RowState]) /\ Now' = Now + 1 /\ history' # <<>>
  <2> DEFINE rows == [history[Now] EXCEPT ![id] = row]
  <2>1. history \in Seq([Ids -> RowState]) /\ rows \in [Ids -> RowState]
    BY <1>2 DEF Types
  <2>2. history' = Append(history, rows)
    BY DEF Commit
  <2> HIDE DEF rows
  <2>3. Append(history, rows) \in Seq([Ids -> RowState]) /\ Len(Append(history, rows)) = Len(history) + 1
    BY <2>1
  <2>4. Len(history') \in Nat \ {0}
    BY <2>1, <2>2, <2>3
  <2> QED
    BY <2>2, <2>3, <2>4 DEF Now
<1>4. [at |-> kind, left |-> {}] \in Job
  BY DEF Job
<1>5. /\ jobs' \in Seq(Job) /\ Len(jobs') = Len(jobs) + 1
      /\ \A j \in DOMAIN jobs' : (j \in DOMAIN jobs /\ jobs'[j] = jobs[j]) \/ jobs'[j].at = kind
  BY <1>4 DEF Commit, Types
<1>6. Types'
  BY <1>1, <1>3, <1>5 DEF Commit, Types
<1>7. SweptIsReadable'
  BY <1>5 DEF Commit, SweptIsReadable
<1> QED
  BY <1>1, <1>3, <1>6, <1>7, CacheUntouched DEF Commit, Types

LEMMA ChangesHold ==
  IInv /\ (\E id \in Movers : Vote(id) \/ Publish(id) \/ Edit(id) \/ Remove(id)) => IInv'
<1> SUFFICES ASSUME IInv, NEW id \in Movers, Vote(id) \/ Publish(id) \/ Edit(id) \/ Remove(id)
             PROVE  IInv'
  OBVIOUS
<1> DEFINE row == history[Now][id]
<1>1. id \in Ids /\ row \in RowState
  BY RowsAssumption, NowIsPositive DEF IInv, Types, Now
<1>2. CASE Vote(id)
  <2>1. PICK d \in Swings : Commit(id, [row EXCEPT !.helpful = @ + d], "vote")
    BY <1>2 DEF Vote
  <2>2. [row EXCEPT !.helpful = @ + d] \in RowState
    BY <1>1, RowsAssumption DEF RowState
  <2> QED
    BY <1>1, <2>1, <2>2, CommitHolds
<1>3. CASE Publish(id)
  <2>1. [row EXCEPT !.status = "APPROVED"] \in RowState
    BY <1>1 DEF RowState
  <2> QED
    BY <1>1, <1>3, <2>1, CommitHolds DEF Publish
<1>4. CASE Edit(id)
  <2>1. PICK r \in Ratings :
          Commit(id, [row EXCEPT !.status = "PENDING", !.rating = r], "recompute")
    BY <1>4 DEF Edit
  <2>2. [row EXCEPT !.status = "PENDING", !.rating = r] \in RowState
    BY <1>1, RowsAssumption DEF RowState
  <2> QED
    BY <1>1, <2>1, <2>2, CommitHolds
<1>5. CASE Remove(id)
  <2>1. [row EXCEPT !.status = "DELETED"] \in RowState
    BY <1>1 DEF RowState
  <2> QED
    BY <1>1, <1>5, <2>1, CommitHolds DEF Remove
<1> QED
  BY <1>2, <1>3, <1>4, <1>5

-----------------------------------------------------------------------------
(* Invalidation. *)

LEMMA MovedType ==
  ASSUME Types, NEW j \in DOMAIN jobs, NEW at, NEW left,
         [at |-> at, left |-> left] \in Job, Moved(j, at, left)
  PROVE  /\ jobs' \in Seq(Job) /\ Len(jobs') = Len(jobs) /\ DOMAIN jobs' = DOMAIN jobs
         /\ \A i \in DOMAIN jobs :
              jobs'[i] = IF i = j THEN [at |-> at, left |-> left] ELSE jobs[i]
<1> DEFINE job == [at |-> at, left |-> left]
<1>1. jobs \in Seq(Job) /\ job \in Job
  BY DEF Types
<1>2. jobs' = [jobs EXCEPT ![j] = job]
  BY DEF Moved
<1> HIDE DEF job
<1>3. /\ jobs' \in Seq(Job) /\ Len(jobs') = Len(jobs) /\ DOMAIN jobs' = DOMAIN jobs
      /\ \A i \in DOMAIN jobs : jobs'[i] = IF i = j THEN job ELSE jobs[i]
  BY <1>1, <1>2
<1> QED
  BY <1>3 DEF job

\* The rest of a job's keys, without the detail.
LEMMA KeysLeft == Types => setting.keys \ {Detail} \subseteq Keys \ {Detail}
BY KeysAssumption DEF Types

LEMMA EraseHolds ==
  ASSUME IInv, NEW j \in DOMAIN jobs, NEW keys, Erase(keys, j + 1),
         Detail \in keys => j < summary,
         UNCHANGED <<history, summary, setting, requests>>,
         jobs' \in Seq(Job), Len(jobs') = Len(jobs),
         \A i \in DOMAIN jobs' : jobs'[i].at = "detail" => i \in DOMAIN jobs /\ jobs[i].at = "detail"
  PROVE  IInv'
<1> USE DEF IInv
<1>1. Now \in Nat \ {0} /\ Detail \in Keys /\ Now' = Now
  BY NowIsPositive DEF Now
<1>2. j \in Nat /\ j + 1 \in 1..Now
  BY <1>1 DEF Types
<1>3. \A k \in Keys : swept[k] \in 1..Now
  BY DEF Types
<1>4. swept' \in [Keys -> 1..Now]
  BY <1>2, <1>3 DEF Erase
<1>5. Miss \in Entry
  BY DEF Miss, Entry
<1>6. Types'
  BY <1>1, <1>4, <1>5 DEF Types, Erase
<1>7. SweptIsReadable'
  BY <1>1, <1>2, <1>3 DEF SweptIsReadable, Erase, Types
<1>8. ReadsAreCurrent'
  BY <1>1 DEF ReadsAreCurrent
<1>9. CachedSinceSweep'
  <2> SUFFICES ASSUME NEW k \in Keys, cache'[k] # Miss
               PROVE  cache'[k].version >= cache'[k].floor /\ cache'[k].since = swept'[k]
    BY DEF CachedSinceSweep
  <2>1. k \notin keys
    BY DEF Erase
  <2>2. cache'[k] = cache[k] /\ swept'[k] = swept[k]
    BY <2>1 DEF Erase
  <2> QED
    BY <2>2 DEF CachedSinceSweep
<1> QED
  BY <1>6, <1>7, <1>8, <1>9

LEMMA InvalidationHolds ==
  ASSUME IInv, NEW j \in DOMAIN jobs, Invalidation(j) \/ SweepFails(j)
  PROVE  IInv'
<1> USE DEF IInv
<1>1. Now \in Nat \ {0} /\ Detail \in Keys /\ j \in Nat /\ j < Now
  BY NowIsPositive DEF Types
<1>2. CASE Recompute(j)
  <2>1. [at |-> "detail", left |-> {}] \in Job
    BY DEF Job
  <2>2. jobs' \in Seq(Job) /\ Len(jobs') = Len(jobs) /\ DOMAIN jobs' = DOMAIN jobs
    <3>1. Types /\ Moved(j, "detail", {})
      BY <1>2 DEF Recompute
    <3> QED
      BY <2>1, <3>1, MovedType
  <2>6. \A i \in DOMAIN jobs : i \in Nat /\ i < Now
    BY <1>1 DEF Types
  <2>3. summary' = Now /\ Now' = Now /\ summary <= Now
    BY <1>2 DEF Recompute, Types, Now
  <2>4. Types'
    BY <1>1, <1>2, <2>2, <2>3 DEF Recompute, Types
  <2>5. SweptIsReadable'
    BY <1>1, <1>2, <2>2, <2>3, <2>6 DEF Recompute, SweptIsReadable, Types
  <2> QED
    BY <1>1, <1>2, <2>3, <2>4, <2>5, CacheUntouched DEF Recompute, Types
<1>3. CASE DeleteDetail(j)
  <2>1. [at |-> "scan", left |-> setting.keys \ {Detail}] \in Job
    BY KeysLeft DEF Job
  <2>2. /\ jobs' \in Seq(Job) /\ Len(jobs') = Len(jobs) /\ DOMAIN jobs' = DOMAIN jobs
        /\ \A i \in DOMAIN jobs : jobs'[i].at = "detail" => jobs[i].at = "detail"
    BY <1>3, <2>1, MovedType DEF DeleteDetail
  <2>3. j < summary
    BY <1>3 DEF DeleteDetail, SweptIsReadable
  <2> QED
    BY <1>3, <2>2, <2>3, EraseHolds DEF DeleteDetail
<1>4. CASE SweepAfterVote(j)
  <2>1. [at |-> "scan", left |-> setting.keys \ {Detail}] \in Job
    BY KeysLeft DEF Job
  <2>2. /\ jobs' \in Seq(Job) /\ Len(jobs') = Len(jobs) /\ DOMAIN jobs' = DOMAIN jobs
        /\ \A i \in DOMAIN jobs : jobs'[i].at = "detail" => jobs[i].at = "detail"
    <3> DEFINE left == setting.keys \ {Detail}
    <3>1. Types /\ Moved(j, "scan", left) /\ [at |-> "scan", left |-> left] \in Job
      BY <1>4, <2>1 DEF SweepAfterVote
    <3> HIDE DEF left
    <3> QED
      BY <3>1, MovedType
  <2>3. Types' /\ Now' = Now
    BY <1>4, <2>2 DEF SweepAfterVote, Types, Now
  <2>4. SweptIsReadable'
    BY <1>4, <2>2 DEF SweepAfterVote, SweptIsReadable
  <2> QED
    BY <1>1, <1>4, <2>3, <2>4, CacheUntouched DEF SweepAfterVote, Types
<1>5. CASE ScanAndDelete(j)
  <2>1. PICK batch \in (SUBSET jobs[j].left \ {{}}) \cup {jobs[j].left} :
          /\ Erase(batch, j + 1)
          /\ Moved(j, IF jobs[j].left \ batch = {} THEN "done" ELSE "scan", jobs[j].left \ batch)
    BY <1>5 DEF ScanAndDelete
  <2>2. jobs[j] \in Job
    BY DEF Types
  <2>3. Detail \notin batch
    BY <2>2 DEF Job
  <2>4. [at |-> IF jobs[j].left \ batch = {} THEN "done" ELSE "scan",
         left |-> jobs[j].left \ batch] \in Job
    BY <2>2 DEF Job
  <2>5. /\ jobs' \in Seq(Job) /\ Len(jobs') = Len(jobs) /\ DOMAIN jobs' = DOMAIN jobs
        /\ \A i \in DOMAIN jobs : jobs'[i].at = "detail" => jobs[i].at = "detail"
    <3> DEFINE left == jobs[j].left \ batch
               at == IF left = {} THEN "done" ELSE "scan"
    <3>1. Types /\ Moved(j, at, left) /\ [at |-> at, left |-> left] \in Job /\ at # "detail"
      BY <2>1, <2>4
    <3> HIDE DEF at, left
    <3> QED
      BY <3>1, MovedType
  <2> QED
    BY <1>5, <2>1, <2>3, <2>5, EraseHolds DEF ScanAndDelete
<1>6. CASE SweepFails(j)
  <2>1. [at |-> "done", left |-> {}] \in Job
    BY DEF Job
  <2>2. /\ jobs' \in Seq(Job) /\ Len(jobs') = Len(jobs) /\ DOMAIN jobs' = DOMAIN jobs
        /\ \A i \in DOMAIN jobs : jobs'[i].at = "detail" => jobs[i].at = "detail"
    BY <1>6, <2>1, MovedType DEF SweepFails
  <2>3. Types' /\ Now' = Now
    BY <1>6, <2>2 DEF SweepFails, Types, Now
  <2>4. SweptIsReadable'
    BY <1>6, <2>2 DEF SweepFails, SweptIsReadable
  <2> QED
    BY <1>1, <1>6, <2>3, <2>4, CacheUntouched DEF SweepFails, Types
<1> QED
  BY <1>2, <1>3, <1>4, <1>5, <1>6 DEF Invalidation

-----------------------------------------------------------------------------
(* Requests. *)

\* What a step of the requests or of the tab leaves alone.
LEMMA RowsUntouched ==
  ASSUME IInv, UNCHANGED <<data, swept>>, cache' \in [Keys -> Entry], DOMAIN requests' = Clients
  PROVE  Types' /\ SweptIsReadable' /\ Now' = Now
BY DEF IInv, Types, SweptIsReadable, data, Now

\* Answers, and fetches that start or stop: no request begins.
LEMMA NothingRead ==
  ASSUME IInv, UNCHANGED <<data, cache, swept>>, DOMAIN requests' = Clients,
         \A c \in Clients : \/ /\ requests'[c].at = requests[c].at
                               /\ requests'[c].list = requests[c].list
                               /\ requests'[c].floor = requests[c].floor
                               /\ requests'[c].limit = requests[c].limit
                               /\ requests'[c].version = requests[c].version
                            \/ requests'[c].at = "idle"
  PROVE  IInv'
<1>1. Types' /\ SweptIsReadable' /\ Now' = Now /\ summary' = summary
  BY RowsUntouched DEF IInv, Types, data
<1>2. Now \in Int /\ summary \in Int
  BY DEF IInv, Types, Now
<1> QED
  BY <1>1, <1>2, CacheUntouched

\* A request whose GET missed begins with the sweeps of its key so far.
LEMMA AskHolds ==
  ASSUME IInv, NEW c \in Clients, NEW key \in Keys, NEW limit \in Nat, NEW owner,
         requests' = [requests EXCEPT ![c] = Missed(owner, key, limit)],
         UNCHANGED <<data, cache, swept>>
  PROVE  IInv'
<1> USE DEF IInv
<1>1. Types' /\ SweptIsReadable' /\ Now' = Now /\ summary' = summary
  BY RowsUntouched DEF Types, data
<1>2. /\ requests'[c].at = "read" /\ requests'[c].list = key
      /\ requests'[c].limit = limit /\ requests'[c].floor = swept[key]
  BY DEF Types, Missed, Idle
<1>3. swept[key] \in Nat /\ swept[key] <= IF key = Detail THEN summary ELSE Now
  BY DEF Types, SweptIsReadable, Now
<1>4. ReadsAreCurrent'
  <2>1. \A d \in Clients \ {c} : requests'[d] = requests[d]
    BY DEF Types
  <2> QED
    BY <1>1, <1>2, <1>3, <2>1 DEF ReadsAreCurrent
<1>5. CachedSinceSweep'
  BY DEF CachedSinceSweep
<1> QED
  BY <1>1, <1>4, <1>5

LEMMA AsksHold ==
  ASSUME IInv, NEW c \in Clients, OtherAsks(c) \/ TabMisses(c) \/ GetFails(c)
  PROVE  IInv'
<1>1. ListKeys \subseteq Keys /\ setting.keys \subseteq Keys
  BY KeysAssumption DEF IInv, Types, Keys
<1>2. TabLimit \in Nat /\ Limits \subseteq Nat
  BY SizesAssumption
<1>3. PICK owner \in {"tab", "other"}, key \in Keys, limit \in Nat :
        requests' = [requests EXCEPT ![c] = Missed(owner, key, limit)]
  <2>1. CASE OtherAsks(c)
    BY <1>1, <1>2, <2>1 DEF OtherAsks
  <2>2. CASE TabMisses(c)
    BY <1>1, <1>2, <2>2 DEF TabMisses
  <2>3. CASE GetFails(c)
    BY <1>1, <1>2, <2>3 DEF GetFails
  <2> QED
    BY <2>1, <2>2, <2>3
<1>4. UNCHANGED <<data, cache, swept>>
  BY DEF OtherAsks, TabMisses, GetFails
<1> QED
  BY <1>3, <1>4, AskHolds

LEMMA ReadRowsHolds ==
  ASSUME IInv, NEW c \in Clients, ReadRows(c)
  PROVE  IInv'
<1> USE DEF IInv
<1> DEFINE r == requests[c]
           found == IF r.list = Detail THEN summary ELSE Now
<1>1. Types' /\ SweptIsReadable' /\ Now' = Now /\ summary' = summary
  BY RowsUntouched DEF ReadRows, Types, data
<1>2. requests' = [requests EXCEPT ![c].at = "set", ![c].version = found]
  BY DEF ReadRows
<1>3. /\ r.at = "read" /\ r.list \in Keys /\ r.floor \in Nat /\ r.limit \in Nat
      /\ r.floor <= found /\ found \in Nat
  BY DEF ReadRows, ReadsAreCurrent, Types, Now
<1>4. ReadsAreCurrent'
  <2>1. \A d \in Clients \ {c} : requests'[d] = requests[d]
    BY <1>2 DEF Types
  <2>2. /\ requests'[c].at \in {"read", "set"} =>
             /\ requests'[c].list \in Keys
             /\ requests'[c].floor \in Nat /\ requests'[c].limit \in Nat
        /\ requests'[c].at = "set" =>
             /\ requests'[c].version \in Nat
             /\ requests'[c].floor <= requests'[c].version
        /\ requests'[c].at # "read"
    BY <1>2, <1>3 DEF Types
  <2> QED
    BY <1>1, <2>1, <2>2 DEF ReadsAreCurrent
<1>5. CachedSinceSweep'
  BY DEF ReadRows, CachedSinceSweep
<1> QED
  BY <1>1, <1>4, <1>5

LEMMA StoreHolds ==
  ASSUME IInv, NEW c \in Clients, Store(c)
  PROVE  IInv'
<1> USE DEF IInv
<1> DEFINE r == requests[c]
<1>1. /\ r.at = "set" /\ cache' = [cache EXCEPT ![r.list] = Stored(r)]
      /\ requests' = [requests EXCEPT ![c] = Idle]
      /\ UNCHANGED <<data, swept>>
  BY DEF Store, Answer
<1>2. /\ r.list \in Keys /\ r.floor \in Nat /\ r.limit \in Nat
      /\ r.version \in Nat /\ r.floor <= r.version
  BY <1>1 DEF ReadsAreCurrent
<1>3. Stored(r) \in Entry
  BY <1>2 DEF Types, Stored, Entry
<1>4. Types' /\ SweptIsReadable' /\ Now' = Now /\ summary' = summary
  <2>1. cache' \in [Keys -> Entry] /\ DOMAIN requests' = Clients
    BY <1>1, <1>3 DEF Types
  <2> QED
    BY <1>1, <2>1, RowsUntouched DEF data
<1>5. ReadsAreCurrent'
  <2>1. requests'[c].at = "idle" /\ \A d \in Clients \ {c} : requests'[d] = requests[d]
    BY <1>1 DEF Types, Idle
  <2> QED
    BY <1>4, <2>1 DEF ReadsAreCurrent
<1>6. CachedSinceSweep'
  <2>1. /\ cache'[r.list] = Stored(r) /\ \A k \in Keys \ {r.list} : cache'[k] = cache[k]
        /\ swept' = swept
    BY <1>1, <1>2 DEF Types
  <2> QED
    BY <1>2, <2>1 DEF CachedSinceSweep, Stored
<1> QED
  BY <1>4, <1>5, <1>6

LEMMA ExpireHolds ==
  ASSUME IInv, NEW k \in Keys, Expire(k)
  PROVE  IInv'
<1> USE DEF IInv
<1>1. /\ cache' = [cache EXCEPT ![k] = Miss]
      /\ UNCHANGED <<data, swept, requests>>
  BY DEF Expire
<1>2. Miss \in Entry
  BY DEF Miss, Entry
<1>3. Types' /\ SweptIsReadable' /\ Now' = Now /\ summary' = summary
  <2>1. cache' \in [Keys -> Entry] /\ DOMAIN requests' = Clients
    BY <1>1, <1>2 DEF Types
  <2> QED
    BY <1>1, <2>1, RowsUntouched DEF data
<1>4. ReadsAreCurrent'
  BY <1>1, <1>3 DEF ReadsAreCurrent
<1>5. CachedSinceSweep'
  BY <1>1 DEF CachedSinceSweep, Types
<1> QED
  BY <1>3, <1>4, <1>5

LEMMA TabHolds ==
  ASSUME IInv, (\E c \in Clients : StoreFails(c)) \/ TabHits \/ ReadUncached \/ Refetch \/ LoadMore
  PROVE  IInv'
<1>1. UNCHANGED <<data, cache, swept>>
  BY DEF StoreFails, TabHits, ReadUncached, Refetch, LoadMore, StartFetch
<1>2. CASE \E c \in Clients : StoreFails(c)
  <2>1. PICK c \in Clients : requests' = [requests EXCEPT ![c] = Idle]
    BY <1>2 DEF StoreFails, Answer
  <2>2. DOMAIN requests' = Clients /\ requests'[c].at = "idle"
    BY <2>1 DEF IInv, Types, Idle
  <2>3. \A d \in Clients \ {c} : requests'[d] = requests[d]
    BY <2>1 DEF IInv, Types
  <2> QED
    BY <1>1, <2>2, <2>3, NothingRead
<1>3. CASE TabHits \/ ReadUncached
  <2>1. requests' = requests
    BY <1>3 DEF TabHits, ReadUncached
  <2> QED
    BY <1>1, <2>1, NothingRead DEF IInv, Types
<1>4. CASE Refetch \/ LoadMore
  <2>1. requests' = [c \in Clients |-> IF requests[c] = Idle THEN Idle
                                       ELSE [requests[c] EXCEPT !.owner = "other"]]
    BY <1>4 DEF Refetch, LoadMore, StartFetch
  <2>2. ASSUME NEW c \in Clients
        PROVE  \/ /\ requests'[c].at = requests[c].at
                  /\ requests'[c].list = requests[c].list
                  /\ requests'[c].floor = requests[c].floor
                  /\ requests'[c].limit = requests[c].limit
                  /\ requests'[c].version = requests[c].version
               \/ requests'[c].at = "idle"
    BY <2>1 DEF Idle
  <2> QED
    BY <1>1, <2>1, <2>2, NothingRead
<1> QED
  BY <1>2, <1>3, <1>4

-----------------------------------------------------------------------------
LEMMA NextHolds == IInv /\ [Next]_vars => IInv'
<1> SUFFICES ASSUME IInv, [Next]_vars PROVE IInv'
  OBVIOUS
<1>1. CASE \E id \in Movers : Vote(id) \/ Publish(id) \/ Edit(id) \/ Remove(id)
  BY <1>1, ChangesHold
<1>2. CASE \E j \in DOMAIN jobs : Invalidation(j) \/ SweepFails(j)
  BY <1>2, InvalidationHolds
<1>3. CASE \E c \in Clients : OtherAsks(c) \/ TabMisses(c) \/ GetFails(c)
  BY <1>3, AsksHold
<1>4. CASE \E c \in Clients : Serve(c)
  BY <1>4, ReadRowsHolds, StoreHolds DEF Serve
<1>5. CASE (\E c \in Clients : StoreFails(c)) \/ TabHits \/ ReadUncached \/ Refetch \/ LoadMore
  BY <1>5, TabHolds
<1>6. CASE \E k \in Keys : Expire(k)
  BY <1>6, ExpireHolds
<1>7. CASE UNCHANGED vars
  <2>1. UNCHANGED <<data, cache, swept>> /\ requests' = requests
    BY <1>7 DEF vars, data
  <2> QED
    BY <2>1, NothingRead DEF IInv, Types
<1> QED
  BY <1>1, <1>2, <1>3, <1>4, <1>5, <1>6, <1>7 DEF Next

LEMMA Invariance == Spec => []IInv
<1>1. Init => IInv
  BY InitHolds
<1>2. IInv /\ [Next]_vars => IInv'
  BY NextHolds
<1> QED
  BY <1>1, <1>2, PTL DEF Spec

\* CachedSinceSweep: whoever finds a page in the cache after a finished sweep
\* finds one stored after that sweep, read from rows at least as new as every
\* change swept before its reader missed, however many readers, sweeps and
\* Redis failures fall together (products.service.ts and reviews.service.ts).
THEOREM CacheNeverOlderThanSweep == Spec => []CachedSinceSweep
<1>1. IInv => CachedSinceSweep
  BY DEF IInv
<1> QED
  BY <1>1, Invariance, PTL

\* A finished sweep of the product's detail never runs ahead of the summary
\* the detail is computed from: the worker recomputes first and deletes then
\* (aggregation.consumer.ts), so a reader after the sweep finds the new summary.
THEOREM DetailSweptAfterRecompute == Spec => [](swept[Detail] <= summary)
<1>1. IInv => swept[Detail] <= summary
  BY DEF IInv, SweptIsReadable
<1> QED
  BY <1>1, Invariance, PTL

-----------------------------------------------------------------------------
(* Pages.  A cursor is a place in a fixed order of places, the key and the id *)
(* of a row; a page is the stretch of its version's rows between the cursor   *)
(* it was asked with and the one it hands out.                                *)

IsList(list) == list.source \in {"reviews", "mine", "queue"} /\ list.sort \in Sorts
Cursors(list) == {NoCursor} \cup {CursorAt(list.sort, r) : r \in Rows}
Pages(list) == [version : 1..Now, limit : Nat \ {0}, cursor : Cursors(list)]

\* A place the page's query reaches, whether or not a row is there.
Reaches(page, list, r) == page.cursor = NoCursor \/ ResumesAfter(list.sort, r, page.cursor)

LEMMA SelectedRows ==
  ASSUME Types, NEW version \in 1..Now, NEW list, IsList(list)
  PROVE  /\ Selected(version, list) \subseteq Rows
         /\ IsFiniteSet(Selected(version, list))
         /\ DistinctIds(Selected(version, list))
         /\ \A r \in Selected(version, list) : r.id \in Ids /\ r.createdAt = Created[r.id]
<1>1. history[version] \in [Ids -> RowState]
  BY DEF Types, Now
<1>2. PICK ids \in SUBSET Ids : Selected(version, list) = {Row(version, id) : id \in ids}
  <2>1. ListApproved(version, list) \subseteq Ids /\ ListQueue(version) \subseteq Ids
    BY DEF ListApproved, ListQueue
  <2>2. ListByAuthor(version) \subseteq Ids
    BY RowsAssumption DEF ListByAuthor
  <2>3. CASE list.source = "reviews"
    BY <2>1, <2>3 DEF Selected
  <2>4. CASE list.source = "mine"
    BY <2>2, <2>4 DEF Selected
  <2>5. CASE list.source = "queue"
    BY <2>1, <2>5 DEF Selected
  <2> QED
    BY <2>3, <2>4, <2>5 DEF IsList
<1>3. \A id \in Ids : /\ Row(version, id) \in Rows /\ Row(version, id).id = id
                      /\ Row(version, id).createdAt = Created[id]
  <2> TAKE id \in Ids
  <2>1. history[version][id] \in RowState
    BY <1>1
  <2>2. history[version][id].helpful \in Int /\ history[version][id].rating \in 1..5
    BY <2>1 DEF RowState
  <2>3. Created[id] \in Int /\ id \in Int
    BY RowsAssumption
  <2> QED
    BY <2>2, <2>3 DEF Row, Rows
<1>4. /\ Selected(version, list) \subseteq Rows
      /\ \A r \in Selected(version, list) : r.id \in Ids /\ r.createdAt = Created[r.id]
      /\ DistinctIds(Selected(version, list))
  BY <1>2, <1>3 DEF DistinctIds
<1>5. IsFiniteSet(Selected(version, list))
  <2> DEFINE f == [r \in Selected(version, list) |-> r.id]
  <2>1. f \in Injection(Selected(version, list), Ids)
    BY <1>4 DEF Injection, IsInjective, DistinctIds
  <2> QED
    BY <2>1, RowsAssumption, FS_Injection
<1> QED
  BY <1>4, <1>5

LEMMA RemainingRows ==
  ASSUME Types, NEW list, IsList(list), NEW page \in Pages(list)
  PROVE  /\ Remaining(page, list) = {r \in Selected(page.version, list) : Reaches(page, list, r)}
         /\ Remaining(page, list) \subseteq Rows
         /\ IsFiniteSet(Remaining(page, list))
         /\ DistinctIds(Remaining(page, list))
<1>1. Remaining(page, list) = {r \in Selected(page.version, list) : Reaches(page, list, r)}
  BY DEF Remaining, Reaches
<1>2. /\ Selected(page.version, list) \subseteq Rows
      /\ IsFiniteSet(Selected(page.version, list))
      /\ DistinctIds(Selected(page.version, list))
  BY SelectedRows DEF Pages
<1>3. IsFiniteSet(Remaining(page, list))
  BY <1>1, <1>2, FS_Subset
<1> QED
  BY <1>1, <1>2, <1>3 DEF DistinctIds

\* A page that has more hands out the place of one of its rows ...
LEMMA LastOfPage ==
  ASSUME Types, NEW list, IsList(list), NEW page \in Pages(list), HasMore(page, list)
  PROVE  \E last \in Remaining(page, list) :
           /\ NextCursor(page, list) = CursorAt(list.sort, last)
           /\ \A r \in Remaining(page, list) :
                r \in Items(page, list) <=> ~ListedBefore(list.sort, last, r)
<1> DEFINE sort == list.sort
           S == Remaining(page, list)
           kept == Kept(sort, S, page.limit)
           last == CHOOSE r \in kept : \A s \in kept \ {r} : ListedBefore(sort, s, r)
<1>1. S \subseteq Rows /\ IsFiniteSet(S) /\ DistinctIds(S) /\ page.limit \in Nat \ {0} /\ sort \in Sorts
  BY RemainingRows DEF Pages, IsList
<1>2. S # {}
  <2>1. Cardinality(S) > page.limit
    BY DEF HasMore
  <2> QED
    BY <1>1, <2>1, FS_EmptySet
<1>3. Items(page, list) = kept /\ NextCursor(page, list) = CursorAt(sort, last)
  BY DEF Items, NextCursor, Kept
<1> HIDE DEF S, sort
<1>4. /\ \E r \in S : IsLast(sort, kept, r)
      /\ \A r \in S : IsLast(sort, kept, r) => \A s \in S : s \in kept <=> ~ListedBefore(sort, r, s)
  BY <1>1, <1>2, PagesEndInOneRow
<1> HIDE DEF kept
<1>5. IsLast(sort, kept, last)
  BY <1>4 DEF IsLast
<1>6. last \in S
  BY <1>5 DEF IsLast, kept, Kept
<1> HIDE DEF last
<1> QED
  BY <1>3, <1>4, <1>5, <1>6 DEF S, sort

\* ... and its rows are those its query reaches up to that place; a page that
\* has no more shows all it reaches.
LEMMA PageIsAStretch ==
  ASSUME Types, NEW list, IsList(list), NEW page \in Pages(list)
  PROVE  /\ Items(page, list) \subseteq Selected(page.version, list)
         /\ \A r \in Selected(page.version, list) :
              r \in Items(page, list) <=>
                /\ Reaches(page, list, r)
                /\ HasMore(page, list) => ~ResumesAfter(list.sort, r, NextCursor(page, list))
<1>1. /\ Remaining(page, list) = {r \in Selected(page.version, list) : Reaches(page, list, r)}
      /\ Remaining(page, list) \subseteq Rows /\ IsFiniteSet(Remaining(page, list))
  BY RemainingRows
<1>2. Items(page, list) \subseteq Remaining(page, list)
  BY DEF Items
<1>3. ASSUME NEW r \in Remaining(page, list)
      PROVE  r \in Items(page, list) <=>
               (HasMore(page, list) => ~ResumesAfter(list.sort, r, NextCursor(page, list)))
  <2>1. CASE HasMore(page, list)
    <3>1. PICK last \in Remaining(page, list) :
            /\ NextCursor(page, list) = CursorAt(list.sort, last)
            /\ \A s \in Remaining(page, list) :
                 s \in Items(page, list) <=> ~ListedBefore(list.sort, last, s)
      BY <2>1, LastOfPage
    <3>2. ResumesAfter(list.sort, r, CursorAt(list.sort, last)) <=> ListedBefore(list.sort, last, r)
      BY <1>1, CursorResumesAfterItsRow DEF IsList
    <3> QED
      BY <2>1, <3>1, <3>2
  <2>2. CASE ~HasMore(page, list)
    <3>1. ~(Cardinality(Remaining(page, list)) > page.limit)
      BY <2>2 DEF HasMore
    <3>2. page.limit \in Nat /\ list.sort \in Sorts
      BY DEF Pages, IsList
    <3>3. r \in Kept(list.sort, Remaining(page, list), page.limit)
      BY <1>1, <3>1, <3>2, ShortListsAreKept
    <3>4. r \in Items(page, list)
      BY <3>3 DEF Items, Kept
    <3> QED
      BY <2>2, <3>4
  <2> QED
    BY <2>1, <2>2
<1> QED
  BY <1>1, <1>2, <1>3

\* The place handed out lies beyond the one the page was asked with.
LEMMA CursorsDescend ==
  ASSUME Types, NEW list, IsList(list), NEW page \in Pages(list), HasMore(page, list)
  PROVE  /\ NextCursor(page, list) \in Cursors(list) /\ NextCursor(page, list) # NoCursor
         /\ \A r \in Rows :
              ResumesAfter(list.sort, r, NextCursor(page, list)) => Reaches(page, list, r)
<1>1. PICK last \in Remaining(page, list) : NextCursor(page, list) = CursorAt(list.sort, last)
  BY LastOfPage
<1>2. last \in Rows /\ Reaches(page, list, last) /\ list.sort \in Sorts
  BY <1>1, RemainingRows DEF IsList
<1>3. CursorAt(list.sort, last) \in Cursors(list) /\ CursorAt(list.sort, last) # NoCursor
  BY <1>2 DEF Cursors, CursorAt, NoCursor, Sorts
<1>4. ASSUME NEW r \in Rows, ResumesAfter(list.sort, r, CursorAt(list.sort, last))
      PROVE  Reaches(page, list, r)
  <2>1. CASE page.cursor = NoCursor
    BY <2>1 DEF Reaches
  <2>2. CASE page.cursor # NoCursor
    <3>1. PICK s \in Rows : page.cursor = CursorAt(list.sort, s)
      BY <2>2 DEF Pages, Cursors
    <3>2. ListedBefore(list.sort, last, r)
      BY <1>2, <1>4, CursorResumesAfterItsRow
    <3>3. ResumesAfter(list.sort, last, CursorAt(list.sort, s))
      BY <1>2, <2>2, <3>1 DEF Reaches
    <3> QED
      BY <1>2, <3>1, <3>2, <3>3, CursorSelectsATail DEF Reaches
  <2> QED
    BY <2>1, <2>2
<1> QED
  BY <1>1, <1>3, <1>4

-----------------------------------------------------------------------------
(* The pages of the tab: each begins where the one before it ended, and none  *)
(* was read from older rows than the one before.                              *)

Chained(pages, list) ==
  /\ pages \in Seq(Pages(list))
  /\ \A i \in DOMAIN pages :
       pages[i].cursor = IF i = 1 THEN NoCursor ELSE NextCursor(pages[i - 1], list)
  /\ \A i, j \in DOMAIN pages : i < j =>
       /\ HasMore(pages[i], list)
       /\ pages[i].version <= pages[j].version
       /\ \A r \in Rows :
            Reaches(pages[j], list, r) => ResumesAfter(list.sort, r, NextCursor(pages[i], list))

\* A fetch asks for the page after the last one it has, so that one has more.
TabIsChained ==
  /\ tab = [list |-> setting.list, pages |-> tab.pages, fetch |-> tab.fetch, building |-> tab.building]
  /\ Chained(tab.pages, setting.list) /\ Chained(tab.building, setting.list)
  /\ tab.building # <<>> => HasMore(tab.building[Len(tab.building)], setting.list)

\* The tab has one request under way at most, for its first page, which comes
\* before every other; its answer is the page of a version that exists.
TabAsksFirst ==
  /\ \A c, d \in Clients : requests[c].owner = "tab" /\ requests[d].owner = "tab" => c = d
  /\ \A c \in Clients : requests[c].owner = "tab" => tab.building = <<>>

AnswersExist ==
  /\ \A c \in Clients :
       /\ requests[c].at \in {"read", "set"} => requests[c].limit # 0
       /\ requests[c].at = "set" => requests[c].version \in 1..Now
  /\ \A k \in Keys : cache[k] # Miss => cache[k].limit # 0 /\ cache[k].version \in 1..Now

TabInv == TabIsChained /\ TabAsksFirst /\ AnswersExist

\* What was committed stays what it was: no commit changes a page of the past.
LEMMA PastIsKept ==
  ASSUME Types, Now' \in Nat, Now <= Now', \A v \in 1..Now : history'[v] = history[v],
         NEW list, NEW page \in Pages(list)
  PROVE  /\ page \in Pages(list)'
         /\ HasMore(page, list)' = HasMore(page, list)
         /\ NextCursor(page, list)' = NextCursor(page, list)
         /\ Selected(page.version, list)' = Selected(page.version, list)
         /\ Items(page, list)' = Items(page, list)
<1>1. page.version \in 1..Now /\ history'[page.version] = history[page.version] /\ Now \in Nat
  BY DEF Pages, Types, Now
<1>2. page \in Pages(list)'
  BY <1>1 DEF Pages, Cursors
<1>3. Selected(page.version, list)' = Selected(page.version, list)
  BY <1>1 DEF Selected, Row, ListApproved, ListByAuthor, ListQueue
<1>4. Remaining(page, list)' = Remaining(page, list)
  BY <1>3 DEF Remaining
<1>5. Items(page, list)' = Items(page, list) /\ HasMore(page, list)' = HasMore(page, list)
  BY <1>4 DEF Items, HasMore
<1> QED
  BY <1>2, <1>3, <1>5 DEF NextCursor

LEMMA ChainIsKept ==
  ASSUME Types, Now' \in Nat, Now <= Now', \A v \in 1..Now : history'[v] = history[v],
         NEW list, NEW pages, Chained(pages, list)
  PROVE  Chained(pages, list)'
<1>1. /\ pages \in Seq(Pages(list))
      /\ \A i \in DOMAIN pages : i \in Nat \ {0} /\ (i # 1 => i - 1 \in DOMAIN pages)
  BY DEF Chained
<1>2. \A page \in Pages(list) : /\ page \in Pages(list)'
                               /\ HasMore(page, list)' = HasMore(page, list)
                               /\ NextCursor(page, list)' = NextCursor(page, list)
  BY PastIsKept
<1>3. \A i \in DOMAIN pages : pages[i] \in Pages(list)
  BY <1>1
<1>4. pages \in Seq(Pages(list)')
  BY <1>1, <1>2
<1>5. \A i \in DOMAIN pages :
        pages[i].cursor = IF i = 1 THEN NoCursor ELSE NextCursor(pages[i - 1], list)'
  BY <1>1, <1>2, <1>3 DEF Chained
<1>6. \A i, j \in DOMAIN pages : i < j =>
        /\ HasMore(pages[i], list)'
        /\ pages[i].version <= pages[j].version
        /\ \A r \in Rows :
             Reaches(pages[j], list, r) => ResumesAfter(list.sort, r, NextCursor(pages[i], list)')
  BY <1>2, <1>3 DEF Chained
<1>7. \A page, r : Reaches(page, list, r)' <=> Reaches(page, list, r)
  BY DEF Reaches
<1> QED
  BY <1>4, <1>5, <1>6, <1>7 DEF Chained

LEMMA EmptyChain == ASSUME NEW list PROVE Chained(<<>>, list)
BY DEF Chained

\* A page of rows at least as new, asked for where the last page ended.
LEMMA ChainGrows ==
  ASSUME Types, NEW list, IsList(list), NEW pages, Chained(pages, list), NEW page \in Pages(list),
         \A i \in DOMAIN pages : pages[i].version <= page.version,
         pages = <<>> => page.cursor = NoCursor,
         pages # <<>> => /\ HasMore(pages[Len(pages)], list)
                         /\ page.cursor = NextCursor(pages[Len(pages)], list)
  PROVE  Chained(Append(pages, page), list)
<1> DEFINE n == Len(pages)
           more == Append(pages, page)
<1>1. pages \in Seq(Pages(list)) /\ n \in Nat
  BY DEF Chained
<1>2. /\ more \in Seq(Pages(list)) /\ Len(more) = n + 1 /\ more[n + 1] = page
      /\ \A i \in DOMAIN pages : more[i] = pages[i]
      /\ DOMAIN pages = 1..n /\ DOMAIN more = 1..(n + 1) /\ (pages = <<>> <=> n = 0)
  BY <1>1
<1> HIDE DEF more, n
<1>3. ASSUME NEW i \in DOMAIN more
      PROVE  more[i].cursor = IF i = 1 THEN NoCursor ELSE NextCursor(more[i - 1], list)
  <2>1. CASE i \in DOMAIN pages
    <3>1. i # 1 => i - 1 \in DOMAIN pages
      BY <1>1, <1>2, <2>1
    <3> QED
      BY <1>2, <2>1, <3>1 DEF Chained
  <2>2. CASE i = n + 1 /\ n # 0
    <3>1. i # 1 /\ i - 1 = n /\ n \in DOMAIN pages
      BY <1>1, <1>2, <2>2
    <3> QED
      BY <1>2, <2>2, <3>1 DEF n
  <2>3. CASE i = n + 1 /\ n = 0
    BY <1>2, <2>3
  <2> QED
    BY <1>1, <1>2, <2>1, <2>2, <2>3
<1>4. ASSUME NEW i \in DOMAIN pages
      PROVE  /\ HasMore(pages[i], list)
             /\ \A r \in Rows : Reaches(page, list, r) =>
                                ResumesAfter(list.sort, r, NextCursor(pages[i], list))
  <2>1. /\ n \in DOMAIN pages /\ HasMore(pages[n], list) /\ pages[n] \in Pages(list)
        /\ page.cursor = NextCursor(pages[n], list)
    BY <1>1, <1>2 DEF n
  <2>2. /\ NextCursor(pages[n], list) # NoCursor
        /\ \A r \in Rows : ResumesAfter(list.sort, r, NextCursor(pages[n], list)) =>
                           Reaches(pages[n], list, r)
    BY <2>1, CursorsDescend
  <2>3. CASE i = n
    BY <2>1, <2>2, <2>3 DEF Reaches
  <2>4. CASE i # n
    <3>1. i < n
      BY <1>1, <1>2, <2>4
    <3> QED
      BY <2>1, <2>2, <3>1 DEF Reaches, Chained
  <2> QED
    BY <2>3, <2>4
<1>5. ASSUME NEW i \in DOMAIN more, NEW j \in DOMAIN more, i < j
      PROVE  /\ HasMore(more[i], list)
             /\ more[i].version <= more[j].version
             /\ \A r \in Rows : Reaches(more[j], list, r) =>
                                ResumesAfter(list.sort, r, NextCursor(more[i], list))
  <2>1. i \in DOMAIN pages
    BY <1>1, <1>2, <1>5
  <2>2. CASE j = n + 1
    BY <1>2, <1>4, <2>1, <2>2
  <2>3. CASE j # n + 1
    <3>1. j \in DOMAIN pages
      BY <1>1, <1>2, <2>3
    <3> QED
      BY <1>2, <1>5, <2>1, <3>1 DEF Chained
  <2> QED
    BY <2>2, <2>3
<1>6. Chained(more, list)
  BY <1>2, <1>3, <1>5 DEF Chained
<1> QED
  BY <1>6 DEF more

LEMMA TabInitHolds == Init => TabInv
<1> SUFFICES ASSUME Init PROVE TabInv
  OBVIOUS
<1>1. Types
  BY InitHolds DEF IInv
<1>2. tab.pages = <<>> /\ tab.building = <<>> /\ Chained(<<>>, setting.list)
  BY EmptyChain DEF Init
<1>3. TabIsChained
  BY <1>2 DEF Init, TabIsChained
<1>4. TabAsksFirst /\ AnswersExist
  BY DEF Init, TabAsksFirst, AnswersExist, Idle
<1> QED
  BY <1>3, <1>4 DEF TabInv

\* Steps that leave the tab as it is.
LEMMA TabStays ==
  ASSUME Types, TabIsChained, UNCHANGED <<tab, setting>>,
         Now' \in Nat, Now <= Now', \A v \in 1..Now : history'[v] = history[v]
  PROVE  TabIsChained'
<1>1. PICK pages, building, list :
        pages = tab.pages /\ building = tab.building /\ list = setting.list
  OBVIOUS
<1>2. Chained(pages, list) /\ Chained(building, list)
  BY <1>1 DEF TabIsChained
<1>3. Chained(pages, list)' /\ Chained(building, list)'
  BY <1>2, ChainIsKept
<1>4. building # <<>> => HasMore(building[Len(building)], list)'
  <2> SUFFICES ASSUME building # <<>> PROVE HasMore(building[Len(building)], list)'
    OBVIOUS
  <2>1. building[Len(building)] \in Pages(list)
    BY <1>2 DEF Chained
  <2>2. HasMore(building[Len(building)], list)
    BY <1>1 DEF TabIsChained
  <2> QED
    BY <2>1, <2>2, PastIsKept
<1> QED
  BY <1>1, <1>3, <1>4 DEF TabIsChained

\* Commits, sweeps and expiry: nothing is read, and an entry at most goes away.
LEMMA OthersKeepTab ==
  ASSUME Types, TabInv, UNCHANGED <<tab, setting, requests>>,
         Now' \in Nat, Now <= Now', \A v \in 1..Now : history'[v] = history[v],
         \A k \in Keys : cache'[k] = cache[k] \/ cache'[k] = Miss
  PROVE  TabInv'
<1>1. TabIsChained'
  BY TabStays DEF TabInv
<1>2. TabAsksFirst'
  BY DEF TabInv, TabAsksFirst
<1>3. 1..Now \subseteq 1..(Now')
  BY DEF Types, Now
<1>4. AnswersExist'
  BY <1>3 DEF TabInv, AnswersExist
<1> QED
  BY <1>1, <1>2, <1>4 DEF TabInv

LEMMA ChangesKeepTab ==
  ASSUME Types, TabInv, NEW id \in Movers, Vote(id) \/ Publish(id) \/ Edit(id) \/ Remove(id)
  PROVE  TabInv'
<1>1. PICK row, kind : Commit(id, row, kind)
  <2>1. CASE Vote(id)
    BY <2>1 DEF Vote
  <2>2. CASE Publish(id)
    BY <2>2 DEF Publish
  <2>3. CASE Edit(id)
    BY <2>3 DEF Edit
  <2>4. CASE Remove(id)
    BY <2>4 DEF Remove
  <2> QED
    BY <2>1, <2>2, <2>3, <2>4
<1>2. /\ Now' = Now + 1 /\ Now \in Nat
      /\ \A v \in 1..Now : history'[v] = history[v]
  <2>1. PICK rows : history' = Append(history, rows)
    BY <1>1 DEF Commit
  <2> QED
    BY <2>1 DEF Types, Now
<1>3. UNCHANGED <<tab, setting, requests, cache>>
  BY <1>1 DEF Commit
<1> QED
  BY <1>2, <1>3, OthersKeepTab

LEMMA InvalidationKeepsTab ==
  ASSUME Types, TabInv, NEW j \in DOMAIN jobs, Invalidation(j) \/ SweepFails(j)
  PROVE  TabInv'
<1>1. UNCHANGED <<tab, setting, requests, history>>
  BY DEF Invalidation, Recompute, DeleteDetail, SweepAfterVote, ScanAndDelete, SweepFails
<1>2. \A k \in Keys : cache'[k] = cache[k] \/ cache'[k] = Miss
  BY DEF Invalidation, Recompute, DeleteDetail, SweepAfterVote, ScanAndDelete, SweepFails, Erase
<1>3. Now' = Now /\ Now \in Nat
  BY <1>1 DEF Types, Now
<1> QED
  BY <1>1, <1>2, <1>3, OthersKeepTab

LEMMA ExpireKeepsTab ==
  ASSUME Types, TabInv, NEW key \in Keys, Expire(key)
  PROVE  TabInv'
<1>1. UNCHANGED <<tab, setting, requests, history>>
  BY DEF Expire, data
<1>2. \A k \in Keys : cache'[k] = cache[k] \/ cache'[k] = Miss
  BY DEF Expire, Types
<1>3. Now' = Now /\ Now \in Nat
  BY <1>1 DEF Types, Now
<1> QED
  BY <1>1, <1>2, <1>3, OthersKeepTab

LEMMA AsksKeepTab ==
  ASSUME Types, TabInv, NEW c \in Clients, OtherAsks(c) \/ TabMisses(c) \/ GetFails(c)
  PROVE  TabInv'
<1>1. UNCHANGED <<tab, setting, history, cache>>
  BY DEF OtherAsks, TabMisses, GetFails, data
<1>2. PICK owner \in {"tab", "other"}, key \in setting.keys \cup {tab.list}, limit \in Nat \ {0} :
        /\ requests' = [requests EXCEPT ![c] = Missed(owner, key, limit)]
        /\ owner = "tab" => TabWaits /\ tab.building = <<>>
  <2>1. TabLimit \in Nat \ {0} /\ Limits \subseteq Nat \ {0}
    BY SizesAssumption
  <2>2. CASE OtherAsks(c)
    BY <2>1, <2>2 DEF OtherAsks
  <2>3. CASE TabMisses(c)
    BY <2>1, <2>3 DEF TabMisses
  <2>4. CASE GetFails(c)
    BY <2>1, <2>4 DEF GetFails
  <2> QED
    BY <2>2, <2>3, <2>4
<1>3. /\ \A d \in Clients \ {c} : requests'[d] = requests[d]
      /\ requests'[c].at = "read" /\ requests'[c].owner = owner /\ requests'[c].limit = limit
  BY <1>2 DEF Types, Missed, Idle
<1>4. Now' = Now /\ Now \in Nat
  BY <1>1 DEF Types, Now
<1>5. TabIsChained'
  BY <1>1, <1>4, TabStays DEF TabInv
<1>6. TabAsksFirst'
  BY <1>1, <1>2, <1>3 DEF TabInv, TabAsksFirst, TabWaits
<1>7. AnswersExist'
  BY <1>1, <1>2, <1>3, <1>4 DEF TabInv, AnswersExist
<1> QED
  BY <1>5, <1>6, <1>7 DEF TabInv

LEMMA ReadRowsKeepsTab ==
  ASSUME Types, TabInv, NEW c \in Clients, ReadRows(c)
  PROVE  TabInv'
<1>1. UNCHANGED <<tab, setting, history, cache>>
  BY DEF ReadRows, data
<1>2. /\ \A d \in Clients \ {c} : requests'[d] = requests[d]
      /\ DOMAIN requests' = Clients
      /\ requests[c].at = "read" /\ requests'[c].owner = requests[c].owner
      /\ requests'[c].limit = requests[c].limit
      /\ requests'[c].at = "set" => requests'[c].version \in {summary, Now}
  BY DEF ReadRows, Types
<1>3. Now' = Now /\ Now \in Nat \ {0} /\ summary \in 1..Now
  BY <1>1, NowIsPositive DEF Types, Now
<1>4. TabIsChained'
  BY <1>1, <1>3, TabStays DEF TabInv
<1>5. TabAsksFirst'
  BY <1>1, <1>2 DEF TabInv, TabAsksFirst
<1>6. AnswersExist'
  BY <1>1, <1>2, <1>3 DEF TabInv, AnswersExist
<1> QED
  BY <1>4, <1>5, <1>6 DEF TabInv

LEMMA SettingHasList == Types => IsList(setting.list)
BY ListsAssumption DEF Types, IsList

\* An answer for the page the tab waits for.
LEMMA ArriveHolds ==
  ASSUME Types, TabIsChained, UNCHANGED <<history, setting>>,
         NEW page \in Pages(setting.list), Arrive(page),
         \A i \in DOMAIN tab.building : tab.building[i].version <= page.version,
         tab.building = <<>> => page.cursor = NoCursor,
         tab.building # <<>> =>
           page.cursor = NextCursor(tab.building[Len(tab.building)], setting.list)
  PROVE  TabIsChained'
<1>1. PICK list, building : list = setting.list /\ building = tab.building
  OBVIOUS
<1> DEFINE pages == Append(building, page)
<1>2. Chained(building, list) /\ IsList(list) /\ page \in Pages(list)
  BY <1>1, SettingHasList DEF TabIsChained
<1>3. Chained(pages, list)
  <2> HIDE DEF pages
  <2>1. \A i \in DOMAIN building : building[i].version <= page.version
    BY <1>1
  <2>2. building = <<>> => page.cursor = NoCursor
    BY <1>1
  <2>3. building # <<>> => /\ HasMore(building[Len(building)], list)
                           /\ page.cursor = NextCursor(building[Len(building)], list)
    BY <1>1 DEF TabIsChained
  <2> QED
    BY <1>2, <2>1, <2>2, <2>3, ChainGrows DEF pages
<1>4. pages # <<>> /\ pages[Len(pages)] = page
  BY <1>2 DEF Chained
<1>5. \/ tab' = [tab EXCEPT !.pages = pages, !.fetch = "none", !.building = <<>>]
      \/ tab' = [tab EXCEPT !.building = pages] /\ HasMore(page, list)
  BY <1>1 DEF Arrive, TabIsChained
<1>6. UNCHANGED <<history, setting>> /\ Now' = Now
  BY DEF Now
<1>7. PICK old, fetch : /\ old = tab.pages /\ fetch = tab.fetch /\ Chained(old, list)
                        /\ tab = [list |-> list, pages |-> old, fetch |-> fetch, building |-> building]
  BY <1>1 DEF TabIsChained
<1> HIDE DEF pages
<1>8. \/ tab' = [list |-> list, pages |-> pages, fetch |-> "none", building |-> <<>>]
      \/ /\ tab' = [list |-> list, pages |-> old, fetch |-> fetch, building |-> pages]
         /\ HasMore(page, list)
  <2>1. \/ tab' = [x \in DOMAIN tab |-> IF x = "building" THEN <<>> ELSE IF x = "fetch" THEN "none"
                                       ELSE IF x = "pages" THEN pages ELSE tab[x]]
        \/ /\ tab' = [x \in DOMAIN tab |-> IF x = "building" THEN pages ELSE tab[x]]
           /\ HasMore(page, list)
    BY <1>5
  <2> QED
    BY <1>7, <2>1
<1>9. /\ Chained(pages, list)' /\ Chained(<<>>, list)' /\ Chained(old, list)'
      /\ HasMore(page, list) => HasMore(page, list)'
  <2>1. Now' \in Nat /\ Now <= Now' /\ \A v \in 1..Now : history'[v] = history[v]
    BY <1>6 DEF Types, Now
  <2>2. Chained(<<>>, list)
    BY EmptyChain
  <2>3. PICK given : given = pages
    OBVIOUS
  <2>4. Chained(given, list)' /\ Chained(<<>>, list)' /\ Chained(old, list)'
    BY <1>3, <1>7, <2>1, <2>2, <2>3, ChainIsKept
  <2>5. HasMore(page, list)' = HasMore(page, list)
    BY <1>2, <2>1, PastIsKept
  <2> QED
    BY <2>3, <2>4, <2>5
<1> QED
  BY <1>1, <1>4, <1>6, <1>8, <1>9 DEF TabIsChained

\* The answer to a first page, with its entry in the cache or without.
LEMMA AnswerHolds ==
  ASSUME Types, TabInv, NEW c \in Clients, requests[c].at = "set",
         requests[c].version \in Nat, requests[c].limit \in Nat,
         Answer(c, Page(requests[c].version, requests[c].limit, NoCursor)),
         UNCHANGED <<history, setting>>
  PROVE  /\ TabIsChained' /\ TabAsksFirst'
         /\ \A d \in Clients : requests'[d].at = "idle" \/ (d # c /\ requests'[d] = requests[d])
<1>1. PICK page : page = Page(requests[c].version, requests[c].limit, NoCursor)
  OBVIOUS
<1>2. /\ \A d \in Clients \ {c} : requests'[d] = requests[d]
      /\ requests'[c].at = "idle" /\ requests'[c].owner = "other"
  BY DEF Answer, Types, Idle
<1>3. page \in Pages(setting.list) /\ page.cursor = NoCursor
  BY <1>1 DEF TabInv, AnswersExist, Pages, Page, Cursors
<1>4. CASE requests[c].owner = "tab"
  <2>1. Arrive(page)
    BY <1>1, <1>4 DEF Answer
  <2>2. tab.building = <<>>
    BY <1>4 DEF TabInv, TabAsksFirst
  <2>3. TabIsChained'
    BY <1>3, <2>1, <2>2, ArriveHolds DEF TabInv
  <2>4. \A d \in Clients : requests'[d].owner # "tab"
    BY <1>2, <1>4 DEF TabInv, TabAsksFirst
  <2> QED
    BY <1>2, <2>3, <2>4 DEF TabAsksFirst
<1>5. CASE requests[c].owner # "tab"
  <2>1. tab' = tab
    BY <1>5 DEF Answer
  <2>2. Now' = Now /\ Now \in Nat
    BY DEF Types, Now
  <2>3. TabIsChained'
    BY <2>1, <2>2, TabStays DEF TabInv
  <2>4. TabAsksFirst'
    BY <1>2, <2>1 DEF TabInv, TabAsksFirst
  <2> QED
    BY <1>2, <2>3, <2>4
<1> QED
  BY <1>4, <1>5

LEMMA StoresKeepTab ==
  ASSUME Types, ReadsAreCurrent, TabInv, NEW c \in Clients, Store(c) \/ StoreFails(c)
  PROVE  TabInv'
<1>1. /\ requests[c].at = "set"
      /\ Answer(c, Page(requests[c].version, requests[c].limit, NoCursor))
      /\ UNCHANGED <<history, setting>>
  BY DEF Store, StoreFails, data
<1>2. /\ requests[c].version \in Nat /\ requests[c].limit \in Nat
      /\ requests[c].limit # 0 /\ requests[c].version \in 1..Now
  BY <1>1 DEF ReadsAreCurrent, TabInv, AnswersExist
<1>3. /\ TabIsChained' /\ TabAsksFirst'
      /\ \A d \in Clients : requests'[d].at = "idle" \/ (d # c /\ requests'[d] = requests[d])
  BY <1>1, <1>2, AnswerHolds
<1>4. \A k \in Keys : cache'[k] # cache[k] => cache'[k] = Stored(requests[c])
  <2>1. CASE Store(c)
    BY <2>1 DEF Store, Types
  <2>2. CASE StoreFails(c)
    BY <2>2 DEF StoreFails
  <2> QED
    BY <2>1, <2>2
<1>5. Stored(requests[c]).limit # 0 /\ Stored(requests[c]).version \in 1..Now
  BY <1>2 DEF Stored
<1>6. Now' = Now
  BY <1>1 DEF Now
<1>7. AnswersExist'
  BY <1>3, <1>4, <1>5, <1>6 DEF TabInv, AnswersExist
<1> QED
  BY <1>3, <1>7 DEF TabInv

LEMMA TabHitsKeepsTab ==
  ASSUME Types, TabInv, TabHits
  PROVE  TabInv'
<1>1. UNCHANGED <<history, setting, cache, requests>>
  BY DEF TabHits, data
<1>2. PICK page : /\ Arrive(page)
                  /\ page = Page(cache[tab.list].version, cache[tab.list].limit, NoCursor)
  BY DEF TabHits
<1>3. tab.building = <<>> /\ tab.list \in Keys /\ cache[tab.list] # Miss
  BY DEF TabHits, Keys
<1>4. page \in Pages(setting.list) /\ page.cursor = NoCursor
  <2>1. cache[tab.list].limit # 0 /\ cache[tab.list].version \in 1..Now /\ cache[tab.list] \in Entry
    BY <1>3 DEF Types, TabInv, AnswersExist
  <2> QED
    BY <1>2, <2>1 DEF Entry, Pages, Page, Cursors
<1>5. TabIsChained'
  BY <1>1, <1>2, <1>3, <1>4, ArriveHolds DEF TabInv
<1>6. TabAsksFirst' /\ AnswersExist'
  BY <1>1 DEF TabHits, TabWaits, TabInv, TabAsksFirst, AnswersExist, Now
<1> QED
  BY <1>5, <1>6 DEF TabInv

LEMMA ReadUncachedKeepsTab ==
  ASSUME Types, TabInv, ReadUncached
  PROVE  TabInv'
<1> DEFINE n == Len(tab.building)
           cursor == IF tab.building = <<>> THEN NoCursor
                     ELSE NextCursor(tab.building[n], setting.list)
<1>1. UNCHANGED <<history, setting, cache, requests>>
  BY DEF ReadUncached, data
<1>2. PICK page : Arrive(page) /\ page = Page(Now, TabLimit, cursor)
  BY DEF ReadUncached, TabInv, TabIsChained
<1>3. /\ tab.building \in Seq(Pages(setting.list)) /\ IsList(setting.list)
      /\ tab.building # <<>> => HasMore(tab.building[n], setting.list)
  BY SettingHasList DEF TabInv, TabIsChained, Chained
<1>4. cursor \in Cursors(setting.list)
  <2>1. CASE tab.building = <<>>
    BY <2>1 DEF Cursors
  <2>2. CASE tab.building # <<>>
    <3>1. tab.building[n] \in Pages(setting.list)
      BY <1>3, <2>2
    <3> QED
      BY <1>3, <2>2, <3>1, CursorsDescend
  <2> QED
    BY <2>1, <2>2
<1>5. /\ page \in Pages(setting.list) /\ page.cursor = cursor
      /\ \A i \in DOMAIN tab.building : tab.building[i].version <= page.version
  <2> HIDE DEF cursor
  <2>1. Now \in Nat \ {0}
    BY NowIsPositive
  <2>2. page = [version |-> Now, limit |-> TabLimit, cursor |-> cursor]
    BY <1>2 DEF Page
  <2>3. page \in Pages(setting.list) /\ page.cursor = cursor /\ page.version = Now
    BY <1>4, <2>1, <2>2, SizesAssumption DEF Pages
  <2>4. \A i \in DOMAIN tab.building : tab.building[i].version \in 1..Now
    <3>1. \A i \in DOMAIN tab.building : tab.building[i] \in Pages(setting.list)
      BY <1>3
    <3> QED
      BY <3>1 DEF Pages
  <2> QED
    BY <2>1, <2>3, <2>4
<1>6. TabIsChained'
  BY <1>1, <1>2, <1>5, ArriveHolds DEF TabInv
<1>7. TabAsksFirst' /\ AnswersExist'
  BY <1>1 DEF ReadUncached, TabWaits, TabInv, TabAsksFirst, AnswersExist, Now
<1> QED
  BY <1>6, <1>7 DEF TabInv

LEMMA FetchesKeepTab ==
  ASSUME Types, TabInv, Refetch \/ LoadMore
  PROVE  TabInv'
<1>1. UNCHANGED <<history, setting, cache>> /\ Now' = Now
  BY DEF Refetch, LoadMore, StartFetch, data, Now
<1>2. PICK fetch, building :
        /\ tab' = [tab EXCEPT !.fetch = fetch, !.building = building]
        /\ \/ building = <<>>
           \/ building = tab.pages /\ HasMore(building[Len(building)], setting.list)
  <2>1. tab.list = setting.list
    BY DEF TabInv, TabIsChained
  <2>2. CASE Refetch
    BY <2>2 DEF Refetch, StartFetch
  <2>3. CASE LoadMore
    BY <2>1, <2>3 DEF LoadMore, StartFetch
  <2> QED
    BY <2>2, <2>3
<1>3. PICK pages, list : /\ pages = tab.pages /\ list = setting.list /\ Chained(pages, list)
                         /\ tab' = [list |-> list, pages |-> pages, fetch |-> fetch, building |-> building]
  <2>1. PICK pages, list, f, b :
          /\ pages = tab.pages /\ list = setting.list /\ Chained(pages, list)
          /\ tab = [list |-> list, pages |-> pages, fetch |-> f, building |-> b]
    BY DEF TabInv, TabIsChained
  <2>2. tab' = [x \in DOMAIN tab |-> IF x = "building" THEN building
                                    ELSE IF x = "fetch" THEN fetch ELSE tab[x]]
    BY <1>2
  <2>3. tab' = [list |-> list, pages |-> pages, fetch |-> fetch, building |-> building]
    BY <2>1, <2>2
  <2> QED
    BY <2>1, <2>3
<1>4. Chained(building, list) /\ (building # <<>> => HasMore(building[Len(building)], list))
  BY <1>2, <1>3, EmptyChain
<1>5. /\ Chained(pages, list)' /\ Chained(building, list)'
      /\ building # <<>> => HasMore(building[Len(building)], list)'
  <2>1. Now' \in Nat /\ Now <= Now' /\ \A v \in 1..Now : history'[v] = history[v]
    BY <1>1 DEF Types, Now
  <2>2. Chained(pages, list)' /\ Chained(building, list)'
    BY <1>3, <1>4, <2>1, ChainIsKept
  <2>3. building # <<>> => building[Len(building)] \in Pages(list)
    BY <1>4 DEF Chained
  <2> QED
    BY <1>4, <2>1, <2>2, <2>3, PastIsKept
<1>6. TabIsChained'
  BY <1>1, <1>3, <1>5 DEF TabIsChained
<1>7. requests' = [d \in Clients |-> IF requests[d] = Idle THEN Idle
                                     ELSE [requests[d] EXCEPT !.owner = "other"]]
  BY DEF Refetch, LoadMore, StartFetch
<1>8. \A d \in Clients : /\ requests'[d].owner # "tab"
                        /\ \/ requests'[d].at = "idle"
                           \/ /\ requests'[d].at = requests[d].at
                              /\ requests'[d].limit = requests[d].limit
                              /\ requests'[d].version = requests[d].version
  BY <1>7 DEF Idle
<1>9. TabAsksFirst' /\ AnswersExist'
  BY <1>1, <1>8 DEF TabInv, TabAsksFirst, AnswersExist
<1> QED
  BY <1>6, <1>9 DEF TabInv

LEMMA NextKeepsTab == IInv /\ TabInv /\ [Next]_vars => TabInv'
<1> SUFFICES ASSUME IInv, TabInv, [Next]_vars PROVE TabInv'
  OBVIOUS
<1>1. Types /\ ReadsAreCurrent
  BY DEF IInv
<1>2. CASE \E id \in Movers : Vote(id) \/ Publish(id) \/ Edit(id) \/ Remove(id)
  BY <1>1, <1>2, ChangesKeepTab
<1>3. CASE \E j \in DOMAIN jobs : Invalidation(j) \/ SweepFails(j)
  BY <1>1, <1>3, InvalidationKeepsTab
<1>4. CASE \E c \in Clients : OtherAsks(c) \/ TabMisses(c) \/ GetFails(c)
  BY <1>1, <1>4, AsksKeepTab
<1>5. CASE \E c \in Clients : ReadRows(c)
  BY <1>1, <1>5, ReadRowsKeepsTab
<1>6. CASE \E c \in Clients : Store(c) \/ StoreFails(c)
  BY <1>1, <1>6, StoresKeepTab
<1>7. CASE TabHits \/ ReadUncached
  BY <1>1, <1>7, TabHitsKeepsTab, ReadUncachedKeepsTab
<1>8. CASE \E k \in Keys : Expire(k)
  BY <1>1, <1>8, ExpireKeepsTab
<1>9. CASE Refetch \/ LoadMore
  BY <1>1, <1>9, FetchesKeepTab
<1>10. CASE UNCHANGED vars
  <2>1. UNCHANGED <<tab, setting, requests, history, cache>> /\ Now' = Now /\ Now \in Nat
    BY <1>1, <1>10 DEF vars, Types, Now
  <2> QED
    BY <1>1, <2>1, OthersKeepTab
<1> QED
  BY <1>2, <1>3, <1>4, <1>5, <1>6, <1>7, <1>8, <1>9, <1>10 DEF Next, Serve

LEMMA TabInvariance == Spec => []TabInv
<1>1. Init => TabInv
  BY TabInitHolds
<1>2. IInv /\ TabInv /\ [Next]_vars => TabInv'
  BY NextKeepsTab
<1> QED
  BY <1>1, <1>2, Invariance, PTL DEF Spec

-----------------------------------------------------------------------------
(* What the tab shows.                                                        *)

\* One place of the order is in one page at most.
LEMMA PlacesAreShownOnce ==
  ASSUME Types, NEW list, IsList(list), NEW pages, Chained(pages, list),
         NEW i \in DOMAIN pages, NEW j \in DOMAIN pages,
         NEW r \in Items(pages[i], list), NEW s \in Items(pages[j], list),
         r.id = s.id, KeyOf(list.sort, r) = KeyOf(list.sort, s)
  PROVE  i = j
<1>1. ASSUME NEW k \in DOMAIN pages
      PROVE  /\ pages[k] \in Pages(list) /\ k \in Nat
             /\ Selected(pages[k].version, list) \subseteq Rows
             /\ Items(pages[k], list) \subseteq Selected(pages[k].version, list)
             /\ \A t \in Items(pages[k], list) :
                  /\ Reaches(pages[k], list, t)
                  /\ HasMore(pages[k], list) => ~ResumesAfter(list.sort, t, NextCursor(pages[k], list))
  <2>1. pages[k] \in Pages(list) /\ k \in Nat
    BY DEF Chained
  <2>2. Selected(pages[k].version, list) \subseteq Rows
    BY <2>1, SelectedRows DEF Pages
  <2> QED
    BY <2>1, <2>2, PageIsAStretch
<1>2. r \in Rows /\ s \in Rows
  BY <1>1
<1>3. \A cursor : ResumesAfter(list.sort, r, cursor) <=> ResumesAfter(list.sort, s, cursor)
  BY DEF ResumesAfter
<1>4. \A page : Reaches(page, list, r) <=> Reaches(page, list, s)
  BY <1>3 DEF Reaches
<1>5. ~(i < j)
  <2> SUFFICES ASSUME i < j PROVE FALSE
    OBVIOUS
  <2>1. /\ HasMore(pages[i], list)
        /\ Reaches(pages[j], list, s) => ResumesAfter(list.sort, s, NextCursor(pages[i], list))
    BY <1>2 DEF Chained
  <2> QED
    BY <1>1, <1>3, <2>1
<1>6. ~(j < i)
  <2> SUFFICES ASSUME j < i PROVE FALSE
    OBVIOUS
  <2>1. /\ HasMore(pages[j], list)
        /\ Reaches(pages[i], list, r) => ResumesAfter(list.sort, r, NextCursor(pages[j], list))
    BY <1>2 DEF Chained
  <2> QED
    BY <1>1, <1>3, <2>1
<1> QED
  BY <1>1, <1>5, <1>6

LEMMA AtMostOne ==
  ASSUME NEW S, \A i, j \in S : i = j
  PROVE  IsFiniteSet(S) /\ Cardinality(S) = IF S = {} THEN 0 ELSE 1
<1>1. CASE S = {}
  BY <1>1, FS_EmptySet
<1>2. CASE S # {}
  <2>1. PICK i : S = {i}
    BY <1>2
  <2> QED
    BY <2>1, FS_Singleton
<1> QED
  BY <1>1, <1>2

\* A row that stays where it is, in every version the pages were read from, is
\* in some page, unless its place lies beyond the last.
LEMMA UnmovedIsReached ==
  ASSUME Types, NEW list, IsList(list), NEW pages, Chained(pages, list), pages # <<>>,
         NEW r, \A v \in pages[1].version..pages[Len(pages)].version : r \in Selected(v, list)
  PROVE  /\ r \in Rows
         /\ \A i \in DOMAIN pages : r \in Selected(pages[i].version, list)
         /\ (\E i \in DOMAIN pages : r \in Items(pages[i], list)) <=>
              ~(/\ HasMore(pages[Len(pages)], list)
                /\ ResumesAfter(list.sort, r, NextCursor(pages[Len(pages)], list)))
<1> DEFINE n == Len(pages)
<1>1. /\ pages \in Seq(Pages(list)) /\ n \in Nat \ {0} /\ DOMAIN pages = 1..n
      /\ 1 \in DOMAIN pages /\ n \in DOMAIN pages
  BY DEF Chained
<1>2. \A i \in DOMAIN pages : pages[i] \in Pages(list) /\ pages[i].version \in 1..Now
  <2>1. \A i \in DOMAIN pages : pages[i] \in Pages(list)
    BY <1>1
  <2> QED
    BY <2>1 DEF Pages
<1>3. \A i \in DOMAIN pages : r \in Selected(pages[i].version, list)
  <2> SUFFICES ASSUME NEW i \in DOMAIN pages
               PROVE  pages[i].version \in pages[1].version..pages[n].version
    OBVIOUS
  <2>1. pages[1].version <= pages[i].version
    <3>1. i = 1 \/ 1 < i
      BY <1>1
    <3> QED
      BY <1>1, <1>2, <3>1 DEF Chained
  <2>2. pages[i].version <= pages[n].version
    <3>1. i = n \/ i < n
      BY <1>1
    <3> QED
      BY <1>1, <1>2, <3>1 DEF Chained
  <2> QED
    BY <1>1, <1>2, <2>1, <2>2
<1>4. r \in Rows
  BY <1>1, <1>2, <1>3, SelectedRows
<1>5. \A i \in DOMAIN pages :
        r \in Items(pages[i], list) <=>
          /\ Reaches(pages[i], list, r)
          /\ HasMore(pages[i], list) => ~ResumesAfter(list.sort, r, NextCursor(pages[i], list))
  BY <1>2, <1>3, PageIsAStretch
<1> DEFINE beyond == /\ HasMore(pages[n], list)
                     /\ ResumesAfter(list.sort, r, NextCursor(pages[n], list))
<1>6. ASSUME ~beyond PROVE \E i \in DOMAIN pages : r \in Items(pages[i], list)
  <2> DEFINE J == {j \in DOMAIN pages : ~Reaches(pages[j], list, r)}
  <2>1. CASE J = {}
    <3>1. Reaches(pages[n], list, r)
      BY <1>1, <2>1
    <3> QED
      BY <1>1, <1>5, <1>6, <3>1
  <2>2. CASE J # {}
    <3>1. PICK j \in J : \A k \in J : j <= k
      <4>1. J \subseteq Nat
        BY <1>1
      <4> HIDE DEF J
      <4> QED
        BY <2>2, <4>1, LeastNumber
    <3>2. j # 1
      BY <1>1 DEF Chained, Reaches
    <3>3. j \in Nat /\ j - 1 \in DOMAIN pages /\ j - 1 \notin J
      BY <1>1, <3>1, <3>2
    <3>4. pages[j].cursor = NextCursor(pages[j - 1], list)
      BY <3>1, <3>2 DEF Chained
    <3>5. ~ResumesAfter(list.sort, r, NextCursor(pages[j - 1], list))
      BY <3>1, <3>4 DEF Reaches
    <3> QED
      BY <1>5, <3>3, <3>5
  <2> QED
    BY <2>1, <2>2
<1>7. ASSUME beyond, NEW i \in DOMAIN pages PROVE r \notin Items(pages[i], list)
  <2>1. CASE i = n
    BY <1>1, <1>5, <1>7, <2>1
  <2>2. CASE i # n
    <3>1. i < n
      BY <1>1, <2>2
    <3>2. Reaches(pages[n], list, r)
      BY <1>1, <1>2, <1>4, <1>7, CursorsDescend
    <3> QED
      BY <1>1, <1>4, <1>5, <3>1, <3>2 DEF Chained
  <2> QED
    BY <2>1, <2>2
<1> QED
  BY <1>3, <1>4, <1>6, <1>7

\* NewestNeverRepeats: a list in order of creation shows no review twice, for
\* any number of reviews, pages, commits between the pages and readers that
\* store old first pages: a cursor is a place that no commit moves (use-reviews.ts
\* with fetchPage of reviews.repository.ts).
THEOREM NewestListsEachOnce == Spec => []NewestNeverRepeats
<1>1. IInv /\ TabInv => NewestNeverRepeats
  <2> SUFFICES ASSUME Types, TabIsChained, tab.list.sort = "newest", NEW id \in Ids
               PROVE  Cardinality(Shown(id)) <= 1
    BY DEF IInv, TabInv, NewestNeverRepeats
  <2>1. PICK list, pages : /\ list = tab.list /\ pages = tab.pages
                           /\ Chained(pages, list) /\ IsList(list) /\ list.sort = "newest"
    BY SettingHasList DEF TabIsChained
  <2>2. Shown(id) = {i \in DOMAIN pages : \E r \in Items(pages[i], list) : r.id = id}
    BY <2>1 DEF Shown
  <2>3. ASSUME NEW i \in DOMAIN pages, NEW r \in Items(pages[i], list), r.id = id
        PROVE  KeyOf(list.sort, r) = Created[id]
    <3>1. pages[i] \in Pages(list)
      BY <2>1 DEF Chained
    <3>2. r \in Selected(pages[i].version, list) /\ pages[i].version \in 1..Now
      BY <2>1, <3>1, PageIsAStretch DEF Pages
    <3>3. r.createdAt = Created[r.id]
      BY <2>1, <3>2, SelectedRows
    <3> QED
      BY <2>1, <2>3, <3>3 DEF KeyOf
  <2>4. \A i, j \in Shown(id) : i = j
    BY <2>1, <2>2, <2>3, PlacesAreShownOnce
  <2>5. Cardinality(Shown(id)) = IF Shown(id) = {} THEN 0 ELSE 1
    BY <2>4, AtMostOne
  <2> QED
    BY <2>5
<1> QED
  BY <1>1, Invariance, TabInvariance, PTL

\* UnmovedListedOnce: in any order and through any changes of the other rows, a
\* review that stays where it is while the pages are read is shown exactly once,
\* or not yet when its place lies beyond the last page: the seams of the pages
\* neither skip nor repeat it (cursorWhere and fetchPage of
\* reviews.repository.ts, the pages of use-reviews.ts).
THEOREM UnmovedIsListedOnce == Spec => []UnmovedListedOnce
<1>1. IInv /\ TabInv => UnmovedListedOnce
  <2> SUFFICES ASSUME Types, TabIsChained, tab.pages # <<>>,
                      NEW r \in Selected(tab.pages[1].version, tab.list),
                      \A v \in tab.pages[1].version..tab.pages[Len(tab.pages)].version :
                        r \in Selected(v, tab.list)
               PROVE  Cardinality(Shown(r.id)) =
                        IF /\ HasMore(tab.pages[Len(tab.pages)], tab.list)
                           /\ ResumesAfter(tab.list.sort, r,
                                           NextCursor(tab.pages[Len(tab.pages)], tab.list))
                        THEN 0 ELSE 1
    BY DEF IInv, TabInv, UnmovedListedOnce
  <2>1. PICK list, pages : /\ list = tab.list /\ pages = tab.pages
                           /\ Chained(pages, list) /\ IsList(list) /\ pages # <<>>
    BY SettingHasList DEF TabIsChained
  <2> DEFINE beyond == /\ HasMore(pages[Len(pages)], list)
                       /\ ResumesAfter(list.sort, r, NextCursor(pages[Len(pages)], list))
  <2>2. /\ \A i \in DOMAIN pages : r \in Selected(pages[i].version, list)
        /\ (\E i \in DOMAIN pages : r \in Items(pages[i], list)) <=> ~beyond
    BY <2>1, UnmovedIsReached
  <2>3. Shown(r.id) = {i \in DOMAIN pages : \E s \in Items(pages[i], list) : s.id = r.id}
    BY <2>1 DEF Shown
  <2>4. ASSUME NEW i \in DOMAIN pages, NEW s \in Items(pages[i], list), s.id = r.id
        PROVE  s = r
    <3>1. pages[i] \in Pages(list)
      BY <2>1 DEF Chained
    <3>2. s \in Selected(pages[i].version, list) /\ pages[i].version \in 1..Now
      BY <2>1, <3>1, PageIsAStretch DEF Pages
    <3>3. DistinctIds(Selected(pages[i].version, list))
      BY <2>1, <3>2, SelectedRows
    <3> QED
      BY <2>2, <2>4, <3>2, <3>3 DEF DistinctIds
  <2>5. Shown(r.id) = {i \in DOMAIN pages : r \in Items(pages[i], list)}
    BY <2>3, <2>4
  <2>6. \A i, j \in Shown(r.id) : i = j
    BY <2>1, <2>5, PlacesAreShownOnce
  <2>7. Cardinality(Shown(r.id)) = IF Shown(r.id) = {} THEN 0 ELSE 1
    BY <2>6, AtMostOne
  <2>8. Shown(r.id) = {} <=> beyond
    BY <2>2, <2>5
  <2> HIDE DEF beyond
  <2>9. Cardinality(Shown(r.id)) = IF beyond THEN 0 ELSE 1
    BY <2>7, <2>8
  <2> QED
    BY <2>1, <2>9 DEF beyond
<1> QED
  BY <1>1, Invariance, TabInvariance, PTL
=============================================================================
