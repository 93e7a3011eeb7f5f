-------------------------- MODULE ReviewStoreProofs --------------------------
(* Theorems about ReviewStore, for any number of authors, reviews, sessions,  *)
(* requests and faults: its types, that the log tells the truth about the     *)
(* rows it stands beside, that the policy's verdicts only get worse with a    *)
(* text's defects, and that the store implements ReviewLife and PublicReviews *)
EXTENDS ReviewStore, FiniteSetTheorems, SequenceTheorems, TLAPS

EventTypes == {"submitted", "approved", "rejected", "flagged", "unpublished"}

Locked(s) == tx[s] # Idle /\ tx[s].at = "locked"

\* A row lock is held by one session, and what that session found when it got
\* the lock is still so.
LockedRowStays(s) ==
  Locked(s) =>
    /\ Exists(tx[s].id)
    /\ tx[s].op = "update" => reviews[tx[s].id] = tx[s].read
    /\ tx[s].op = "decide" => HasStatus(tx[s].id, Awaiting)
    /\ tx[s].op = "moderate" => HasStatus(tx[s].id, {"PENDING"})

LocksHold ==
  /\ \A s \in Sessions : LockedRowStays(s)
  /\ \A s, t \in Sessions : Locked(s) /\ Locked(t) /\ tx[s].id = tx[t].id => s = t

\* A row that exists has been submitted.
RowsAreLogged == \A id \in Ids : Exists(id) => Known(id)

IInv == TypeOK /\ LocksHold /\ RowsAreLogged /\ LogTellsStatus /\ LogIsLegal

-----------------------------------------------------------------------------
(* The policy, for every text: the rules compare counts, so each is a linear *)
(* fact about the counts.                                                    *)

LEMMA VerdictOfText ==
  ASSUME NEW t, NEW bought \in BOOLEAN
  PROVE  Classify(t, bought) \in Decisions
BY DEF Classify, Decisions

LEMMA VerdictsAreDecisions == Verdict \in [Bodies -> Decisions]
BY VerdictOfText DEF Verdict

LEMMA TextFields ==
  ASSUME NEW t \in Text
  PROVE  /\ t.banned \in BOOLEAN /\ t.duplicate \in BOOLEAN
         /\ t.length \in Nat /\ t.letters \in Nat /\ t.capitals \in Nat
         /\ t.urls \in Nat /\ t.tokens \in Nat /\ t.run \in Nat
         /\ t.capitals <= t.letters
BY DEF Text

LEMMA LinksAreMonotone ==
  ASSUME NEW t \in Text, NEW s \in Text, AtLeastAsBad(t, s), HasTooManyLinks(s)
  PROVE  HasTooManyLinks(t)
<1>1. t.urls >= s.urls /\ t.tokens - t.urls <= s.tokens - s.urls
  BY DEF AtLeastAsBad
<1>2. s.urls > 0 /\ (s.urls > 2 \/ s.urls * 5 > s.tokens)
  BY DEF HasTooManyLinks
<1>3. t.urls > 0 /\ (t.urls > 2 \/ t.urls * 5 > t.tokens)
  BY <1>1, <1>2, TextFields
<1> QED
  BY <1>3 DEF HasTooManyLinks

LEMMA ShoutingIsMonotone ==
  ASSUME NEW t \in Text, NEW s \in Text, AtLeastAsBad(t, s), IsShouting(s)
  PROVE  IsShouting(t)
<1>1. t.length >= s.length /\ t.capitals >= s.capitals /\ t.letters <= s.letters
  BY DEF AtLeastAsBad
<1>2. s.length > 40 /\ s.letters > 0 /\ s.capitals * 5 > s.letters * 3
  BY DEF IsShouting
<1>3. t.letters > 0
  BY <1>1, <1>2, TextFields
<1>4. t.length > 40 /\ t.capitals * 5 > t.letters * 3
  BY <1>1, <1>2, TextFields
<1> QED
  BY <1>3, <1>4 DEF IsShouting

LEMMA FlagsAreMonotone ==
  ASSUME NEW t \in Text, NEW s \in Text, AtLeastAsBad(t, s), Flaggable(s)
  PROVE  Flaggable(t)
<1>1. CASE IsShouting(s)
  BY <1>1, ShoutingIsMonotone DEF Flaggable
<1>2. CASE HasRepeatedCharacterRun(s)
  BY <1>2, TextFields DEF Flaggable, HasRepeatedCharacterRun, AtLeastAsBad
<1>3. CASE s.duplicate
  BY <1>3 DEF Flaggable, AtLeastAsBad
<1> QED
  BY <1>1, <1>2, <1>3 DEF Flaggable

LEMMA SeverityOfVerdict ==
  /\ Severity("APPROVED") = 0 /\ Severity("FLAGGED") = 1 /\ Severity("REJECTED") = 2
BY DEF Severity

\* For every text whatsoever, and not only the ones at the thresholds: no
\* defect helps, and a verified purchase lifts flags and no rejection
\* (policy.ts:49-76).
THEOREM PolicyIsMonotone ==
  /\ \A t, s \in Text : AtLeastAsBad(t, s) =>
       \A bought \in BOOLEAN : Severity(Classify(t, bought)) >= Severity(Classify(s, bought))
  /\ \A t \in Text : Classify(t, TRUE) =
       IF Classify(t, FALSE) = "FLAGGED" THEN "APPROVED" ELSE Classify(t, FALSE)
<1>1. ASSUME NEW t \in Text, NEW s \in Text, AtLeastAsBad(t, s), NEW bought \in BOOLEAN
      PROVE  Severity(Classify(t, bought)) >= Severity(Classify(s, bought))
  <2>1. Severity(Classify(t, bought)) \in 0..2 /\ Severity(Classify(s, bought)) \in 0..2
    BY VerdictOfText, SeverityOfVerdict DEF Decisions
  <2>2. CASE s.banned \/ HasTooManyLinks(s)
    <3>1. t.banned \/ HasTooManyLinks(t)
      BY <1>1, <2>2, LinksAreMonotone DEF AtLeastAsBad
    <3>2. Classify(t, bought) = "REJECTED"
      BY <3>1 DEF Classify
    <3> QED
      BY <2>1, <3>2, SeverityOfVerdict
  <2>3. CASE ~(s.banned \/ HasTooManyLinks(s)) /\ Flaggable(s) /\ ~bought
    <3>1. Classify(s, bought) = "FLAGGED"
      BY <2>3 DEF Classify
    <3>2. Classify(t, bought) # "APPROVED"
      BY <1>1, <2>3, FlagsAreMonotone DEF Classify
    <3>3. Classify(t, bought) \in {"FLAGGED", "REJECTED"}
      BY <3>2, VerdictOfText DEF Decisions
    <3> QED
      BY <3>1, <3>3, SeverityOfVerdict
  <2>4. CASE ~(s.banned \/ HasTooManyLinks(s)) /\ ~(Flaggable(s) /\ ~bought)
    <3>1. Classify(s, bought) = "APPROVED"
      BY <2>4 DEF Classify
    <3> QED
      BY <2>1, <3>1, SeverityOfVerdict
  <2> QED
    BY <2>2, <2>3, <2>4
<1>2. ASSUME NEW t \in Text
      PROVE  Classify(t, TRUE) =
               IF Classify(t, FALSE) = "FLAGGED" THEN "APPROVED" ELSE Classify(t, FALSE)
  BY DEF Classify
<1> QED
  BY <1>1, <1>2

-----------------------------------------------------------------------------
(* The event types and the statuses they stand for.                          *)

LEMMA StatusOfEvent ==
  ASSUME NEW type \in EventTypes
  PROVE  /\ StatusAfter(type) = "PENDING" => type = "submitted"
         /\ StatusAfter(type) = "APPROVED" => type = "approved"
         /\ StatusAfter(type) = "REJECTED" => type = "rejected"
         /\ StatusAfter(type) = "FLAGGED" => type = "flagged"
         /\ StatusAfter(type) = "ABSENT" => type = "unpublished"
BY DEF EventTypes, StatusAfter

LEMMA StatusOfDecision ==
  ASSUME NEW decision \in Decisions
  PROVE  EventOf(decision) \in EventTypes /\ StatusAfter(EventOf(decision)) = decision
BY DEF Decisions, EventTypes, EventOf, StatusAfter

\* A row is there, or it is Absent and reads as such.
LEMMA RowOrAbsent ==
  ASSUME TypeOK, NEW id \in Ids
  PROVE  /\ Exists(id) => reviews[id] \in Row /\ reviews[id].status \in Status
         /\ ~Exists(id) => reviews[id].status = "ABSENT"
BY DEF TypeOK, Exists, Row, Absent

LEMMA LoggedTypes ==
  ASSUME TypeOK, NEW id \in Ids, NEW i \in EventsOf(id)
  PROVE  log[i].type \in EventTypes
<1>1. log[i] \in Event
  BY DEF TypeOK, EventsOf
<1> QED
  BY <1>1 DEF Event, EventTypes

-----------------------------------------------------------------------------
(* What appending to the log does.                                            *)

LEMMA OneRecorded ==
  ASSUME log \in Seq(Event), NEW id \in Ids, NEW type \in EventTypes, Record(<<type>>, id)
  PROVE  /\ log' \in Seq(Event) /\ \A i \in DOMAIN log : log[i] \in Event
         /\ Len(log) \in Nat /\ DOMAIN log = 1 .. Len(log)
         /\ DOMAIN log' = 1 .. (Len(log) + 1) /\ DOMAIN log \subseteq DOMAIN log'
         /\ log'[Len(log) + 1] = [type |-> type, id |-> id]
         /\ \A i \in DOMAIN log : log'[i] = log[i]
<1> DEFINE events == [i \in 1 .. 1 |-> [type |-> type, id |-> id]]
<1>1. log' = log \o events
  BY DEF Record
<1>2. events \in Seq(Event) /\ Len(events) = 1 /\ events[1] = [type |-> type, id |-> id]
  BY DEF Event, EventTypes
<1> HIDE DEF events
<1>3. Len(log) \in Nat /\ DOMAIN log = 1 .. Len(log)
  OBVIOUS
<1>4. /\ log' \in Seq(Event)
      /\ Len(log') = Len(log) + Len(events)
      /\ \A i \in 1 .. Len(log) + Len(events) :
           log'[i] = IF i <= Len(log) THEN log[i] ELSE events[i - Len(log)]
  BY <1>1, <1>2, ConcatProperties
<1>5. log'[Len(log) + 1] = events[1] /\ \A i \in DOMAIN log : log'[i] = log[i]
  BY <1>2, <1>3, <1>4
<1>6. DOMAIN log' = 1 .. (Len(log) + 1)
  BY <1>2, <1>4
<1> QED
  BY <1>2, <1>3, <1>4, <1>5, <1>6

LEMMA TwoRecorded ==
  ASSUME log \in Seq(Event), NEW id \in Ids, Record(<<"unpublished", "submitted">>, id)
  PROVE  /\ log' \in Seq(Event) /\ \A i \in DOMAIN log : log[i] \in Event
         /\ Len(log) \in Nat /\ DOMAIN log = 1 .. Len(log)
         /\ DOMAIN log' = 1 .. (Len(log) + 2) /\ DOMAIN log \subseteq DOMAIN log'
         /\ log'[Len(log) + 1] = [type |-> "unpublished", id |-> id]
         /\ log'[Len(log) + 2] = [type |-> "submitted", id |-> id]
         /\ \A i \in DOMAIN log : log'[i] = log[i]
<1> DEFINE types == <<"unpublished", "submitted">>
           events == [i \in 1 .. 2 |-> [type |-> types[i], id |-> id]]
<1>1. log' = log \o events
  BY DEF Record
<1>2. /\ events \in Seq(Event) /\ Len(events) = 2
      /\ events[1] = [type |-> "unpublished", id |-> id]
      /\ events[2] = [type |-> "submitted", id |-> id]
  BY DEF Event
<1> HIDE DEF events
<1>3. Len(log) \in Nat /\ DOMAIN log = 1 .. Len(log)
  OBVIOUS
<1>4. /\ log' \in Seq(Event)
      /\ Len(log') = Len(log) + Len(events)
      /\ \A i \in 1 .. Len(log) + Len(events) :
           log'[i] = IF i <= Len(log) THEN log[i] ELSE events[i - Len(log)]
  BY <1>1, <1>2, ConcatProperties
<1>5. log'[Len(log) + 1] = events[1] /\ log'[Len(log) + 2] = events[2]
  <2> SUFFICES ASSUME NEW n \in {1, 2} PROVE log'[Len(log) + n] = events[n]
    OBVIOUS
  <2>1. /\ Len(log) + n \in 1 .. Len(log) + Len(events)
        /\ ~(Len(log) + n <= Len(log)) /\ (Len(log) + n) - Len(log) = n
    BY <1>2, <1>3
  <2> QED
    BY <1>4, <2>1
<1>6. \A i \in DOMAIN log : log'[i] = log[i]
  BY <1>2, <1>3, <1>4
<1>7. DOMAIN log' = 1 .. (Len(log) + 2)
  BY <1>2, <1>4
<1> QED
  BY <1>2, <1>3, <1>4, <1>5, <1>6, <1>7

\* One event that may follow the review's status, with the row it announces.
LEMMA OneEventTold ==
  ASSUME TypeOK, LogTellsStatus, LogIsLegal,
         NEW id \in Ids, NEW type \in EventTypes, NEW row,
         Record(<<type>>, id),
         reviews' = [reviews EXCEPT ![id] = row], row.status = StatusAfter(type),
         \A i \in EventsOf(id) :
           reviews[id].status = StatusAfter(log[i].type) => type \in Follows(log[i].type)
  PROVE  LogTellsStatus' /\ LogIsLegal'
<1> USE DEF TypeOK
<1>1. /\ \A i \in DOMAIN log : log[i] \in Event
      /\ Len(log) \in Nat /\ DOMAIN log = 1 .. Len(log)
      /\ DOMAIN log' = 1 .. (Len(log) + 1)
      /\ log'[Len(log) + 1] = [type |-> type, id |-> id]
      /\ \A i \in DOMAIN log : log'[i] = log[i]
  BY OneRecorded
<1>2. LogTellsStatus'
  <2> SUFFICES ASSUME NEW r \in Ids, NEW i \in EventsOf(r)', (\A j \in EventsOf(r) : j <= i)'
               PROVE  reviews'[r].status = StatusAfter(log'[i].type)
    BY DEF LogTellsStatus
  <2>1. CASE r = id
    <3>1. Len(log) + 1 \in EventsOf(id)'
      BY <1>1 DEF EventsOf
    <3>2. Len(log) + 1 <= i /\ i \in DOMAIN log'
      BY <2>1, <3>1 DEF EventsOf
    <3>3. i = Len(log) + 1
      BY <1>1, <3>2
    <3> QED
      BY <1>1, <2>1, <3>3
  <2>2. CASE r # id
    <3>1. i \in EventsOf(r) /\ \A j \in EventsOf(r) : j <= i
      BY <1>1, <2>2 DEF EventsOf
    <3>2. reviews[r].status = StatusAfter(log[i].type)
      BY <3>1 DEF LogTellsStatus
    <3> QED
      BY <1>1, <2>2, <3>1, <3>2 DEF EventsOf
  <2> QED
    BY <2>1, <2>2
<1>3. LogIsLegal'
  <2> SUFFICES ASSUME NEW i \in DOMAIN log', NEW j \in DOMAIN log',
                      i < j, log'[i].id = log'[j].id,
                      \A k \in (i + 1) .. (j - 1) : log'[k].id # log'[i].id
               PROVE  log'[j].type \in Follows(log'[i].type)
    BY DEF LogIsLegal
  <2>1. i \in DOMAIN log /\ log'[i] = log[i]
    BY <1>1
  <2>2. CASE j \in DOMAIN log
    <3>1. \A k \in (i + 1) .. (j - 1) : k \in DOMAIN log /\ log'[k] = log[k]
      BY <1>1, <2>2
    <3> QED
      BY <1>1, <2>1, <2>2, <3>1 DEF LogIsLegal
  <2>3. CASE j = Len(log) + 1
    <3>1. i \in EventsOf(id)
      BY <1>1, <2>1, <2>3 DEF EventsOf
    <3>2. \A k \in EventsOf(id) : k <= i
      BY <1>1, <2>1, <2>3 DEF EventsOf
    <3> QED
      BY <1>1, <2>1, <2>3, <3>1, <3>2 DEF LogTellsStatus
  <2> QED
    BY <1>1, <2>2, <2>3
<1> QED
  BY <1>2, <1>3

\* The two events of an edited published review.
LEMMA TwoEventsTold ==
  ASSUME TypeOK, LogTellsStatus, LogIsLegal,
         NEW id \in Ids, NEW row, Record(<<"unpublished", "submitted">>, id),
         reviews[id].status = "APPROVED",
         reviews' = [reviews EXCEPT ![id] = row], row.status = "PENDING"
  PROVE  LogTellsStatus' /\ LogIsLegal'
<1> USE DEF TypeOK
<1>1. /\ \A i \in DOMAIN log : log[i] \in Event
      /\ Len(log) \in Nat /\ DOMAIN log = 1 .. Len(log)
      /\ DOMAIN log' = 1 .. (Len(log) + 2)
      /\ log'[Len(log) + 1] = [type |-> "unpublished", id |-> id]
      /\ log'[Len(log) + 2] = [type |-> "submitted", id |-> id]
      /\ \A i \in DOMAIN log : log'[i] = log[i]
  BY TwoRecorded
<1>2. LogTellsStatus'
  <2> SUFFICES ASSUME NEW r \in Ids, NEW i \in EventsOf(r)', (\A j \in EventsOf(r) : j <= i)'
               PROVE  reviews'[r].status = StatusAfter(log'[i].type)
    BY DEF LogTellsStatus
  <2>1. CASE r = id
    <3>1. Len(log) + 2 \in EventsOf(id)'
      BY <1>1 DEF EventsOf
    <3>2. Len(log) + 2 <= i /\ i \in DOMAIN log'
      BY <2>1, <3>1 DEF EventsOf
    <3>3. i = Len(log) + 2
      BY <1>1, <3>2
    <3>4. StatusAfter("submitted") = "PENDING"
      BY DEF StatusAfter
    <3> QED
      BY <1>1, <2>1, <3>3, <3>4
  <2>2. CASE r # id
    <3>1. i \in EventsOf(r) /\ \A j \in EventsOf(r) : j <= i
      BY <1>1, <2>2 DEF EventsOf
    <3>2. reviews[r].status = StatusAfter(log[i].type)
      BY <3>1 DEF LogTellsStatus
    <3> QED
      BY <1>1, <2>2, <3>1, <3>2 DEF EventsOf
  <2> QED
    BY <2>1, <2>2
<1>3. LogIsLegal'
  <2> SUFFICES ASSUME NEW i \in DOMAIN log', NEW j \in DOMAIN log',
                      i < j, log'[i].id = log'[j].id,
                      \A k \in (i + 1) .. (j - 1) : log'[k].id # log'[i].id
               PROVE  log'[j].type \in Follows(log'[i].type)
    BY DEF LogIsLegal
  <2>1. CASE j \in DOMAIN log
    <3>1. i \in DOMAIN log /\ log'[i] = log[i] /\ log'[j] = log[j]
      BY <1>1, <2>1
    <3>2. \A k \in (i + 1) .. (j - 1) : k \in 1 .. Len(log)
      BY <1>1, <2>1, <3>1
    <3>3. \A k \in (i + 1) .. (j - 1) : log'[k] = log[k]
      BY <1>1, <3>2
    <3> QED
      BY <2>1, <3>1, <3>3 DEF LogIsLegal
  <2>2. CASE j = Len(log) + 1
    <3>1. i \in EventsOf(id) /\ log'[i] = log[i]
      BY <1>1, <2>2 DEF EventsOf
    <3>2. \A k \in EventsOf(id) : k <= i
      BY <1>1, <2>2, <3>1 DEF EventsOf
    <3>3. StatusAfter(log[i].type) = "APPROVED"
      BY <3>1, <3>2 DEF LogTellsStatus
    <3>4. log[i].type \in EventTypes
      BY <1>1, <3>1 DEF EventsOf, Event, EventTypes
    <3>5. log[i].type = "approved"
      BY <3>3, <3>4, StatusOfEvent
    <3> QED
      BY <1>1, <2>2, <3>1, <3>5 DEF Follows
  <2>3. CASE j = Len(log) + 2
    <3>1. i = Len(log) + 1
      BY <1>1, <2>3
    <3> QED
      BY <1>1, <2>3, <3>1 DEF Follows
  <2> QED
    BY <1>1, <2>1, <2>2, <2>3
<1> QED
  BY <1>2, <1>3

-----------------------------------------------------------------------------
(* What a transaction may hold, and how its locks move.                       *)

LEMMA TransactionFields ==
  ASSUME TypeOK, NEW s \in Sessions, tx[s] # Idle
  PROVE  /\ tx[s].id \in Ids
         /\ At(s, "update", "begin") => tx[s].body \in Bodies
         /\ At(s, "update", "locked") => tx[s].body \in Bodies /\ tx[s].read \in Row
         /\ tx[s].op = "decide" =>
              tx[s].decision \in {"APPROVED", "REJECTED"} /\ tx[s].viewed \in Bodies
         /\ tx[s].op = "moderate" => tx[s].delivery \in DOMAIN log
         /\ tx[s].op = "moderate" /\ tx[s].at \in {"judged", "locked"} => tx[s].read \in Row
<1> tx[s] \in Transaction
  BY DEF TypeOK
<1> QED
  BY DEF Transaction, Idle, At

\* A step that takes one session to another point and writes nothing: if it
\* takes a lock, the row was free and is as the session expects it.
LEMMA LocksMove ==
  ASSUME IInv, NEW s \in Sessions, NEW t \in Transaction, tx' = [tx EXCEPT ![s] = t],
         t # Idle /\ t.at = "locked" =>
           /\ RowFree(t.id)
           /\ Exists(t.id)
           /\ t.op = "update" => reviews[t.id] = t.read
           /\ t.op = "decide" => HasStatus(t.id, Awaiting)
           /\ t.op = "moderate" => HasStatus(t.id, {"PENDING"}),
         UNCHANGED <<reviews, log>>,
         sent' \subseteq DOMAIN log, queue' \subseteq DOMAIN log, dead' \subseteq DOMAIN log,
         requests' \in 0 .. MaxRequests, faults' \in 0 .. MaxFaults
  PROVE  IInv'
<1> USE DEF IInv
<1>1. TypeOK'
  BY DEF TypeOK, Transaction
<1>2. \A r \in Sessions : tx'[r] = IF r = s THEN t ELSE tx[r]
  BY DEF TypeOK
<1>3. \A r \in Sessions : LockedRowStays(r)'
  BY <1>2 DEF LocksHold, LockedRowStays, Locked, Exists, HasStatus
<1>4. \A r, q \in Sessions : (Locked(r) /\ Locked(q) /\ tx[r].id = tx[q].id => r = q)'
  BY <1>2 DEF LocksHold, Locked, RowFree
<1>5. RowsAreLogged' /\ LogTellsStatus' /\ LogIsLegal'
  BY DEF RowsAreLogged, LogTellsStatus, LogIsLegal, Exists, Known, EventsOf
<1> QED
  BY <1>1, <1>3, <1>4, <1>5 DEF LocksHold

\* A session that holds the row's lock writes the row and is done.
LEMMA HolderWrites ==
  ASSUME IInv, NEW s \in Sessions, Locked(s), tx' = [tx EXCEPT ![s] = Idle],
         NEW row \in Row \union {Absent}, reviews' = [reviews EXCEPT ![tx[s].id] = row],
         log' \in Seq(Event), DOMAIN log \subseteq DOMAIN log',
         \A i \in DOMAIN log : log'[i] = log[i],
         UNCHANGED <<pipeVars, requests, faults>>
  PROVE  TypeOK' /\ LocksHold' /\ RowsAreLogged'
<1> USE DEF IInv
<1>1. tx[s].id \in Ids
  BY TransactionFields DEF Locked
<1>2. \A r \in Sessions : tx'[r] = IF r = s THEN Idle ELSE tx[r]
  BY DEF TypeOK
<1>3. TypeOK'
  <2>1. Transaction \subseteq Transaction'
    BY DEF Transaction
  <2>2. Idle \in Transaction'
    BY DEF Transaction
  <2>3. (tx \in [Sessions -> Transaction])'
    BY <2>1, <2>2 DEF TypeOK
  <2>4. (reviews \in [Ids -> Row \union {Absent}])'
    BY DEF TypeOK
  <2> QED
    BY <2>3, <2>4 DEF TypeOK, pipeVars
<1>4. LocksHold'
  <2>1. \A r \in Sessions : Locked(r)' => r # s /\ Locked(r) /\ tx'[r] = tx[r] /\ tx[r].id # tx[s].id
    BY <1>2 DEF Locked, LocksHold
  <2>2. \A r \in Sessions : Locked(r) => tx[r].id \in Ids
    BY TransactionFields DEF Locked
  <2>3. \A r \in Sessions : LockedRowStays(r)'
    <3> SUFFICES ASSUME NEW r \in Sessions, Locked(r)' PROVE LockedRowStays(r)'
      BY DEF LockedRowStays
    <3>1. tx'[r] = tx[r] /\ Locked(r) /\ reviews'[tx[r].id] = reviews[tx[r].id]
      BY <2>1, <2>2 DEF TypeOK
    <3> QED
      BY <3>1 DEF LocksHold, LockedRowStays, Locked, Exists, HasStatus
  <2>4. \A r, q \in Sessions : (Locked(r) /\ Locked(q) /\ tx[r].id = tx[q].id => r = q)'
    BY <2>1 DEF LocksHold
  <2> QED
    BY <2>3, <2>4 DEF LocksHold
<1>5. RowsAreLogged'
  <2> SUFFICES ASSUME NEW id \in Ids, Exists(id)' PROVE Known(id)'
    BY DEF RowsAreLogged
  <2>1. Exists(tx[s].id)
    BY DEF LocksHold, LockedRowStays
  <2>2. Exists(id)
    BY <2>1 DEF Exists, TypeOK
  <2>3. Known(id)
    BY <2>2 DEF RowsAreLogged
  <2> QED
    BY <2>3 DEF Known
<1> QED
  BY <1>3, <1>4, <1>5

-----------------------------------------------------------------------------
LEMMA InitHolds == Init => IInv
<1> SUFFICES ASSUME Init PROVE IInv
  OBVIOUS
<1>1. TypeOK
  BY BoundsAssumption DEF Init, TypeOK, Transaction
<1>2. LocksHold
  BY DEF Init, LocksHold, LockedRowStays, Locked
<1>3. RowsAreLogged
  BY DEF Init, RowsAreLogged, Exists
<1>4. LogTellsStatus /\ LogIsLegal
  BY DEF Init, LogTellsStatus, LogIsLegal, EventsOf
<1> QED
  BY <1>1, <1>2, <1>3, <1>4 DEF IInv

LEMMA AcceptCounts == TypeOK /\ Accept => requests' \in 0 .. MaxRequests
BY BoundsAssumption DEF TypeOK, Accept

LEMMA FaultCounts == TypeOK /\ Fault => faults' \in 0 .. MaxFaults
BY BoundsAssumption DEF TypeOK, Fault

\* A request that ends without a write.
LEMMA RejectHolds == \A s \in Sessions : IInv /\ Reject(s) => IInv'
<1> SUFFICES ASSUME NEW s \in Sessions, IInv, Reject(s) PROVE IInv'
  OBVIOUS
<1>1. Idle \in Transaction
  BY DEF Transaction
<1> QED
  BY <1>1, LocksMove DEF Reject, Become, pipeVars, IInv, TypeOK

\* A new row has a new id, which nothing in the log or in a transaction names
\* as one that exists.
LEMMA SubmitHolds ==
  ASSUME IInv, NEW author \in Authors, NEW body \in Bodies, Submit(author, body)
  PROVE  IInv'
<1> DEFINE row == [author |-> author, body |-> body, status |-> "PENDING",
                   published |-> FALSE, judged |-> NotJudged]
<1>1. PICK id \in Ids :
        /\ \A event \in {log[i] : i \in DOMAIN log} : event.id < id
        /\ reviews' = [reviews EXCEPT ![id] = row]
        /\ Record(<<"submitted">>, id)
  BY DEF Submit
<1>2. row \in Row /\ row.status = StatusAfter("submitted")
  BY DEF Row, Status, StatusAfter
<1>3. \A i \in DOMAIN log : log[i].id # id
  <2> SUFFICES ASSUME NEW i \in DOMAIN log, log[i].id = id PROVE FALSE
    OBVIOUS
  <2>1. id < id
    BY <1>1
  <2> QED
    BY <2>1, IdsAssumption
<1>4. ~Exists(id)
  BY <1>3 DEF IInv, RowsAreLogged, Known
<1>5. /\ log' \in Seq(Event)
      /\ DOMAIN log \subseteq DOMAIN log' /\ Len(log) + 1 \in DOMAIN log'
      /\ log'[Len(log) + 1] = [type |-> "submitted", id |-> id]
      /\ \A i \in DOMAIN log : log'[i] = log[i]
  <2>1. /\ log' \in Seq(Event) /\ Len(log) \in Nat
        /\ DOMAIN log = 1 .. Len(log) /\ DOMAIN log' = 1 .. (Len(log) + 1)
        /\ log'[Len(log) + 1] = [type |-> "submitted", id |-> id]
        /\ \A i \in DOMAIN log : log'[i] = log[i]
    BY <1>1, OneRecorded DEF IInv, TypeOK, EventTypes
  <2> QED
    BY <2>1
<1> HIDE DEF row
<1>6. UNCHANGED <<pipeVars, tx, faults>> /\ requests' \in 0 .. MaxRequests
  BY AcceptCounts DEF Submit, IInv
<1>7. TypeOK'
  <2>1. Transaction \subseteq Transaction'
    BY <1>5 DEF Transaction
  <2>2. (reviews \in [Ids -> Row \union {Absent}])'
    BY <1>1, <1>2 DEF IInv, TypeOK
  <2> QED
    BY <1>5, <1>6, <2>1, <2>2 DEF IInv, TypeOK, pipeVars
<1>8. LocksHold'
  <2>1. \A s \in Sessions : Locked(s) => tx[s].id \in Ids /\ tx[s].id # id
    BY <1>4, TransactionFields DEF IInv, LocksHold, LockedRowStays, Locked
  <2>2. \A s \in Sessions : Locked(s) => reviews'[tx[s].id] = reviews[tx[s].id]
    BY <1>1, <2>1 DEF IInv, TypeOK
  <2>3. \A s \in Sessions : LockedRowStays(s)'
    BY <1>6, <2>2 DEF IInv, LocksHold, LockedRowStays, Locked, Exists, HasStatus
  <2> QED
    BY <1>6, <2>3 DEF IInv, LocksHold, Locked
<1>9. RowsAreLogged'
  <2> SUFFICES ASSUME NEW r \in Ids, Exists(r)' PROVE Known(r)'
    BY DEF RowsAreLogged
  <2>1. CASE r = id
    BY <1>5, <2>1 DEF Known
  <2>2. CASE r # id
    <3>1. Known(r)
      BY <1>1, <2>2 DEF IInv, RowsAreLogged, Exists, TypeOK
    <3> QED
      BY <1>5, <3>1 DEF Known
  <2> QED
    BY <2>1, <2>2
<1>10. LogTellsStatus' /\ LogIsLegal'
  BY <1>1, <1>2, <1>3, OneEventTold DEF IInv, EventTypes, EventsOf
<1> QED
  BY <1>7, <1>8, <1>9, <1>10 DEF IInv

-----------------------------------------------------------------------------
LEMMA RequestHolds == \A s \in Sessions : IInv /\ Request(s) => IInv'
<1> SUFFICES ASSUME NEW s \in Sessions, IInv, Request(s) PROVE IInv'
  OBVIOUS
<1> USE AcceptCounts DEF IInv, Become, pipeVars
<1>1. ASSUME NEW id \in Ids, NEW body \in Bodies, RequestUpdate(s, id, body) PROVE IInv'
  <2> DEFINE t == [op |-> "update", id |-> id, body |-> body, at |-> "begin"]
  <2>1. t \in Transaction /\ t.at = "begin"
    BY DEF Transaction
  <2> HIDE DEF t
  <2>2. tx' = [tx EXCEPT ![s] = t]
    BY <1>1 DEF RequestUpdate, t
  <2> QED
    BY <1>1, <2>1, <2>2, LocksMove DEF RequestUpdate, TypeOK
<1>2. ASSUME NEW id \in Ids, RequestRemove(s, id) PROVE IInv'
  <2> DEFINE t == [op |-> "remove", id |-> id, at |-> "begin"]
  <2>1. t \in Transaction /\ t.at = "begin"
    BY DEF Transaction
  <2> HIDE DEF t
  <2>2. tx' = [tx EXCEPT ![s] = t]
    BY <1>2 DEF RequestRemove, t
  <2> QED
    BY <1>2, <2>1, <2>2, LocksMove DEF RequestRemove, TypeOK
<1>3. ASSUME NEW id \in Ids, NEW decision \in {"APPROVED", "REJECTED"},
             RequestDecide(s, id, decision) PROVE IInv'
  <2> DEFINE t == [op |-> "decide", id |-> id, at |-> "begin",
                   decision |-> decision, viewed |-> reviews[id].body]
  <2>1. reviews[id] \in Row
    BY <1>3, RowOrAbsent DEF RequestDecide, HasStatus
  <2>2. t \in Transaction /\ t.at = "begin"
    BY <2>1 DEF Transaction, Row
  <2> HIDE DEF t
  <2>3. tx' = [tx EXCEPT ![s] = t]
    BY <1>3 DEF RequestDecide, t
  <2> QED
    BY <1>3, <2>2, <2>3, LocksMove DEF RequestDecide, TypeOK
<1> QED
  BY <1>1, <1>2, <1>3 DEF Request

-----------------------------------------------------------------------------
(* The steps of a transaction.                                                *)

LEMMA UpdateHolds ==
  \A s \in Sessions : IInv /\ (LockForUpdate(s) \/ CommitUpdate(s)) => IInv'
<1> SUFFICES ASSUME NEW s \in Sessions, IInv, LockForUpdate(s) \/ CommitUpdate(s) PROVE IInv'
  OBVIOUS
<1> DEFINE id == tx[s].id
<1> USE DEF IInv, Become, pipeVars
<1>1. CASE LockForUpdate(s) /\ Exists(id)
  <2> DEFINE t == [op |-> "update", id |-> id, body |-> tx[s].body, at |-> "locked",
                   read |-> reviews[id]]
  <2>1. id \in Ids /\ tx[s].body \in Bodies
    BY <1>1, TransactionFields DEF LockForUpdate, At
  <2>2. reviews[id] \in Row
    BY <1>1, <2>1, RowOrAbsent
  <2>3. t \in Transaction /\ t.op = "update" /\ t.id = id /\ t.read = reviews[id]
    BY <2>1, <2>2 DEF Transaction
  <2> HIDE DEF t
  <2>4. tx' = [tx EXCEPT ![s] = t]
    BY <1>1 DEF LockForUpdate, t
  <2> QED
    BY <1>1, <2>3, <2>4, LocksMove DEF LockForUpdate, Reject, TypeOK
<1>2. CASE LockForUpdate(s) /\ ~Exists(id)
  BY <1>2, RejectHolds DEF LockForUpdate
<1>3. CASE CommitUpdate(s)
  <2> DEFINE row == Edited(tx[s].read, tx[s].body)
  <2>1. /\ Locked(s) /\ id \in Ids /\ Exists(id)
        /\ tx[s].body \in Bodies /\ tx[s].read \in Row /\ reviews[id] = tx[s].read
    BY <1>3, TransactionFields DEF CommitUpdate, At, Locked, LocksHold, LockedRowStays
  <2>2. row \in Row /\ row.status = "PENDING"
    BY <2>1 DEF Edited, Row, Status
  <2>3. reviews' = [reviews EXCEPT ![id] = row] /\ Record(EditEvents(tx[s].read), id)
        /\ tx' = [tx EXCEPT ![s] = Idle] /\ UNCHANGED <<pipeVars, requests, faults>>
    BY <1>3 DEF CommitUpdate
  <2> HIDE DEF row
  <2>4. CASE tx[s].read.status = "APPROVED"
    <3>1. Record(<<"unpublished", "submitted">>, id)
      BY <2>3, <2>4 DEF EditEvents
    <3>2. LogTellsStatus' /\ LogIsLegal'
      BY <2>1, <2>2, <2>3, <2>4, <3>1, TwoEventsTold
    <3>3. /\ log' \in Seq(Event) /\ DOMAIN log \subseteq DOMAIN log'
          /\ \A i \in DOMAIN log : log'[i] = log[i]
      BY <2>1, <3>1, TwoRecorded DEF TypeOK
    <3> QED
      BY <2>1, <2>2, <2>3, <3>2, <3>3, HolderWrites
  <2>5. CASE tx[s].read.status # "APPROVED"
    <3>1. Record(<<"submitted">>, id)
      BY <2>3, <2>5 DEF EditEvents
    <3>2. ASSUME NEW i \in EventsOf(id), reviews[id].status = StatusAfter(log[i].type)
          PROVE  "submitted" \in Follows(log[i].type)
      <4>1. log[i].type \in EventTypes
        BY <2>1, LoggedTypes
      <4>2. log[i].type \in {"submitted", "rejected", "flagged"}
        BY <2>1, <2>5, <3>2, <4>1, RowOrAbsent DEF EventTypes, StatusAfter, Status
      <4> QED
        BY <4>2 DEF Follows
    <3>3. "submitted" \in EventTypes /\ row.status = StatusAfter("submitted")
      BY <2>2 DEF EventTypes, StatusAfter
    <3>4. LogTellsStatus' /\ LogIsLegal'
      BY <2>1, <2>3, <3>1, <3>2, <3>3, OneEventTold
    <3>5. /\ log' \in Seq(Event) /\ DOMAIN log \subseteq DOMAIN log'
          /\ \A i \in DOMAIN log : log'[i] = log[i]
      BY <2>1, <3>1, <3>3, OneRecorded DEF TypeOK
    <3> QED
      BY <2>1, <2>2, <2>3, <3>4, <3>5, HolderWrites
  <2> QED
    BY <2>4, <2>5
<1> QED
  BY <1>1, <1>2, <1>3

LEMMA RemoveHolds ==
  \A s \in Sessions : IInv /\ (LockForRemove(s) \/ CommitRemove(s)) => IInv'
<1> SUFFICES ASSUME NEW s \in Sessions, IInv, LockForRemove(s) \/ CommitRemove(s) PROVE IInv'
  OBVIOUS
<1> DEFINE id == tx[s].id
<1> USE DEF IInv, Become, pipeVars
<1>1. CASE LockForRemove(s) /\ Exists(id)
  <2> DEFINE t == [tx[s] EXCEPT !.at = "locked"]
  <2>1. tx[s] \in Transaction /\ At(s, "remove", "begin")
    BY <1>1 DEF LockForRemove, TypeOK
  <2>2. t \in Transaction /\ t.op = "remove" /\ t.id = id
    BY <2>1 DEF Transaction, At, Idle
  <2> HIDE DEF t
  <2>3. tx' = [tx EXCEPT ![s] = t]
    BY <1>1 DEF LockForRemove, t
  <2> QED
    BY <1>1, <2>2, <2>3, LocksMove DEF LockForRemove, TypeOK
<1>2. CASE LockForRemove(s) /\ ~Exists(id)
  BY <1>2, RejectHolds DEF LockForRemove
<1>3. CASE CommitRemove(s)
  <2>1. Locked(s) /\ id \in Ids /\ Exists(id)
    BY <1>3, TransactionFields DEF CommitRemove, At, Locked, LocksHold, LockedRowStays
  <2>2. /\ reviews' = [reviews EXCEPT ![id] = Absent] /\ Record(<<"unpublished">>, id)
        /\ tx' = [tx EXCEPT ![s] = Idle] /\ UNCHANGED <<pipeVars, requests, faults>>
    BY <1>3 DEF CommitRemove
  <2>3. ASSUME NEW i \in EventsOf(id), reviews[id].status = StatusAfter(log[i].type)
        PROVE  "unpublished" \in Follows(log[i].type)
    <3>1. log[i].type \in EventTypes
      BY <2>1, LoggedTypes
    <3>2. log[i].type \in EventTypes \ {"unpublished"}
      BY <2>1, <2>3, <3>1, RowOrAbsent DEF StatusAfter, Status
    <3> QED
      BY <3>2 DEF EventTypes, Follows
  <2>4. "unpublished" \in EventTypes /\ Absent.status = StatusAfter("unpublished")
    BY DEF EventTypes, StatusAfter, Absent
  <2>5. LogTellsStatus' /\ LogIsLegal'
    BY <2>1, <2>2, <2>3, <2>4, OneEventTold
  <2>6. /\ log' \in Seq(Event) /\ DOMAIN log \subseteq DOMAIN log'
        /\ \A i \in DOMAIN log : log'[i] = log[i]
    BY <2>1, <2>2, <2>4, OneRecorded DEF TypeOK
  <2> QED
    BY <2>1, <2>2, <2>5, <2>6, HolderWrites
<1> QED
  BY <1>1, <1>2, <1>3

\* A decision about a row that is locked and in a status the event may follow.
LEMMA DecisionTold ==
  ASSUME IInv, NEW s \in Sessions, Locked(s), tx' = [tx EXCEPT ![s] = Idle],
         NEW decision \in Decisions, NEW judged \in Bodies,
         HasStatus(tx[s].id, Awaiting),
         reviews[tx[s].id].status = "FLAGGED" => decision # "FLAGGED",
         reviews' = [reviews EXCEPT ![tx[s].id] = Decided(@, decision, judged)],
         Record(<<EventOf(decision)>>, tx[s].id), UNCHANGED <<pipeVars, requests, faults>>
  PROVE  IInv'
<1> DEFINE id == tx[s].id
           row == Decided(reviews[id], decision, judged)
<1> USE DEF IInv
<1>1. id \in Ids /\ reviews[id] \in Row
  BY TransactionFields, RowOrAbsent DEF Locked, HasStatus
<1>2. EventOf(decision) \in EventTypes /\ StatusAfter(EventOf(decision)) = decision
  BY StatusOfDecision
<1>3. row \in Row /\ row.status = decision
  BY <1>1 DEF Decided, Row, Status, Decisions
<1>4. reviews' = [reviews EXCEPT ![id] = row]
  BY <1>1 DEF TypeOK
<1> HIDE DEF row
<1>5. ASSUME NEW i \in EventsOf(id), reviews[id].status = StatusAfter(log[i].type)
      PROVE  EventOf(decision) \in Follows(log[i].type)
  <2>1. log[i].type \in EventTypes
    BY <1>1, LoggedTypes
  <2>2. \/ log[i].type = "submitted"
        \/ log[i].type = "flagged" /\ decision # "FLAGGED"
    BY <1>5, <2>1, StatusOfEvent DEF HasStatus, Awaiting
  <2> QED
    BY <2>2 DEF Follows, EventOf, Decisions
<1>6. LogTellsStatus' /\ LogIsLegal'
  <2>1. row.status = StatusAfter(EventOf(decision))
    BY <1>2, <1>3
  <2> QED
    BY <1>1, <1>2, <1>4, <1>5, <2>1, OneEventTold
<1>7. /\ log' \in Seq(Event) /\ DOMAIN log \subseteq DOMAIN log'
      /\ \A i \in DOMAIN log : log'[i] = log[i]
  BY <1>1, <1>2, OneRecorded DEF TypeOK
<1> QED
  BY <1>3, <1>4, <1>6, <1>7, HolderWrites

LEMMA DecideHolds ==
  \A s \in Sessions : IInv /\ (LockForDecide(s) \/ CommitDecide(s)) => IInv'
<1> SUFFICES ASSUME NEW s \in Sessions, IInv, LockForDecide(s) \/ CommitDecide(s) PROVE IInv'
  OBVIOUS
<1> DEFINE id == tx[s].id
<1> USE DEF IInv, Become, pipeVars
<1>1. CASE LockForDecide(s) /\ HasStatus(id, Awaiting)
  <2> DEFINE t == [tx[s] EXCEPT !.at = "locked"]
  <2>1. tx[s] \in Transaction /\ At(s, "decide", "begin")
    BY <1>1 DEF LockForDecide, TypeOK
  <2>2. t \in Transaction /\ t.op = "decide" /\ t.id = id
    BY <2>1 DEF Transaction, At, Idle
  <2> HIDE DEF t
  <2>3. tx' = [tx EXCEPT ![s] = t]
    BY <1>1 DEF LockForDecide, t
  <2> QED
    BY <1>1, <2>2, <2>3, LocksMove DEF LockForDecide, TypeOK, HasStatus
<1>2. CASE LockForDecide(s) /\ ~HasStatus(id, Awaiting)
  BY <1>2, RejectHolds DEF LockForDecide
<1>3. CASE CommitDecide(s)
  <2>1. Locked(s) /\ HasStatus(id, Awaiting)
    BY <1>3 DEF CommitDecide, At, Locked, LocksHold, LockedRowStays
  <2>2. tx[s].decision \in {"APPROVED", "REJECTED"} /\ tx[s].viewed \in Bodies
    BY <1>3, TransactionFields DEF CommitDecide, At
  <2> QED
    BY <1>3, <2>1, <2>2, DecisionTold DEF CommitDecide, Decisions
<1> QED
  BY <1>1, <1>2, <1>3

LEMMA ModerateHolds ==
  \A s \in Sessions :
    IInv /\ (ReadReview(s) \/ LockForVerdict(s) \/ CommitVerdict(s) \/ Throw(s)) => IInv'
<1> SUFFICES ASSUME NEW s \in Sessions, IInv,
                    ReadReview(s) \/ LockForVerdict(s) \/ CommitVerdict(s) \/ Throw(s)
             PROVE  IInv'
  OBVIOUS
<1> DEFINE id == tx[s].id
<1> USE DEF IInv, Become, pipeVars
<1>1. CASE ReadReview(s) /\ HasStatus(id, {"PENDING"})
  <2> DEFINE t == [op |-> "moderate", id |-> id, at |-> "judged",
                   delivery |-> tx[s].delivery, read |-> reviews[id]]
  <2>1. id \in Ids /\ tx[s].delivery \in DOMAIN log /\ reviews[id] \in Row
    BY <1>1, TransactionFields, RowOrAbsent DEF ReadReview, At, HasStatus
  <2>2. t \in Transaction /\ t.at = "judged"
    BY <2>1 DEF Transaction
  <2> HIDE DEF t
  <2>3. tx' = [tx EXCEPT ![s] = t] /\ UNCHANGED <<reviews, log, pipeVars, requests, faults>>
    BY <1>1 DEF ReadReview, t
  <2> QED
    BY <2>2, <2>3, LocksMove DEF TypeOK
<1>2. CASE ReadReview(s) /\ ~HasStatus(id, {"PENDING"})
  BY <1>2, RejectHolds DEF ReadReview
<1>3. CASE LockForVerdict(s) /\ HasStatus(id, {"PENDING"})
  <2> DEFINE t == [tx[s] EXCEPT !.at = "locked"]
  <2>1. tx[s] \in Transaction /\ At(s, "moderate", "judged")
    BY <1>3 DEF LockForVerdict, TypeOK
  <2>2. t \in Transaction /\ t.op = "moderate" /\ t.id = id
    BY <2>1 DEF Transaction, At, Idle
  <2> HIDE DEF t
  <2>3. tx' = [tx EXCEPT ![s] = t]
    BY <1>3 DEF LockForVerdict, t
  <2> QED
    BY <1>3, <2>2, <2>3, LocksMove DEF LockForVerdict, TypeOK, HasStatus
<1>4. CASE LockForVerdict(s) /\ ~HasStatus(id, {"PENDING"})
  BY <1>4, RejectHolds DEF LockForVerdict
<1>5. CASE CommitVerdict(s)
  <2>1. Locked(s) /\ HasStatus(id, {"PENDING"})
    BY <1>5 DEF CommitVerdict, At, Locked, LocksHold, LockedRowStays
  <2>2. tx[s].read.body \in Bodies
    BY <1>5, TransactionFields DEF CommitVerdict, At, Row
  <2>3. Verdict[tx[s].read.body] \in Decisions
    BY <2>2, VerdictsAreDecisions
  <2> QED
    BY <1>5, <2>1, <2>2, <2>3, DecisionTold DEF CommitVerdict, HasStatus, Awaiting
<1>6. CASE Throw(s)
  <2>1. tx[s].delivery \in DOMAIN log
    BY <1>6, TransactionFields DEF Throw
  <2>2. Idle \in Transaction
    BY DEF Transaction
  <2> QED
    BY <1>6, <2>1, <2>2, LocksMove DEF Throw, TypeOK
<1> QED
  BY <1>1, <1>2, <1>3, <1>4, <1>5, <1>6

LEMMA AbortHolds == \A s \in Sessions : IInv /\ Abort(s) => IInv'
<1> SUFFICES ASSUME NEW s \in Sessions, IInv, Abort(s) PROVE IInv'
  OBVIOUS
<1>1. tx[s].op = "moderate" => tx[s].delivery \in DOMAIN log
  BY TransactionFields DEF Abort, IInv
<1>2. Idle \in Transaction
  BY DEF Transaction
<1> QED
  BY <1>1, <1>2, FaultCounts, LocksMove DEF Abort, Become, IInv, TypeOK

LEMMA ReceiveHolds == \A s \in Sessions, i \in DOMAIN log : IInv /\ Receive(s, i) => IInv'
<1> SUFFICES ASSUME NEW s \in Sessions, NEW i \in DOMAIN log, IInv, Receive(s, i) PROVE IInv'
  OBVIOUS
<1> DEFINE t == [op |-> "moderate", id |-> log[i].id, at |-> "begin", delivery |-> i]
<1>1. log[i].id \in Ids
  <2>1. log[i] \in Event
    BY DEF IInv, TypeOK
  <2> QED
    BY <2>1 DEF Event
<1>2. t \in Transaction /\ t.at = "begin"
  BY <1>1 DEF Transaction
<1> HIDE DEF t
<1>3. tx' = [tx EXCEPT ![s] = t]
  BY DEF Receive, Become, t
<1> QED
  BY <1>2, <1>3, LocksMove DEF Receive, IInv, TypeOK

\* The queue's own steps touch neither rows nor transactions.
LEMMA QueueHolds == \A i \in DOMAIN log : IInv /\ (Deliver(i) \/ Duplicate(i)) => IInv'
<1> SUFFICES ASSUME NEW i \in DOMAIN log, IInv, Deliver(i) \/ Duplicate(i) PROVE IInv'
  OBVIOUS
<1>1. UNCHANGED <<reviews, log, tx>>
  BY DEF Deliver, Duplicate
<1>2. TypeOK'
  BY <1>1, FaultCounts DEF Deliver, Duplicate, IInv, TypeOK, Transaction
<1> QED
  BY <1>1, <1>2 DEF IInv, LocksHold, LockedRowStays, Locked, Exists, HasStatus, RowsAreLogged,
                    Known, LogTellsStatus, LogIsLegal, EventsOf

LEMMA NextHolds == IInv /\ [Next]_vars => IInv'
<1> SUFFICES ASSUME IInv, [Next]_vars PROVE IInv'
  OBVIOUS
<1>1. CASE \E author \in Authors, body \in Bodies : Submit(author, body)
  BY <1>1, SubmitHolds
<1>2. ASSUME NEW s \in Sessions, Request(s) \/ Proceed(s) \/ Abort(s) PROVE IInv'
  BY <1>2, RequestHolds, UpdateHolds, RemoveHolds, DecideHolds, ModerateHolds, AbortHolds
     DEF Proceed
<1>3. CASE \E i \in DOMAIN log : Deliver(i) \/ Duplicate(i)
  BY <1>3, QueueHolds
<1>4. CASE \E s \in Sessions, i \in DOMAIN log : Receive(s, i)
  BY <1>4, ReceiveHolds
<1>5. CASE UNCHANGED vars
  <2>1. UNCHANGED <<reviews, log, tx, sent, queue, dead, requests, faults>>
    BY <1>5 DEF vars, pipeVars
  <2>2. TypeOK'
    BY <2>1 DEF IInv, TypeOK, Transaction
  <2> QED
    BY <2>1, <2>2 DEF IInv, LocksHold, LockedRowStays, Locked, Exists, HasStatus, RowsAreLogged,
                      Known, LogTellsStatus, LogIsLegal, EventsOf
<1> QED
  BY <1>1, <1>2, <1>3, <1>4, <1>5 DEF Next

LEMMA InvariantHolds == Spec => []IInv
  BY InitHolds, NextHolds, PTL DEF Spec

-----------------------------------------------------------------------------
(* Changes the public can see.                                                *)

LEMMA AnnouncementCounts ==
  ASSUME log \in Seq(Event), NEW n \in Nat, DOMAIN log' = 1 .. (Len(log) + n), n >= 1,
         \A i \in DOMAIN log : log'[i] = log[i],
         log'[Len(log) + 1].type \in {"approved", "unpublished"}
  PROVE  Announced(log') > Announced(log)
<1> DEFINE said(events) == {i \in DOMAIN events : events[i].type \in {"approved", "unpublished"}}
<1>1. Len(log) \in Nat /\ DOMAIN log = 1 .. Len(log)
  OBVIOUS
<1>2. IsFiniteSet(DOMAIN log')
  BY <1>1, FS_Interval
<1>3. IsFiniteSet(said(log'))
  BY <1>2, FS_Subset
<1>4. said(log) \subseteq said(log')
  BY <1>1
<1>5. Len(log) + 1 \in said(log') \ said(log)
  BY <1>1
<1>6. /\ Cardinality(said(log)) <= Cardinality(said(log'))
      /\ Cardinality(said(log)) # Cardinality(said(log'))
  BY <1>3, <1>4, <1>5, FS_Subset
<1>7. Cardinality(said(log)) \in Nat /\ Cardinality(said(log')) \in Nat
  BY <1>3, <1>4, FS_Subset, FS_CardinalityType
<1> QED
  BY <1>6, <1>7 DEF Announced

LEMMA OneAnnounced ==
  ASSUME TypeOK, NEW id \in Ids, NEW type \in {"approved", "unpublished"}, Record(<<type>>, id)
  PROVE  Announced(log') > Announced(log)
<1>1. log \in Seq(Event) /\ type \in EventTypes
  BY DEF TypeOK, EventTypes
<1>2. /\ DOMAIN log' = 1 .. (Len(log) + 1)
      /\ log'[Len(log) + 1] = [type |-> type, id |-> id]
      /\ \A i \in DOMAIN log : log'[i] = log[i]
  BY <1>1, OneRecorded
<1>3. log'[Len(log) + 1].type \in {"approved", "unpublished"}
  BY <1>2
<1>4. 1 \in Nat /\ 1 >= 1
  OBVIOUS
<1> QED
  BY <1>1, <1>2, <1>3, <1>4, AnnouncementCounts

LEMMA TwoAnnounced ==
  ASSUME TypeOK, NEW id \in Ids, Record(<<"unpublished", "submitted">>, id)
  PROVE  Announced(log') > Announced(log)
<1>1. log \in Seq(Event)
  BY DEF TypeOK
<1>2. /\ DOMAIN log' = 1 .. (Len(log) + 2)
      /\ log'[Len(log) + 1] = [type |-> "unpublished", id |-> id]
      /\ \A i \in DOMAIN log : log'[i] = log[i]
  BY <1>1, TwoRecorded
<1>3. log'[Len(log) + 1].type \in {"approved", "unpublished"}
  BY <1>2
<1>4. 2 \in Nat /\ 2 >= 1
  OBVIOUS
<1> QED
  BY <1>1, <1>2, <1>3, <1>4, AnnouncementCounts

\* Writing one row changes what is visible only if it is visible before or after.
LEMMA VisibleStays ==
  ASSUME TypeOK, NEW id \in Ids, NEW row, reviews' = [reviews EXCEPT ![id] = row],
         reviews[id].status # "APPROVED", row.status # "APPROVED"
  PROVE  Visible' = Visible
<1>1. \A r \in Ids : reviews'[r] = IF r = id THEN row ELSE reviews[r]
  BY DEF TypeOK
<1>2. ~HasStatus(id, {"APPROVED"}) /\ ~HasStatus(id, {"APPROVED"})'
  BY <1>1 DEF HasStatus
<1>3. \A r \in Ids : r # id => reviews'[r] = reviews[r]
  BY <1>1
<1>4. {i \in Ids : HasStatus(i, {"APPROVED"})}' = {i \in Ids : HasStatus(i, {"APPROVED"})}
  BY <1>2, <1>3 DEF HasStatus, Exists
<1> QED
  BY <1>2, <1>3, <1>4 DEF Visible

LEMMA WriterAnnounces ==
  ASSUME IInv, [Next]_vars, Visible' # Visible
  PROVE  Announced(log') > Announced(log)
<1> USE DEF IInv, TypeOK
<1>1. CASE UNCHANGED reviews
  <2>1. Visible' = Visible
    BY <1>1 DEF Visible, HasStatus, Exists
  <2> QED
    BY <2>1
<1>2. ASSUME NEW author \in Authors, NEW body \in Bodies, Submit(author, body)
      PROVE  Visible' = Visible
  <2> DEFINE row == [author |-> author, body |-> body, status |-> "PENDING",
                     published |-> FALSE, judged |-> NotJudged]
  <2>1. PICK id \in Ids :
          /\ \A event \in {log[i] : i \in DOMAIN log} : event.id < id
          /\ reviews' = [reviews EXCEPT ![id] = row]
    BY <1>2 DEF Submit
  <2>2. ~Known(id)
    <3> SUFFICES ASSUME NEW i \in DOMAIN log, log[i].id = id PROVE FALSE
      BY DEF Known
    <3>1. id < id
      BY <2>1
    <3> QED
      BY <3>1, IdsAssumption
  <2>3. reviews[id].status # "APPROVED"
    BY <2>2, RowOrAbsent DEF RowsAreLogged
  <2>4. row.status # "APPROVED"
    OBVIOUS
  <2> HIDE DEF row
  <2> QED
    BY <2>1, <2>3, <2>4, VisibleStays
<1>3. ASSUME NEW s \in Sessions, CommitUpdate(s) PROVE Announced(log') > Announced(log)
  <2> DEFINE id == tx[s].id
             row == Edited(tx[s].read, tx[s].body)
  <2>1. Locked(s) /\ id \in Ids /\ reviews[id] = tx[s].read
    BY <1>3, TransactionFields DEF CommitUpdate, At, Locked, LocksHold, LockedRowStays
  <2>2. tx[s].read \in Row
    BY <1>3, TransactionFields DEF CommitUpdate, At
  <2>3. row.status = "PENDING"
    BY <2>2 DEF Edited, Row
  <2>4. reviews' = [reviews EXCEPT ![id] = row] /\ Record(EditEvents(tx[s].read), id)
    BY <1>3 DEF CommitUpdate
  <2> HIDE DEF row
  <2>5. tx[s].read.status = "APPROVED"
    BY <2>1, <2>3, <2>4, VisibleStays
  <2>6. Record(<<"unpublished", "submitted">>, id)
    BY <2>4, <2>5 DEF EditEvents
  <2> QED
    BY <2>1, <2>6, TwoAnnounced
<1>4. ASSUME NEW s \in Sessions, CommitRemove(s) PROVE Announced(log') > Announced(log)
  <2>1. tx[s].id \in Ids /\ Record(<<"unpublished">>, tx[s].id)
    BY <1>4, TransactionFields DEF CommitRemove, At
  <2> QED
    BY <2>1, OneAnnounced
<1>5. ASSUME NEW s \in Sessions, Locked(s), HasStatus(tx[s].id, Awaiting),
             NEW decision \in Decisions, NEW judged \in Bodies,
             reviews' = [reviews EXCEPT ![tx[s].id] = Decided(@, decision, judged)],
             Record(<<EventOf(decision)>>, tx[s].id)
      PROVE  Announced(log') > Announced(log)
  <2> DEFINE id == tx[s].id
             row == Decided(reviews[id], decision, judged)
  <2>1. id \in Ids /\ reviews[id] \in Row
    BY <1>5, TransactionFields, RowOrAbsent DEF Locked, HasStatus
  <2>2. row.status = decision /\ reviews' = [reviews EXCEPT ![id] = row]
    BY <1>5, <2>1 DEF Decided, Row
  <2> HIDE DEF row
  <2>3. decision = "APPROVED"
    BY <1>5, <2>1, <2>2, VisibleStays DEF HasStatus, Awaiting
  <2>4. Record(<<"approved">>, id)
    BY <1>5, <2>3 DEF EventOf
  <2> QED
    BY <2>1, <2>4, OneAnnounced
<1>6. ASSUME NEW s \in Sessions, CommitDecide(s) PROVE Announced(log') > Announced(log)
  <2>1. Locked(s) /\ HasStatus(tx[s].id, Awaiting)
    BY <1>6 DEF CommitDecide, At, Locked, LocksHold, LockedRowStays
  <2>2. tx[s].decision \in Decisions /\ tx[s].viewed \in Bodies
    BY <1>6, TransactionFields DEF CommitDecide, At, Decisions
  <2> QED
    BY <1>5, <1>6, <2>1, <2>2 DEF CommitDecide
<1>7. ASSUME NEW s \in Sessions, CommitVerdict(s) PROVE Announced(log') > Announced(log)
  <2>1. Locked(s) /\ HasStatus(tx[s].id, Awaiting)
    BY <1>7 DEF CommitVerdict, At, Locked, LocksHold, LockedRowStays, HasStatus, Awaiting
  <2>2. tx[s].read.body \in Bodies /\ Verdict[tx[s].read.body] \in Decisions
    BY <1>7, TransactionFields, VerdictsAreDecisions DEF CommitVerdict, At, Row
  <2> QED
    BY <1>5, <1>7, <2>1, <2>2 DEF CommitVerdict
<1>8. ASSUME NEW s \in Sessions, Request(s) \/ Proceed(s) \/ Abort(s)
      PROVE  Announced(log') > Announced(log)
  <2>1. CASE CommitUpdate(s) \/ CommitRemove(s) \/ CommitDecide(s) \/ CommitVerdict(s)
    BY <1>3, <1>4, <1>6, <1>7, <2>1
  <2>2. CASE ~(CommitUpdate(s) \/ CommitRemove(s) \/ CommitDecide(s) \/ CommitVerdict(s))
    <3>1. UNCHANGED reviews
      BY <1>8, <2>2 DEF Request, RequestUpdate, RequestRemove, RequestDecide, Proceed,
         LockForUpdate, LockForRemove, LockForDecide, ReadReview, LockForVerdict, Throw, Reject,
         Abort
    <3> QED
      BY <1>1, <3>1
  <2> QED
    BY <2>1, <2>2
<1>9. CASE \/ \E i \in DOMAIN log : Deliver(i) \/ Duplicate(i)
           \/ \E s \in Sessions, i \in DOMAIN log : Receive(s, i)
           \/ UNCHANGED vars
  BY <1>1, <1>9 DEF Deliver, Duplicate, Receive, vars
<1> QED
  BY <1>2, <1>8, <1>9 DEF Next

-----------------------------------------------------------------------------
(* The refinement of ReviewLife: a transaction is the step its commit takes. *)

StatusOf == [id \in Ids |-> reviews[id].status]
BodyOf == [id \in Ids |-> IF Exists(id) THEN reviews[id].body ELSE NoBody]

LEMMA RowBecomes ==
  ASSUME TypeOK, NEW id \in Ids, NEW row \in Row, reviews' = [reviews EXCEPT ![id] = row]
  PROVE  Life!Become(id, row.status, row.body)
<1>1. \A r \in Ids : reviews'[r] = IF r = id THEN row ELSE reviews[r]
  BY DEF TypeOK
<1>2. row # Absent
  BY DEF Row, Absent, Status
<1>3. Exists(id)' /\ \A r \in Ids : r # id => (Exists(r)' <=> Exists(r))
  BY <1>1, <1>2 DEF Exists
<1>4. StatusOf' = [StatusOf EXCEPT ![id] = row.status]
  <2>1. StatusOf' = [r \in Ids |-> reviews'[r].status]
    BY DEF StatusOf
  <2>2. \A r \in Ids : reviews'[r].status = IF r = id THEN row.status ELSE reviews[r].status
    BY <1>1
  <2> QED
    BY <2>1, <2>2 DEF StatusOf
<1>5. BodyOf' = [BodyOf EXCEPT ![id] = row.body]
  <2>1. BodyOf' = [r \in Ids |-> IF Exists(r)' THEN reviews'[r].body ELSE NoBody]
    BY DEF BodyOf
  <2>2. \A r \in Ids : (IF Exists(r)' THEN reviews'[r].body ELSE NoBody)
                         = IF r = id THEN row.body ELSE BodyOf[r]
    BY <1>1, <1>3 DEF BodyOf
  <2> QED
    BY <2>1, <2>2 DEF BodyOf
<1> QED
  BY <1>4, <1>5 DEF Life!Become, StatusOf, BodyOf

LEMMA RowGoes ==
  ASSUME TypeOK, NEW id \in Ids, reviews' = [reviews EXCEPT ![id] = Absent]
  PROVE  Life!Become(id, "ABSENT", NoBody)
<1>1. \A r \in Ids : reviews'[r] = IF r = id THEN Absent ELSE reviews[r]
  BY DEF TypeOK
<1>2. ~Exists(id)' /\ \A r \in Ids : r # id => (Exists(r)' <=> Exists(r))
  BY <1>1 DEF Exists
<1>3. StatusOf' = [StatusOf EXCEPT ![id] = "ABSENT"]
  <2>1. StatusOf' = [r \in Ids |-> reviews'[r].status]
    BY DEF StatusOf
  <2>2. \A r \in Ids : reviews'[r].status = IF r = id THEN "ABSENT" ELSE reviews[r].status
    BY <1>1 DEF Absent
  <2> QED
    BY <2>1, <2>2 DEF StatusOf
<1>4. BodyOf' = [BodyOf EXCEPT ![id] = NoBody]
  <2>1. BodyOf' = [r \in Ids |-> IF Exists(r)' THEN reviews'[r].body ELSE NoBody]
    BY DEF BodyOf
  <2>2. \A r \in Ids : (IF Exists(r)' THEN reviews'[r].body ELSE NoBody)
                         = IF r = id THEN NoBody ELSE BodyOf[r]
    BY <1>1, <1>2 DEF BodyOf
  <2> QED
    BY <2>1, <2>2 DEF BodyOf
<1> QED
  BY <1>3, <1>4 DEF Life!Become, StatusOf, BodyOf

LEMMA LifeRecords ==
  ASSUME NEW id \in Ids, NEW types, Record(types, id)
  PROVE  Life!Record(id, types)
BY DEF Record, Life!Record

LEMMA StatusStands ==
  ASSUME TypeOK, NEW id \in Ids
  PROVE  /\ StatusOf[id] = reviews[id].status
         /\ Exists(id) => StatusOf[id] # "ABSENT" /\ BodyOf[id] = reviews[id].body
         /\ ~Exists(id) => StatusOf[id] = "ABSENT"
BY RowOrAbsent DEF StatusOf, BodyOf, Status

LEMMA SubmitIsLife ==
  ASSUME IInv, NEW author \in Authors, NEW body \in Bodies, Submit(author, body)
  PROVE  Life!Next
<1> USE DEF IInv
<1> DEFINE row == [author |-> author, body |-> body, status |-> "PENDING",
                   published |-> FALSE, judged |-> NotJudged]
<1>1. PICK id \in Ids :
        /\ \A event \in {log[i] : i \in DOMAIN log} : event.id < id
        /\ reviews' = [reviews EXCEPT ![id] = row]
        /\ Record(<<"submitted">>, id)
  BY DEF Submit
<1>2. \A i \in DOMAIN log : log[i].id # id
  <2> SUFFICES ASSUME NEW i \in DOMAIN log, log[i].id = id PROVE FALSE
    OBVIOUS
  <2>1. id < id
    BY <1>1
  <2> QED
    BY <2>1, IdsAssumption
<1>3. StatusOf[id] = "ABSENT"
  BY <1>2, StatusStands DEF RowsAreLogged, Known
<1>4. row \in Row /\ row.status = "PENDING" /\ row.body = body
  BY DEF Row, Status
<1> HIDE DEF row
<1>5. Life!Become(id, "PENDING", body) /\ Life!Record(id, <<"submitted">>)
  BY <1>1, <1>4, RowBecomes, LifeRecords
<1>6. Life!Submit(id, body)
  BY <1>2, <1>3, <1>5 DEF Life!Submit, StatusOf
<1> QED
  BY <1>6 DEF Life!Next

LEMMA UpdateIsLife ==
  ASSUME IInv, NEW s \in Sessions, CommitUpdate(s)
  PROVE  Life!Next
<1> USE DEF IInv
<1>1. /\ tx[s].id \in Ids /\ Exists(tx[s].id)
      /\ tx[s].body \in Bodies /\ tx[s].read \in Row /\ reviews[tx[s].id] = tx[s].read
  BY TransactionFields DEF CommitUpdate, At, Locked, LocksHold, LockedRowStays
<1>2. PICK id \in Ids : id = tx[s].id
  BY <1>1
<1>3. PICK text \in Bodies : text = tx[s].body
  BY <1>1
<1>4. PICK read \in Row : read = tx[s].read
  BY <1>1
<1>5. PICK row : row = Edited(read, text)
  OBVIOUS
<1>6. Exists(id) /\ reviews[id] = read
  BY <1>1, <1>2, <1>4
<1>7. row \in Row /\ row.status = "PENDING" /\ row.body = text
  BY <1>5 DEF Edited, Row, Status
<1>8. reviews' = [reviews EXCEPT ![id] = row] /\ Record(EditEvents(read), id)
  BY <1>2, <1>3, <1>4, <1>5 DEF CommitUpdate
<1>9. StatusOf[id] # "ABSENT" /\ StatusOf[id] = read.status
  BY <1>6, StatusStands
<1>10. Life!Become(id, "PENDING", text)
  BY <1>6, <1>7, <1>8, RowBecomes
<1>11. IF StatusOf[id] = "APPROVED" THEN Life!Record(id, <<"unpublished", "submitted">>)
                                  ELSE Life!Record(id, <<"submitted">>)
  BY <1>6, <1>8, <1>9, LifeRecords DEF EditEvents
<1>12. Life!Edit(id, text)
  BY <1>9, <1>10, <1>11 DEF Life!Edit, StatusOf
<1> QED
  BY <1>6, <1>12 DEF Life!Next

LEMMA RemoveIsLife ==
  ASSUME IInv, NEW s \in Sessions, CommitRemove(s)
  PROVE  Life!Next
<1> USE DEF IInv
<1>1. tx[s].id \in Ids /\ Exists(tx[s].id)
  BY TransactionFields DEF CommitRemove, At, Locked, LocksHold, LockedRowStays
<1>2. PICK id \in Ids : id = tx[s].id
  BY <1>1
<1>3. StatusOf[id] # "ABSENT"
  BY <1>1, <1>2, StatusStands
<1>4. Life!Become(id, "ABSENT", NoBody) /\ Life!Record(id, <<"unpublished">>)
  BY <1>2, RowGoes, LifeRecords DEF CommitRemove
<1>5. Life!Remove(id)
  BY <1>3, <1>4 DEF Life!Remove, StatusOf
<1> QED
  BY <1>2, <1>5 DEF Life!Next

\* A moderator's decision and the worker's verdict: the lock kept the status
\* the UPDATE asked for.
LEMMA DecisionIsLife ==
  ASSUME IInv, NEW id \in Ids, NEW decision \in Decisions, NEW judged \in Bodies,
         HasStatus(id, Awaiting), reviews[id].status = "FLAGGED" => decision # "FLAGGED",
         reviews' = [reviews EXCEPT ![id] = Decided(@, decision, judged)],
         Record(<<EventOf(decision)>>, id)
  PROVE  Life!Next
<1> USE DEF IInv
<1>1. PICK row : row = Decided(reviews[id], decision, judged)
  OBVIOUS
<1>2. PICK body : body = reviews[id].body
  OBVIOUS
<1>3. Exists(id) /\ reviews[id] \in Row /\ reviews[id].status \in Awaiting
  BY RowOrAbsent DEF HasStatus
<1>4. row \in Row /\ row.status = decision /\ row.body = body
  BY <1>1, <1>2, <1>3 DEF Decided, Row, Status, Decisions
<1>5. reviews' = [reviews EXCEPT ![id] = row]
  BY <1>1 DEF TypeOK
<1>6. StatusOf[id] = reviews[id].status /\ BodyOf[id] = body
  BY <1>2, <1>3, StatusStands
<1>7. Life!Become(id, decision, body)
  BY <1>4, <1>5, <1>6, RowBecomes
<1>8. Life!Record(id, <<EventOf(decision)>>)
  BY LifeRecords
<1>9. Life!Rule(id, decision, EventOf(decision))
  BY <1>6, <1>7, <1>8 DEF Life!Rule, Life!Become, BodyOf
<1>10. CASE decision = "APPROVED"
  <2>1. Life!Approve(id)
    BY <1>3, <1>6, <1>9, <1>10 DEF Life!Approve, StatusOf, EventOf, Awaiting
  <2> QED
    BY <2>1 DEF Life!Next
<1>11. CASE decision = "REJECTED"
  <2>1. Life!Reject(id)
    BY <1>3, <1>6, <1>9, <1>11 DEF Life!Reject, StatusOf, EventOf, Awaiting
  <2> QED
    BY <2>1 DEF Life!Next
<1>12. CASE decision = "FLAGGED"
  <2>1. Life!Flag(id)
    BY <1>3, <1>6, <1>9, <1>12 DEF Life!Flag, StatusOf, EventOf, Awaiting
  <2> QED
    BY <2>1 DEF Life!Next
<1> QED
  BY <1>10, <1>11, <1>12 DEF Decisions

LEMMA DecideIsLife ==
  ASSUME IInv, NEW s \in Sessions, CommitDecide(s)
  PROVE  Life!Next
<1> USE DEF IInv
<1>1. tx[s].id \in Ids /\ HasStatus(tx[s].id, Awaiting)
  BY TransactionFields DEF CommitDecide, At, Locked, LocksHold, LockedRowStays
<1>2. tx[s].decision \in {"APPROVED", "REJECTED"} /\ tx[s].viewed \in Bodies
  BY TransactionFields DEF CommitDecide, At
<1> QED
  BY <1>1, <1>2, DecisionIsLife DEF CommitDecide, Decisions

LEMMA VerdictIsLife ==
  ASSUME IInv, NEW s \in Sessions, CommitVerdict(s)
  PROVE  Life!Next
<1> USE DEF IInv
<1>1. tx[s].id \in Ids /\ HasStatus(tx[s].id, {"PENDING"})
  BY TransactionFields DEF CommitVerdict, At, Locked, LocksHold, LockedRowStays
<1>2. tx[s].read.body \in Bodies /\ Verdict[tx[s].read.body] \in Decisions
  BY TransactionFields, VerdictsAreDecisions DEF CommitVerdict, At, Row
<1>3. HasStatus(tx[s].id, Awaiting) /\ reviews[tx[s].id].status # "FLAGGED"
  BY <1>1 DEF HasStatus, Awaiting
<1> QED
  BY <1>1, <1>2, <1>3, DecisionIsLife DEF CommitVerdict

\* Every other step leaves rows and log alone.
LEMMA OthersStand ==
  ASSUME NEW s \in Sessions, Request(s) \/ Proceed(s) \/ Abort(s),
         ~(CommitUpdate(s) \/ CommitRemove(s) \/ CommitDecide(s) \/ CommitVerdict(s))
  PROVE  UNCHANGED <<reviews, log>>
BY DEF Request, RequestUpdate, RequestRemove, RequestDecide, Proceed, LockForUpdate,
   LockForRemove, LockForDecide, ReadReview, LockForVerdict, Throw, Reject, Abort

LEMMA StepIsLife == IInv /\ [Next]_vars => [Life!Next]_(Life!vars)
<1> SUFFICES ASSUME IInv, [Next]_vars PROVE [Life!Next]_(Life!vars)
  OBVIOUS
<1>1. UNCHANGED <<reviews, log>> => UNCHANGED Life!vars
  BY DEF Life!vars, Exists
<1>2. ASSUME NEW s \in Sessions, Request(s) \/ Proceed(s) \/ Abort(s)
      PROVE  Life!Next \/ UNCHANGED <<reviews, log>>
  BY <1>2, UpdateIsLife, RemoveIsLife, DecideIsLife, VerdictIsLife, OthersStand
<1>3. ASSUME \/ \E i \in DOMAIN log : Deliver(i) \/ Duplicate(i)
             \/ \E s \in Sessions, i \in DOMAIN log : Receive(s, i)
             \/ UNCHANGED vars
      PROVE  UNCHANGED <<reviews, log>>
  BY <1>3 DEF Deliver, Duplicate, Receive, vars
<1> QED
  BY <1>1, <1>2, <1>3, SubmitIsLife DEF Next

LEMMA InitIsLife == Init => Life!Init
BY DEF Init, Life!Init, Exists, Absent

-----------------------------------------------------------------------------
(* The refinement of PublicReviews, by way of ReviewLife: each step of a      *)
(* review's life announces at most once, and says so when the public sees a   *)
(* change.                                                                   *)

PublicLive ==
  [id \in Ids |-> IF HasStatus(id, {"APPROVED"}) THEN reviews[id].body ELSE NoBody]

\* The same by status and body.
LiveByStatus ==
  PublicLive = [id \in Ids |-> IF StatusOf[id] = "APPROVED" THEN BodyOf[id] ELSE NoBody]

LEMMA LiveStands == TypeOK => LiveByStatus
<1> SUFFICES ASSUME TypeOK, NEW id \in Ids
             PROVE  /\ HasStatus(id, {"APPROVED"}) <=> StatusOf[id] = "APPROVED"
                    /\ HasStatus(id, {"APPROVED"}) => BodyOf[id] = reviews[id].body
  BY DEF PublicLive, LiveByStatus
<1> QED
  BY StatusStands DEF HasStatus

LEMMA LiveStandsNext == TypeOK' => LiveByStatus'
BY LiveStands, PTL

LEMMA LiveBecomes ==
  ASSUME TypeOK, TypeOK', NEW id \in Ids, NEW status, NEW text, Life!Become(id, status, text)
  PROVE  PublicLive' = [PublicLive EXCEPT ![id] = IF status = "APPROVED" THEN text ELSE NoBody]
<1>1. PublicLive = [r \in Ids |-> IF StatusOf[r] = "APPROVED" THEN BodyOf[r] ELSE NoBody]
  BY LiveStands DEF LiveByStatus
<1>2. PublicLive' = [r \in Ids |-> IF StatusOf'[r] = "APPROVED" THEN BodyOf'[r] ELSE NoBody]
  BY LiveStandsNext DEF LiveByStatus
<1>3. StatusOf' = [StatusOf EXCEPT ![id] = status] /\ BodyOf' = [BodyOf EXCEPT ![id] = text]
  BY DEF Life!Become, StatusOf, BodyOf
<1>4. \A r \in Ids : /\ StatusOf'[r] = IF r = id THEN status ELSE StatusOf[r]
                     /\ BodyOf'[r] = IF r = id THEN text ELSE BodyOf[r]
  BY <1>3 DEF StatusOf, BodyOf
<1> QED
  BY <1>1, <1>2, <1>4

LEMMA LiveIs ==
  ASSUME TypeOK, NEW id \in Ids
  PROVE  PublicLive[id] = IF StatusOf[id] = "APPROVED" THEN BodyOf[id] ELSE NoBody
BY LiveStands DEF LiveByStatus

Loud == {"approved", "unpublished"}

LEMMA AnnouncedOnce ==
  ASSUME log \in Seq(Event), NEW n \in Nat, DOMAIN log' = 1 .. (Len(log) + n), n >= 1,
         \A i \in DOMAIN log : log'[i] = log[i], log'[Len(log) + 1].type \in Loud,
         \A i \in DOMAIN log' : i > Len(log) + 1 => log'[i].type \notin Loud
  PROVE  Announced(log') = Announced(log) + 1
<1> DEFINE said(events) == {i \in DOMAIN events : events[i].type \in Loud}
<1>1. Len(log) \in Nat /\ DOMAIN log = 1 .. Len(log)
  OBVIOUS
<1>2. IsFiniteSet(said(log))
  <2>1. IsFiniteSet(DOMAIN log)
    BY <1>1, FS_Interval
  <2>2. said(log) \subseteq DOMAIN log
    OBVIOUS
  <2> HIDE DEF said
  <2> QED
    BY <2>1, <2>2, FS_Subset
<1>3. said(log') = said(log) \union {Len(log) + 1}
  BY <1>1
<1>4. Len(log) + 1 \notin said(log)
  BY <1>1
<1>5. Announced(log) = Cardinality(said(log)) /\ Announced(log') = Cardinality(said(log'))
  BY DEF Announced, Loud
<1> HIDE DEF said
<1> QED
  BY <1>2, <1>3, <1>4, <1>5, FS_AddElement

LEMMA NothingAnnounced ==
  ASSUME log \in Seq(Event), NEW n \in Nat, DOMAIN log' = 1 .. (Len(log) + n),
         \A i \in DOMAIN log : log'[i] = log[i],
         \A i \in DOMAIN log' : i > Len(log) => log'[i].type \notin Loud
  PROVE  Announced(log') = Announced(log)
<1> DEFINE said(events) == {i \in DOMAIN events : events[i].type \in Loud}
<1>1. Len(log) \in Nat /\ DOMAIN log = 1 .. Len(log)
  OBVIOUS
<1>2. said(log') = said(log)
  BY <1>1
<1>3. Announced(log) = Cardinality(said(log)) /\ Announced(log') = Cardinality(said(log'))
  BY DEF Announced, Loud
<1> HIDE DEF said
<1> QED
  BY <1>2, <1>3

LEMMA EventAnnounced ==
  ASSUME TypeOK, NEW id \in Ids, NEW type \in EventTypes, Life!Record(id, <<type>>)
  PROVE  Announced(log') = IF type \in Loud THEN Announced(log) + 1 ELSE Announced(log)
<1>1. log \in Seq(Event) /\ Record(<<type>>, id)
  BY DEF TypeOK, Record, Life!Record
<1>2. /\ DOMAIN log' = 1 .. (Len(log) + 1) /\ Len(log) \in Nat
      /\ log'[Len(log) + 1] = [type |-> type, id |-> id]
      /\ \A i \in DOMAIN log : log'[i] = log[i]
  BY <1>1, OneRecorded
<1>3. 1 \in Nat /\ 1 >= 1
  OBVIOUS
<1>4. CASE type \in Loud
  <2>1. \A i \in DOMAIN log' : i > Len(log) + 1 => log'[i].type \notin Loud
    BY <1>2
  <2> QED
    BY <1>1, <1>2, <1>3, <1>4, <2>1, AnnouncedOnce
<1>5. CASE type \notin Loud
  <2>1. \A i \in DOMAIN log' : i > Len(log) => i = Len(log) + 1
    BY <1>2
  <2>2. \A i \in DOMAIN log' : i > Len(log) => log'[i].type \notin Loud
    BY <1>2, <1>5, <2>1
  <2> QED
    BY <1>1, <1>2, <1>3, <1>5, <2>2, NothingAnnounced
<1> QED
  BY <1>4, <1>5

LEMMA EditAnnounced ==
  ASSUME TypeOK, NEW id \in Ids, Life!Record(id, <<"unpublished", "submitted">>)
  PROVE  Announced(log') = Announced(log) + 1
<1>1. log \in Seq(Event) /\ Record(<<"unpublished", "submitted">>, id)
  BY DEF TypeOK, Record, Life!Record
<1>2. /\ DOMAIN log' = 1 .. (Len(log) + 2) /\ Len(log) \in Nat
      /\ log'[Len(log) + 1] = [type |-> "unpublished", id |-> id]
      /\ log'[Len(log) + 2] = [type |-> "submitted", id |-> id]
      /\ \A i \in DOMAIN log : log'[i] = log[i]
  BY <1>1, TwoRecorded
<1>3. \A i \in DOMAIN log' : i > Len(log) + 1 => i = Len(log) + 2
  BY <1>2
<1>4. \A i \in DOMAIN log' : i > Len(log) + 1 => log'[i].type \notin Loud
  BY <1>2, <1>3 DEF Loud
<1>5. 2 \in Nat /\ 2 >= 1 /\ log'[Len(log) + 1].type \in Loud
  BY <1>2 DEF Loud
<1> QED
  BY <1>1, <1>2, <1>4, <1>5, AnnouncedOnce

\* A review that is not public and does not become so.
LEMMA HiddenStays ==
  ASSUME TypeOK, TypeOK', NEW id \in Ids, NEW status, NEW text, Life!Become(id, status, text),
         StatusOf[id] # "APPROVED", status # "APPROVED"
  PROVE  PublicLive' = PublicLive
<1>1. PublicLive[id] = NoBody
  BY LiveIs
<1>2. PublicLive' = [PublicLive EXCEPT ![id] = NoBody]
  BY LiveBecomes
<1> QED
  BY <1>1, <1>2 DEF PublicLive

LEMMA LifeIsPublic ==
  ASSUME IInv, IInv', Life!Next
  PROVE  Public!Next \/ (PublicLive' = PublicLive /\ Announced(log') = Announced(log))
<1> USE DEF IInv
<1>1. PICK id \in Ids :
        \/ \E text \in Bodies : Life!Submit(id, text) \/ Life!Edit(id, text)
        \/ Life!Remove(id) \/ Life!Approve(id) \/ Life!Reject(id) \/ Life!Flag(id)
  BY DEF Life!Next
<1>2. ASSUME NEW text \in Bodies, Life!Submit(id, text)
      PROVE  PublicLive' = PublicLive /\ Announced(log') = Announced(log)
  <2>1. StatusOf[id] = "ABSENT" /\ Life!Become(id, "PENDING", text) /\ Life!Record(id, <<"submitted">>)
    BY <1>2 DEF Life!Submit, StatusOf
  <2> QED
    BY <2>1, HiddenStays, EventAnnounced DEF EventTypes, Loud
<1>3. ASSUME Life!Become(id, "PENDING", NoBody) \/ Life!Become(id, "ABSENT", NoBody)
             \/ \E text \in Bodies : Life!Become(id, "PENDING", text),
             Announced(log') = Announced(log) + 1
      PROVE  Public!Next
  <2>1. PublicLive' = [PublicLive EXCEPT ![id] = NoBody]
    BY <1>3, LiveBecomes
  <2>2. Public!Unpublish(id)
    BY <1>3, <2>1 DEF Public!Unpublish, Public!Announce, PublicLive
  <2> QED
    BY <2>2 DEF Public!Next
<1>4. ASSUME NEW text \in Bodies, Life!Edit(id, text)
      PROVE  Public!Next \/ (PublicLive' = PublicLive /\ Announced(log') = Announced(log))
  <2>1. /\ Life!Become(id, "PENDING", text)
        /\ \/ StatusOf[id] = "APPROVED" /\ Life!Record(id, <<"unpublished", "submitted">>)
           \/ StatusOf[id] # "APPROVED" /\ Life!Record(id, <<"submitted">>)
    BY <1>4 DEF Life!Edit, StatusOf
  <2>2. CASE StatusOf[id] = "APPROVED"
    BY <1>3, <2>1, <2>2, EditAnnounced
  <2>3. CASE StatusOf[id] # "APPROVED"
    BY <2>1, <2>3, HiddenStays, EventAnnounced DEF EventTypes, Loud
  <2> QED
    BY <2>2, <2>3
<1>5. ASSUME Life!Remove(id) PROVE Public!Next
  <2>1. Life!Become(id, "ABSENT", NoBody) /\ Life!Record(id, <<"unpublished">>)
    BY <1>5 DEF Life!Remove
  <2> QED
    BY <1>3, <2>1, EventAnnounced DEF EventTypes, Loud
<1>6. ASSUME NEW decision \in {"APPROVED", "REJECTED", "FLAGGED"}, NEW event \in EventTypes,
             Life!Rule(id, decision, event), StatusOf[id] \in Awaiting
      PROVE  /\ PublicLive[id] = NoBody /\ BodyOf[id] \in Bodies
             /\ PublicLive' = [PublicLive EXCEPT ![id] =
                                 IF decision = "APPROVED" THEN BodyOf[id] ELSE NoBody]
             /\ Announced(log') = IF event \in Loud THEN Announced(log) + 1 ELSE Announced(log)
  <2>1. PICK text : text = BodyOf[id]
    OBVIOUS
  <2>2. Life!Become(id, decision, text) /\ Life!Record(id, <<event>>)
    BY <1>6, <2>1 DEF Life!Rule, Life!Become, BodyOf
  <2>3. Exists(id)
    BY <1>6, StatusStands DEF Awaiting
  <2>4. BodyOf[id] \in Bodies
    BY <2>3, StatusStands, RowOrAbsent DEF Row
  <2> QED
    BY <1>6, <2>1, <2>2, <2>4, LiveIs, LiveBecomes, EventAnnounced DEF Awaiting
<1>7. ASSUME Life!Approve(id) PROVE Public!Next
  <2>1. StatusOf[id] \in Awaiting /\ Life!Rule(id, "APPROVED", "approved")
    BY <1>7 DEF Life!Approve, StatusOf, Awaiting
  <2>2. PICK text \in Bodies : text = BodyOf[id]
    BY <1>6, <2>1 DEF EventTypes
  <2>3. /\ PublicLive[id] = NoBody /\ PublicLive' = [PublicLive EXCEPT ![id] = text]
        /\ Announced(log') = Announced(log) + 1
    BY <1>6, <2>1, <2>2 DEF EventTypes, Loud
  <2>4. Public!Approve(id, text)
    BY <2>3 DEF Public!Approve, Public!Announce, PublicLive
  <2> QED
    BY <2>4 DEF Public!Next
<1>8. ASSUME Life!Reject(id) \/ Life!Flag(id)
      PROVE  PublicLive' = PublicLive /\ Announced(log') = Announced(log)
  <2>1. /\ StatusOf[id] \in Awaiting
        /\ Life!Rule(id, "REJECTED", "rejected") \/ Life!Rule(id, "FLAGGED", "flagged")
    BY <1>8 DEF Life!Reject, Life!Flag, StatusOf, Awaiting
  <2>2. /\ PublicLive[id] = NoBody /\ PublicLive' = [PublicLive EXCEPT ![id] = NoBody]
        /\ Announced(log') = Announced(log)
    BY <1>6, <2>1 DEF EventTypes, Loud
  <2> QED
    BY <2>2 DEF PublicLive
<1> QED
  BY <1>1, <1>2, <1>4, <1>5, <1>7, <1>8

-----------------------------------------------------------------------------
\* Rows, log, queue and transactions stay well typed: a row is published
\* exactly while its status is APPROVED, and every event, delivery and
\* transaction names a review that was handed out (reviews.repository.ts).
THEOREM TypeCorrect == Spec => []TypeOK
<1>1. IInv => TypeOK
  BY DEF IInv
<1> QED
  BY <1>1, InvariantHolds, PTL

\* For any number of sessions, whatever they interleave: the last event of a
\* review gives the status of its row (writeOutboxEvent in the transactions of
\* submit, update, remove, decide and moderate).
THEOREM LogAlwaysTellsStatus == Spec => []LogTellsStatus
<1>1. IInv => LogTellsStatus
  BY DEF IInv
<1> QED
  BY <1>1, InvariantHolds, PTL

\* A review's events follow each other as its life cycle allows: published,
\* unpublished, decided and submitted only from where the code may do so.
THEOREM LogIsAlwaysLegal == Spec => []LogIsLegal
<1>1. IInv => LogIsLegal
  BY DEF IInv
<1> QED
  BY <1>1, InvariantHolds, PTL

\* No transaction changes what the public sees without an event the rating
\* projection listens to.
THEOREM ChangesAreAnnounced == Spec => VisibilityIsAnnounced
<1>1. IInv /\ [Next]_vars => [Visible' # Visible => Announced(log') > Announced(log)]_vars
  BY WriterAnnounces
<1> QED
  BY <1>1, InvariantHolds, PTL DEF Spec, VisibilityIsAnnounced

\* Whatever the sessions interleave, rows and log change as if every operation
\* ran alone, at the moment it commits (FOR UPDATE, and the conditions of the
\* UPDATEs, which look at the row again under its lock).
THEOREM StoreImplementsLife == Spec => ImplementsLife
<1> QED
  BY InitIsLife, StepIsLife, InvariantHolds, PTL DEF Spec, ImplementsLife, Life!Spec

\* The public sees a review appear and disappear with one announcement each,
\* and nothing else: what RatingProjection takes its events from.
THEOREM StoreFeedsProjection == Spec => ImplementsPublic
<1>1. Init => Public!Init
  <2> SUFFICES ASSUME Init PROVE Public!Init
    OBVIOUS
  <2>1. PublicLive = [id \in Ids |-> NoBody]
    BY DEF Init, PublicLive, HasStatus, Exists
  <2>2. {i \in DOMAIN log : log[i].type \in {"approved", "unpublished"}} = {}
    BY DEF Init
  <2>3. Announced(log) = 0
    BY <2>2, FS_EmptySet DEF Announced
  <2> QED
    BY <2>1, <2>3 DEF Public!Init, PublicLive
<1>2. IInv /\ IInv' /\ [Next]_vars => [Public!Next]_(<<PublicLive, Announced(log)>>)
  <2> SUFFICES ASSUME IInv, IInv', [Next]_vars
               PROVE  Public!Next \/ UNCHANGED <<PublicLive, Announced(log)>>
    OBVIOUS
  <2>1. [Life!Next]_(Life!vars)
    BY StepIsLife
  <2>2. CASE Life!Next
    BY <2>2, LifeIsPublic
  <2>3. CASE UNCHANGED Life!vars
    <3>1. StatusOf' = StatusOf /\ BodyOf' = BodyOf /\ log' = log
      BY <2>3 DEF Life!vars, StatusOf, BodyOf
    <3>2. TypeOK /\ TypeOK'
      BY DEF IInv
    <3>3. PublicLive = [r \in Ids |-> IF StatusOf[r] = "APPROVED" THEN BodyOf[r] ELSE NoBody]
      BY <3>2, LiveStands DEF LiveByStatus
    <3>4. PublicLive' = [r \in Ids |-> IF StatusOf'[r] = "APPROVED" THEN BodyOf'[r] ELSE NoBody]
      BY <3>2, LiveStandsNext DEF LiveByStatus
    <3> QED
      BY <3>1, <3>3, <3>4
  <2> QED
    BY <2>1, <2>2, <2>3
<1> QED
  BY <1>1, <1>2, InvariantHolds, PTL DEF Spec, ImplementsPublic, Public!Spec, PublicLive

\* The texts at the thresholds are texts, so what the runs look at before
\* anything is written is an instance of PolicyIsMonotone.
THEOREM DefectsHelpNobody == Spec => []DefectsNeverHelp
<1>1. Texts \subseteq Text
  BY DEF Texts, Text
<1>2. RulesAreMonotone
  BY <1>1, PolicyIsMonotone DEF RulesAreMonotone
<1>3. DefectsNeverHelp
  BY <1>2 DEF DefectsNeverHelp
<1> QED
  BY <1>3, PTL
=============================================================================
