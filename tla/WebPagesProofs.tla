--------------------------- MODULE WebPagesProofs ---------------------------
(* What the pages may show, for any number of reviews, calls, decisions,      *)
(* faults and ticks of the clock.                                             *)
EXTENDS WebPages, TLAPS

-----------------------------------------------------------------------------
(* The session cookie. *)

Login == [phase : {"none", "sent", "signed", "answered", "failed"},
          exp : Int, age : Int, asOf : Int]

\* An answer on its way carries an age counted from the second it was made in.
AgeFollowsToken ==
  login.phase = "answered" =>
    /\ login.asOf <= clock
    /\ login.asOf + Second <= login.exp * Second =>
         /\ login.asOf + login.age * Second <= login.exp * Second
         /\ login.asOf + login.age * Second + Second > login.exp * Second

SessionInv == clock \in Int /\ login \in Login /\ AgeFollowsToken /\ CookieFollowsToken

LEMMA DivisionRoundsDown ==
  ASSUME NEW x \in Int
  PROVE  /\ x \div Second \in Int
         /\ (x \div Second) * Second <= x
         /\ x < (x \div Second) * Second + Second
BY ClockAssumption

LEMMA SessionStarts == Init => SessionInv
<1> SUFFICES ASSUME Init PROVE SessionInv
  OBVIOUS
<1>1. CASE page = "login"
  BY <1>1 DEF Init, SessionInv, Login, AgeFollowsToken, CookieFollowsToken, Cookie!CookieFollowsToken,
    Cookie!SignedOut, Cookie!NoLogin, Cookie!NoCookie
<1>2. CASE page # "login"
  <2>1. PICK last \in BOOLEAN : Cookie!SignedIn(last)
    BY <1>2 DEF Init
  <2> DEFINE end == IF last THEN MaxTime ELSE MaxTime + 1
             exp == (end + Second - 1) \div Second
  <2>2. end \in Int /\ end + Second - 1 \in Int
    BY ClockAssumption
  <2>3. exp \in Int /\ exp * Second <= end + Second - 1 /\ end + Second - 1 < exp * Second + Second
    BY <2>2, DivisionRoundsDown
  <2>4. /\ jar = [exp |-> exp, until |-> end, slack |-> 0, dead |-> FALSE]
        /\ login = Cookie!NoLogin /\ clock \in Int
    BY <2>1, ClockAssumption DEF Cookie!SignedIn
  <2>5. exp * Second \in Int /\ Second \in Int
    BY <2>3, ClockAssumption
  <2> HIDE DEF end, exp
  <2>6. CookieFollowsToken
    BY <2>2, <2>3, <2>4, <2>5 DEF CookieFollowsToken, Cookie!CookieFollowsToken
  <2> QED
    BY <2>4, <2>6 DEF SessionInv, Login, AgeFollowsToken, Cookie!NoLogin
<1> QED
  BY <1>1, <1>2

\* The browser keeps what it has, or drops it.
LEMMA KeepHolds ==
  ASSUME NEW kept, NEW time, Cookie!Keep(kept, time),
         kept # Cookie!NoCookie /\ ~kept.dead =>
           /\ kept.until <= kept.exp * Second + kept.slack
           /\ kept.until + Second > kept.exp * Second
  PROVE  CookieFollowsToken'
BY DEF Cookie!Keep, CookieFollowsToken, Cookie!CookieFollowsToken

LEMMA SessionHolds == SessionInv /\ [Next]_vars => SessionInv'
<1> SUFFICES ASSUME SessionInv, [Next]_vars PROVE SessionInv'
  OBVIOUS
<1> USE DEF SessionInv
<1>1. CASE UNCHANGED <<clock, login, jar>>
  BY <1>1 DEF AgeFollowsToken, CookieFollowsToken, Cookie!CookieFollowsToken
<1>2. CASE Cookie!Tick
  <2>1. CookieFollowsToken'
    BY <1>2, KeepHolds DEF Cookie!Tick, CookieFollowsToken, Cookie!CookieFollowsToken
  <2>2. clock' = clock + 1 /\ login' = login
    BY <1>2 DEF Cookie!Tick
  <2>3. AgeFollowsToken'
    BY <2>2 DEF AgeFollowsToken, Login
  <2> QED
    BY <2>1, <2>2, <2>3
<1>3. CASE Cookie!SubmitLogin \/ Cookie!RefuseLogin
  BY <1>3 DEF Cookie!SubmitLogin, Cookie!RefuseLogin, Cookie!NoLogin, Login, AgeFollowsToken,
    CookieFollowsToken, Cookie!CookieFollowsToken
<1>4. CASE Cookie!SignToken
  <2>1. (clock \div Second) + Lifetime \in Int
    BY ClockAssumption
  <2> QED
    BY <1>4, <2>1 DEF Cookie!SignToken, Login, AgeFollowsToken, CookieFollowsToken, Cookie!CookieFollowsToken
<1>5. CASE Cookie!AnswerLogin
  <2> DEFINE exp == login.exp
             left == (exp * Second - clock) \div Second
             age == Cookie!MaxAgeFromToken(exp, clock)
  <2>1. exp \in Int /\ Second \in Int /\ exp * Second \in Int /\ exp * Second - clock \in Int
    BY ClockAssumption DEF Login
  <2>2. left \in Int /\ left * Second <= exp * Second - clock
        /\ exp * Second - clock < left * Second + Second
    BY <2>1, DivisionRoundsDown
  <2>3. age = IF left > 0 THEN left ELSE Fallback
    BY DEF Cookie!MaxAgeFromToken
  <2>4. clock + Second <= exp * Second => left > 0
    BY <2>1, <2>2, ClockAssumption
  <2>5. age \in Int /\ left * Second \in Int
    BY <2>1, <2>2, <2>3, ClockAssumption
  <2>6. /\ login' = [login EXCEPT !.phase = "answered", !.asOf = clock, !.age = age]
        /\ UNCHANGED <<clock, jar>>
    BY <1>5 DEF Cookie!AnswerLogin
  <2> HIDE DEF left, age
  <2>7. clock + Second <= exp * Second =>
          clock + age * Second <= exp * Second /\ clock + age * Second + Second > exp * Second
    BY <2>1, <2>2, <2>3, <2>4, <2>5
  <2>8. login' \in Login /\ login'.asOf = clock /\ login'.age = age /\ login'.exp = exp
    BY <2>5, <2>6 DEF Login
  <2>9. AgeFollowsToken'
    BY <2>6, <2>7, <2>8 DEF AgeFollowsToken
  <2> QED
    BY <2>6, <2>8, <2>9 DEF CookieFollowsToken, Cookie!CookieFollowsToken
<1>6. CASE Cookie!StoreCookie
  <2> DEFINE kept == [exp |-> login.exp, until |-> clock + login.age * Second,
                      slack |-> clock - login.asOf,
                      dead |-> login.asOf + Second > login.exp * Second]
  <2>1. Cookie!Keep(kept, clock) /\ login' = Cookie!NoLogin /\ clock' = clock /\ login.phase = "answered"
    BY <1>6 DEF Cookie!StoreCookie
  <2>2. /\ login.exp * Second \in Int /\ login.age * Second \in Int
        /\ login.asOf \in Int /\ Second \in Int
    BY ClockAssumption DEF Login
  <2>5. login.asOf + Second <= login.exp * Second =>
          /\ clock + login.age * Second <= login.exp * Second + (clock - login.asOf)
          /\ clock + login.age * Second + Second > login.exp * Second
    BY <2>1, <2>2 DEF AgeFollowsToken
  <2>6. /\ kept.exp = login.exp /\ kept.until = clock + login.age * Second
        /\ kept.slack = clock - login.asOf
        /\ kept.dead = (login.asOf + Second > login.exp * Second)
    OBVIOUS
  <2>3. ~kept.dead => /\ kept.until <= kept.exp * Second + kept.slack
                      /\ kept.until + Second > kept.exp * Second
    <3> SUFFICES ASSUME ~kept.dead
                 PROVE  /\ kept.until <= kept.exp * Second + kept.slack
                        /\ kept.until + Second > kept.exp * Second
      OBVIOUS
    <3>1. ~(login.asOf + Second > login.exp * Second)
      BY <2>6, Zenon
    <3>2. login.asOf + Second <= login.exp * Second
      BY <2>2, <3>1
    <3> HIDE DEF kept
    <3>3. /\ kept.until <= login.exp * Second + kept.slack
          /\ kept.until + Second > login.exp * Second
      BY <2>5, <2>6, <3>2
    <3> QED
      BY <2>6, <3>3
  <2> HIDE DEF kept
  <2>4. CookieFollowsToken'
    BY <2>1, <2>3, KeepHolds
  <2> QED
    BY <2>1, <2>4 DEF Login, AgeFollowsToken, Cookie!NoLogin
<1>7. CASE Cookie!SignOut
  BY <1>7 DEF Cookie!SignOut, AgeFollowsToken, CookieFollowsToken, Cookie!CookieFollowsToken
<1> QED
  BY <1>1, <1>2, <1>3, <1>4, <1>5, <1>6, <1>7
  DEF Next, VoterStep, AuthorStep, DeskStep, SessionStep, Cookie!Next, vars

\* CookieFollowsToken: the browser's cookie and the token in it end together to
\* the second, for every lifetime and every moment the answer is made in or
\* arrives (maxAgeFromToken of app/api/session/route.ts).
THEOREM CookieAndTokenEndTogether == Spec => []CookieFollowsToken
<1>1. Init => SessionInv
  BY SessionStarts
<1>2. SessionInv /\ [Next]_vars => SessionInv'
  BY SessionHolds
<1>3. SessionInv => CookieFollowsToken
  BY DEF SessionInv
<1> QED
  BY <1>1, <1>2, <1>3, PTL DEF Spec
-----------------------------------------------------------------------------
(* The moderation page. *)

Dialog == {Desk!Closed} \cup [review : Filed, busy : BOOLEAN]
Taken == [phase : {"sent", "ok", "refused"}, queue : Desk!Queues, review : Filed,
          verdict : {"APPROVED", "REJECTED"}, on : 0..MaxMishaps,
          watched : {"dialog", "queue", "none"}]
Decision == {Desk!Untaken, [phase |-> "settled"]} \cup Taken

\* Each change of a text is counted by a mishap; a decision names a review.
TextsCounted ==
  /\ mishaps \in 0..MaxMishaps /\ text \in [Filed -> Nat]
  /\ \A r \in Filed : text[r] <= mishaps
DeskTypes ==
  /\ decisions \in [1..MaxDecisions -> Decision]
  /\ rejecting \in [Desk!Queues -> Dialog]
  /\ removed \in [Desk!Queues -> SUBSET Filed]

DeskInv == TextsCounted /\ DeskTypes /\ HiddenWasDecided

LEMMA DeskStarts == Init => DeskInv
<1> SUFFICES ASSUME Init PROVE DeskInv
  OBVIOUS
<1>1. Desk!Init
  BY DEF Init
<1>2. TextsCounted
  BY <1>1, BoundsAssumption DEF Desk!Init, TextsCounted
<1>3. DeskTypes
  BY <1>1 DEF Desk!Init, DeskTypes, Dialog, Decision
<1>4. HiddenWasDecided
  BY <1>1 DEF Desk!Init, HiddenWasDecided, Desk!HiddenWasDecided
<1> QED
  BY <1>2, <1>3, <1>4 DEF DeskInv

\* Rows are hidden by answers only.
LEMMA NothingHidden ==
  ASSUME HiddenWasDecided, confirmed' = confirmed,
         \A q \in Desk!Queues : removed'[q] \subseteq removed[q]
  PROVE  HiddenWasDecided'
BY DEF HiddenWasDecided, Desk!HiddenWasDecided

\* The dialog's buttons come back, or it closes.
LEMMA DialogIsTyped ==
  ASSUME NEW dlg \in Dialog
  PROVE  [dlg EXCEPT !.busy = FALSE] \in Dialog
<1>1. CASE dlg = Desk!Closed
  <2> DEFINE same == [dlg EXCEPT !.busy = FALSE]
  <2>1. same = Desk!Closed
    <3>1. dlg = [review |-> Desk!Nobody, busy |-> FALSE]
      BY <1>1 DEF Desk!Closed
    <3>2. same \in [review : {Desk!Nobody}, busy : {FALSE}]
      BY <3>1
    <3> HIDE DEF same
    <3> QED
      BY <3>2 DEF Desk!Closed
  <2> QED
    BY <2>1 DEF Dialog
<1>2. CASE dlg \in [review : Filed, busy : BOOLEAN]
  BY <1>2 DEF Dialog
<1> QED
  BY <1>1, <1>2 DEF Dialog

LEMMA TakenIsTyped ==
  ASSUME DeskTypes, NEW k \in 1..MaxDecisions, NEW q \in Desk!Queues, NEW r \in Filed,
         NEW verdict \in {"APPROVED", "REJECTED"}, Desk!Taken(k, q, r, verdict)
  PROVE  decisions' \in [1..MaxDecisions -> Decision]
<1> DEFINE new == [phase |-> "sent", queue |-> q, review |-> r, verdict |-> verdict, on |-> 0,
                   watched |-> IF verdict = "REJECTED" THEN "dialog" ELSE "queue"]
<1>1. new \in Decision
  BY BoundsAssumption DEF Decision, Taken
<1>2. decisions' = [decisions EXCEPT ![k] = new]
  BY DEF Desk!Taken
<1> HIDE DEF new
<1> QED
  BY <1>1, <1>2 DEF DeskTypes

\* A queue that is redrawn changes what waits for a decision, and its dialog.
LEMMA RedrawIsTyped ==
  ASSUME NEW decs \in [1..MaxDecisions -> Decision], NEW q, NEW rows, NEW dlg \in Dialog
  PROVE  /\ Desk!Waiting(decs, q, rows) \in [1..MaxDecisions -> Decision]
         /\ Desk!Redrawn(dlg, rows) \in Dialog
<1>1. ASSUME NEW k \in 1..MaxDecisions, decs[k].phase \in {"sent", "ok", "refused"}
      PROVE  [decs[k] EXCEPT !.watched = "queue"] \in Decision
  <2>1. decs[k] \in Taken
    BY <1>1 DEF Decision, Desk!Untaken
  <2> QED
    BY <2>1 DEF Decision, Taken
<1>2. Desk!Waiting(decs, q, rows) \in [1..MaxDecisions -> Decision]
  BY <1>1 DEF Desk!Waiting
<1>3. Desk!Redrawn(dlg, rows) \in Dialog
  BY DialogIsTyped DEF Desk!Redrawn
<1> QED
  BY <1>2, <1>3

LEMMA ClicksHold ==
  ASSUME DeskInv, NEW q \in Desk!Queues,
         \/ \E k \in 1..MaxDecisions, r \in Filed : Desk!Approve(k, q, r)
         \/ \E k \in 1..MaxDecisions : Desk!Reject(k, q)
         \/ \E r \in Filed : Desk!OpenReject(q, r)
         \/ Desk!CloseReject(q)
  PROVE  DeskInv'
<1> USE DEF DeskInv
<1>1. UNCHANGED <<text, mishaps, removed, confirmed>>
  BY DEF Desk!Approve, Desk!Reject, Desk!OpenReject, Desk!CloseReject, Desk!reviews
<1>2. TextsCounted' /\ HiddenWasDecided' /\ removed' \in [Desk!Queues -> SUBSET Filed]
  BY <1>1, NothingHidden DEF TextsCounted, DeskTypes
<1>3. CASE \E k \in 1..MaxDecisions, r \in Filed : Desk!Approve(k, q, r)
  BY <1>2, <1>3, TakenIsTyped DEF Desk!Approve, DeskTypes
<1>4. CASE \E k \in 1..MaxDecisions : Desk!Reject(k, q)
  <2>1. PICK k \in 1..MaxDecisions : Desk!Reject(k, q)
    BY <1>4
  <2>2. rejecting[q] \in [review : Filed, busy : BOOLEAN]
    BY <2>1 DEF Desk!Reject, DeskTypes, Dialog
  <2>3. Desk!Taken(k, q, rejecting[q].review, "REJECTED") /\ rejecting[q].review \in Filed
    BY <2>1, <2>2 DEF Desk!Reject
  <2>4. decisions' \in [1..MaxDecisions -> Decision]
    BY <2>3, TakenIsTyped
  <2>5. rejecting' \in [Desk!Queues -> Dialog]
    BY <2>1, <2>2 DEF Desk!Reject, DeskTypes, Dialog
  <2> QED
    BY <1>2, <2>4, <2>5 DEF DeskTypes
<1>5. CASE (\E r \in Filed : Desk!OpenReject(q, r)) \/ Desk!CloseReject(q)
  <2>1. decisions' = decisions
    BY <1>5 DEF Desk!OpenReject, Desk!CloseReject
  <2>2. rejecting' \in [Desk!Queues -> Dialog]
    <3>1. PICK new \in Dialog : rejecting' = [rejecting EXCEPT ![q] = new]
      <4>1. Desk!Closed \in Dialog /\ \A r \in Filed : [review |-> r, busy |-> FALSE] \in Dialog
        BY DEF Dialog
      <4> QED
        BY <1>5, <4>1 DEF Desk!OpenReject, Desk!CloseReject
    <3> QED
      BY <3>1 DEF DeskTypes
  <2> QED
    BY <1>2, <2>1, <2>2 DEF DeskTypes
<1> QED
  BY <1>3, <1>4, <1>5

LEMMA CarriedHold ==
  ASSUME DeskInv, NEW k \in 1..MaxDecisions, Desk!Decide(k) \/ Desk!RefuseDecision(k)
  PROVE  DeskInv'
<1> USE DEF DeskInv
<1>1. decisions[k] \in Taken
  BY DEF Desk!Decide, Desk!RefuseDecision, DeskTypes, Decision, Desk!Untaken
<1>2. UNCHANGED <<text, removed, confirmed, rejecting>>
  BY DEF Desk!Decide, Desk!RefuseDecision, Desk!local, Desk!reviews
<1>3. HiddenWasDecided'
  BY <1>2, NothingHidden
<1>4. TextsCounted'
  BY <1>2, BoundsAssumption DEF Desk!Decide, Desk!RefuseDecision, TextsCounted
<1>5. decisions' \in [1..MaxDecisions -> Decision]
  <2>1. text[decisions[k].review] \in 0..MaxMishaps
    BY <1>1, BoundsAssumption DEF TextsCounted, Taken
  <2>2. CASE Desk!RefuseDecision(k)
    <3>1. [decisions[k] EXCEPT !.phase = "refused"] \in Taken
      BY <1>1 DEF Taken
    <3> QED
      BY <2>2, <3>1 DEF Desk!RefuseDecision, DeskTypes, Decision
  <2>3. CASE Desk!Decide(k)
    <3>1. /\ [decisions[k] EXCEPT !.phase = "refused"] \in Taken
          /\ [decisions[k] EXCEPT !.phase = "ok", !.on = text[decisions[k].review]] \in Taken
      BY <1>1, <2>1 DEF Taken
    <3> QED
      BY <2>3, <3>1 DEF Desk!Decide, DeskTypes, Decision
  <2> QED
    BY <2>2, <2>3
<1> QED
  BY <1>2, <1>3, <1>4, <1>5 DEF DeskTypes

LEMMA SettleHolds ==
  ASSUME DeskInv, NEW k \in 1..MaxDecisions, Desk!SettleDecision(k)
  PROVE  DeskInv'
<1> USE DEF DeskInv
<1> DEFINE d == decisions[k]
           q == d.queue
           ok == d.phase = "ok"
           seen == d.watched # "none"
           hidden == IF ok /\ seen THEN removed[q] \cup Desk!Hides(d) ELSE removed[q]
           rows == Desk!VisibleIn(listed[q], hidden)
           told == IF d.verdict = "APPROVED" \/ ~seen THEN rejecting[q]
                   ELSE IF ok THEN Desk!Closed
                   ELSE IF d.watched = "dialog" THEN [rejecting[q] EXCEPT !.busy = FALSE]
                   ELSE rejecting[q]
           settled == [decisions EXCEPT ![k] = [phase |-> "settled"]]
<1>1. /\ decisions' = Desk!Waiting(settled, q, rows)
      /\ confirmed' = IF ok THEN confirmed \cup {<<d.review, d.on>>} ELSE confirmed
      /\ removed' = [removed EXCEPT ![q] = hidden]
      /\ rejecting' = [rejecting EXCEPT ![q] = Desk!Redrawn(told, rows)]
      /\ UNCHANGED <<text, mishaps>>
      /\ d.phase \in {"ok", "refused"}
  BY DEF Desk!SettleDecision, Desk!reviews
<1>2. d \in Taken
  BY <1>1 DEF DeskTypes, Decision, Desk!Untaken
<1>3. q \in Desk!Queues /\ d.review \in Filed /\ d.on \in 0..MaxMishaps
  BY <1>2 DEF Taken
<1>4. hidden \subseteq removed[q] \cup (IF ok THEN {d.review} ELSE {}) /\ hidden \subseteq Filed
  BY <1>3 DEF Desk!Hides, DeskTypes
<1>5. told \in Dialog
  <2>1. rejecting[q] \in Dialog /\ Desk!Closed \in Dialog
    BY <1>3 DEF DeskTypes, Dialog
  <2> QED
    BY <2>1, DialogIsTyped
<1>6. settled \in [1..MaxDecisions -> Decision]
  BY DEF DeskTypes, Decision
<1>7. TextsCounted'
  BY <1>1 DEF TextsCounted
<1> HIDE DEF hidden, rows, told, settled
<1>8. Desk!Waiting(settled, q, rows) \in [1..MaxDecisions -> Decision]
      /\ Desk!Redrawn(told, rows) \in Dialog
  BY <1>5, <1>6, RedrawIsTyped
<1>9. DeskTypes'
  BY <1>1, <1>3, <1>4, <1>8 DEF DeskTypes
<1>10. HiddenWasDecided'
  <2> SUFFICES ASSUME NEW p \in Desk!Queues, NEW r \in removed'[p]
               PROVE  \E n \in 0..MaxMishaps : <<r, n>> \in confirmed'
    BY DEF HiddenWasDecided, Desk!HiddenWasDecided
  <2>1. CASE r \in removed[p]
    BY <1>1, <2>1 DEF HiddenWasDecided, Desk!HiddenWasDecided
  <2>2. CASE r \notin removed[p]
    <3>1. p = q /\ r \in hidden
      BY <1>1, <1>3, <2>2 DEF DeskTypes
    <3>2. ok /\ r = d.review
      BY <1>4, <2>2, <3>1
    <3> QED
      BY <1>1, <1>3, <3>2
  <2> QED
    BY <2>1, <2>2
<1> QED
  BY <1>7, <1>9, <1>10

LEMMA LoadsHold ==
  ASSUME DeskInv, NEW q \in Desk!Queues,
         Desk!Reload(q) \/ Desk!LoadReads(q) \/ Desk!LoadArrives(q) \/ Desk!LoadFails(q)
  PROVE  DeskInv'
<1> USE DEF DeskInv
<1>1. TextsCounted'
  BY BoundsAssumption DEF Desk!Reload, Desk!LoadReads, Desk!LoadArrives, Desk!LoadFails, Desk!reviews, TextsCounted
<1>2. CASE Desk!Reload(q) \/ Desk!LoadReads(q)
  <2>1. UNCHANGED <<decisions, rejecting, removed, confirmed>>
    BY <1>2 DEF Desk!Reload, Desk!LoadReads, Desk!local
  <2> QED
    BY <1>1, <2>1, NothingHidden DEF DeskTypes
<1>3. CASE Desk!LoadArrives(q)
  <2> DEFINE rows == Desk!VisibleIn(load[q].page, removed[q])
  <2>1. /\ rejecting' = [rejecting EXCEPT ![q] = Desk!Redrawn(rejecting[q], rows)]
        /\ decisions' = Desk!Waiting(decisions, q, rows)
        /\ UNCHANGED <<removed, confirmed>>
    BY <1>3 DEF Desk!LoadArrives
  <2> HIDE DEF rows
  <2>2. rejecting[q] \in Dialog /\ decisions \in [1..MaxDecisions -> Decision]
    BY DEF DeskTypes
  <2>3. Desk!Redrawn(rejecting[q], rows) \in Dialog
        /\ Desk!Waiting(decisions, q, rows) \in [1..MaxDecisions -> Decision]
    BY <2>2, RedrawIsTyped
  <2>4. DeskTypes'
    BY <2>1, <2>3 DEF DeskTypes
  <2> QED
    BY <1>1, <2>1, <2>4, NothingHidden
<1>4. CASE Desk!LoadFails(q)
  <2>1. /\ removed' = [removed EXCEPT ![q] = {}] /\ confirmed' = confirmed
        /\ rejecting' = [rejecting EXCEPT ![q] = Desk!Closed]
        /\ decisions' = [k \in DOMAIN decisions |->
             IF decisions[k].phase \in {"sent", "ok", "refused"} /\ decisions[k].queue = q
               THEN [decisions[k] EXCEPT !.watched = "none"] ELSE decisions[k]]
    BY <1>4 DEF Desk!LoadFails
  <2>2. ASSUME NEW k \in 1..MaxDecisions, decisions[k].phase \in {"sent", "ok", "refused"}
        PROVE  [decisions[k] EXCEPT !.watched = "none"] \in Decision
    <3>1. decisions[k] \in Taken
      BY <2>2 DEF DeskTypes, Decision, Desk!Untaken
    <3> QED
      BY <3>1 DEF Decision, Taken
  <2>3. decisions' \in [1..MaxDecisions -> Decision]
    BY <2>1, <2>2 DEF DeskTypes
  <2>4. DeskTypes'
    BY <2>1, <2>3 DEF DeskTypes, Dialog
  <2>5. \A p \in Desk!Queues : removed'[p] \subseteq removed[p]
    BY <2>1 DEF DeskTypes
  <2> QED
    BY <1>1, <2>1, <2>4, <2>5, NothingHidden
<1> QED
  BY <1>2, <1>3, <1>4

LEMMA OthersHold ==
  ASSUME DeskInv, NEW r \in Filed, NEW to, Desk!Changed(r, to)
  PROVE  DeskInv'
<1> USE DEF DeskInv
<1>1. /\ text' = text \/ text' = [text EXCEPT ![r] = @ + 1]
      /\ mishaps < MaxMishaps /\ mishaps' = mishaps + 1
      /\ UNCHANGED <<decisions, rejecting, removed, confirmed>>
  BY DEF Desk!Changed, Desk!local
<1>2. TextsCounted'
  BY <1>1, BoundsAssumption DEF TextsCounted
<1> QED
  BY <1>1, <1>2, NothingHidden DEF DeskTypes

LEMMA DeskHolds == DeskInv /\ [Next]_vars => DeskInv'
<1> SUFFICES ASSUME DeskInv, [Next]_vars PROVE DeskInv'
  OBVIOUS
<1>1. CASE UNCHANGED deskVars
  BY <1>1 DEF deskVars, DeskInv, TextsCounted, DeskTypes, HiddenWasDecided, Desk!HiddenWasDecided
<1>2. CASE Desk!Next
  BY <1>2, ClicksHold, CarriedHold, SettleHolds, LoadsHold, OthersHold DEF Desk!Next
<1> QED
  BY <1>1, <1>2 DEF Next, VoterStep, AuthorStep, DeskStep, SessionStep, vars

\* HiddenWasDecided: for any number of rows, queues' reloads and quick clicks,
\* a row leaves the moderator's page only after a decision on that review was
\* confirmed to this page (markDecided of moderation-queue.tsx).
THEOREM OnlyDecidedIsHidden == Spec => []HiddenWasDecided
<1>1. Init => DeskInv
  BY DeskStarts
<1>2. DeskInv /\ [Next]_vars => DeskInv'
  BY DeskHolds
<1>3. DeskInv => HiddenWasDecided
  BY DEF DeskInv
<1> QED
  BY <1>1, <1>2, <1>3, PTL DEF Spec
-----------------------------------------------------------------------------
(* The author's own review. *)

Review == [id : Nat, text : 0..1, status : Author!Statuses \cup {"NONE"}]
Data == [review : Review, at : Int]
Call == [kind : {"unused", "submit", "update", "delete"}, id : Nat,
         phase : {"unused", "sent", "ok", "conflict", "missing", "refused", "settled"},
         at : Int, watched : {"none", "section", "form"}]

\* An id is the number of the state the review was created in, so it is never
\* given twice.
Alive(review) ==
  /\ review \in Review /\ review.id <= seq /\ review.id \notin gone
  /\ review # Author!NoReview => review.id > 0

Pollable == poll.at = "read" => poll.data \in Data /\ Alive(poll.data.review)

\* A deletion that is answered left no such row.
Deletions ==
  \A k \in Author!Calls : calls[k].kind = "delete" =>
    /\ calls[k].id \in 1..seq
    /\ calls[k].phase \in {"ok", "missing"} => row.id # calls[k].id

AuthorInv ==
  /\ seq \in Nat /\ gone \subseteq 1..seq
  /\ Alive(row)
  /\ shown \in Data /\ Alive(shown.review)
  /\ Pollable
  /\ calls \in [Author!Calls -> Call] /\ Deletions
  /\ dialog # "closed" => Author!View(shown, broken) = "panel"

LEMMA AuthorStarts == Init => AuthorInv
<1> SUFFICES ASSUME Init PROVE AuthorInv
  OBVIOUS
<1>1. Author!Init
  BY DEF Init
<1>2. Author!NoReview \in Review /\ [id |-> 1, text |-> 0, status |-> "APPROVED"] \in Review
  BY DEF Author!NoReview, Review, Author!Statuses
<1>3. Alive(row) /\ seq = 1 /\ gone = {}
  BY <1>1, <1>2 DEF Author!Init, Alive, Author!NoReview
<1>4. Author!Unloaded \in Data /\ Author!Unloaded.review = Author!NoReview
  BY <1>2 DEF Author!Unloaded, Data
<1>5. shown \in Data /\ Alive(shown.review)
  BY <1>1, <1>2, <1>3, <1>4 DEF Author!Init, Alive, Author!NoReview
<1>6. Author!Unused \in Call
  BY DEF Author!Unused, Call
<1>7. calls \in [Author!Calls -> Call] /\ Deletions
  BY <1>1, <1>6 DEF Author!Init, Deletions, Author!Unused
<1>8. Pollable /\ dialog = "closed"
  BY <1>1 DEF Author!Init, Pollable, Author!AskedPoll
<1> QED
  BY <1>3, <1>5, <1>7, <1>8 DEF AuthorInv

LEMMA RenderShows ==
  ASSUME NEW data, NEW broke, NEW edits, NEW dlg, NEW frm,
         NEW cls \in [Author!Calls -> Call],
         Author!Render(data, broke, edits, dlg, frm, cls)
  PROVE  /\ shown' = data
         /\ calls' \in [Author!Calls -> Call]
         /\ \A k \in Author!Calls : /\ calls'[k].kind = cls[k].kind /\ calls'[k].id = cls[k].id
                                    /\ calls'[k].phase = cls[k].phase
         /\ dialog' # "closed" => Author!View(shown', broken') = "panel"
<1> DEFINE stays == Author!View(shown, broken) = "panel" /\ Author!View(data, broke) = "panel"
           same == Author!FormKey(data, broke, edits /\ stays) = Author!FormKey(shown, broken, editing)
           Watched(c) == IF c.watched = "form" /\ ~same
                           THEN IF stays THEN "section" ELSE "none"
                         ELSE IF c.watched = "section" /\ ~stays THEN "none" ELSE c.watched
<1>1. /\ shown' = data /\ broken' = broke
      /\ dialog' = IF stays THEN dlg ELSE "closed"
      /\ calls' = [k \in Author!Calls |-> [cls[k] EXCEPT !.watched = Watched(cls[k])]]
  BY DEF Author!Render
<1>2. ASSUME NEW c \in Call PROVE Watched(c) \in {"none", "section", "form"}
  <2>1. c.watched \in {"none", "section", "form"}
    BY DEF Call
  <2> HIDE DEF stays, same
  <2> QED
    BY <2>1
<1> HIDE DEF Watched
<1>3. ASSUME NEW k \in Author!Calls
      PROVE  /\ calls'[k] \in Call
             /\ calls'[k].kind = cls[k].kind /\ calls'[k].id = cls[k].id
             /\ calls'[k].phase = cls[k].phase
  <2>1. cls[k] \in Call /\ Watched(cls[k]) \in {"none", "section", "form"}
    BY <1>2
  <2>2. calls'[k] = [cls[k] EXCEPT !.watched = Watched(cls[k])]
    BY <1>1
  <2> QED
    BY <2>1, <2>2 DEF Call
<1>4. calls' \in [Author!Calls -> Call]
  BY <1>1, <1>3
<1> QED
  BY <1>1, <1>3, <1>4

\* A step of the page that touches neither the row nor what is known of it.
LEMMA PageKeeps ==
  ASSUME AuthorInv, UNCHANGED <<row, seq, gone>>,
         \/ shown' = shown
         \/ poll.at = "read" /\ shown' = poll.data,
         poll' = poll \/ poll'.at # "read",
         calls' \in [Author!Calls -> Call],
         \A k \in Author!Calls : calls'[k].kind = "delete" =>
           \/ /\ calls[k].kind = "delete" /\ calls'[k].id = calls[k].id
              /\ calls'[k].phase = calls[k].phase
           \/ calls'[k].id \in 1..seq /\ calls'[k].phase \in {"sent", "refused"},
         dialog' # "closed" => Author!View(shown', broken') = "panel"
  PROVE  AuthorInv'
<1> USE DEF AuthorInv
<1>1. Alive(row)' /\ (seq \in Nat)' /\ (gone \subseteq 1..seq)'
  BY DEF Alive
<1>2. (shown \in Data)' /\ Alive(shown.review)'
  BY DEF Alive, Pollable
<1>3. Pollable'
  BY DEF Pollable, Alive
<1>4. Deletions'
  BY DEF Deletions
<1> QED
  BY <1>1, <1>2, <1>3, <1>4

LEMMA ClicksKeep ==
  ASSUME AuthorInv,
         Author!Type \/ Author!OpenEdit \/ Author!CancelEdit \/ Author!OpenDialog \/ Author!CloseDialog
  PROVE  AuthorInv'
<1> USE DEF AuthorInv
<1>1. UNCHANGED <<row, seq, gone, poll>>
  BY DEF Author!Type, Author!OpenEdit, Author!CancelEdit, Author!OpenDialog, Author!CloseDialog
<1>2. CASE Author!Type \/ Author!OpenDialog \/ Author!CloseDialog
  <2>1. UNCHANGED <<shown, broken, calls>>
    BY <1>2 DEF Author!Type, Author!OpenDialog, Author!CloseDialog
  <2>2. dialog' # "closed" => Author!View(shown', broken') = "panel"
    BY <1>2, <2>1 DEF Author!Type, Author!OpenDialog, Author!CloseDialog
  <2> QED
    BY <1>1, <2>1, <2>2, PageKeeps
<1>3. CASE Author!OpenEdit \/ Author!CancelEdit
  <2>1. PICK edits \in BOOLEAN : Author!Render(shown, broken, edits, dialog, form, calls)
    BY <1>3 DEF Author!OpenEdit, Author!CancelEdit
  <2> QED
    BY <1>1, <2>1, RenderShows, PageKeeps
<1> QED
  BY <1>2, <1>3

LEMMA SendsKeep ==
  ASSUME AuthorInv, NEW k \in Author!Calls, Author!SendForm(k) \/ Author!SendDelete(k)
  PROVE  AuthorInv'
<1> USE DEF AuthorInv
<1>1. UNCHANGED <<row, seq, gone, poll, shown, broken>>
  BY DEF Author!SendForm, Author!SendDelete
<1>2. PICK kind \in {"submit", "update", "delete"}, watched \in {"section", "form"} :
        /\ Author!Sent(k, kind, shown.review.id, watched)
        /\ kind = "delete" => dialog = "open"
        /\ dialog' # "closed" => dialog # "closed"
  BY DEF Author!SendForm, Author!SendDelete
<1> DEFINE new == [kind |-> kind, id |-> shown.review.id, phase |-> "sent", at |-> 0,
                   watched |-> watched]
<1>3. shown.review.id \in Nat /\ shown.review.id <= seq
  BY DEF Alive, Review
<1>4. kind = "delete" => shown.review.id \in 1..seq
  <2> SUFFICES ASSUME kind = "delete" PROVE shown.review.id > 0
    BY <1>3
  <2>1. Author!View(shown, broken) = "panel"
    BY <1>2
  <2>2. shown.review # Author!NoReview
    BY <2>1 DEF Author!View
  <2> QED
    BY <2>2 DEF Alive
<1>5. new \in Call /\ new.kind = kind /\ new.id = shown.review.id /\ new.phase = "sent"
  BY <1>3 DEF Call
<1>6. calls' = [calls EXCEPT ![k] = new]
  BY <1>2 DEF Author!Sent
<1> HIDE DEF new
<1>7. calls' \in [Author!Calls -> Call]
  BY <1>5, <1>6
<1>8. \A j \in Author!Calls : calls'[j].kind = "delete" =>
        \/ /\ calls[j].kind = "delete" /\ calls'[j].id = calls[j].id
           /\ calls'[j].phase = calls[j].phase
        \/ calls'[j].id \in 1..seq /\ calls'[j].phase \in {"sent", "refused"}
  BY <1>4, <1>5, <1>6
<1>9. dialog' # "closed" => Author!View(shown', broken') = "panel"
  BY <1>1, <1>2
<1> QED
  BY <1>1, <1>7, <1>8, <1>9, PageKeeps

LEMMA RefusedKeeps ==
  ASSUME AuthorInv, NEW k \in Author!Calls,
         UNCHANGED <<row, seq, gone, poll, shown, broken, dialog>>,
         calls' = [calls EXCEPT ![k].phase = "refused"]
  PROVE  AuthorInv'
<1> USE DEF AuthorInv
<1>1. calls[k] \in Call
  OBVIOUS
<1>2. /\ [calls[k] EXCEPT !.phase = "refused"] \in Call
      /\ [calls[k] EXCEPT !.phase = "refused"].kind = calls[k].kind
      /\ [calls[k] EXCEPT !.phase = "refused"].id = calls[k].id
      /\ [calls[k] EXCEPT !.phase = "refused"].phase = "refused"
  BY <1>1 DEF Call
<1>3. /\ calls' \in [Author!Calls -> Call]
      /\ \A j \in Author!Calls : j # k => calls'[j] = calls[j]
      /\ calls'[k].kind = calls[k].kind /\ calls'[k].id = calls[k].id
      /\ calls'[k].phase = "refused"
  BY <1>2
<1>4. \A j \in Author!Calls : calls'[j].kind = "delete" =>
        \/ /\ calls[j].kind = "delete" /\ calls'[j].id = calls[j].id
           /\ calls'[j].phase = calls[j].phase
        \/ calls'[j].id \in 1..seq /\ calls'[j].phase \in {"sent", "refused"}
  BY <1>3 DEF Deletions
<1> QED
  BY <1>3, <1>4, PageKeeps

LEMMA RefusalsKeep ==
  ASSUME AuthorInv, NEW k \in Author!Calls, Author!Refuse(k)
  PROVE  AuthorInv'
<1>1. /\ UNCHANGED <<row, seq, gone, poll, shown, broken, dialog>>
      /\ calls' = [calls EXCEPT ![k].phase = "refused"]
  BY DEF Author!Refuse
<1> QED
  BY <1>1, RefusedKeeps

LEMMA AbandonKeeps ==
  ASSUME AuthorInv, NEW k \in Author!Calls, Author!Abandon(k)
  PROVE  AuthorInv'
<1>1. /\ UNCHANGED <<row, seq, gone, poll, shown, broken, dialog>>
      /\ calls' = [calls EXCEPT ![k].phase = "refused"]
  BY DEF Author!Abandon
<1> QED
  BY <1>1, RefusedKeeps

LEMMA PollsKeep ==
  ASSUME AuthorInv,
         Author!Poll \/ Author!Refocused \/ Author!PollReads \/ Author!PollArrives \/ Author!PollFails
  PROVE  AuthorInv'
<1> USE DEF AuthorInv
<1>1. UNCHANGED <<row, seq, gone>>
  BY DEF Author!Poll, Author!Refocused, Author!PollReads, Author!PollArrives, Author!PollFails
<1>2. CASE Author!Poll \/ Author!Refocused
  <2>1. UNCHANGED <<shown, broken, calls, dialog>> /\ poll'.at # "read"
    BY <1>2 DEF Author!Poll, Author!Refocused, Author!section, Author!AskedPoll
  <2> QED
    BY <1>1, <2>1, PageKeeps
<1>3. CASE Author!PollArrives
  <2>1. Author!Render(poll.data, FALSE, editing, dialog, form, calls)
    BY <1>3 DEF Author!PollArrives
  <2>2. poll.at = "read" /\ poll'.at # "read"
    BY <1>3 DEF Author!PollArrives, Author!NoPoll
  <2> QED
    BY <1>1, <2>1, <2>2, RenderShows, PageKeeps
<1>4. CASE Author!PollFails
  <2>1. Author!Render(shown, TRUE, editing, dialog, form, calls)
    BY <1>4 DEF Author!PollFails
  <2>2. poll'.at # "read"
    BY <1>4 DEF Author!PollFails, Author!NoPoll
  <2> QED
    BY <1>1, <2>1, <2>2, RenderShows, PageKeeps
<1>5. CASE Author!PollReads
  <2>1. UNCHANGED <<shown, broken, calls, dialog>>
    BY <1>5 DEF Author!PollReads, Author!section
  <2>2. PICK review \in {row, Author!NoReview} :
          poll' = [at |-> "read", data |-> [review |-> review, at |-> seq]]
    BY <1>5 DEF Author!PollReads
  <2>3. Alive(review)
    <3>1. Alive(Author!NoReview)
      BY DEF Alive, Author!NoReview, Review
    <3> QED
      BY <3>1
  <2>4. poll'.data = [review |-> review, at |-> seq] /\ review \in Review
    BY <2>2, <2>3 DEF Alive
  <2>5. poll'.data \in Data /\ poll'.data.review = review
    BY <2>4 DEF Data
  <2>6. Pollable'
    BY <1>1, <2>3, <2>5 DEF Pollable, Alive
  <2> QED
    BY <1>1, <2>1, <2>6 DEF Alive, Deletions
<1> QED
  BY <1>2, <1>3, <1>4, <1>5

\* What a change of the row leaves.
LEMMA WrittenIsAlive ==
  ASSUME AuthorInv, NEW new, Author!Write(new), gone' = gone,
         \/ new \in Review /\ new.id = seq + 1 /\ new # row
         \/ new \in Review /\ new.id = row.id /\ row.id > 0
         \/ new \in {row, Author!NoReview}
  PROVE  /\ seq' \in Nat /\ seq <= seq' /\ (gone \subseteq 1..seq)'
         /\ Alive(row)'
         /\ row'.id \in {row.id, seq + 1, 0}
<1> USE DEF AuthorInv
<1>1. row' = new /\ seq' \in {seq, seq + 1} /\ (new # row => seq' = seq + 1)
  BY DEF Author!Write
<1>2. seq' \in Nat /\ seq <= seq' /\ (gone \subseteq 1..seq)'
  BY <1>1
<1>3. row.id \in Nat /\ row.id <= seq /\ row.id \notin gone
  BY DEF Alive, Review
<1>4. Author!NoReview \in Review /\ Author!NoReview.id = 0
  BY DEF Author!NoReview, Review, Author!Statuses
<1>5. Alive(row)'
  BY <1>1, <1>2, <1>3, <1>4 DEF Alive
<1> QED
  BY <1>1, <1>2, <1>4, <1>5

LEMMA EditedIsTyped ==
  ASSUME NEW review \in Review, NEW txt \in 0..1, NEW st \in Author!Statuses
  PROVE  /\ [review EXCEPT !.text = txt, !.status = st] \in Review
         /\ [review EXCEPT !.text = txt, !.status = st].id = review.id
BY DEF Review

LEMMA AnsweredIsTyped ==
  ASSUME NEW c \in Call, NEW phase \in {"ok", "conflict", "missing"}, NEW at \in Int
  PROVE  /\ [c EXCEPT !.phase = phase, !.at = at] \in Call
         /\ [c EXCEPT !.phase = phase, !.at = at].kind = c.kind
         /\ [c EXCEPT !.phase = phase, !.at = at].id = c.id
BY DEF Call

LEMMA WrittenRow ==
  ASSUME AuthorInv, NEW kind, NEW id
  PROVE  LET new == Author!Written(kind, id) IN
         /\ \/ new \in Review /\ new.id = seq + 1 /\ new # row
            \/ new \in Review /\ new.id = row.id /\ row.id > 0
            \/ new \in {row, Author!NoReview}
         /\ kind = "delete" => new = IF row.id = id THEN Author!NoReview ELSE row
<1> USE DEF AuthorInv
<1>1. row \in Review /\ row.id <= seq /\ (row # Author!NoReview => row.id > 0)
  BY DEF Alive
<1>2. [id |-> seq + 1, text |-> 0, status |-> "PENDING"] \in Review
  BY DEF Review, Author!Statuses
<1>3. row.id \in Nat /\ row.text \in 0..1
  BY <1>1 DEF Review
<1>4. [row EXCEPT !.text = 1 - row.text, !.status = "PENDING"] \in Review
      /\ [row EXCEPT !.text = 1 - row.text, !.status = "PENDING"].id = row.id
  <2>1. 1 - row.text \in 0..1 /\ "PENDING" \in Author!Statuses
    BY <1>3 DEF Author!Statuses
  <2> QED
    BY <1>1, <2>1, EditedIsTyped
<1>5. kind = "submit" /\ row = Author!NoReview =>
        Author!Written(kind, id) = [id |-> seq + 1, text |-> 0, status |-> "PENDING"]
  BY DEF Author!Written
<1>6. [id |-> seq + 1, text |-> 0, status |-> "PENDING"] # row
  BY <1>1, <1>3
<1>7. ~(kind = "submit" /\ row = Author!NoReview) =>
        \/ /\ Author!Written(kind, id) = [row EXCEPT !.text = 1 - row.text, !.status = "PENDING"]
           /\ row # Author!NoReview /\ kind = "update"
        \/ Author!Written(kind, id) \in {row, Author!NoReview}
  BY DEF Author!Written
<1>8. kind = "delete" => Author!Written(kind, id) = IF row.id = id THEN Author!NoReview ELSE row
  BY DEF Author!Written
<1> QED
  <2> DEFINE new == Author!Written(kind, id)
             edited == [row EXCEPT !.text = 1 - row.text, !.status = "PENDING"]
  <2>1. CASE kind = "submit" /\ row = Author!NoReview
    BY <1>2, <1>5, <1>6, <2>1
  <2>2. CASE ~(kind = "submit" /\ row = Author!NoReview)
    <3>1. edited \in Review /\ edited.id = row.id
      BY <1>4
    <3>2. \/ new = edited /\ row # Author!NoReview /\ kind = "update"
          \/ new \in {row, Author!NoReview}
      BY <1>7, <2>2
    <3>3. kind = "delete" => new = IF row.id = id THEN Author!NoReview ELSE row
      BY <1>8
    <3> HIDE DEF new, edited
    <3>4. \/ new \in Review /\ new.id = row.id /\ row.id > 0
          \/ new \in {row, Author!NoReview}
      BY <1>1, <3>1, <3>2
    <3> QED
      BY <3>3, <3>4 DEF new
  <2> QED
    BY <2>1, <2>2

\* The row changes and the page does not.
LEMMA RowChanges ==
  ASSUME AuthorInv, UNCHANGED <<gone, shown, broken, poll, dialog>>,
         seq' \in Nat, seq <= seq', (gone \subseteq 1..seq)', Alive(row)',
         row'.id \in {row.id, seq + 1, 0},
         calls' \in [Author!Calls -> Call],
         \A k \in Author!Calls : calls'[k].kind = "delete" =>
           /\ calls[k].kind = "delete" /\ calls'[k].id = calls[k].id
           /\ calls'[k].phase = calls[k].phase \/ row'.id # calls[k].id
  PROVE  AuthorInv'
<1> USE DEF AuthorInv
<1>1. (shown \in Data)' /\ Alive(shown.review)'
  <2>1. shown.review.id \in Nat /\ shown.review.id <= seq'
    BY DEF Alive, Review
  <2> QED
    BY <2>1 DEF Alive
<1>2. Pollable'
  <2>1. poll.at = "read" => poll.data.review.id \in Nat /\ poll.data.review.id <= seq'
    BY DEF Pollable, Alive, Review
  <2> QED
    BY <2>1 DEF Pollable, Alive
<1>3. Deletions'
  <2> SUFFICES ASSUME NEW k \in Author!Calls, calls'[k].kind = "delete"
               PROVE  /\ calls'[k].id \in 1..seq'
                      /\ calls'[k].phase \in {"ok", "missing"} => row'.id # calls'[k].id
    BY DEF Deletions
  <2>1. calls[k].kind = "delete" /\ calls'[k].id = calls[k].id /\ calls[k].id \in 1..seq
    BY DEF Deletions
  <2>2. calls[k].id \in 1..seq' /\ calls[k].id # 0 /\ calls[k].id # seq + 1
    BY <2>1
  <2>3. calls'[k].phase = calls[k].phase \/ row'.id # calls[k].id
    OBVIOUS
  <2> QED
    BY <2>1, <2>2, <2>3 DEF Deletions
<1> QED
  BY <1>1, <1>2, <1>3

LEMMA CarriesKeep ==
  ASSUME AuthorInv, NEW k \in Author!Calls, Author!Carry(k)
  PROVE  AuthorInv'
<1> USE DEF AuthorInv
<1> DEFINE c == calls[k]
           new == Author!Written(c.kind, c.id)
           phase == IF new # row THEN "ok"
                    ELSE IF c.kind = "submit" THEN "conflict" ELSE "missing"
           told == [c EXCEPT !.phase = phase, !.at = seq']
<1>1. /\ Author!Write(new) /\ UNCHANGED <<gone, shown, broken, poll, dialog>>
      /\ calls' = [calls EXCEPT ![k].phase = phase, ![k].at = seq']
  BY DEF Author!Carry
<1>2. c \in Call /\ phase \in {"ok", "conflict", "missing"}
  OBVIOUS
<1>3. /\ \/ new \in Review /\ new.id = seq + 1 /\ new # row
         \/ new \in Review /\ new.id = row.id /\ row.id > 0
         \/ new \in {row, Author!NoReview}
      /\ c.kind = "delete" => new = IF row.id = c.id THEN Author!NoReview ELSE row
  BY WrittenRow
<1>4. c.kind = "delete" => c.id \in 1..seq
  BY DEF Deletions
<1>5. row' = new
  BY <1>1 DEF Author!Write
<1>6. c.kind = "delete" => row'.id # c.id
  BY <1>3, <1>4, <1>5 DEF Author!NoReview
<1> HIDE DEF new, phase
<1>7. /\ seq' \in Nat /\ seq <= seq' /\ (gone \subseteq 1..seq)'
      /\ Alive(row)' /\ row'.id \in {row.id, seq + 1, 0}
  BY <1>1, <1>3, WrittenIsAlive
<1>8. told \in Call /\ told.kind = c.kind /\ told.id = c.id
  <2>1. seq' \in Int
    BY <1>7
  <2> HIDE DEF c, AuthorInv
  <2> QED
    BY <1>2, <2>1 DEF Call
<1>9. calls' = [calls EXCEPT ![k] = told]
  BY <1>1, <1>2
<1> HIDE DEF told
<1>10. calls' \in [Author!Calls -> Call]
  BY <1>8, <1>9
<1>11. \A j \in Author!Calls : calls'[j].kind = "delete" =>
         /\ calls[j].kind = "delete" /\ calls'[j].id = calls[j].id
         /\ calls'[j].phase = calls[j].phase \/ row'.id # calls[j].id
  BY <1>6, <1>8, <1>9
<1> QED
  BY <1>1, <1>7, <1>10, <1>11, RowChanges

LEMMA OthersKeep ==
  ASSUME AuthorInv,
         \/ \E s \in Author!Statuses : Author!Judged(s)
         \/ \E kind \in {"submit", "update", "delete"} : Author!OtherTab(kind)
         \/ \E c \in adrift : Author!CarryLate(c)
  PROVE  AuthorInv'
<1> USE DEF AuthorInv
<1>1. UNCHANGED <<gone, shown, broken, poll, dialog, calls>>
  BY DEF Author!Judged, Author!OtherTab, Author!CarryLate, Author!section
<1>2. PICK new : /\ Author!Write(new)
                 /\ \/ new \in Review /\ new.id = seq + 1 /\ new # row
                    \/ new \in Review /\ new.id = row.id /\ row.id > 0
                    \/ new \in {row, Author!NoReview}
  <2>1. CASE \E s \in Author!Statuses : Author!Judged(s)
    <3>1. PICK s \in Author!Statuses : Author!Judged(s)
      BY <2>1
    <3>2. row \in Review /\ row # Author!NoReview
      BY <3>1 DEF Author!Judged, Author!Awaiting, Author!NoReview, Alive
    <3>3. [row EXCEPT !.status = s] \in Review /\ [row EXCEPT !.status = s].id = row.id /\ row.id > 0
      BY <3>2 DEF Review, Alive
    <3> QED
      BY <3>1, <3>3 DEF Author!Judged
  <2>2. CASE \E kind \in {"submit", "update", "delete"} : Author!OtherTab(kind)
    BY <2>2, WrittenRow DEF Author!OtherTab
  <2>3. CASE \E c \in adrift : Author!CarryLate(c)
    BY <2>3, WrittenRow DEF Author!CarryLate
  <2> QED
    BY <2>1, <2>2, <2>3
<1>3. /\ seq' \in Nat /\ seq <= seq' /\ (gone \subseteq 1..seq)'
      /\ Alive(row)' /\ row'.id \in {row.id, seq + 1, 0}
  BY <1>1, <1>2, WrittenIsAlive
<1> QED
  BY <1>1, <1>3, RowChanges

LEMMA SettlesKeep ==
  ASSUME AuthorInv, NEW k \in Author!Calls, Author!Settle(k)
  PROVE  AuthorInv'
<1> USE DEF AuthorInv
<1> DEFINE c == calls[k]
           told == Author!Invalidates(c.kind, c.phase)
           deleted == c.kind = "delete" /\ told
           data == IF deleted THEN [review |-> Author!NoReview, at |-> shown.at] ELSE shown
           done == [Author!Unused EXCEPT !.phase = "settled"]
           cls == [calls EXCEPT ![k] = done]
<1>1. PICK broke, edits, dlg, frm :
        /\ Author!Render(data, broke, edits, dlg, frm, cls)
        /\ poll' = IF told THEN Author!AskedPoll ELSE poll
        /\ gone' = IF deleted THEN gone \cup {c.id} ELSE gone
        /\ UNCHANGED <<row, seq>>
  BY DEF Author!Settle, Author!Told
<1>2. done \in Call /\ done.kind = "unused"
  BY DEF Author!Unused, Call
<1> HIDE DEF done
<1>3. cls \in [Author!Calls -> Call] /\ cls[k].kind = "unused"
      /\ \A j \in Author!Calls : j # k => cls[j] = calls[j]
  BY <1>2
<1>4. deleted => c.id \in 1..seq /\ row.id # c.id
  BY DEF Author!Invalidates, Deletions
<1> HIDE DEF told, deleted, data, cls
<1>5. /\ shown' = data /\ calls' \in [Author!Calls -> Call]
      /\ \A j \in Author!Calls : /\ calls'[j].kind = cls[j].kind /\ calls'[j].id = cls[j].id
                                 /\ calls'[j].phase = cls[j].phase
      /\ dialog' # "closed" => Author!View(shown', broken') = "panel"
  BY <1>1, <1>3, RenderShows
<1>6. Deletions'
  BY <1>1, <1>3, <1>5 DEF Deletions
<1>7. CASE deleted
  <2>1. gone' = gone \cup {c.id} /\ poll'.at # "read"
    BY <1>1, <1>7 DEF deleted, Author!AskedPoll
  <2>2. Alive(row)' /\ (gone \subseteq 1..seq)'
    BY <1>1, <1>4, <1>7, <2>1 DEF Alive
  <2>3. shown' = [review |-> Author!NoReview, at |-> shown.at]
    BY <1>5, <1>7 DEF data
  <2>4. Author!NoReview \in Review /\ Author!NoReview.id = 0
    BY DEF Author!NoReview, Review, Author!Statuses
  <2>5. shown' \in Data /\ shown'.review = Author!NoReview
    BY <2>3, <2>4 DEF Data
  <2>6. Alive(shown.review)'
    BY <1>1, <2>2, <2>4, <2>5 DEF Alive
  <2> QED
    BY <1>1, <1>5, <1>6, <2>1, <2>2, <2>5, <2>6 DEF Pollable
<1>8. CASE ~deleted
  <2>1. gone' = gone /\ shown' = shown /\ (poll' = poll \/ poll'.at # "read")
    BY <1>1, <1>5, <1>8 DEF data, Author!AskedPoll
  <2>2. \A j \in Author!Calls : calls'[j].kind = "delete" =>
          calls[j].kind = "delete" /\ calls'[j].id = calls[j].id /\ calls'[j].phase = calls[j].phase
    BY <1>3, <1>5
  <2> QED
    BY <1>1, <1>5, <2>1, <2>2, PageKeeps
<1> QED
  BY <1>7, <1>8

LEMMA AuthorHolds == AuthorInv /\ [Next]_vars => AuthorInv'
<1> SUFFICES ASSUME AuthorInv, [Next]_vars PROVE AuthorInv'
  OBVIOUS
<1>1. CASE UNCHANGED authorVars
  BY <1>1 DEF authorVars, AuthorInv, Alive, Pollable, Deletions
<1>2. CASE Author!Next
  BY <1>2, ClicksKeep, SendsKeep, RefusalsKeep, AbandonKeeps, PollsKeep, CarriesKeep, OthersKeep,
    SettlesKeep
  DEF Author!Next
<1> QED
  BY <1>1, <1>2 DEF Next, VoterStep, AuthorStep, DeskStep, SessionStep, vars

\* DeletedStaysGone: whatever polls, other tabs and calls fall together, a
\* review whose deletion the author was told of is not shown again: the answer
\* of a poll that had read it before is discarded (useDeleteReview of
\* use-manage-review.ts).
THEOREM DeletedNeverComesBack == Spec => []DeletedStaysGone
<1>1. Init => AuthorInv
  BY AuthorStarts
<1>2. AuthorInv /\ [Next]_vars => AuthorInv'
  BY AuthorHolds
<1>3. AuthorInv => DeletedStaysGone
  BY DEF AuthorInv, Alive, DeletedStaysGone, Author!DeletedStaysGone
<1> QED
  BY <1>1, <1>2, <1>3, PTL DEF Spec
-----------------------------------------------------------------------------
(* The vote buttons. *)

\* The fields of a button, a vote on its way, an abandoned request.
IsButton(b) == b = [shown |-> b.shown, active |-> b.active, pending |-> b.pending]
IsVote(q) ==
  q = [phase |-> q.phase, review |-> q.review, value |-> q.value, before |-> q.before,
       snapshot |-> q.snapshot, watched |-> q.watched, alone |-> q.alone]
IsLate(q) == q = [review |-> q.review, value |-> q.value, done |-> q.done]

Flying(m, r) == mutations[m].phase # "resting" /\ mutations[m].review = r

\* The API has written it: the sweep may still be to come.
Carried(q) == q.phase \in {"stored", "ok"}

VoterTypes ==
  /\ DOMAIN mine = Reviews /\ DOMAIN button = Reviews /\ DOMAIN sure = Reviews
  /\ DOMAIN mutations = Voter!Slots
  /\ clicks \in Nat
  /\ \A r \in Reviews : IsButton(button[r])
  /\ \A m \in Voter!Slots :
       mutations[m] # Voter!Resting =>
         /\ IsVote(mutations[m]) /\ m <= clicks
         /\ mutations[m].phase \in {"sent", "stored", "ok", "error"}
         /\ mutations[m].review \in Reviews /\ IsButton(mutations[m].before)
  /\ \A q \in late : IsLate(q)

\* A vote whose button is still there is the one that button shows.
WatchedPresses ==
  \A m \in Voter!Slots, r \in Reviews :
    Flying(m, r) /\ mutations[m].watched =>
      /\ mounted /\ button[r].pending /\ button[r].active = mutations[m].value
      /\ \A n \in Voter!Slots : Flying(n, r) /\ mutations[n].watched => n = m

\* What is known for sure of a button outlives the clicks that follow: the
\* database has the vote a refused click rolls back to, or the one it committed.
SureIsKept ==
  \A r \in Reviews : sure[r] =>
    /\ mounted /\ \A q \in late : q.review # r
    /\ (\A m \in Voter!Slots : ~Flying(m, r)) => mine[r] = button[r].active
    /\ \A m \in Voter!Slots : Flying(m, r) =>
         /\ mutations[m].watched
         /\ Carried(mutations[m]) => mine[r] = mutations[m].value
         /\ ~Carried(mutations[m]) => mine[r] = mutations[m].before.active

\* A vote that was alone when it was clicked stays alone until it is answered.
AloneStaysAlone ==
  \A m \in Voter!Slots, r \in Reviews :
    Flying(m, r) /\ mutations[m].watched /\ mutations[m].alone /\ mutations[m].phase \in {"sent", "stored", "ok"} =>
      /\ \A q \in late : q.review # r
      /\ \A n \in Voter!Slots : Flying(n, r) => n = m
      /\ Carried(mutations[m]) => mine[r] = mutations[m].value

VoterInv == VoterTypes /\ WatchedPresses /\ SureIsKept /\ AloneStaysAlone

LEMMA VoterStarts == Init => VoterInv
<1> SUFFICES ASSUME Init PROVE VoterInv
  OBVIOUS
<1>1. Voter!Init
  BY DEF Init
<1>2. /\ \A m \in Voter!Slots : mutations[m] = Voter!Resting /\ mutations[m].phase = "resting"
      /\ \A r \in Reviews : sure[r] = FALSE
      /\ late = {} /\ clicks = 0
  BY <1>1 DEF Voter!Init, Voter!Resting
<1>3. \A r \in Reviews : IsButton(button[r])
  BY <1>1 DEF Voter!Init, Voter!Fresh, IsButton
<1>4. VoterTypes
  BY <1>1, <1>2, <1>3 DEF Voter!Init, VoterTypes
<1> QED
  BY <1>2, <1>4 DEF VoterInv, WatchedPresses, SureIsKept, AloneStaysAlone, Flying

LEMMA PhaseMoves ==
  ASSUME NEW q, IsVote(q), NEW phase
  PROVE  LET p == [q EXCEPT !.phase = phase] IN
         /\ IsVote(p) /\ p.phase = phase /\ p.review = q.review /\ p.value = q.value
         /\ p.before = q.before /\ p.watched = q.watched /\ p.alone = q.alone
BY DEF IsVote

LEMMA Unwatched ==
  ASSUME NEW q, IsVote(q), NEW watched
  PROVE  LET p == [q EXCEPT !.watched = watched] IN
         /\ IsVote(p) /\ p.phase = q.phase /\ p.review = q.review /\ p.value = q.value
         /\ p.before = q.before /\ p.watched = watched /\ p.alone = q.alone
BY DEF IsVote

LEMMA ButtonDisplays ==
  ASSUME NEW b, IsButton(b), NEW count
  PROVE  LET p == [b EXCEPT !.shown = count] IN
         IsButton(p) /\ p.active = b.active /\ p.pending = b.pending
BY DEF IsButton

LEMMA ButtonReleased ==
  ASSUME NEW b, IsButton(b), NEW busy
  PROVE  LET p == [b EXCEPT !.pending = busy] IN
         IsButton(p) /\ p.active = b.active /\ p.pending = busy
BY DEF IsButton

\* New props change what a button displays and nothing else of it.
LEMMA PropsKeepVotes ==
  ASSUME NEW buttons, NEW props, Voter!TakeProps(buttons, props),
         \A r \in Reviews : IsButton(buttons[r])
  PROVE  /\ DOMAIN button' = Reviews
         /\ \A r \in Reviews : /\ IsButton(button'[r])
                               /\ button'[r].active = buttons[r].active
                               /\ button'[r].pending = buttons[r].pending
<1>1. /\ DOMAIN button' = Reviews
      /\ \A r \in Reviews : \/ button'[r] = buttons[r]
                            \/ \E s : button'[r] = [buttons[r] EXCEPT !.shown = s]
  BY DEF Voter!TakeProps
<1>2. ASSUME NEW r \in Reviews
      PROVE  /\ IsButton(button'[r])
             /\ button'[r].active = buttons[r].active /\ button'[r].pending = buttons[r].pending
  <2>1. CASE button'[r] = buttons[r]
    BY <2>1
  <2>2. CASE button'[r] # buttons[r]
    <3>1. PICK s : button'[r] = [buttons[r] EXCEPT !.shown = s]
      BY <1>1, <2>2
    <3> DEFINE b == buttons[r]
    <3>2. IsButton(b) /\ button'[r] = [b EXCEPT !.shown = s]
      BY <3>1
    <3> HIDE DEF b
    <3>3. IsButton(button'[r]) /\ button'[r].active = b.active /\ button'[r].pending = b.pending
      BY <3>2, ButtonDisplays
    <3> QED
      BY <3>3 DEF b
  <2> QED
    BY <2>1, <2>2
<1> QED
  BY <1>1, <1>2

\* Steps that leave the votes alone.
LEMMA VotesUntouched ==
  ASSUME VoterInv, UNCHANGED <<mine, late, mutations, clicks, sure, mounted>>,
         DOMAIN button' = Reviews,
         \A r \in Reviews : /\ IsButton(button'[r])
                            /\ button'[r].active = button[r].active
                            /\ button'[r].pending = button[r].pending
  PROVE  VoterInv'
<1> USE DEF VoterInv
<1>1. VoterTypes'
  BY DEF VoterTypes
<1>2. WatchedPresses'
  BY DEF WatchedPresses, Flying
<1>3. SureIsKept'
  BY DEF SureIsKept, Flying
<1>4. AloneStaysAlone'
  BY DEF AloneStaysAlone, Flying
<1> QED
  BY <1>1, <1>2, <1>3, <1>4

LEMMA ClickHolds ==
  ASSUME VoterInv, NEW m \in Voter!Slots, NEW r \in Reviews, NEW target \in Values,
         Voter!Click(m, r, target)
  PROVE  VoterInv'
<1> USE DEF VoterInv
<1> DEFINE prior == button[r]
           next == IF prior.active = target THEN Voter!None ELSE target
           pressed == [shown |-> [v \in Values |-> prior.shown[v] + Voter!Delta(prior.active, next)[v]],
                       active |-> next, pending |-> TRUE]
           alone == Voter!InFlight(r) = {} /\ \A q \in late : q.review # r
           new == [phase |-> "sent", review |-> r, value |-> next, before |-> prior,
                   snapshot |-> cached, watched |-> TRUE, alone |-> alone]
<1>1. /\ mounted /\ ~prior.pending /\ m = clicks + 1
      /\ button' = [button EXCEPT ![r] = pressed]
      /\ mutations' = [mutations EXCEPT ![m] = new]
      /\ clicks' = clicks + 1
      /\ UNCHANGED <<mine, late, mounted, sure>>
  BY DEF Voter!Click, Voter!server
<1>2. IsButton(prior) /\ IsButton(pressed) /\ pressed.active = next /\ pressed.pending = TRUE
  BY DEF VoterTypes, IsButton
<1>3. /\ IsVote(new) /\ new.phase = "sent" /\ new.review = r /\ new.value = next
      /\ new.before = prior /\ new.watched = TRUE /\ new.alone = alone
  BY DEF IsVote
<1>4. mutations[m] = Voter!Resting
  BY <1>1 DEF VoterTypes
<1>5. alone => (\A n \in Voter!Slots : ~Flying(n, r)) /\ \A q \in late : q.review # r
  BY DEF Voter!InFlight, Flying
<1> HIDE DEF pressed, new, next, alone
<1>6. /\ \A p \in Reviews : button'[p] = IF p = r THEN pressed ELSE button[p]
      /\ \A n \in Voter!Slots : mutations'[n] = IF n = m THEN new ELSE mutations[n]
      /\ DOMAIN button' = Reviews /\ DOMAIN mutations' = Voter!Slots
  BY <1>1 DEF VoterTypes
<1> HIDE DEF prior
<1>7. VoterTypes'
  BY <1>1, <1>2, <1>3, <1>6 DEF VoterTypes
<1>8. ~Flying(m, r) /\ \A p \in Reviews : ~Flying(m, p)
  BY <1>4 DEF Flying, Voter!Resting
<1>9. /\ \A n \in Voter!Slots, p \in Reviews : n # m => (Flying(n, p)' <=> Flying(n, p))
      /\ \A p \in Reviews : Flying(m, p)' <=> p = r
  BY <1>3, <1>6 DEF Flying
<1>10. \A n \in Voter!Slots : Flying(n, r) => ~mutations[n].watched
  BY <1>1 DEF WatchedPresses, prior
<1>11. WatchedPresses'
  BY <1>1, <1>2, <1>3, <1>6, <1>9, <1>10 DEF WatchedPresses
<1>12. sure[r] => mine[r] = prior.active /\ \A n \in Voter!Slots : ~Flying(n, r)
  BY <1>10 DEF SureIsKept, prior
<1>13. SureIsKept'
  <2> SUFFICES ASSUME NEW p \in Reviews, sure[p]
               PROVE  /\ mounted' /\ \A q \in late' : q.review # p
                      /\ (\A n \in Voter!Slots : ~Flying(n, p)') => mine'[p] = button'[p].active
                      /\ \A n \in Voter!Slots : Flying(n, p)' =>
                           /\ mutations'[n].watched
                           /\ Carried(mutations'[n]) => mine'[p] = mutations'[n].value
                           /\ ~Carried(mutations'[n]) => mine'[p] = mutations'[n].before.active
    BY <1>1 DEF SureIsKept
  <2>1. CASE p # r
    BY <1>1, <1>6, <1>8, <1>9, <2>1 DEF SureIsKept
  <2>2. CASE p = r
    <3>1. \A n \in Voter!Slots : Flying(n, p)' => n = m
      BY <1>9, <1>12, <2>2
    <3>2. Flying(m, p)' /\ mutations'[m] = new
      BY <1>6, <1>9, <2>2
    <3> QED
      BY <1>1, <1>3, <1>12, <2>2, <3>1, <3>2 DEF SureIsKept, Carried
  <2> QED
    BY <2>1, <2>2
<1>14. AloneStaysAlone'
  <2> SUFFICES ASSUME NEW n \in Voter!Slots, NEW p \in Reviews, Flying(n, p)',
                      mutations'[n].watched, mutations'[n].alone,
                      mutations'[n].phase \in {"sent", "stored", "ok"}
               PROVE  /\ \A q \in late' : q.review # p
                      /\ \A k \in Voter!Slots : Flying(k, p)' => k = n
                      /\ Carried(mutations'[n]) => mine'[p] = mutations'[n].value
    BY DEF AloneStaysAlone
  <2>1. CASE n = m
    <3>1. p = r /\ alone /\ mutations'[n].phase = "sent"
      BY <1>3, <1>6, <1>9, <2>1
    <3> QED
      BY <1>1, <1>5, <1>9, <2>1, <3>1 DEF Carried
  <2>2. CASE n # m
    <3>1. Flying(n, p) /\ mutations'[n] = mutations[n]
      BY <1>6, <1>9, <2>2
    <3>2. p # r
      BY <1>10, <3>1
    <3> QED
      BY <1>1, <1>9, <3>1, <3>2 DEF AloneStaysAlone
  <2> QED
    BY <2>1, <2>2
<1> QED
  BY <1>7, <1>11, <1>13, <1>14

\* An answer moves one vote's phase and leaves the buttons alone.
LEMMA PhaseTypes ==
  ASSUME VoterInv, NEW m \in Voter!Slots, mutations[m].phase # "resting",
         NEW phase \in {"stored", "ok", "error"},
         mutations' = [mutations EXCEPT ![m].phase = phase]
  PROVE  /\ DOMAIN mutations' = Voter!Slots
         /\ \A n \in Voter!Slots : n # m => mutations'[n] = mutations[n]
         /\ IsVote(mutations'[m]) /\ mutations'[m].phase = phase
         /\ mutations'[m].review = mutations[m].review /\ mutations'[m].value = mutations[m].value
         /\ mutations'[m].before = mutations[m].before
         /\ mutations'[m].watched = mutations[m].watched
         /\ mutations'[m].alone = mutations[m].alone
         /\ \A n \in Voter!Slots, p \in Reviews : Flying(n, p)' <=> Flying(n, p)
         /\ mutations[m] # Voter!Resting
<1> DEFINE q == mutations[m]
<1>1. q # Voter!Resting
  BY DEF Voter!Resting
<1>2. IsVote(q)
  BY <1>1 DEF VoterInv, VoterTypes
<1>3. /\ DOMAIN mutations' = Voter!Slots
      /\ \A n \in Voter!Slots : n # m => mutations'[n] = mutations[n]
      /\ mutations'[m] = [q EXCEPT !.phase = phase]
  BY DEF VoterInv, VoterTypes
<1> HIDE DEF q
<1>4. /\ IsVote(mutations'[m]) /\ mutations'[m].phase = phase
      /\ mutations'[m].review = q.review /\ mutations'[m].value = q.value
      /\ mutations'[m].before = q.before
      /\ mutations'[m].watched = q.watched /\ mutations'[m].alone = q.alone
  <2> DEFINE p == [q EXCEPT !.phase = phase]
  <2>1. /\ IsVote(p) /\ p.phase = phase /\ p.review = q.review /\ p.value = q.value
        /\ p.before = q.before /\ p.watched = q.watched /\ p.alone = q.alone
    BY <1>2 DEF IsVote
  <2>2. mutations'[m] = p
    BY <1>3
  <2> HIDE DEF p
  <2> QED
    BY <2>1, <2>2
<1>5. \A n \in Voter!Slots, p \in Reviews : Flying(n, p)' <=> Flying(n, p)
  BY <1>3, <1>4 DEF Flying, q
<1> QED
  BY <1>1, <1>3, <1>4, <1>5 DEF q

LEMMA AnswersHold ==
  ASSUME VoterInv, NEW m \in Voter!Slots,
         Voter!CommitVote(m) \/ Voter!RefuseVote(m) \/ Voter!LoseAnswer(m)
  PROVE  VoterInv'
<1> USE DEF VoterInv
<1> DEFINE q == mutations[m]
<1>1. /\ q.phase \in {"sent", "stored", "ok"} /\ UNCHANGED <<button, clicks, mounted>>
      /\ mutations' = [mutations EXCEPT ![m].phase = IF Voter!CommitVote(m) THEN "stored" ELSE "error"]
  BY DEF Voter!CommitVote, Voter!RefuseVote, Voter!LoseAnswer, Voter!screen, Voter!server
<1>2. PICK phase \in {"stored", "error"} :
        /\ mutations' = [mutations EXCEPT ![m].phase = phase]
        /\ phase = "stored" <=> Voter!CommitVote(m)
  BY <1>1
<1>3. /\ DOMAIN mutations' = Voter!Slots
      /\ \A n \in Voter!Slots : n # m => mutations'[n] = mutations[n]
      /\ IsVote(mutations'[m]) /\ mutations'[m].phase = phase
      /\ mutations'[m].review = mutations[m].review /\ mutations'[m].value = mutations[m].value
      /\ mutations'[m].before = mutations[m].before
      /\ mutations'[m].watched = mutations[m].watched
      /\ mutations'[m].alone = mutations[m].alone
      /\ \A n \in Voter!Slots, p \in Reviews : Flying(n, p)' <=> Flying(n, p)
      /\ mutations[m] # Voter!Resting
  BY <1>1, <1>2, PhaseTypes
<1>4. q.review \in Reviews /\ q.phase # "resting"
  BY <1>1, <1>3 DEF VoterTypes
<1>5. Flying(m, q.review)
  BY <1>4 DEF Flying
<1>6. WatchedPresses'
  BY <1>1, <1>3 DEF WatchedPresses
<1>7. \A n \in Voter!Slots, p \in Reviews :
        Flying(n, p) /\ Flying(m, p) => p = q.review /\ mutations[n].review = p
  BY DEF Flying
<1> HIDE DEF q
<1>8. CASE Voter!CommitVote(m)
  <2>1. /\ q.phase = "sent" /\ mine' = [mine EXCEPT ![q.review] = q.value]
        /\ UNCHANGED <<late, sure>> /\ phase = "stored"
    BY <1>2, <1>8 DEF Voter!CommitVote, q
  <2>2. mine'[q.review] = q.value /\ \A p \in Reviews : p # q.review => mine'[p] = mine[p]
    BY <1>4, <2>1 DEF VoterTypes
  <2>3. VoterTypes'
    BY <1>1, <1>3, <2>1 DEF VoterTypes
  <2>4. SureIsKept'
    <3> SUFFICES ASSUME NEW p \in Reviews, sure[p]
                 PROVE  /\ mounted' /\ \A l \in late' : l.review # p
                        /\ (\A n \in Voter!Slots : ~Flying(n, p)') => mine'[p] = button'[p].active
                        /\ \A n \in Voter!Slots : Flying(n, p)' =>
                             /\ mutations'[n].watched
                             /\ Carried(mutations'[n]) => mine'[p] = mutations'[n].value
                             /\ ~Carried(mutations'[n]) => mine'[p] = mutations'[n].before.active
      BY <2>1 DEF SureIsKept
    <3>1. CASE p # q.review
      <4>1. ~Flying(m, p)
        BY <3>1 DEF Flying, q
      <4> QED
        BY <1>1, <1>3, <2>1, <2>2, <3>1, <4>1 DEF SureIsKept
    <3>2. CASE p = q.review
      <4>1. \A n \in Voter!Slots : Flying(n, p) => n = m
        BY <1>5, <3>2 DEF SureIsKept, WatchedPresses
      <4> QED
        BY <1>1, <1>3, <1>5, <2>1, <2>2, <3>2, <4>1 DEF SureIsKept, q, Carried
    <3> QED
      BY <3>1, <3>2
  <2>5. AloneStaysAlone'
    <3> SUFFICES ASSUME NEW n \in Voter!Slots, NEW p \in Reviews, Flying(n, p)',
                        mutations'[n].watched, mutations'[n].alone,
                        mutations'[n].phase \in {"sent", "stored", "ok"}
                 PROVE  /\ \A l \in late' : l.review # p
                        /\ \A k \in Voter!Slots : Flying(k, p)' => k = n
                        /\ Carried(mutations'[n]) => mine'[p] = mutations'[n].value
      BY DEF AloneStaysAlone
    <3>1. /\ Flying(n, p) /\ mutations[n].watched /\ mutations[n].alone
          /\ mutations[n].phase \in {"sent", "stored", "ok"}
      BY <1>1, <1>3 DEF q
    <3>2. /\ \A l \in late : l.review # p
          /\ \A k \in Voter!Slots : Flying(k, p) => k = n
          /\ Carried(mutations[n]) => mine[p] = mutations[n].value
      BY <3>1 DEF AloneStaysAlone
    <3>3. CASE n = m
      <4>1. p = q.review
        BY <1>5, <3>1, <3>3 DEF Flying
      <4> QED
        BY <1>3, <2>1, <2>2, <3>2, <3>3, <4>1 DEF q
    <3>4. CASE n # m
      <4>1. p # q.review
        BY <1>5, <3>2, <3>4
      <4> QED
        BY <1>3, <2>1, <2>2, <3>2, <3>4, <4>1
    <3> QED
      BY <3>3, <3>4
  <2> QED
    BY <1>6, <2>3, <2>4, <2>5
<1>9. CASE ~Voter!CommitVote(m)
  <2>1. /\ mine' = mine /\ phase = "error"
        /\ \/ late' = late /\ sure' = sure /\ q.phase = "sent"
           \/ /\ sure' = [sure EXCEPT ![q.review] = FALSE]
              /\ \A l \in late' : l \in late \/ (l.review = q.review /\ IsLate(l))
    <3>1. CASE Voter!RefuseVote(m)
      BY <1>2, <1>9, <3>1 DEF Voter!RefuseVote, Voter!server, q
    <3>2. CASE Voter!LoseAnswer(m)
      <4> DEFINE rest == [review |-> q.review, value |-> q.value, done |-> q.phase = "stored"]
      <4>1. IsLate(rest) /\ rest.review = q.review
        BY DEF IsLate
      <4>2. mine' = mine /\ sure' = [sure EXCEPT ![q.review] = FALSE]
            /\ (late' = late \/ late' = late \cup {rest})
        BY <3>2 DEF Voter!LoseAnswer, q
      <4> HIDE DEF rest
      <4> QED
        BY <1>2, <1>9, <4>1, <4>2
    <3> QED
      BY <1>9, <3>1, <3>2
  <2>2. /\ DOMAIN sure' = Reviews
        /\ \A p \in Reviews : sure'[p] => sure[p] /\ (p = q.review => late' = late /\ q.phase = "sent")
    BY <1>4, <2>1 DEF VoterTypes
  <2>3. VoterTypes'
    BY <1>1, <1>3, <2>1, <2>2 DEF VoterTypes
  <2>4. SureIsKept'
    <3> SUFFICES ASSUME NEW p \in Reviews, sure'[p]
                 PROVE  /\ mounted' /\ \A l \in late' : l.review # p
                        /\ (\A n \in Voter!Slots : ~Flying(n, p)') => mine'[p] = button'[p].active
                        /\ \A n \in Voter!Slots : Flying(n, p)' =>
                             /\ mutations'[n].watched
                             /\ Carried(mutations'[n]) => mine'[p] = mutations'[n].value
                             /\ ~Carried(mutations'[n]) => mine'[p] = mutations'[n].before.active
      BY DEF SureIsKept
    <3>1. CASE p # q.review
      <4>1. ~Flying(m, p)
        BY <3>1 DEF Flying, q
      <4>2. \A l \in late' : l.review # p
        BY <2>1, <2>2, <3>1 DEF SureIsKept
      <4> QED
        BY <1>1, <1>3, <2>1, <2>2, <4>1, <4>2 DEF SureIsKept
    <3>2. CASE p = q.review
      BY <1>1, <1>3, <1>5, <2>1, <2>2, <3>2 DEF SureIsKept, q, Carried
    <3> QED
      BY <3>1, <3>2
  <2>5. AloneStaysAlone'
    <3> SUFFICES ASSUME NEW n \in Voter!Slots, NEW p \in Reviews, Flying(n, p)',
                        mutations'[n].watched, mutations'[n].alone,
                        mutations'[n].phase \in {"sent", "stored", "ok"}
                 PROVE  /\ \A l \in late' : l.review # p
                        /\ \A k \in Voter!Slots : Flying(k, p)' => k = n
                        /\ Carried(mutations'[n]) => mine'[p] = mutations'[n].value
      BY DEF AloneStaysAlone
    <3>1. n # m /\ mutations'[n] = mutations[n] /\ Flying(n, p)
      BY <1>3, <2>1
    <3>2. /\ \A l \in late : l.review # p
          /\ \A k \in Voter!Slots : Flying(k, p) => k = n
          /\ Carried(mutations[n]) => mine[p] = mutations[n].value
      BY <3>1 DEF AloneStaysAlone
    <3>3. p # q.review
      BY <1>5, <3>1, <3>2
    <3> QED
      BY <1>3, <2>1, <3>1, <3>2, <3>3
  <2> QED
    BY <1>6, <2>3, <2>4, <2>5
<1> QED
  BY <1>8, <1>9

LEMMA SweepHolds ==
  ASSUME VoterInv, NEW m \in Voter!Slots, Voter!Sweep(m)
  PROVE  VoterInv'
<1> USE DEF VoterInv
<1>1. /\ mutations[m].phase = "stored" /\ mutations' = [mutations EXCEPT ![m].phase = "ok"]
      /\ UNCHANGED <<mine, late, button, mounted, clicks, sure>>
  BY DEF Voter!Sweep, Voter!screen, Voter!server
<1>2. /\ DOMAIN mutations' = Voter!Slots
      /\ \A n \in Voter!Slots : n # m => mutations'[n] = mutations[n]
      /\ IsVote(mutations'[m]) /\ mutations'[m].phase = "ok"
      /\ mutations'[m].review = mutations[m].review /\ mutations'[m].value = mutations[m].value
      /\ mutations'[m].before = mutations[m].before
      /\ mutations'[m].watched = mutations[m].watched
      /\ mutations'[m].alone = mutations[m].alone
      /\ \A n \in Voter!Slots, p \in Reviews : Flying(n, p)' <=> Flying(n, p)
      /\ mutations[m] # Voter!Resting
  BY <1>1, PhaseTypes
<1>3. Carried(mutations[m]) /\ Carried(mutations'[m])
  BY <1>1, <1>2 DEF Carried
<1>4. VoterTypes'
  BY <1>1, <1>2 DEF VoterTypes
<1>5. WatchedPresses'
  BY <1>1, <1>2 DEF WatchedPresses
<1>6. SureIsKept'
  BY <1>1, <1>2, <1>3 DEF SureIsKept
<1>7. AloneStaysAlone'
  BY <1>1, <1>2, <1>3 DEF AloneStaysAlone
<1> QED
  BY <1>4, <1>5, <1>6, <1>7

LEMMA LateDone ==
  ASSUME NEW q, IsLate(q), NEW done
  PROVE  LET p == [q EXCEPT !.done = done] IN IsLate(p) /\ p.review = q.review
BY DEF IsLate

LEMMA CommitLateHolds ==
  ASSUME VoterInv, NEW q \in late, Voter!CommitLate(q)
  PROVE  VoterInv'
<1> USE DEF VoterInv
<1> DEFINE r == q.review
           settled == [q EXCEPT !.done = TRUE]
<1>1. /\ mine' = [mine EXCEPT ![r] = q.value]
      /\ late' = (late \ {q}) \cup {settled}
      /\ UNCHANGED <<button, mounted, mutations, clicks, sure>>
  BY DEF Voter!CommitLate, Voter!screen
<1>2. IsLate(q)
  BY DEF VoterTypes
<1>3. IsLate(settled) /\ settled.review = r
  BY <1>2, LateDone
<1> HIDE DEF settled
<1>4. VoterTypes'
  BY <1>1, <1>3 DEF VoterTypes
<1>5. DOMAIN mine = Reviews /\ \A p \in Reviews : p # r => mine'[p] = mine[p]
  BY <1>1 DEF VoterTypes
<1>6. \A p \in Reviews : (\A l \in late : l.review # p) => p # r /\ \A l \in late' : l.review # p
  BY <1>1, <1>3
<1>7. WatchedPresses'
  BY <1>1 DEF WatchedPresses, Flying
<1>8. SureIsKept'
  <2> SUFFICES ASSUME NEW p \in Reviews, sure[p]
               PROVE  /\ mounted /\ \A l \in late' : l.review # p
                      /\ (\A n \in Voter!Slots : ~Flying(n, p)) => mine'[p] = button[p].active
                      /\ \A n \in Voter!Slots : Flying(n, p) =>
                           /\ mutations[n].watched
                           /\ Carried(mutations[n]) => mine'[p] = mutations[n].value
                           /\ ~Carried(mutations[n]) => mine'[p] = mutations[n].before.active
    BY <1>1 DEF SureIsKept, Flying
  <2> QED
    BY <1>5, <1>6 DEF SureIsKept
<1>9. AloneStaysAlone'
  BY <1>1, <1>5, <1>6 DEF AloneStaysAlone, Flying
<1> QED
  BY <1>4, <1>7, <1>8, <1>9

LEMMA AnswersSettle ==
  ASSUME VoterInv, NEW m \in Voter!Slots, Voter!Settle(m)
  PROVE  VoterInv'
<1> USE DEF VoterInv
<1> DEFINE q == mutations[m]
           r == q.review
           denied == q.phase = "error"
           props == IF denied THEN q.snapshot ELSE cached
           released == [button[r] EXCEPT !.pending = FALSE]
           rolledBack == IF denied THEN q.before ELSE released
           buttons == IF q.watched THEN [button EXCEPT ![r] = rolledBack] ELSE button
<1>1. /\ q.phase \in {"ok", "error"}
      /\ mutations' = [mutations EXCEPT ![m] = Voter!Resting]
      /\ Voter!TakeProps(buttons, props)
      /\ sure' = IF q.watched /\ ~denied THEN [sure EXCEPT ![r] = q.alone] ELSE sure
      /\ UNCHANGED <<mine, late, mounted, clicks>>
  BY DEF Voter!Settle, Voter!server
<1>2. q # Voter!Resting
  BY <1>1 DEF Voter!Resting
<1>3. r \in Reviews /\ IsButton(q.before) /\ IsButton(button[r])
  BY <1>2 DEF VoterTypes
<1>4. IsButton(released) /\ released.active = button[r].active
  <2> DEFINE b == button[r]
  <2>1. IsButton(b) /\ released = [b EXCEPT !.pending = FALSE]
    BY <1>3
  <2> HIDE DEF b, released
  <2>2. IsButton(released) /\ released.active = b.active
    BY <2>1, ButtonReleased
  <2> QED
    BY <2>2 DEF b
<1>5. /\ DOMAIN mutations' = Voter!Slots /\ mutations'[m] = Voter!Resting
      /\ \A n \in Voter!Slots : n # m => mutations'[n] = mutations[n]
  BY <1>1 DEF VoterTypes
<1>6. \A n \in Voter!Slots, p \in Reviews : Flying(n, p)' <=> n # m /\ Flying(n, p)
  BY <1>5 DEF Flying, Voter!Resting
<1>7. Flying(m, r)
  BY <1>1 DEF Flying
<1> HIDE DEF props, released
<1>8. /\ \A p \in Reviews : IsButton(buttons[p])
      /\ \A p \in Reviews : p # r \/ ~q.watched => buttons[p] = button[p]
      /\ q.watched => buttons[r].active = IF denied THEN q.before.active ELSE button[r].active
  BY <1>3, <1>4 DEF VoterTypes
<1> HIDE DEF buttons
<1>9. /\ DOMAIN button' = Reviews
      /\ \A p \in Reviews : /\ IsButton(button'[p])
                            /\ button'[p].active = buttons[p].active
                            /\ button'[p].pending = buttons[p].pending
  BY <1>1, <1>8, PropsKeepVotes
<1>10. DOMAIN sure' = Reviews /\ \A p \in Reviews : sure'[p] =>
         (p = r /\ q.watched /\ ~denied /\ q.alone) \/ (sure[p] /\ (p = r => ~q.watched \/ denied))
  BY <1>1, <1>3 DEF VoterTypes
<1>11. q.watched => /\ mounted /\ button[r].active = q.value
                    /\ \A n \in Voter!Slots : Flying(n, r) /\ mutations[n].watched => n = m
  BY <1>3, <1>7 DEF WatchedPresses
<1>12. VoterTypes'
  BY <1>1, <1>5, <1>9, <1>10 DEF VoterTypes
<1>13. WatchedPresses'
  <2> SUFFICES ASSUME NEW n \in Voter!Slots, NEW p \in Reviews, Flying(n, p)', mutations'[n].watched
               PROVE  /\ mounted' /\ button'[p].pending /\ button'[p].active = mutations'[n].value
                      /\ \A k \in Voter!Slots : Flying(k, p)' /\ mutations'[k].watched => k = n
    BY DEF WatchedPresses
  <2>1. n # m /\ Flying(n, p) /\ mutations'[n] = mutations[n]
    BY <1>5, <1>6
  <2>2. p # r \/ ~q.watched
    BY <1>11, <2>1
  <2>3. button'[p].pending = button[p].pending /\ button'[p].active = button[p].active
    BY <1>8, <1>9, <2>2
  <2>4. /\ mounted /\ button[p].pending /\ button[p].active = mutations[n].value
        /\ \A k \in Voter!Slots : Flying(k, p) /\ mutations[k].watched => k = n
    BY <2>1 DEF WatchedPresses
  <2> QED
    BY <1>1, <1>5, <1>6, <2>1, <2>3, <2>4
<1>14. SureIsKept'
  <2> SUFFICES ASSUME NEW p \in Reviews, sure'[p]
               PROVE  /\ mounted' /\ \A l \in late' : l.review # p
                      /\ (\A n \in Voter!Slots : ~Flying(n, p)') => mine'[p] = button'[p].active
                      /\ \A n \in Voter!Slots : Flying(n, p)' =>
                           /\ mutations'[n].watched
                           /\ Carried(mutations'[n]) => mine'[p] = mutations'[n].value
                           /\ ~Carried(mutations'[n]) => mine'[p] = mutations'[n].before.active
    BY DEF SureIsKept
  <2>1. CASE p # r
    <3>1. sure[p] /\ button'[p].active = button[p].active
      BY <1>8, <1>9, <1>10, <2>1
    <3>2. ~Flying(m, p)
      BY <2>1 DEF Flying
    <3>3. /\ mounted /\ \A l \in late : l.review # p
          /\ (\A n \in Voter!Slots : ~Flying(n, p)) => mine[p] = button[p].active
          /\ \A n \in Voter!Slots : Flying(n, p) =>
               /\ mutations[n].watched
               /\ Carried(mutations[n]) => mine[p] = mutations[n].value
               /\ ~Carried(mutations[n]) => mine[p] = mutations[n].before.active
      BY <3>1 DEF SureIsKept
    <3> QED
      BY <1>1, <1>5, <1>6, <3>1, <3>2, <3>3
  <2>2. CASE p = r /\ q.watched /\ ~denied /\ q.alone
    <3>1. /\ \A l \in late : l.review # r
          /\ \A n \in Voter!Slots : Flying(n, r) => n = m
          /\ mine[r] = q.value
      BY <1>1, <1>3, <1>7, <2>2 DEF AloneStaysAlone, Carried
    <3> QED
      BY <1>1, <1>6, <1>8, <1>9, <1>11, <2>2, <3>1
  <2>3. CASE p = r /\ sure[r] /\ (~q.watched \/ denied)
    <3>1. /\ mounted /\ \A l \in late : l.review # r
          /\ \A n \in Voter!Slots : Flying(n, r) => mutations[n].watched
          /\ q.watched /\ (~Carried(q) => mine[r] = q.before.active)
      BY <1>3, <1>7, <2>3 DEF SureIsKept
    <3>2. denied /\ \A n \in Voter!Slots : Flying(n, r) => n = m
      BY <1>11, <2>3, <3>1
    <3> QED
      BY <1>1, <1>3, <1>6, <1>8, <1>9, <2>3, <3>1, <3>2 DEF Carried
  <2> QED
    BY <1>10, <2>1, <2>2, <2>3
<1>15. AloneStaysAlone'
  BY <1>1, <1>5, <1>6 DEF AloneStaysAlone
<1> QED
  BY <1>12, <1>13, <1>14, <1>15

LEMMA ListsKeepVotes ==
  ASSUME VoterInv, Voter!FetchArrives \/ Voter!Unmount
  PROVE  VoterInv'
<1> USE DEF VoterInv
<1>1. CASE Voter!FetchArrives /\ mounted
  <2>1. /\ Voter!TakeProps(button, fetch.page.counts)
        /\ UNCHANGED <<mine, late, mutations, clicks, sure, mounted>>
    BY <1>1 DEF Voter!FetchArrives, Voter!server
  <2> DEFINE buttons == button
             props == fetch.page.counts
  <2>2. Voter!TakeProps(buttons, props) /\ \A r \in Reviews : IsButton(buttons[r])
    BY <2>1 DEF VoterTypes
  <2> HIDE DEF buttons, props
  <2>3. /\ DOMAIN button' = Reviews
        /\ \A r \in Reviews : /\ IsButton(button'[r])
                              /\ button'[r].active = buttons[r].active
                              /\ button'[r].pending = buttons[r].pending
    BY <2>2, PropsKeepVotes
  <2> QED
    BY <2>1, <2>3, VotesUntouched DEF buttons
<1>2. CASE Voter!FetchArrives /\ ~mounted
  <2>1. /\ button' = [r \in Reviews |-> Voter!Fresh(fetch.page.counts[r])]
        /\ UNCHANGED <<mine, late, mutations, clicks, sure>>
    BY <1>2 DEF Voter!FetchArrives, Voter!server
  <2>2. \A r \in Reviews : IsButton(button'[r])
    BY <2>1 DEF Voter!Fresh, IsButton
  <2>3. /\ \A r \in Reviews : ~sure[r]
        /\ \A m \in Voter!Slots, r \in Reviews : ~(Flying(m, r) /\ mutations[m].watched)
    BY <1>2 DEF SureIsKept, WatchedPresses
  <2>4. \A m \in Voter!Slots, r \in Reviews : Flying(m, r)' <=> Flying(m, r)
    BY <2>1 DEF Flying
  <2>5. VoterTypes'
    BY <2>1, <2>2 DEF VoterTypes
  <2>6. WatchedPresses' /\ SureIsKept' /\ AloneStaysAlone'
    BY <2>1, <2>3, <2>4 DEF WatchedPresses, SureIsKept, AloneStaysAlone
  <2> QED
    BY <2>5, <2>6
<1>3. CASE Voter!Unmount
  <2>1. /\ mutations' = [m \in Voter!Slots |-> IF mutations[m] = Voter!Resting THEN Voter!Resting
                                               ELSE [mutations[m] EXCEPT !.watched = FALSE]]
        /\ sure' = [r \in Reviews |-> FALSE]
        /\ button' = [r \in Reviews |-> Voter!Fresh(cached[r])]
        /\ UNCHANGED <<mine, late, clicks>>
    BY <1>3 DEF Voter!Unmount, Voter!server
  <2>2. \A r \in Reviews : IsButton(button'[r]) /\ ~sure'[r]
    BY <2>1 DEF Voter!Fresh, IsButton
  <2>3. ASSUME NEW m \in Voter!Slots
        PROVE  \/ mutations[m] = Voter!Resting /\ mutations'[m] = Voter!Resting
               \/ /\ IsVote(mutations'[m]) /\ mutations[m] # Voter!Resting
                  /\ mutations'[m].phase = mutations[m].phase
                  /\ mutations'[m].review = mutations[m].review
                  /\ mutations'[m].before = mutations[m].before
                  /\ mutations'[m].watched = FALSE
    <3> DEFINE q == mutations[m]
               left == [q EXCEPT !.watched = FALSE]
    <3>1. CASE q = Voter!Resting
      BY <2>1, <3>1
    <3>2. CASE q # Voter!Resting
      <4>1. IsVote(q) /\ mutations'[m] = left
        BY <2>1, <3>2 DEF VoterTypes
      <4> HIDE DEF q
      <4>2. /\ IsVote(left) /\ left.phase = q.phase /\ left.review = q.review
            /\ left.before = q.before /\ left.watched = FALSE
        BY <4>1 DEF IsVote
      <4> HIDE DEF left
      <4> QED
        BY <3>2, <4>1, <4>2 DEF q
    <3> QED
      BY <3>1, <3>2
  <2>4. VoterTypes'
    BY <2>1, <2>2, <2>3 DEF VoterTypes
  <2>5. \A m \in Voter!Slots, r \in Reviews : ~(Flying(m, r)' /\ mutations'[m].watched)
    <3> SUFFICES ASSUME NEW m \in Voter!Slots, NEW r \in Reviews, Flying(m, r)'
                 PROVE  mutations'[m].watched = FALSE
      OBVIOUS
    <3>1. mutations'[m].phase # "resting"
      BY DEF Flying
    <3>2. mutations'[m] # Voter!Resting
      BY <3>1 DEF Voter!Resting
    <3> QED
      BY <2>3, <3>2
  <2>6. WatchedPresses' /\ SureIsKept' /\ AloneStaysAlone'
    BY <2>2, <2>5 DEF WatchedPresses, SureIsKept, AloneStaysAlone
  <2> QED
    BY <2>4, <2>6
<1> QED
  BY <1>1, <1>2, <1>3

LEMMA VoterHolds == VoterInv /\ [Next]_vars => VoterInv'
<1> SUFFICES ASSUME VoterInv, [Next]_vars PROVE VoterInv'
  OBVIOUS
<1>1. CASE UNCHANGED voterVars
  BY <1>1 DEF voterVars, VoterInv, VoterTypes, WatchedPresses, SureIsKept, AloneStaysAlone, Flying
<1>2. CASE \/ Voter!Refocus \/ Voter!FetchHits \/ Voter!FetchMisses \/ Voter!ReaderSelects
           \/ \E p \in filling : Voter!ReaderStores(p)
           \/ \E r \in Reviews, v \in Values : Voter!OtherVotes(r, v)
  <2>1. UNCHANGED <<mine, late, mutations, clicks, sure, mounted, button>>
    BY <1>2 DEF Voter!Refocus, Voter!FetchHits, Voter!FetchMisses, Voter!ReaderSelects, Voter!ReaderStores,
      Voter!OtherVotes, Voter!server, Voter!screen
  <2>2. DOMAIN button = Reviews /\ \A r \in Reviews : IsButton(button[r])
    BY DEF VoterInv, VoterTypes
  <2> QED
    BY <2>1, <2>2, VotesUntouched
<1>3. CASE Voter!Next
  BY <1>2, <1>3, ClickHolds, AnswersHold, SweepHolds, CommitLateHolds, AnswersSettle, ListsKeepVotes
  DEF Voter!Next
<1> QED
  BY <1>1, <1>3 DEF Next, VoterStep, AuthorStep, DeskStep, SessionStep, vars

\* VoteAgrees: once a click was confirmed, and with none of this user's votes
\* on the review under way or abandoned, the pressed button is the vote the
\* database keeps, for any number of clicks, refusals, lost answers, refetches
\* and lists loaded anew (handleClick of vote-buttons.tsx, use-vote.ts).
THEOREM PressedIsTheVote == Spec => []VoteAgrees
<1>1. Init => VoterInv
  BY VoterStarts
<1>2. VoterInv /\ [Next]_vars => VoterInv'
  BY VoterHolds
<1>3. VoterInv => VoteAgrees
  <2> SUFFICES ASSUME VoterInv, NEW r \in Reviews, mounted, sure[r], Voter!InFlight(r) = {}
               PROVE  mine[r] = button[r].active
    BY DEF VoteAgrees, Voter!VoteAgrees
  <2>1. \A m \in Voter!Slots : ~Flying(m, r)
    BY DEF Voter!InFlight, Flying
  <2> QED
    BY <2>1 DEF VoterInv, SureIsKept
<1> QED
  BY <1>1, <1>2, <1>3, PTL DEF Spec
-----------------------------------------------------------------------------
(* What the author has typed. *)

\* Something typed is in a form that is on the screen.
DraftInv ==
  /\ form \in [typed : BOOLEAN, busy : BOOLEAN] /\ editing \in BOOLEAN
  /\ form.typed => Author!FormKey(shown, broken, editing) # <<>>

\* An answer on its way is numbered: a view it brings is a form or a panel.
PollNumbered == poll.at = "read" => poll.data.at \in Nat

\* What DraftSurvives says of a step.
DraftKept ==
  form.typed /\ ~form'.typed /\ ~broken' /\ shown'.review.id = shown.review.id
    /\ shown'.review.text = shown.review.text => editing /\ ~editing' /\ shown' = shown

\* A form that loses its draft in a render is another form, and so another
\* review or another text, unless the render ends the edit and brings no data.
LEMMA RenderKeepsDraft ==
  ASSUME AuthorInv, DraftInv,
         NEW data \in Data, data.at = shown.at \/ data.at \in Nat,
         data.review # Author!NoReview => data.review.id > 0,
         NEW broke, NEW edits \in BOOLEAN, NEW dlg, NEW frm, NEW cls,
         form.typed /\ edits # editing => ~edits /\ data = shown,
         frm \in [typed : BOOLEAN, busy : BOOLEAN], frm.typed = form.typed,
         Author!Render(data, broke, edits, dlg, frm, cls)
  PROVE  DraftInv' /\ DraftKept
<1> DEFINE stays == Author!View(shown, broken) = "panel" /\ Author!View(data, broke) = "panel"
           same == Author!FormKey(data, broke, edits /\ stays) = Author!FormKey(shown, broken, editing)
<1>1. /\ shown' = data /\ broken' = broke /\ editing' = (edits /\ stays)
      /\ form' = IF same THEN frm ELSE Author!BlankForm
  BY DEF Author!Render
<1>2. Author!BlankForm \in [typed : BOOLEAN, busy : BOOLEAN] /\ Author!BlankForm.typed = FALSE
  BY DEF Author!BlankForm
<1>3. editing' \in BOOLEAN /\ form' \in [typed : BOOLEAN, busy : BOOLEAN]
  BY <1>1, <1>2
<1>4. form'.typed => form.typed /\ same
  BY <1>1, <1>2
<1>5. form'.typed => Author!FormKey(shown', broken', editing') # <<>>
  BY <1>1, <1>4 DEF DraftInv
<1>6. DraftKept
  <2> SUFFICES ASSUME form.typed, ~same, ~broke, data.review.id = shown.review.id,
                      data.review.text = shown.review.text
               PROVE  editing /\ ~(edits /\ stays) /\ data = shown
    BY <1>1 DEF DraftKept
  <2>1. /\ ~broken /\ ~(shown.at < 0) /\ Author!View(shown, broken) \in {"form", "panel"}
        /\ Author!View(shown, broken) = "panel" => editing
    BY DEF DraftInv, Author!FormKey, Author!View
  <2>2. data.review = Author!NoReview <=> shown.review = Author!NoReview
    <3>1. shown.review # Author!NoReview => shown.review.id > 0
      BY DEF AuthorInv, Alive
    <3> QED
      BY <3>1 DEF Author!NoReview
  <2>3. ~(data.at < 0)
    BY <2>1
  <2>4. Author!View(data, broke) = Author!View(shown, broken)
    BY <2>1, <2>2, <2>3 DEF Author!View
  <2>5. Author!View(shown, broken) # "form"
    BY <2>4 DEF Author!FormKey
  <2>6. editing /\ stays
    BY <2>1, <2>4, <2>5
  <2>7. ~edits
    BY <2>6 DEF Author!FormKey
  <2> QED
    BY <2>6, <2>7
<1> QED
  BY <1>3, <1>5, <1>6 DEF DraftInv

LEMMA PollStaysNumbered == AuthorInv /\ PollNumbered /\ [Next]_vars => PollNumbered'
<1> SUFFICES ASSUME AuthorInv, PollNumbered, [Next]_vars PROVE PollNumbered'
  OBVIOUS
<1>1. poll' = poll \/ poll'.at # "read" => PollNumbered'
  BY DEF PollNumbered
<1>2. CASE UNCHANGED authorVars
  BY <1>1, <1>2 DEF authorVars
<1>3. CASE Author!PollReads
  <2>1. poll'.data.at = seq /\ seq \in Nat
    BY <1>3 DEF Author!PollReads, AuthorInv
  <2> QED
    BY <2>1 DEF PollNumbered
<1>4. \A k \in Author!Calls : Author!Settle(k) => PollNumbered'
  BY <1>1 DEF Author!Settle, Author!Told, Author!AskedPoll
<1>5. \A k \in Author!Calls : \/ Author!SendForm(k) \/ Author!SendDelete(k) \/ Author!Carry(k)
                             \/ Author!Refuse(k) \/ Author!Abandon(k) => PollNumbered'
  BY <1>1 DEF Author!SendForm, Author!SendDelete, Author!Carry, Author!Refuse, Author!Abandon
<1>6. CASE Author!Type \/ Author!OpenEdit \/ Author!CancelEdit \/ Author!OpenDialog \/ Author!CloseDialog
  BY <1>1, <1>6 DEF Author!Type, Author!OpenEdit, Author!CancelEdit, Author!OpenDialog,
    Author!CloseDialog
<1>7. CASE Author!Poll \/ Author!Refocused \/ Author!PollArrives \/ Author!PollFails
  <2>1. poll' \in {Author!AskedPoll, Author!NoPoll}
    BY <1>7 DEF Author!Poll, Author!Refocused, Author!PollArrives, Author!PollFails
  <2> QED
    BY <1>1, <2>1 DEF Author!AskedPoll, Author!NoPoll
<1>8. CASE \/ \E verdict \in Author!Statuses : Author!Judged(verdict)
           \/ \E kind \in {"submit", "update", "delete"} : Author!OtherTab(kind)
           \/ \E c \in adrift : Author!CarryLate(c)
  BY <1>1, <1>8 DEF Author!Judged, Author!OtherTab, Author!CarryLate
<1>9. CASE Author!Next
  BY <1>3, <1>4, <1>5, <1>6, <1>7, <1>8, <1>9 DEF Author!Next
<1> QED
  BY <1>2, <1>9 DEF Next, VoterStep, AuthorStep, DeskStep, SessionStep, vars

LEMMA DraftStep ==
  AuthorInv /\ DraftInv /\ PollNumbered /\ [Next]_vars => DraftInv' /\ [DraftKept]_(Author!vars)
<1> SUFFICES ASSUME AuthorInv, DraftInv, PollNumbered, [Next]_vars PROVE DraftInv' /\ DraftKept
  OBVIOUS
<1> DEFINE Forms == [typed : BOOLEAN, busy : BOOLEAN]
<1>1. form \in Forms /\ editing \in BOOLEAN
  BY DEF DraftInv
<1>2. UNCHANGED <<shown, broken, editing, form>> => DraftInv' /\ DraftKept
  BY DEF DraftInv, DraftKept
<1>3. CASE UNCHANGED authorVars
  BY <1>2, <1>3 DEF authorVars
<1>4. CASE Author!Type
  BY <1>1, <1>4 DEF Author!Type, DraftInv, DraftKept
<1>5. CASE Author!OpenEdit \/ Author!CancelEdit \/ Author!PollArrives \/ Author!PollFails
  <2>1. /\ shown \in Data /\ (shown.review # Author!NoReview => shown.review.id > 0)
        /\ poll.at = "read" => /\ poll.data \in Data /\ poll.data.at \in Nat
                               /\ poll.data.review # Author!NoReview => poll.data.review.id > 0
    BY DEF AuthorInv, Alive, Pollable, PollNumbered
  <2>2. CASE Author!OpenEdit
    <3>1. ~form.typed /\ Author!Render(shown, broken, TRUE, dialog, form, calls)
      BY <2>2 DEF Author!OpenEdit, DraftInv, Author!FormKey
    <3> QED
      BY <1>1, <2>1, <3>1, RenderKeepsDraft
  <2>3. CASE Author!CancelEdit
    BY <1>1, <2>1, <2>3, RenderKeepsDraft DEF Author!CancelEdit
  <2>4. CASE Author!PollArrives
    BY <1>1, <2>1, <2>4, RenderKeepsDraft DEF Author!PollArrives
  <2>5. CASE Author!PollFails
    BY <1>1, <2>1, <2>5, RenderKeepsDraft DEF Author!PollFails
  <2> QED
    BY <1>5, <2>2, <2>3, <2>4, <2>5
<1>6. ASSUME NEW k \in Author!Calls, Author!SendForm(k) PROVE DraftInv' /\ DraftKept
  BY <1>1, <1>6 DEF Author!SendForm, DraftInv, DraftKept
<1>7. ASSUME NEW k \in Author!Calls, Author!Settle(k) PROVE DraftInv' /\ DraftKept
  <2> DEFINE c == calls[k]
             deleted == c.kind = "delete" /\ Author!Invalidates(c.kind, c.phase)
             data == IF deleted THEN [review |-> Author!NoReview, at |-> shown.at] ELSE shown
             edits == editing /\ ~(c.kind = "update" /\ c.phase = "ok" /\ c.watched # "none")
             frm == IF c.watched = "form" THEN [form EXCEPT !.busy = FALSE] ELSE form
  <2>1. PICK broke, dlg, cls : Author!Render(data, broke, edits, dlg, frm, cls)
    BY <1>7 DEF Author!Settle, Author!Told
  <2>2. edits \in BOOLEAN /\ frm \in Forms /\ frm.typed = form.typed
    BY <1>1
  <2>3. edits # editing => ~edits /\ data = shown
    BY <1>1
  <2>4. data \in Data /\ data.at = shown.at
        /\ (data.review # Author!NoReview => data.review.id > 0)
    <3>1. shown \in Data /\ (shown.review # Author!NoReview => shown.review.id > 0)
      BY DEF AuthorInv, Alive
    <3>2. Author!NoReview \in Review
      BY DEF Author!NoReview, Review, Author!Statuses
    <3> QED
      BY <3>1, <3>2 DEF Data
  <2> HIDE DEF data, edits, frm
  <2> QED
    BY <2>1, <2>2, <2>3, <2>4, RenderKeepsDraft
<1>8. CASE Author!OpenDialog \/ Author!CloseDialog \/ Author!Poll \/ Author!Refocused \/ Author!PollReads
  BY <1>2, <1>8 DEF Author!OpenDialog, Author!CloseDialog, Author!Poll, Author!Refocused,
    Author!PollReads, Author!section
<1>9. \A k \in Author!Calls : Author!SendDelete(k) \/ Author!Carry(k) \/ Author!Refuse(k)
        \/ Author!Abandon(k) => DraftInv' /\ DraftKept
  BY <1>2 DEF Author!SendDelete, Author!Carry, Author!Refuse, Author!Abandon
<1>10. (\E verdict \in Author!Statuses : Author!Judged(verdict))
        \/ (\E kind \in {"submit", "update", "delete"} : Author!OtherTab(kind))
        \/ (\E c \in adrift : Author!CarryLate(c))
        => DraftInv' /\ DraftKept
  BY <1>2 DEF Author!Judged, Author!OtherTab, Author!CarryLate, Author!section
<1>11. CASE Author!Next
  BY <1>4, <1>5, <1>6, <1>7, <1>8, <1>9, <1>10, <1>11 DEF Author!Next
<1> QED
  BY <1>3, <1>11 DEF Next, VoterStep, AuthorStep, DeskStep, SessionStep, vars

\* DraftSurvives: no answer and no poll drops what the author has typed, into
\* the form of a new review or of an edit, as long as the review and its text
\* stay what they are: it goes with the edit the author cancelled or saved, or
\* with a query in error (the key of the form in your-review-section.tsx, the
\* sections of write-review-section.tsx).
THEOREM TypedIsKept == Spec => DraftSurvives
<1>1. Init => AuthorInv /\ DraftInv /\ PollNumbered
  <2> SUFFICES ASSUME Init PROVE DraftInv /\ PollNumbered
    BY AuthorStarts
  <2>1. Author!Init
    BY DEF Init
  <2> QED
    BY <2>1 DEF Author!Init, Author!BlankForm, Author!AskedPoll, DraftInv, PollNumbered
<1>2. AuthorInv /\ DraftInv /\ PollNumbered /\ [Next]_vars
        => (AuthorInv /\ DraftInv /\ PollNumbered)' /\ [DraftKept]_(Author!vars)
  BY AuthorHolds, DraftStep, PollStaysNumbered
<1> QED
  BY <1>1, <1>2, PTL DEF Spec, DraftSurvives, Author!DraftSurvives, DraftKept

-----------------------------------------------------------------------------
(* The counts on the page. *)

Count == [own : [Values -> Int], others : [Values -> Int]]
Page == [counts : [Reviews -> Count], old : BOOLEAN]

CountTypes ==
  /\ cached \in [Reviews -> Count] /\ others \in [Reviews -> [Values -> Int]]
  /\ redis \subseteq Page /\ filling \subseteq Page
  /\ fetch.at = "read" => fetch.page \in Page
  /\ fetch.at \in {"none", "asked", "read"}
  /\ \A r \in Reviews : button[r].shown \in [Values -> Int]
  /\ \A m \in Voter!Slots : mutations[m].phase # "resting" =>
       /\ mutations[m].snapshot \in [Reviews -> Count]
       /\ mutations[m].before.shown \in [Values -> Int]

Calm == late = {} /\ \A m \in Voter!Slots : mutations[m].phase = "resting"

\* Nothing that is in the database waits for its sweep.
Swept == late = {} /\ \A m \in Voter!Slots : mutations[m].phase # "stored"

\* A page counts the votes of the database, or a sweep did not catch it.
Sound(p) == p.old \/ \A r \in Reviews : p.counts[r].own = Voter!OwnOf(mine[r])

\* Between a commit and its sweep Redis may hold the page of before; after it
\* such a page, kept or on its way, is an old one.
PagesAreSound == Swept => \A p \in redis \cup filling : Sound(p)

\* With nothing on its way, what a fetch has read or left in the cache counts
\* the votes of the database, or comes from an old page.
OwnsAreTrue ==
  Calm => /\ fetch.at = "read" => Sound(fetch.page)
          /\ fetch.at = "none" =>
               outlived \/ \A r \in Reviews : cached[r].own = Voter!OwnOf(mine[r])

\* A button shows its props, or missed a change of them; what a refused click
\* rolls the button back to was the sum of what it rolls the cache back to.
ButtonsShowProps ==
  /\ mounted => \A r \in Reviews : missed[r] \/ button[r].shown = Voter!Sum(cached[r])
  /\ \A m \in Voter!Slots, r \in Reviews : Flying(m, r) /\ mutations[m].watched =>
       missed[r] \/ mutations[m].before.shown = Voter!Sum(mutations[m].snapshot[r])

RestInv == CountTypes /\ PagesAreSound /\ OwnsAreTrue /\ ButtonsShowProps

LEMMA CountsTyped ==
  ASSUME others \in [Reviews -> [Values -> Int]]
  PROVE  /\ Voter!Counted \in [Reviews -> Count]
         /\ \A r \in Reviews : Voter!Counted[r].own = Voter!OwnOf(mine[r])
         /\ \A vote : Voter!OwnOf(vote) \in [Values -> Int]
         /\ \A c \in Count : Voter!Sum(c) \in [Values -> Int]
         /\ Voter!PageNow \in Page /\ Sound(Voter!PageNow)
<1>1. /\ Voter!Counted \in [Reviews -> Count]
      /\ \A r \in Reviews : Voter!Counted[r].own = Voter!OwnOf(mine[r])
      /\ \A vote : Voter!OwnOf(vote) \in [Values -> Int]
      /\ \A c \in Count : Voter!Sum(c) \in [Values -> Int]
  BY DEF Voter!Counted, Voter!OwnOf, Voter!Sum, Count
<1>2. Voter!PageNow.counts = Voter!Counted /\ Voter!PageNow.old = FALSE
      /\ Voter!PageNow = [counts |-> Voter!Counted, old |-> FALSE]
  BY DEF Voter!PageNow
<1> QED
  BY <1>1, <1>2 DEF Page, Sound

\* A page a sweep did not catch is old, and otherwise as it was.
LEMMA AgedIsSound ==
  ASSUME NEW p \in Page
  PROVE  Voter!Aged(p) \in Page /\ Sound(Voter!Aged(p))' /\ Voter!Aged(p).old
BY DEF Page, Voter!Aged, Sound

LEMMA SoundStays ==
  ASSUME mine' = mine, NEW p, Sound(p)
  PROVE  Sound(p)'
BY DEF Sound, Voter!OwnOf

LEMMA RestStarts == Init => RestInv
<1> SUFFICES ASSUME Init PROVE RestInv
  OBVIOUS
<1>1. Voter!Init
  BY DEF Init
<1>2. others \in [Reviews -> [Values -> Int]]
  BY <1>1 DEF Voter!Init
<1>3. /\ \A m \in Voter!Slots : mutations[m].phase = "resting"
      /\ cached = Voter!Counted /\ fetch.at = "none"
      /\ redis = {Voter!PageNow} /\ filling = {}
  BY <1>1 DEF Voter!Init, Voter!Resting, Voter!NoFetch
<1>4. \A r \in Reviews : button[r].shown = Voter!Sum(cached[r])
  BY <1>1 DEF Voter!Init, Voter!Fresh
<1>5. CountTypes
  BY <1>2, <1>3, <1>4, CountsTyped DEF CountTypes
<1> QED
  BY <1>2, <1>3, <1>4, <1>5, CountsTyped DEF RestInv, PagesAreSound, OwnsAreTrue, ButtonsShowProps, Flying

\* Steps that leave the pages of Redis and the votes alone.
LEMMA PagesUntouched ==
  ASSUME RestInv, UNCHANGED <<mine, redis, filling>>, Swept' => Swept
  PROVE  PagesAreSound'
BY SoundStays DEF RestInv, PagesAreSound

\* New props are shown by every button that is not pending and had the old ones.
LEMMA PropsShow ==
  ASSUME NEW buttons, NEW props, Voter!TakeProps(buttons, props), mounted,
         \A r \in Reviews : IsButton(buttons[r]),
         \A r \in Reviews : \/ missed[r] \/ buttons[r].shown = Voter!Sum(props[r])
                            \/ buttons[r].shown = Voter!Sum(cached[r])
  PROVE  /\ \A r \in Reviews : missed'[r] \/ button'[r].shown = Voter!Sum(props[r])
         /\ \A r \in Reviews : missed[r] /\ buttons[r].pending => missed'[r]
<1> SUFFICES ASSUME NEW r \in Reviews
             PROVE  /\ missed'[r] \/ button'[r].shown = Voter!Sum(props[r])
                    /\ missed[r] /\ buttons[r].pending => missed'[r]
  OBVIOUS
<1> DEFINE b == buttons[r]
           new == Voter!Sum(props[r])
           changed == new # Voter!Sum(cached[r])
<1>1. /\ button'[r] = IF changed /\ ~b.pending THEN [b EXCEPT !.shown = new] ELSE b
      /\ missed'[r] = IF changed THEN b.pending ELSE missed[r]
  BY DEF Voter!TakeProps
<1>2. IsButton(b) /\ (missed[r] \/ b.shown = new \/ b.shown = Voter!Sum(cached[r]))
  OBVIOUS
<1> HIDE DEF b, new
<1>3. CASE changed /\ ~b.pending
  <2>1. button'[r] = [b EXCEPT !.shown = new]
    BY <1>1, <1>3
  <2>2. [b EXCEPT !.shown = new].shown = new
    BY <1>2 DEF IsButton
  <2> QED
    BY <1>3, <2>1, <2>2 DEF b, new
<1>4. CASE changed /\ b.pending
  BY <1>1, <1>4
<1>5. CASE ~changed
  <2>1. button'[r] = b /\ missed'[r] = missed[r] /\ (missed[r] \/ b.shown = new)
    BY <1>1, <1>2, <1>5
  <2> QED
    BY <2>1 DEF b, new
<1> QED
  BY <1>3, <1>4, <1>5

LEMMA PropsAreTyped ==
  ASSUME NEW buttons, NEW props \in [Reviews -> Count], Voter!TakeProps(buttons, props),
         \A r \in Reviews : IsButton(buttons[r]) /\ buttons[r].shown \in [Values -> Int]
  PROVE  \A r \in Reviews : button'[r].shown \in [Values -> Int]
<1> SUFFICES ASSUME NEW r \in Reviews PROVE button'[r].shown \in [Values -> Int]
  OBVIOUS
<1> DEFINE b == buttons[r]
           new == Voter!Sum(props[r])
<1>1. button'[r] = b \/ button'[r] = [b EXCEPT !.shown = new]
  BY DEF Voter!TakeProps
<1>2. IsButton(b) /\ b.shown \in [Values -> Int] /\ new \in [Values -> Int]
  BY DEF Voter!Sum, Count
<1> HIDE DEF b, new
<1>3. [b EXCEPT !.shown = new].shown = new
  BY <1>2 DEF IsButton
<1> QED
  BY <1>1, <1>2, <1>3

LEMMA ClickShows ==
  ASSUME VoterInv, RestInv, NEW m \in Voter!Slots, NEW r \in Reviews, NEW target \in Values,
         Voter!Click(m, r, target)
  PROVE  RestInv'
<1> DEFINE prior == button[r]
           next == IF prior.active = target THEN Voter!None ELSE target
           delta == Voter!Delta(prior.active, next)
           moved == [v \in Values |-> prior.shown[v] + delta[v]]
           pressed == [shown |-> moved, active |-> next, pending |-> TRUE]
           patched == Voter!Patched(cached[r], prior.active, next)
           alone == Voter!InFlight(r) = {} /\ \A q \in late : q.review # r
           new == [phase |-> "sent", review |-> r, value |-> next, before |-> prior,
                   snapshot |-> cached, watched |-> TRUE, alone |-> alone]
<1>1. /\ mounted /\ ~prior.pending /\ m = clicks + 1
      /\ button' = [button EXCEPT ![r] = pressed]
      /\ mutations' = [mutations EXCEPT ![m] = new]
      /\ cached' = [cached EXCEPT ![r] = patched]
      /\ fetch' = Voter!NoFetch
      /\ UNCHANGED <<mine, others, late, redis, filling, mounted, missed>>
  BY DEF Voter!Click, Voter!server, Voter!api
<1>2. /\ new.phase = "sent" /\ new.review = r /\ new.before = prior /\ new.snapshot = cached
      /\ pressed.shown = moved
  OBVIOUS
<1>3. /\ \A p \in Reviews : button'[p] = IF p = r THEN pressed ELSE button[p]
      /\ \A n \in Voter!Slots : mutations'[n] = IF n = m THEN new ELSE mutations[n]
      /\ \A p \in Reviews : cached'[p] = IF p = r THEN patched ELSE cached[p]
      /\ DOMAIN cached' = Reviews
  BY <1>1 DEF VoterInv, VoterTypes, RestInv, CountTypes
<1>4. delta \in [Values -> Int]
  BY DEF Voter!Delta, Voter!OwnOf
<1>5. cached[r] \in Count /\ prior.shown \in [Values -> Int]
  BY DEF RestInv, CountTypes
<1>6. patched = [own |-> [v \in Values |-> cached[r].own[v] + delta[v]], others |-> cached[r].others]
  BY <1>5 DEF Voter!Patched, Count
<1> HIDE DEF delta, patched, new, pressed, alone
<1>7. patched \in Count /\ moved \in [Values -> Int]
  BY <1>4, <1>5, <1>6 DEF Count
<1>8. prior.shown = Voter!Sum(cached[r]) => moved = Voter!Sum(patched)
  <2> SUFFICES ASSUME prior.shown = Voter!Sum(cached[r]) PROVE moved = Voter!Sum(patched)
    OBVIOUS
  <2>1. \A v \in Values : prior.shown[v] = cached[r].own[v] + cached[r].others[v]
    BY DEF Voter!Sum
  <2>2. \A v \in Values : /\ cached[r].own[v] \in Int /\ cached[r].others[v] \in Int /\ delta[v] \in Int
    BY <1>4, <1>5 DEF Count
  <2>3. \A v \in Values :
          prior.shown[v] + delta[v] = (cached[r].own[v] + delta[v]) + cached[r].others[v]
    BY <2>1, <2>2
  <2>4. Voter!Sum(patched) = [v \in Values |-> (cached[r].own[v] + delta[v]) + cached[r].others[v]]
    BY <1>6 DEF Voter!Sum
  <2> QED
    BY <2>3, <2>4
<1> HIDE DEF moved, prior
<1>9. \A p \in Reviews : cached'[p] \in Count
  BY <1>3, <1>7 DEF RestInv, CountTypes
<1>10. cached' \in [Reviews -> Count]
  BY <1>1, <1>9 DEF RestInv, CountTypes
<1>11. CountTypes'
  BY <1>1, <1>2, <1>3, <1>5, <1>7, <1>10 DEF RestInv, CountTypes, Voter!NoFetch
<1>12. OwnsAreTrue'
  BY <1>2, <1>3 DEF OwnsAreTrue, Calm
<1>13. missed[r] \/ prior.shown = Voter!Sum(cached[r])
  BY <1>1 DEF RestInv, ButtonsShowProps, prior
<1>14. ButtonsShowProps'
  <2>1. \A p \in Reviews : missed[p] \/ button'[p].shown = Voter!Sum(cached'[p])
    BY <1>1, <1>2, <1>3, <1>8, <1>13 DEF RestInv, ButtonsShowProps
  <2>2. ASSUME NEW n \in Voter!Slots, NEW p \in Reviews, Flying(n, p)', mutations'[n].watched
        PROVE  missed[p] \/ mutations'[n].before.shown = Voter!Sum(mutations'[n].snapshot[p])
    <3>1. CASE n = m
      BY <1>2, <1>3, <1>13, <2>2, <3>1 DEF Flying
    <3>2. CASE n # m
      BY <1>3, <2>2, <3>2 DEF Flying, RestInv, ButtonsShowProps
    <3> QED
      BY <3>1, <3>2
  <2> QED
    BY <1>1, <2>1, <2>2 DEF ButtonsShowProps
<1>15. PagesAreSound'
  <2>1. Swept' => Swept
    BY <1>1, <1>2, <1>3 DEF Swept, VoterInv, VoterTypes, Voter!Resting
  <2> QED
    BY <1>1, <2>1, PagesUntouched
<1> QED
  BY <1>11, <1>12, <1>14, <1>15 DEF RestInv

LEMMA AnswersRest ==
  ASSUME VoterInv, RestInv, NEW m \in Voter!Slots,
         Voter!CommitVote(m) \/ Voter!RefuseVote(m) \/ Voter!LoseAnswer(m)
  PROVE  RestInv'
<1> DEFINE q == mutations[m]
<1>1. /\ q.phase \in {"sent", "stored", "ok"}
      /\ UNCHANGED <<others, redis, filling, mounted, button, missed, cached, fetch>>
      /\ mutations' = [mutations EXCEPT ![m].phase = IF Voter!CommitVote(m) THEN "stored" ELSE "error"]
  BY DEF Voter!CommitVote, Voter!RefuseVote, Voter!LoseAnswer, Voter!screen, Voter!server, Voter!api
<1>2. PICK phase \in {"stored", "error"} :
        /\ mutations' = [mutations EXCEPT ![m].phase = phase]
        /\ phase = "stored" <=> Voter!CommitVote(m)
  BY <1>1
<1>3. q # Voter!Resting
  BY <1>1 DEF Voter!Resting
<1>4. IsVote(q)
  BY <1>3 DEF VoterInv, VoterTypes
<1>5. /\ \A n \in Voter!Slots : n # m => mutations'[n] = mutations[n]
      /\ mutations'[m] = [q EXCEPT !.phase = phase]
  BY <1>2 DEF VoterInv, VoterTypes
<1> HIDE DEF q
<1>6. /\ mutations'[m].phase = phase /\ mutations'[m].review = q.review
      /\ mutations'[m].before = q.before /\ mutations'[m].snapshot = q.snapshot
      /\ mutations'[m].watched = q.watched
  <2> DEFINE p == [q EXCEPT !.phase = phase]
  <2>1. /\ p.phase = phase /\ p.review = q.review /\ p.before = q.before
        /\ p.snapshot = q.snapshot /\ p.watched = q.watched
    BY <1>4 DEF IsVote
  <2>2. mutations'[m] = p
    BY <1>5
  <2> HIDE DEF p
  <2> QED
    BY <2>1, <2>2
<1>7. CountTypes'
  BY <1>1, <1>5, <1>6 DEF RestInv, CountTypes, q
<1>8. OwnsAreTrue'
  BY <1>6 DEF OwnsAreTrue, Calm
<1>9. ButtonsShowProps'
  BY <1>1, <1>5, <1>6 DEF RestInv, ButtonsShowProps, Flying, q
<1>10. late = {} /\ phase # "stored" /\ q.phase = "stored" => late' # {}
  BY <1>2 DEF Voter!RefuseVote, Voter!LoseAnswer, q
<1>11. late # {} => late' # {}
  BY DEF Voter!CommitVote, Voter!RefuseVote, Voter!LoseAnswer, Voter!server
<1>12. PagesAreSound'
  <2>1. CASE phase = "stored"
    BY <1>6, <2>1 DEF PagesAreSound, Swept
  <2>2. CASE phase # "stored"
    <3>1. mine' = mine
      BY <1>2, <2>2 DEF Voter!RefuseVote, Voter!LoseAnswer, Voter!server
    <3>2. Swept' => Swept
      BY <1>5, <1>10, <1>11, <2>2 DEF Swept, q
    <3> QED
      BY <1>1, <3>1, <3>2, PagesUntouched
  <2> QED
    BY <2>1, <2>2
<1> QED
  BY <1>7, <1>8, <1>9, <1>12 DEF RestInv

LEMMA SweepRests ==
  ASSUME VoterInv, RestInv, NEW m \in Voter!Slots, Voter!Sweep(m)
  PROVE  RestInv'
<1>1. /\ mutations[m].phase = "stored" /\ mutations' = [mutations EXCEPT ![m].phase = "ok"]
      /\ UNCHANGED <<mine, others, late, mounted, button, missed, cached, fetch>>
      /\ redis' = {} \/ redis' = {Voter!Aged(p) : p \in redis}
      /\ filling' = {Voter!Aged(p) : p \in filling}
  BY DEF Voter!Sweep, Voter!screen, Voter!server
<1>2. /\ \A n \in Voter!Slots : n # m => mutations'[n] = mutations[n]
      /\ mutations'[m].phase = "ok"
      /\ \A n \in Voter!Slots, p \in Reviews : Flying(n, p)' <=> Flying(n, p)
      /\ mutations'[m].before = mutations[m].before /\ mutations'[m].watched = mutations[m].watched
  BY <1>1, PhaseTypes
<1>3. mutations'[m].snapshot = mutations[m].snapshot
  <2> DEFINE q == mutations[m]
             p == [q EXCEPT !.phase = "ok"]
  <2>1. IsVote(q) /\ mutations'[m] = p
    BY <1>1 DEF VoterInv, VoterTypes, Voter!Resting
  <2> HIDE DEF q
  <2>2. p.snapshot = q.snapshot
    BY <2>1 DEF IsVote
  <2> HIDE DEF p
  <2> QED
    BY <2>1, <2>2 DEF q
<1>4. \A p \in redis' \cup filling' : p \in Page /\ Sound(p)'
  BY <1>1, AgedIsSound DEF RestInv, CountTypes
<1>5. CountTypes'
  BY <1>1, <1>2, <1>3, <1>4 DEF RestInv, CountTypes
<1>6. PagesAreSound'
  BY <1>4 DEF PagesAreSound
<1>7. OwnsAreTrue'
  BY <1>2 DEF OwnsAreTrue, Calm
<1>8. ButtonsShowProps'
  BY <1>1, <1>2, <1>3 DEF RestInv, ButtonsShowProps
<1> QED
  BY <1>5, <1>6, <1>7, <1>8 DEF RestInv

LEMMA SettlesRest ==
  ASSUME VoterInv, RestInv, NEW m \in Voter!Slots, Voter!Settle(m)
  PROVE  RestInv'
<1> DEFINE q == mutations[m]
           r == q.review
           denied == q.phase = "error"
           props == IF denied THEN q.snapshot ELSE cached
           released == [button[r] EXCEPT !.pending = FALSE]
           rolledBack == IF denied THEN q.before ELSE released
           buttons == IF q.watched THEN [button EXCEPT ![r] = rolledBack] ELSE button
<1>1. /\ q.phase \in {"ok", "error"}
      /\ mutations' = [mutations EXCEPT ![m] = Voter!Resting]
      /\ cached' = props /\ fetch' = Voter!Asked
      /\ Voter!TakeProps(buttons, props)
      /\ UNCHANGED <<mine, others, late, redis, filling, mounted>>
  BY DEF Voter!Settle, Voter!server, Voter!api
<1>2. q # Voter!Resting
  BY <1>1 DEF Voter!Resting
<1>3. r \in Reviews /\ IsButton(q.before) /\ IsButton(button[r]) /\ DOMAIN button = Reviews
  BY <1>2 DEF VoterInv, VoterTypes
<1>4. IsButton(released) /\ released.shown = button[r].shown
  <2> DEFINE b == button[r]
  <2>1. IsButton(b) /\ released = [b EXCEPT !.pending = FALSE]
    BY <1>3
  <2> HIDE DEF b, released
  <2>2. IsButton(released) /\ released.shown = b.shown
    BY <2>1 DEF IsButton
  <2> QED
    BY <2>2 DEF b
<1>5. /\ mutations'[m].phase = "resting"
      /\ \A n \in Voter!Slots : n # m => mutations'[n] = mutations[n]
  BY <1>1 DEF VoterInv, VoterTypes, Voter!Resting
<1>6. props \in [Reviews -> Count] /\ q.before.shown \in [Values -> Int]
  BY <1>1 DEF RestInv, CountTypes
<1>7. Flying(m, r)
  BY <1>1 DEF Flying
<1>8. denied => props = q.snapshot
  OBVIOUS
<1>9. ~denied => props = cached
  OBVIOUS
<1> HIDE DEF props, released
<1>10. /\ \A p \in Reviews : p # r \/ ~q.watched => buttons[p] = button[p]
       /\ q.watched => buttons[r] = rolledBack
  BY <1>3
<1> HIDE DEF buttons
<1>11. \A p \in Reviews : IsButton(buttons[p]) /\ buttons[p].shown \in [Values -> Int]
  BY <1>3, <1>4, <1>6, <1>10 DEF VoterInv, VoterTypes, RestInv, CountTypes
<1>12. ASSUME mounted
       PROVE  \A p \in Reviews : \/ missed[p] \/ buttons[p].shown = Voter!Sum(props[p])
                                 \/ buttons[p].shown = Voter!Sum(cached[p])
  <2>1. \A p \in Reviews : missed[p] \/ button[p].shown = Voter!Sum(cached[p])
    BY <1>12 DEF RestInv, ButtonsShowProps
  <2>2. q.watched /\ denied => missed[r] \/ q.before.shown = Voter!Sum(props[r])
    BY <1>3, <1>7, <1>8 DEF RestInv, ButtonsShowProps
  <2> QED
    BY <1>3, <1>4, <1>10, <2>1, <2>2
<1>13. mounted => /\ \A p \in Reviews : missed'[p] \/ button'[p].shown = Voter!Sum(props[p])
                  /\ \A p \in Reviews : missed[p] /\ buttons[p].pending => missed'[p]
  BY <1>1, <1>11, <1>12, PropsShow
<1>14. \A p \in Reviews : button'[p].shown \in [Values -> Int]
  BY <1>1, <1>6, <1>11, PropsAreTyped
<1>15. CountTypes'
  BY <1>1, <1>5, <1>6, <1>14 DEF RestInv, CountTypes, Voter!Asked
<1>16. OwnsAreTrue'
  BY <1>1 DEF OwnsAreTrue, Voter!Asked
<1>17. ASSUME NEW n \in Voter!Slots, NEW p \in Reviews, Flying(n, p)', mutations'[n].watched
       PROVE  missed'[p] \/ mutations'[n].before.shown = Voter!Sum(mutations'[n].snapshot[p])
  <2>1. n # m /\ mutations'[n] = mutations[n] /\ Flying(n, p) /\ mutations[n].watched
    BY <1>5, <1>17 DEF Flying
  <2>2. p # r \/ ~q.watched
    BY <1>3, <1>7, <2>1 DEF VoterInv, WatchedPresses
  <2>3. buttons[p] = button[p] /\ mounted /\ button[p].pending
    BY <1>10, <2>1, <2>2 DEF VoterInv, WatchedPresses
  <2>4. missed[p] \/ mutations[n].before.shown = Voter!Sum(mutations[n].snapshot[p])
    BY <2>1 DEF RestInv, ButtonsShowProps
  <2> QED
    BY <1>13, <2>1, <2>3, <2>4
<1>18. ButtonsShowProps'
  BY <1>1, <1>13, <1>17 DEF ButtonsShowProps
<1>19. PagesAreSound'
  <2>1. Swept' => Swept
    BY <1>1, <1>5 DEF Swept, q
  <2> QED
    BY <1>1, <2>1, PagesUntouched
<1> QED
  BY <1>15, <1>16, <1>18, <1>19 DEF RestInv

LEMMA FreshShows ==
  ASSUME NEW count \in Count
  PROVE  Voter!Fresh(count).shown = Voter!Sum(count) /\ Voter!Sum(count) \in [Values -> Int]
<1>1. Voter!Fresh(count).shown = Voter!Sum(count)
  BY DEF Voter!Fresh
<1>2. \A v \in Values : count.own[v] \in Int /\ count.others[v] \in Int
  BY DEF Count
<1>3. Voter!Sum(count) \in [Values -> Int]
  BY <1>2 DEF Voter!Sum
<1> QED
  BY <1>1, <1>3

LEMMA FetchesRest ==
  ASSUME VoterInv, RestInv,
         Voter!Refocus \/ Voter!FetchHits \/ Voter!FetchMisses \/ Voter!FetchArrives \/ Voter!Unmount
  PROVE  RestInv'
<1>1. CASE Voter!Refocus
  <2>1. /\ fetch' = Voter!Asked
        /\ UNCHANGED <<mine, others, late, redis, filling, button, mutations, cached, mounted, missed>>
    BY <1>1 DEF Voter!Refocus, Voter!server, Voter!api, Voter!screen
  <2>2. PagesAreSound'
    BY <2>1, PagesUntouched DEF Swept
  <2> QED
    BY <2>1, <2>2 DEF RestInv, CountTypes, OwnsAreTrue, ButtonsShowProps, Flying, Voter!Asked
<1>2. CASE Voter!FetchHits \/ Voter!FetchMisses
  <2>1. PICK p \in redis \cup {Voter!PageNow} :
          /\ fetch' = Voter!Read(p)
          /\ redis' \subseteq redis \cup {Voter!PageNow} /\ filling' = filling
          /\ UNCHANGED <<mine, others, late, button, mutations, cached, mounted, missed>>
    BY <1>2 DEF Voter!FetchHits, Voter!FetchMisses, Voter!server, Voter!api, Voter!screen
  <2>2. Voter!PageNow \in Page /\ Sound(Voter!PageNow)
    BY CountsTyped DEF RestInv, CountTypes
  <2>3. fetch'.at = "read" /\ fetch'.page = p
    BY <2>1 DEF Voter!Read
  <2>4. PICK now : now = Voter!PageNow
    OBVIOUS
  <2>5. p \in redis \cup {now} /\ redis' \subseteq redis \cup {now} /\ now \in Page /\ Sound(now)
    BY <2>1, <2>2, <2>4
  <2>6. CountTypes'
    BY <2>1, <2>3, <2>5 DEF RestInv, CountTypes
  <2>7. Swept' => Swept /\ \A page_ \in redis' \cup filling' \cup {p} : Sound(page_)
    BY <2>1, <2>5 DEF RestInv, PagesAreSound, Swept
  <2>8. PagesAreSound'
    BY <2>1, <2>7, SoundStays DEF PagesAreSound
  <2>9. OwnsAreTrue'
    <3>1. Calm' => Swept'
      BY DEF Calm, Swept
    <3>2. Calm' => Sound(p)'
      BY <2>1, <2>7, <3>1, SoundStays
    <3> QED
      BY <2>3, <3>2 DEF OwnsAreTrue, Sound
  <2>10. ButtonsShowProps'
    BY <2>1 DEF RestInv, ButtonsShowProps, Flying
  <2> QED
    BY <2>6, <2>8, <2>9, <2>10 DEF RestInv
<1>3. CASE Voter!FetchArrives
  <2> DEFINE props == fetch.page.counts
             buttons == button
  <2>1. /\ fetch.at = "read" /\ cached' = props /\ fetch'.at = "none"
        /\ outlived' = fetch.page.old
        /\ UNCHANGED <<mine, others, late, redis, filling, mutations>>
    BY <1>3 DEF Voter!FetchArrives, Voter!server, Voter!api, Voter!NoFetch
  <2>2. /\ props \in [Reviews -> Count]
        /\ \A r \in Reviews : IsButton(buttons[r]) /\ buttons[r].shown \in [Values -> Int]
    BY <2>1 DEF VoterInv, VoterTypes, RestInv, CountTypes, Page
  <2>3. OwnsAreTrue' /\ PagesAreSound'
    <3>1. Calm' => Sound(fetch.page)
      BY <2>1 DEF RestInv, OwnsAreTrue, Calm
    <3>2. PagesAreSound'
      BY <2>1, PagesUntouched DEF Swept
    <3> QED
      BY <2>1, <3>1, <3>2 DEF OwnsAreTrue, Sound
  <2>4. CASE mounted
    <3>1. Voter!TakeProps(buttons, props) /\ mounted' = mounted
      BY <1>3, <2>4 DEF Voter!FetchArrives
    <3>2. \A r \in Reviews : missed[r] \/ buttons[r].shown = Voter!Sum(cached[r])
      BY <2>4 DEF RestInv, ButtonsShowProps
    <3> HIDE DEF props, buttons
    <3>3. /\ \A r \in Reviews : missed'[r] \/ button'[r].shown = Voter!Sum(props[r])
          /\ \A r \in Reviews : missed[r] /\ buttons[r].pending => missed'[r]
      BY <2>2, <2>4, <3>1, <3>2, PropsShow
    <3>4. \A r \in Reviews : button'[r].shown \in [Values -> Int]
      BY <2>2, <3>1, PropsAreTyped
    <3>5. CountTypes'
      BY <2>1, <2>2, <3>4 DEF RestInv, CountTypes
    <3>6. \A m \in Voter!Slots, r \in Reviews : Flying(m, r) /\ mutations[m].watched =>
            missed'[r] \/ mutations[m].before.shown = Voter!Sum(mutations[m].snapshot[r])
      BY <3>3 DEF buttons, RestInv, ButtonsShowProps, VoterInv, WatchedPresses
    <3> QED
      BY <2>1, <2>3, <3>3, <3>5, <3>6 DEF RestInv, ButtonsShowProps, Flying
  <2>5. CASE ~mounted
    <3>1. \A r \in Reviews : button'[r] = Voter!Fresh(props[r])
      BY <1>3, <2>5 DEF Voter!FetchArrives
    <3> HIDE DEF props
    <3>2. \A r \in Reviews : /\ button'[r].shown = Voter!Sum(props[r])
                             /\ Voter!Sum(props[r]) \in [Values -> Int]
      BY <2>2, <3>1, FreshShows
    <3>3. CountTypes'
      BY <2>1, <2>2, <3>2 DEF RestInv, CountTypes
    <3>4. \A m \in Voter!Slots, r \in Reviews : ~(Flying(m, r) /\ mutations[m].watched)
      BY <2>5 DEF VoterInv, WatchedPresses
    <3> QED
      BY <2>1, <2>3, <3>2, <3>3, <3>4 DEF RestInv, ButtonsShowProps, Flying
  <2> QED
    BY <2>4, <2>5
<1>4. CASE Voter!Unmount
  <2>1. /\ mounted' = FALSE /\ fetch' = Voter!Asked
        /\ mutations' = [m \in Voter!Slots |-> IF mutations[m] = Voter!Resting THEN Voter!Resting
                                               ELSE [mutations[m] EXCEPT !.watched = FALSE]]
        /\ \A r \in Reviews : button'[r] = Voter!Fresh(cached[r])
        /\ UNCHANGED <<mine, others, late, redis, filling, cached>>
    BY <1>4 DEF Voter!Unmount, Voter!server, Voter!api
  <2>2. \A r \in Reviews : button'[r].shown \in [Values -> Int]
    BY <2>1, FreshShows DEF RestInv, CountTypes
  <2>3. ASSUME NEW m \in Voter!Slots
        PROVE  \/ mutations'[m].phase = "resting" /\ mutations[m].phase = "resting"
               \/ /\ mutations[m].phase # "resting" /\ mutations'[m].watched = FALSE
                  /\ mutations'[m].phase = mutations[m].phase
                  /\ mutations'[m].snapshot = mutations[m].snapshot
                  /\ mutations'[m].before = mutations[m].before
    <3> DEFINE q == mutations[m]
               left == [q EXCEPT !.watched = FALSE]
    <3>1. CASE q = Voter!Resting
      BY <2>1, <3>1 DEF Voter!Resting
    <3>2. CASE q # Voter!Resting
      <4>1. IsVote(q) /\ mutations'[m] = left /\ q.phase \in {"sent", "stored", "ok", "error"}
        BY <2>1, <3>2 DEF VoterInv, VoterTypes
      <4> HIDE DEF q
      <4>2. /\ left.watched = FALSE /\ left.snapshot = q.snapshot /\ left.before = q.before
            /\ left.phase = q.phase
        BY <4>1 DEF IsVote
      <4> HIDE DEF left
      <4> QED
        BY <4>1, <4>2 DEF q
    <3> QED
      BY <3>1, <3>2
  <2>4. CountTypes'
    BY <2>1, <2>2, <2>3 DEF RestInv, CountTypes, Voter!Asked
  <2>5. OwnsAreTrue' /\ ButtonsShowProps'
    BY <2>1, <2>3 DEF OwnsAreTrue, ButtonsShowProps, Flying, Voter!Asked
  <2>6. PagesAreSound'
    BY <2>1, <2>3, PagesUntouched DEF Swept
  <2> QED
    BY <2>4, <2>5, <2>6 DEF RestInv
<1> QED
  BY <1>1, <1>2, <1>3, <1>4

LEMMA OthersRest ==
  ASSUME RestInv,
         \/ \E q \in late : Voter!CommitLate(q)
         \/ \E r \in Reviews, v \in Values : Voter!OtherVotes(r, v)
  PROVE  RestInv'
<1>1. /\ UNCHANGED <<redis, filling, button, mounted, missed, mutations, cached, fetch, outlived>>
      /\ late' # {} \/ UNCHANGED <<mine, late>>
  BY DEF Voter!CommitLate, Voter!OtherVotes, Voter!api, Voter!screen
<1>2. others' \in [Reviews -> [Values -> Int]]
  <2>1. CASE others' = others
    BY <2>1 DEF RestInv, CountTypes
  <2>2. ASSUME NEW r \in Reviews, NEW v \in Values, Voter!OtherVotes(r, v)
        PROVE  others' \in [Reviews -> [Values -> Int]]
    BY <2>2 DEF Voter!OtherVotes, RestInv, CountTypes
  <2> QED
    BY <2>1, <2>2 DEF Voter!CommitLate
<1>3. PagesAreSound'
  <2>1. CASE late' # {}
    BY <2>1 DEF PagesAreSound, Swept
  <2>2. CASE UNCHANGED <<mine, late>>
    BY <1>1, <2>2, PagesUntouched DEF Swept
  <2> QED
    BY <1>1, <2>1, <2>2
<1>4. OwnsAreTrue'
  BY <1>1, SoundStays DEF RestInv, OwnsAreTrue, Calm
<1> QED
  BY <1>1, <1>2, <1>3, <1>4 DEF RestInv, CountTypes, ButtonsShowProps, Flying

\* Another client's read: its page counts the votes of the database, now.
LEMMA ReadersRest ==
  ASSUME RestInv, Voter!ReaderSelects \/ \E p \in filling : Voter!ReaderStores(p)
  PROVE  RestInv'
<1>1. /\ UNCHANGED <<mine, others, late, button, mounted, missed, mutations, cached, fetch, outlived>>
      /\ redis' \cup filling' \subseteq redis \cup filling \cup {Voter!PageNow}
  BY DEF Voter!ReaderSelects, Voter!ReaderStores, Voter!server, Voter!screen
<1>2. Voter!PageNow \in Page /\ Sound(Voter!PageNow)
  BY CountsTyped DEF RestInv, CountTypes
<1>3. PICK now : now = Voter!PageNow
  OBVIOUS
<1>4. redis' \cup filling' \subseteq redis \cup filling \cup {now} /\ now \in Page /\ Sound(now)
  BY <1>1, <1>2, <1>3
<1>5. CountTypes'
  BY <1>1, <1>4 DEF RestInv, CountTypes
<1>6. PagesAreSound'
  <2>1. Swept' => \A p \in redis' \cup filling' : Sound(p)
    BY <1>1, <1>4 DEF RestInv, PagesAreSound, Swept
  <2> QED
    BY <1>1, <2>1, SoundStays DEF PagesAreSound
<1>7. OwnsAreTrue'
  BY <1>1, SoundStays DEF RestInv, OwnsAreTrue, Calm
<1> QED
  BY <1>1, <1>5, <1>6, <1>7 DEF RestInv, ButtonsShowProps, Flying

LEMMA RestHolds == VoterInv /\ RestInv /\ [Next]_vars => RestInv'
<1> SUFFICES ASSUME VoterInv, RestInv, [Next]_vars PROVE RestInv'
  OBVIOUS
<1>1. CASE UNCHANGED voterVars
  <2>1. PagesAreSound'
    BY <1>1, PagesUntouched DEF voterVars, Swept
  <2>2. OwnsAreTrue'
    BY <1>1, SoundStays DEF voterVars, RestInv, OwnsAreTrue, Calm
  <2> QED
    BY <1>1, <2>1, <2>2 DEF voterVars, RestInv, CountTypes, ButtonsShowProps, Flying
<1>2. CASE Voter!Next
  BY <1>2, ClickShows, AnswersRest, SweepRests, SettlesRest, FetchesRest, OthersRest, ReadersRest
  DEF Voter!Next
<1> QED
  BY <1>1, <1>2 DEF Next, VoterStep, AuthorStep, DeskStep, SessionStep, vars

\* RestsOnTruth: with nothing on its way and no vote abandoned, the cached
\* pages count this user's votes as the database does, or the page they came
\* from is one that a sweep after such a vote did not catch, kept in Redis or
\* stored there late; and a button shows its props or missed a change of them.
\* For any clicks, refusals, roll-backs, refetches, sweeps that fail, readers
\* and votes of others (onMutate, onError and onSettled of use-vote.ts, the
\* effect of vote-buttons.tsx, invalidateReviewList of votes.service.ts, list
\* of reviews.service.ts).
THEOREM CountsRestOnTruth == Spec => []RestsOnTruth
<1>1. Init => VoterInv /\ RestInv
  BY VoterStarts, RestStarts
<1>2. (VoterInv /\ RestInv) /\ [Next]_vars => (VoterInv /\ RestInv)'
  BY VoterHolds, RestHolds
<1>3. VoterInv /\ RestInv => RestsOnTruth
  <2> SUFFICES ASSUME VoterInv, RestInv, mounted, fetch = Voter!NoFetch, late = {},
                      \A r \in Reviews : Voter!InFlight(r) = {}, NEW r \in Reviews
               PROVE  /\ outlived \/ cached[r].own = Voter!OwnOf(mine[r])
                      /\ missed[r] \/ button[r].shown = Voter!Sum(cached[r])
    BY DEF RestsOnTruth, Voter!RestsOnTruth, Voter!AtRest, Voter!CountsMyVote
  <2>1. \A m \in Voter!Slots : mutations[m].phase = "resting"
    <3> SUFFICES ASSUME NEW m \in Voter!Slots, mutations[m].phase # "resting" PROVE FALSE
      OBVIOUS
    <3>1. mutations[m].review \in Reviews
      BY DEF VoterInv, VoterTypes, Voter!Resting
    <3> QED
      BY <3>1 DEF Voter!InFlight
  <2>2. Calm /\ fetch.at = "none"
    BY <2>1 DEF Calm, Voter!NoFetch
  <2> QED
    BY <2>2 DEF RestInv, OwnsAreTrue, ButtonsShowProps
<1> QED
  BY <1>1, <1>2, <1>3, PTL DEF Spec
=============================================================================
