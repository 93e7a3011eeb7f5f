------------------------------ MODULE Session ------------------------------
(* Signing in and out: the form (login-form.tsx), the route handler that puts *)
(* the API's token into the httpOnly cookie (app/api/session/route.ts), what  *)
(* a request finds in the cookie (lib/session.ts) and what the API makes of   *)
(* the token (auth.service.ts, jwt.strategy.ts, jwt-auth.guard.ts).           *)
(*                                                                            *)
(* The clock counts ticks, Second to the second; the token's exp and the      *)
(* cookie's maxAge are whole seconds.  Bound: MaxTime ticks.                  *)
EXTENDS Integers

CONSTANTS Second, Lifetime, Fallback, MaxTime

VARIABLES
  clock,   \* ticks
  login,   \* the sign-in under way
  jar,     \* the browser's session cookie: its token's exp, its own end
  cookie   \* what a request finds: "live", "expired" or "none"

sessionState == <<clock, login, jar, cookie>>

NoLogin == [phase |-> "none", exp |-> 0, age |-> 0, asOf |-> 0]
NoCookie == [exp |-> 0, until |-> 0, slack |-> 0, dead |-> FALSE]

\* readSession, then the strategy's check of exp.
Found(kept, time) ==
  IF kept = NoCookie THEN "none"
  ELSE IF time < kept.exp * Second THEN "live" ELSE "expired"

SignedOut ==
  /\ clock = 0 /\ login = NoLogin /\ jar = NoCookie /\ cookie = "none"

\* A session that is far from its end, or one tick before it.
SignedIn(last) ==
  LET end == IF last THEN MaxTime ELSE MaxTime + 1 IN
  /\ clock = IF last THEN MaxTime - 1 ELSE MaxTime
  /\ jar = [exp |-> (end + Second - 1) \div Second, until |-> end, slack |-> 0, dead |-> FALSE]
  /\ login = NoLogin /\ cookie = "live"

\* The browser drops a cookie at its end.
Keep(kept, time) ==
  LET now == IF time < kept.until THEN kept ELSE NoCookie
  IN  jar' = now /\ cookie' = Found(now, time)

-----------------------------------------------------------------------------
SubmitLogin ==
  /\ login.phase \in {"none", "failed"}
  /\ login' = [NoLogin EXCEPT !.phase = "sent"]
  /\ UNCHANGED <<clock, jar, cookie>>

\* AuthService.login: iat and exp are whole seconds.
SignToken ==
  /\ login.phase = "sent"
  /\ login' = [login EXCEPT !.phase = "signed", !.exp = (clock \div Second) + Lifetime]
  /\ UNCHANGED <<clock, jar, cookie>>

\* Wrong credentials, or an API out of reach.
RefuseLogin ==
  /\ login.phase = "sent"
  /\ login' = [login EXCEPT !.phase = "failed"]
  /\ UNCHANGED <<clock, jar, cookie>>

\* Mutant: the seconds left are rounded up.
MaxAgeRoundedUp(exp, now) ==
  LET left == ((exp * Second - now) + Second - 1) \div Second
  IN  IF left > 0 THEN left ELSE Fallback

\* Whole seconds the token has left, rounded down; the fallback when none is.
MaxAgeFromToken(exp, now) ==
  LET left == (exp * Second - now) \div Second
  IN  IF left > 0 THEN left ELSE Fallback

AnswerLogin ==
  /\ login.phase = "signed"
  /\ login' = [login EXCEPT !.phase = "answered", !.asOf = clock,
                            !.age = MaxAgeFromToken(login.exp, clock)]
  /\ UNCHANGED <<clock, jar, cookie>>

\* The answer reaches the browser, which counts maxAge from then on.
StoreCookie ==
  /\ login.phase = "answered"
  /\ Keep([exp |-> login.exp, until |-> clock + login.age * Second,
           slack |-> clock - login.asOf,
           dead |-> login.asOf + Second > login.exp * Second], clock)
  /\ login' = NoLogin
  /\ UNCHANGED clock

SignOut ==
  /\ jar # NoCookie /\ login = NoLogin
  /\ jar' = NoCookie /\ cookie' = "none"
  /\ UNCHANGED <<clock, login>>

Tick ==
  /\ clock < MaxTime
  /\ clock' = clock + 1
  /\ Keep(jar, clock')
  /\ UNCHANGED login

Next == SubmitLogin \/ SignToken \/ RefuseLogin \/ AnswerLogin \/ StoreCookie \/ SignOut \/ Tick

-----------------------------------------------------------------------------
TypeOK ==
  /\ clock \in 0..MaxTime /\ cookie \in {"live", "expired", "none"}
  /\ login.phase \in {"none", "sent", "signed", "answered", "failed"}
  /\ cookie = Found(jar, clock)

\* The cookie ends with its token: not after it by more than the answer took to
\* reach the browser, and less than a second before it.  A token with less than
\* a second left when it is answered is the exception: its cookie gets the
\* fallback age.
CookieFollowsToken ==
  jar # NoCookie /\ ~jar.dead =>
    /\ jar.until <= jar.exp * Second + jar.slack
    /\ jar.until + Second > jar.exp * Second
=============================================================================
