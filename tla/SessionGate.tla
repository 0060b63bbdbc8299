------------------------------ MODULE SessionGate ------------------------------
(***************************************************************************)
(* Who may do what, from src/internal/web (server.go, middleware.go,       *)
(* auth_handlers.go) and src/internal/auth (session.go, csrf.go): a login  *)
(* passes the limiter and gets a signed cookie, which is all there is of a *)
(* session; every other request is judged by the cookie and, if it changes *)
(* anything, by the token of the page it comes from.  The browser has one  *)
(* cookie and several tabs, whose answers arrive when they like.           *)
(*                                                                         *)
(* LoginLimiter's clock is the monotonic one; cookies expire by the wall   *)
(* clock, in whole seconds, and that one may be set back.                  *)
(***************************************************************************)
EXTENDS LoginLimiter

CONSTANTS
    Situations,    \* bound: who logs in, one of which Init picks
    TTL,           \* SHUTDOWNER_SESSION_TTL, in units of the clock
    PerSecond,     \* units of the clock in a second
    MaxLogins,     \* bound: sessions issued
    MaxStepBacks,  \* bound: units the wall clock is set back
    MaxRestarts    \* bound: restarts of the process

(***************************************************************************)
(* A situation: the addresses logins come from, the tabs (each with one    *)
(* request at a time), and whether they are a browser's, which keeps its   *)
(* cookie and uses the pages, or only log in, with wrong passwords too.    *)
(***************************************************************************)
ASSUME GateAssumption ==
    /\ \A s \in Situations : s.ips \subseteq IPs /\ s.tabs \subseteq Attempts
    /\ TTL \in Nat \ {0} /\ PerSecond \in Nat \ {0}
    /\ MaxLogins \in Nat /\ MaxStepBacks \in Nat /\ MaxRestarts \in Nat
    /\ None \notin Nat

VARIABLES
    situation,   \* which never changes
    setBack,     \* how far the wall clock has been set back
    secret,      \* SHUTDOWNER_SESSION_SECRET, by number
    restarts,    \* restarts so far
    issued,      \* the sessions signed so far, each known by its position
    jar,         \* the browser's cookie: None, or the nonce of its session
    page,        \* per tab: None, or the nonce its dashboard was rendered for
    req,         \* per tab: None, or its request in flight
    signedOut    \* history: the browser was told to log in and has not done so since

server  == <<setBack, secret, restarts, issued>>
browser == <<jar, page, req, signedOut>>
vars == <<limiterVars, situation, server, browser>>

Tabs    == Attempts
Nonces  == 1..MaxLogins
Session == [secret : Nat, expires : Nat, at : Times]

\* GET / and /login, the JSON reads and writes, and the two forms posted.
Kinds     == {"page", "form", "read", "change", "logout", "login"}
Protected == {"page", "read", "change", "logout"}   \* behind requireSession
\* Slip: the route of a change is wired without requireCSRF.
Guarded_OneMissed == {"logout"}
Guarded   == {"change", "logout"}                   \* and behind requireCSRF

\* An answer admits the request, redirects (a 401 sends the page to /login by
\* itself), shows the login form, or refuses; what it does to the cookie is its
\* own field: KeepCookie, None to clear it, or the nonce it sets.
Answers    == {"none", "ok", "toLogin", "toHome", "form", "forbidden", "denied"}
KeepCookie == 0
Request    == [kind : Kinds, cookie : Nonces \cup {None}, csrf : Nonces \cup {None},
               answer : Answers, sets : Nonces \cup {KeepCookie, None}, late : BOOLEAN]

ASSUME NilAssumption == None \notin Request

TypeOK ==
    /\ LimiterTypeOK
    /\ situation \in Situations /\ setBack \in 0..MaxStepBacks
    /\ secret \in 0..MaxRestarts /\ restarts \in 0..MaxRestarts
    /\ issued \in Seq(Session) /\ Len(issued) <= MaxLogins
    /\ jar \in DOMAIN issued \cup {None}
    /\ page \in [Tabs -> DOMAIN issued \cup {None}]
    /\ req \in [Tabs -> Request \cup {None}]
    /\ signedOut \in BOOLEAN

Init ==
    /\ LimiterInit
    /\ situation \in Situations
    /\ setBack = 0 /\ secret = 0 /\ restarts = 0 /\ issued = <<>>
    /\ jar = None /\ signedOut = FALSE
    /\ page = [t \in Tabs |-> None] /\ req = [t \in Tabs |-> None]

-----------------------------------------------------------------------------
(***************************************************************************)
(* The browser sends.                                                      *)
(***************************************************************************)
Asked(kind, csrf) ==
    [kind |-> kind, cookie |-> jar, csrf |-> csrf,
     answer |-> "none", sets |-> KeepCookie, late |-> signedOut]
Send(t, kind, csrf) == req' = [req EXCEPT ![t] = Asked(kind, csrf)]

Idle(t) == t \in situation.tabs /\ req[t] = None

\* A tab is opened or reloaded.
Visit(t) ==
    /\ Idle(t) /\ situation.browsing
    /\ \E kind \in {"page", "form"} : Send(t, kind, None)
    /\ UNCHANGED <<limiterVars, situation, server, jar, page, signedOut>>

\* What a dashboard sends, with the token it was rendered with.
Use(t) ==
    /\ Idle(t) /\ page[t] # None
    /\ \E kind \in {"read", "change", "logout"} : Send(t, kind, page[t])
    /\ UNCHANGED <<limiterVars, situation, server, jar, page, signedOut>>

\* The login form is filled in.
Submit(t) ==
    /\ Idle(t) /\ page[t] = None
    /\ Send(t, "login", None)
    /\ UNCHANGED <<limiterVars, situation, server, jar, page, signedOut>>

-----------------------------------------------------------------------------
(***************************************************************************)
(* The server answers.                                                     *)
(***************************************************************************)
Wall == now + MaxStepBacks - setBack
Seconds(t) == t \div PerSecond

\* Slip: a session is good through the second it expires in.
Verified_OneSecondMore(cookie) ==
    /\ cookie # None
    /\ issued[cookie].secret = secret
    /\ Seconds(Wall) <= issued[cookie].expires

\* Verify.
Verified(cookie) ==
    /\ cookie # None
    /\ issued[cookie].secret = secret
    /\ Seconds(Wall) < issued[cookie].expires

Waits(t, kinds) == req[t] # None /\ req[t].kind \in kinds /\ req[t].answer = "none"
Reply(t, answer, sets) ==
    req' = [req EXCEPT ![t] = [@ EXCEPT !.answer = answer, !.sets = sets]]

\* requireCSRF.
ValidCSRF(r) == r.kind \in Guarded => r.csrf = r.cookie

\* Slip: a cookie that does not verify stays with the browser.
HandleProtected_KeepsCookie(t) ==
    /\ Waits(t, Protected)
    /\ IF ~Verified(req[t].cookie)  THEN Reply(t, "toLogin", KeepCookie)
       ELSE IF ~ValidCSRF(req[t])   THEN Reply(t, "forbidden", KeepCookie)
       ELSE IF req[t].kind = "logout" THEN Reply(t, "toLogin", None)
       ELSE Reply(t, "ok", KeepCookie)
    /\ UNCHANGED <<limiterVars, situation, server, jar, page, signedOut>>

\* requireSession, requireCSRF and the handler behind them.
HandleProtected(t) ==
    /\ Waits(t, Protected)
    /\ IF ~Verified(req[t].cookie)  THEN Reply(t, "toLogin", None)
       ELSE IF ~ValidCSRF(req[t])   THEN Reply(t, "forbidden", KeepCookie)
       ELSE IF req[t].kind = "logout" THEN Reply(t, "toLogin", None)
       ELSE Reply(t, "ok", KeepCookie)
    /\ UNCHANGED <<limiterVars, situation, server, jar, page, signedOut>>

\* handleLoginForm.
HandleLoginForm(t) ==
    /\ Waits(t, {"form"})
    /\ IF Verified(req[t].cookie) THEN Reply(t, "toHome", KeepCookie)
       ELSE Reply(t, "form", IF req[t].cookie = None THEN KeepCookie ELSE None)
    /\ UNCHANGED <<limiterVars, situation, server, jar, page, signedOut>>

\* handleLoginSubmit, from Allow to the comparison of the password ...
LoginRefused(t) ==
    /\ Waits(t, {"login"})
    /\ \E ip \in situation.ips : Deny(t, ip)
    /\ Reply(t, "denied", KeepCookie)
    /\ UNCHANGED <<situation, server, jar, page, signedOut>>

LoginAdmitted(t) ==
    /\ Waits(t, {"login"})
    /\ \E ip \in situation.ips : Admit(t, ip)
    /\ UNCHANGED <<situation, server, browser>>

\* ... and after it.  Fail covers a form that cannot be read.
LoginFails(t) ==
    /\ ~situation.browsing /\ Fail(t)
    /\ Reply(t, "denied", KeepCookie)
    /\ UNCHANGED <<situation, server, jar, page, signedOut>>

\* Slip: the cookie is set before the error of Issue is looked at.
LoginIssueFails_SetsCookie(t) ==
    /\ IssueFails(t)
    /\ Reply(t, "denied", Len(issued) + 1)
    /\ UNCHANGED <<situation, server, jar, page, signedOut>>

LoginIssueFails(t) ==
    /\ IssueFails(t)
    /\ Reply(t, "denied", KeepCookie)
    /\ UNCHANGED <<situation, server, jar, page, signedOut>>

\* Issue signs a session for TTL from now, by the wall clock.
LoginSucceeds(t) ==
    /\ Succeed(t)
    /\ IF situation.browsing
         THEN /\ Len(issued) < MaxLogins
              /\ issued' = Append(issued, [secret |-> secret, at |-> now,
                                           expires |-> Seconds(Wall + TTL)])
              /\ Reply(t, "toHome", Len(issued'))
         ELSE Reply(t, "denied", KeepCookie) /\ UNCHANGED issued
    /\ UNCHANGED <<situation, setBack, secret, restarts, jar, page, signedOut>>

-----------------------------------------------------------------------------
(***************************************************************************)
(* The browser takes an answer in: its cookie first, then what it says.    *)
(***************************************************************************)
Jar(r) == IF r.sets = KeepCookie THEN jar ELSE r.sets
Follow(t, kind) ==
    req' = [req EXCEPT ![t] = [Asked(kind, None) EXCEPT !.cookie = jar', !.late = signedOut']]
Done(t) == req' = [req EXCEPT ![t] = None]

Take(t) ==
    /\ req[t] # None /\ req[t].answer # "none"
    /\ LET r == req[t] IN
       /\ jar' = Jar(r)
       /\ signedOut' = CASE r.answer = "toLogin" -> TRUE
                         [] r.kind = "login" /\ r.answer = "toHome" -> FALSE
                         [] OTHER -> signedOut
       /\ CASE r.answer = "toLogin" -> Follow(t, "form") /\ page' = [page EXCEPT ![t] = None]
            [] r.answer = "toHome"  -> Follow(t, "page") /\ page' = [page EXCEPT ![t] = None]
            [] r.answer = "ok" /\ r.kind = "page" -> Done(t) /\ page' = [page EXCEPT ![t] = r.cookie]
            [] r.answer = "form" \/ r.kind = "logout" -> Done(t) /\ page' = [page EXCEPT ![t] = None]
            [] OTHER -> Done(t) /\ UNCHANGED page
    /\ UNCHANGED <<limiterVars, situation, server>>

-----------------------------------------------------------------------------
\* The browser drops its cookie: its age is up by the browser's clock.
Forget ==
    /\ jar # None /\ jar' = None
    /\ UNCHANGED <<limiterVars, situation, server, page, req, signedOut>>

\* The process ends and starts again, with the same secret or a new one.
\* Requests it had not answered fail; the limiter starts empty.
Restart ==
    /\ restarts < MaxRestarts /\ restarts' = restarts + 1
    /\ secret' \in {secret, secret + 1}
    /\ LimiterForgets
    /\ req' = [t \in Tabs |-> IF req[t] # None /\ req[t].answer = "none" THEN None ELSE req[t]]
    /\ UNCHANGED <<situation, setBack, issued, jar, page, signedOut>>

TimePasses ==
    /\ Advance
    /\ UNCHANGED <<situation, server, browser>>

\* Only a browser's situation has anything that depends on the wall clock.
StepBack ==
    /\ situation.browsing
    /\ setBack < MaxStepBacks /\ setBack' = setBack + 1
    /\ UNCHANGED <<limiterVars, situation, secret, restarts, issued, browser>>

Answer(t) == HandleProtected(t) \/ HandleLoginForm(t) \/ LoginRefused(t) \/ LoginAdmitted(t)
             \/ LoginFails(t) \/ LoginIssueFails(t) \/ LoginSucceeds(t)

Next ==
    \/ \E t \in Tabs : Visit(t) \/ Use(t) \/ Submit(t) \/ Answer(t) \/ Take(t)
    \/ Forget \/ Restart \/ TimePasses \/ StepBack

Spec == Init /\ [][Next]_vars

-----------------------------------------------------------------------------
(***************************************************************************)
(* Properties.                                                             *)
(***************************************************************************)

\* A login lasts its TTL, to the second, and not past it: a request that needs
\* a session is let through only while less time has passed since its login than
\* TTL and the clock has been set back by, and under the secret that signed it
\* (through restarts, and after a rotation no more); and it is sent to log in
\* only if it came without a login, with one of another secret, or after more
\* than TTL less a second.
Judged(t) == Waits(t, Protected) /\ req'[t] # None /\ req'[t].answer # "none"
Age(cookie) == now - issued[cookie].at
LoginLastsTTL ==
    [][\A t \in Tabs : Judged(t) /\ req[t].cookie # None =>
          LET s == issued[req[t].cookie] IN
          IF req'[t].answer = "toLogin" /\ req[t].kind # "logout"
            THEN s.secret = secret => Age(req[t].cookie) > TTL - PerSecond
            ELSE req'[t].answer # "toLogin" =>
                    s.secret = secret /\ Age(req[t].cookie) < TTL + setBack]_vars

\* Once the browser has been sent to log in - its login over, or logged out -
\* nothing it sends is let through until it has logged in again, in whichever
\* tab, and even if the PC's clock is set back to when the old login was good.
SignedOutStaysOut ==
    \A t \in Tabs : req[t] # None /\ req[t].late =>
        ~(req[t].kind # "login" /\ req[t].answer \in {"ok", "toHome"})

\* A change is made only from a page that was rendered for the very login it is
\* made under: after a login in another tab, an older page changes nothing.
ChangesComeFromTheirPage ==
    \A t \in Tabs : req[t] # None /\ req[t].kind = "change" /\ req[t].answer = "ok" =>
        req[t].csrf = req[t].cookie /\ page[t] = req[t].csrf
=============================================================================
