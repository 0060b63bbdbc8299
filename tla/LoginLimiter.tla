----------------------------- MODULE LoginLimiter -----------------------------
(***************************************************************************)
(* The limiter of failed logins, src/internal/auth/ratelimit.go, under     *)
(* concurrent runs of handleLoginSubmit (src/internal/web/auth_handlers.go):*)
(* the handler asks Allow, compares the password with no lock held, which  *)
(* takes a while, and only then records the failure or resets the address. *)
(* SessionGate has the rest of the handler, and the steps these are part of. *)
(***************************************************************************)
EXTENDS Integers, Sequences, FiniteSets

CONSTANTS
    IPs,
    Attempts,      \* handlers that may run at once
    PerIPLimit, GlobalLimit, Window,
    None,
    MaxClock       \* bound: the clock stops here

Promise == [at : Nat, again : Nat]

ASSUME LimiterAssumption ==
    /\ PerIPLimit \in Nat \ {0} /\ GlobalLimit \in Nat \ {0} /\ Window \in Nat \ {0}
    /\ MaxClock \in Nat /\ IsFiniteSet(Attempts)
    /\ None \notin IPs /\ None \notin Promise

VARIABLES
    now,       \* the monotonic clock
    perIP,     \* per address: times of its counted failures
    global,    \* times of all counted failures
    attempt,   \* per handler: None, or the address it is comparing a password for
    told,      \* history, per address refused for its own sake and not let through
               \* since: when it was last told to come back, and how often it had
               \* come back by then in vain
    recent     \* history: failures of the last Window, per address and time,
               \* with those an address has had since its last success apart

limiterVars == <<now, perIP, global, attempt, told, recent>>

Times == 0..MaxClock
Count(times, t) == Cardinality({i \in DOMAIN times : times[i] = t})

LimiterTypeOK ==
    /\ now \in Times
    /\ perIP \in [IPs -> Seq(Times)] /\ global \in Seq(Times)
    /\ attempt \in [Attempts -> IPs \cup {None}]
    /\ told \in [IPs -> Promise \cup {None}]
    /\ recent \in [all : [Times -> Nat], since : [IPs -> [Times -> Nat]]]

NoFailures == [t \in Times |-> 0]

LimiterInit ==
    /\ now = 0
    /\ perIP = [ip \in IPs |-> <<>>] /\ global = <<>>
    /\ attempt = [a \in Attempts |-> None]
    /\ told = [ip \in IPs |-> None]
    /\ recent = [all |-> NoFailures, since |-> [ip \in IPs |-> NoFailures]]

\* A new process counts from nothing: the limiter is in memory only.
LimiterForgets ==
    /\ perIP' = [ip \in IPs |-> <<>>] /\ global' = <<>>
    /\ attempt' = [a \in Attempts |-> None]
    /\ told' = [ip \in IPs |-> None]
    /\ recent' = [all |-> NoFailures, since |-> [ip \in IPs |-> NoFailures]]
    /\ UNCHANGED now

-----------------------------------------------------------------------------
\* pruneBefore: leading entries at or before the cutoff go.
PruneBefore(times, cutoff) ==
    LET k == CHOOSE k \in 0..Len(times) :
                /\ \A i \in 1..k : times[i] <= cutoff
                /\ k < Len(times) => times[k + 1] > cutoff
    IN  SubSeq(times, k + 1, Len(times))

\* Slip: the entry that is exactly one window old is kept.
Pruned_Late(times) == PruneBefore(times, now - Window - 1)

Pruned(times) == PruneBefore(times, now - Window)

\* Slip: the address is let through at its limit.
Allowed_OneMore(ip) == Len(Pruned(perIP[ip])) <= PerIPLimit /\ Len(Pruned(global)) < GlobalLimit

Allowed(ip) == Len(Pruned(perIP[ip])) < PerIPLimit /\ Len(Pruned(global)) < GlobalLimit

\* The instant Allow's duration leads to, the address before the ceiling.
RetryAt(ip) ==
    LET hits == Pruned(perIP[ip]) IN
    IF Len(hits) >= PerIPLimit THEN hits[1] + Window ELSE Pruned(global)[1] + Window

Prune ==
    /\ perIP' = [ip \in IPs |-> Pruned(perIP[ip])]
    /\ global' = Pruned(global)

\* handleLoginSubmit: Allow lets the attempt through to the password.
Admit(a, ip) ==
    /\ attempt[a] = None /\ Allowed(ip)
    /\ Prune
    /\ attempt' = [attempt EXCEPT ![a] = ip]
    /\ told' = [told EXCEPT ![ip] = None]
    /\ UNCHANGED <<now, recent>>

\* Of an address told p before, or nothing, how often it has come back in vain.
InVain(p) == IF p = None THEN 0 ELSE IF now >= p.at THEN p.again + 1 ELSE p.again

\* Allow refuses: the answer carries Retry-After.
Deny(a, ip) ==
    /\ attempt[a] = None /\ ~Allowed(ip)
    /\ Prune
    /\ told' = IF Len(Pruned(perIP[ip])) >= PerIPLimit
                 THEN [told EXCEPT ![ip] = [at |-> RetryAt(ip), again |-> InVain(@)]]
                 ELSE told
    /\ UNCHANGED <<now, attempt, recent>>

\* Slip: the failure is not counted against the ceiling.
Fail_NotGlobal(a) ==
    /\ attempt[a] # None
    /\ LET ip == attempt[a] IN
       /\ perIP' = [i \in IPs |-> IF i = ip THEN Append(Pruned(perIP[i]), now) ELSE Pruned(perIP[i])]
       /\ global' = Pruned(global)
       /\ recent' = [recent EXCEPT !.all[now] = @ + 1, !.since[ip][now] = @ + 1]
    /\ attempt' = [attempt EXCEPT ![a] = None]
    /\ UNCHANGED <<now, told>>

\* A wrong password, or a form that cannot be read: RecordFailure.
Fail(a) ==
    /\ attempt[a] # None
    /\ LET ip == attempt[a] IN
       /\ perIP' = [i \in IPs |-> IF i = ip THEN Append(Pruned(perIP[i]), now) ELSE Pruned(perIP[i])]
       /\ global' = Append(Pruned(global), now)
       /\ recent' = [recent EXCEPT !.all[now] = @ + 1, !.since[ip][now] = @ + 1]
    /\ attempt' = [attempt EXCEPT ![a] = None]
    /\ UNCHANGED <<now, told>>

\* The right password: Issue, then Reset, which leaves the ceiling alone.
Succeed(a) ==
    /\ attempt[a] # None
    /\ LET ip == attempt[a] IN
       /\ perIP' = [perIP EXCEPT ![ip] = <<>>]
       /\ recent' = [recent EXCEPT !.since[ip] = NoFailures]
    /\ attempt' = [attempt EXCEPT ![a] = None]
    /\ UNCHANGED <<now, global, told>>

\* The right password, but no session can be issued: nothing is counted or reset.
IssueFails(a) ==
    /\ attempt[a] # None /\ attempt' = [attempt EXCEPT ![a] = None]
    /\ UNCHANGED <<now, perIP, global, told, recent>>

Aged(f) == [t \in Times |-> IF t <= now + 1 - Window THEN 0 ELSE f[t]]

Advance ==
    /\ now < MaxClock /\ now' = now + 1
    /\ recent' = [all   |-> Aged(recent.all),
                  since |-> [ip \in IPs |-> Aged(recent.since[ip])]]
    /\ UNCHANGED <<perIP, global, attempt, told>>

-----------------------------------------------------------------------------
\* What the limiter counts is what happened, instant by instant: for each address
\* the failures of the last Window since its last success, and for the ceiling all
\* failures of the last Window - pruning lazily, on calls about any address, loses
\* none and keeps none too long.
CountsAreExact ==
    \A t \in Times :
       /\ \A ip \in IPs : Count(Pruned(perIP[ip]), t) = recent.since[ip][t]
       /\ Count(Pruned(global), t) = recent.all[t]

\* Allow and RecordFailure are two calls, with the comparison between them, so
\* handlers admitted together may each record a failure.  The window then holds
\* at most one failure less than the limit plus one per handler: the limit
\* itself when logins come one at a time, and never more than this.
OverrunIsBounded ==
    /\ \A ip \in IPs : Len(Pruned(perIP[ip])) < PerIPLimit + Cardinality(Attempts)
    /\ Len(Pruned(global)) < GlobalLimit + Cardinality(Attempts)

\* Who waits as long as Retry-After says may be refused for his address's sake
\* again: Retry-After looks at the oldest failure only, and handlers let through
\* before may have taken the address past its limit, or do so while he waits.
\* But he comes back in vain at most as often as there are handlers besides his
\* own: with logins one at a time, waiting as told once is enough.
WaitingAsToldWorks == \A ip \in IPs : told[ip] # None => told[ip].again < Cardinality(Attempts)
=============================================================================
