------------------------------- MODULE Dashboard -------------------------------
(***************************************************************************)
(* A dashboard left open, src/internal/web/static/app.js, and the server it*)
(* polls: the row with the pending action and the badge that says whether  *)
(* the PC can be reached.  Polls are sent every three seconds whether or   *)
(* not the last one has been answered, so their answers may overtake each  *)
(* other and those of the page's own requests; a second device schedules   *)
(* and aborts; the network fails; and the PC goes down some time after the *)
(* power action has returned.                                              *)
(*                                                                         *)
(* The server is the manager as its callers see it (ActionManager has it in*)
(* full); "idle" stands for every state that is neither pending nor        *)
(* executing.  The banners for errors and for a missed action, and the     *)
(* volume row, are left out.                                               *)
(***************************************************************************)
EXTENDS Integers

CONSTANTS
    Actions, PoweringOff,
    Polls,        \* bound: polls in flight at once
    None,
    MaxIds,       \* bound: schedules accepted
    MaxOutages    \* bound: failures of the network

ASSUME PageAssumption ==
    /\ PoweringOff \subseteq Actions /\ None \notin Actions
    /\ MaxIds \in Nat /\ MaxOutages \in Nat

VARIABLES
    server,    \* state, and the pending action
    power,     \* on, asleep, going down once shutdown.exe has returned, or off
    lastId,
    passed,    \* identifiers whose deadline has passed
    network, outages,
    polls,     \* per poll: free, or the answer on its way
    post,      \* the page's own request: None, sent, or the answer on its way
    shown,     \* state.pending
    fired,     \* state.firedAction
    failed,    \* state.failedPolls, as far as it matters
    badge,     \* online, offline ("PC is offline") or unreachable ("Cannot reach PC")
    heard,     \* history: the state of the last answer the page took in
    ranOut,    \* history: shutdowns whose countdown reached zero on the page
    cancelled  \* history: what each abort of the page asked for, and cancelled

PC      == <<server, power, lastId>>
world   == <<passed, network, outages>>
page    == <<shown, fired, failed, badge>>
history == <<heard, ranOut, cancelled>>
vars == <<PC, world, polls, post, page, history>>

Ids       == 1..MaxIds
Scheduled == [id : Ids, action : Actions]
Free      == [at |-> "free"]
Answers   == [at : {"answered"}, state : {"idle", "pending", "executing"},
              pending : Scheduled \cup {None}, zero : BOOLEAN]
Posts     == [kind : {"schedule"}, action : Actions] \cup [kind : {"abort"}, id : Ids]
             \cup [kind : {"scheduled"}, pending : Scheduled] \cup [kind : {"aborted", "refused"}]

TypeOK ==
    /\ server \in [state : {"idle", "pending", "executing"}, pending : Scheduled \cup {None}]
    /\ power \in {"on", "asleep", "going", "off"} /\ lastId \in 0..MaxIds
    /\ passed \subseteq Ids /\ network \in BOOLEAN /\ outages \in 0..MaxOutages
    /\ polls \in [Polls -> {Free} \cup Answers]
    /\ post \in Posts \cup {None}
    /\ shown \in Scheduled \cup {None} /\ fired \in Actions \cup {None}
    /\ failed \in 0..2 /\ badge \in {"online", "offline", "unreachable"}
    /\ heard \in {"idle", "pending", "executing"}
    /\ ranOut \subseteq Ids /\ cancelled \subseteq Ids \X Ids

\* The template shows "online" until two polls have failed.
Init ==
    /\ server = [state |-> "idle", pending |-> None] /\ power = "on" /\ lastId = 0
    /\ passed = {} /\ network = TRUE /\ outages = 0
    /\ polls = [p \in Polls |-> Free] /\ post = None
    /\ shown = None /\ fired = None /\ failed = 0 /\ badge = "online"
    /\ heard = "idle" /\ ranOut = {} /\ cancelled = {}

Awake     == power \in {"on", "going"}
Reachable == network /\ Awake
Idle      == [state |-> "idle", pending |-> None]
PendingId == IF server.state = "pending" THEN server.pending.id ELSE 0

-----------------------------------------------------------------------------
\* The server's side.
Accepts(a) ==
    /\ server.state = "idle" /\ lastId < MaxIds /\ lastId' = lastId + 1
    /\ server' = [state |-> "pending", pending |-> [id |-> lastId + 1, action |-> a]]

ScheduleElsewhere(a) ==
    /\ Reachable /\ Accepts(a)
    /\ UNCHANGED <<power, world, polls, post, page, history>>

AbortElsewhere ==
    /\ Reachable /\ server.state = "pending" /\ server' = Idle
    /\ UNCHANGED <<power, lastId, world, polls, post, page, history>>

\* Tick claims the action, or gives it up as missed.
Tick ==
    /\ Awake /\ server.state = "pending" /\ server.pending.id \in passed
    /\ server' \in {[server EXCEPT !.state = "executing"], Idle}
    /\ UNCHANGED <<power, lastId, world, polls, post, page, history>>

Suspends ==
    /\ power = "on" /\ server.state = "executing" /\ server.pending.action \notin PoweringOff
    /\ power' = "asleep"
    /\ UNCHANGED <<server, lastId, world, polls, post, page, history>>

\* Execute returns: for a shutdown well before Windows powers off, for a
\* suspension when the machine has resumed; or nothing came of either.
ExecuteReturns ==
    /\ power # "off" /\ server.state = "executing" /\ server' = Idle
    /\ \/ server.pending.action \in PoweringOff /\ power' = "going"
       \/ power' = IF power = "asleep" THEN "on" ELSE power
    /\ UNCHANGED <<lastId, world, polls, post, page, history>>

PowersOff ==
    /\ power = "going" /\ power' = "off"
    /\ UNCHANGED <<server, lastId, world, polls, post, page, history>>

\* Only of a schedule somebody is waiting for does it make a difference.
DeadlinePasses(i) ==
    /\ i = PendingId \/ (shown # None /\ i = shown.id)
    /\ i \notin passed /\ passed' = passed \cup {i}
    /\ UNCHANGED <<PC, network, outages, polls, post, page, history>>

NetworkFails ==
    /\ network /\ outages < MaxOutages /\ network' = FALSE /\ outages' = outages + 1
    /\ UNCHANGED <<PC, passed, polls, post, page, history>>

NetworkReturns ==
    /\ ~network /\ network' = TRUE
    /\ UNCHANGED <<PC, passed, outages, polls, post, page, history>>

-----------------------------------------------------------------------------
Status ==
    [at      |-> "answered",
     state   |-> server.state,
     pending |-> IF server.state = "pending" THEN server.pending ELSE None,
     zero    |-> server.state = "pending" /\ server.pending.id \in passed]

\* A poll is sent, and the server answers it.
AnswerPoll(p) ==
    /\ Reachable /\ polls[p] = Free /\ polls' = [polls EXCEPT ![p] = Status]
    /\ UNCHANGED <<PC, world, post, page, history>>

\* render, run by every answer and four times a second.
Rendered(pending, zero, mark) ==
    /\ fired' = IF zero THEN pending.action ELSE mark
    /\ ranOut' = IF zero /\ pending.action \in PoweringOff THEN ranOut \cup {pending.id} ELSE ranOut

\* Slip: the marker of a countdown that ran out outlives the answer.
ApplyStatus_KeepsFired(p) ==
    /\ polls[p].at = "answered" /\ polls' = [polls EXCEPT ![p] = Free]
    /\ failed' = 0 /\ badge' = "online"
    /\ shown' = polls[p].pending
    /\ Rendered(polls[p].pending, polls[p].zero, fired)
    /\ heard' = polls[p].state
    /\ UNCHANGED <<PC, world, post, cancelled>>

\* Slip: an action that is no longer pending stays on the page.
ApplyStatus_KeepsShown(p) ==
    /\ polls[p].at = "answered" /\ polls' = [polls EXCEPT ![p] = Free]
    /\ failed' = 0 /\ badge' = "online"
    /\ shown' = IF polls[p].pending = None THEN shown ELSE polls[p].pending
    /\ Rendered(polls[p].pending, polls[p].zero, IF polls[p].state = "executing" THEN fired ELSE None)
    /\ heard' = polls[p].state
    /\ UNCHANGED <<PC, world, post, cancelled>>

ApplyStatus(p) ==
    /\ polls[p].at = "answered" /\ polls' = [polls EXCEPT ![p] = Free]
    /\ failed' = 0 /\ badge' = "online"
    /\ shown' = polls[p].pending
    /\ Rendered(polls[p].pending, polls[p].zero, IF polls[p].state = "executing" THEN fired ELSE None)
    /\ heard' = polls[p].state
    /\ UNCHANGED <<PC, world, post, cancelled>>

\* A poll, or the answer to it, is lost.
PollFails(p) ==
    /\ ~Reachable /\ polls' = [polls EXCEPT ![p] = Free]
    /\ failed' = IF failed < 2 THEN failed + 1 ELSE failed
    /\ \/ failed' < 2 /\ UNCHANGED <<shown, badge>>
       \/ failed' = 2 /\ fired \in PoweringOff /\ badge' = "offline" /\ shown' = None
       \/ failed' = 2 /\ fired \notin PoweringOff /\ badge' = "unreachable" /\ UNCHANGED shown
    /\ UNCHANGED <<PC, world, post, fired, history>>

\* The page's own clock takes the countdown to zero.
CountdownEnds ==
    /\ shown # None /\ shown.id \in passed
    /\ Rendered(shown, TRUE, fired)
    /\ UNCHANGED <<PC, world, polls, post, shown, failed, badge, heard, cancelled>>

-----------------------------------------------------------------------------
\* The page's own requests.  The time picked in the dialog is not told apart.
Confirm(a) ==
    /\ post = None /\ post' = [kind |-> "schedule", action |-> a]
    /\ UNCHANGED <<PC, world, polls, page, history>>

PressAbort ==
    /\ post = None /\ shown # None /\ post' = [kind |-> "abort", id |-> shown.id]
    /\ UNCHANGED <<PC, world, polls, page, history>>

HandleAction ==
    /\ Reachable /\ post # None /\ post.kind = "schedule"
    /\ \/ Accepts(post.action) /\ post' = [kind |-> "scheduled", pending |-> server'.pending]
       \/ server.state # "idle" /\ post' = [kind |-> "refused"] /\ UNCHANGED <<server, lastId>>
    /\ UNCHANGED <<power, world, polls, page, history>>

\* Slip: whatever is pending is cancelled.
HandleAbort_Anything ==
    /\ Reachable /\ post # None /\ post.kind = "abort" /\ server.state = "pending"
    /\ server' = Idle /\ post' = [kind |-> "aborted"]
    /\ cancelled' = cancelled \cup {<<post.id, PendingId>>}
    /\ UNCHANGED <<power, lastId, world, polls, page, heard, ranOut>>

HandleAbort ==
    /\ Reachable /\ post # None /\ post.kind = "abort"
    /\ \/ /\ PendingId = post.id
          /\ server' = Idle /\ post' = [kind |-> "aborted"]
          /\ cancelled' = cancelled \cup {<<post.id, PendingId>>}
       \/ /\ PendingId # post.id
          /\ post' = [kind |-> "refused"] /\ UNCHANGED <<server, cancelled>>
    /\ UNCHANGED <<power, lastId, world, polls, page, heard, ranOut>>

\* Slip: the status of the answer is not looked at, and a refusal's body becomes
\* the action the page shows.
PostAnswered_NotChecked ==
    /\ post # None /\ post' = None
    /\ \/ /\ post.kind = "scheduled"
          /\ shown' = post.pending /\ fired' = None /\ heard' = "pending"
       \/ /\ post.kind = "aborted"
          /\ shown' = None /\ fired' = None /\ heard' = "idle"
       \/ /\ post.kind = "refused"
          /\ shown' = post /\ fired' = None /\ heard' = "pending"
    /\ UNCHANGED <<PC, world, polls, failed, badge, ranOut, cancelled>>

\* A success replaces what the page shows, a refusal only shows its message.
PostAnswered ==
    /\ post # None /\ post' = None
    /\ \/ /\ post.kind = "scheduled"
          /\ shown' = post.pending /\ fired' = None /\ heard' = "pending"
       \/ /\ post.kind = "aborted"
          /\ shown' = None /\ fired' = None /\ heard' = "idle"
       \/ post.kind = "refused" /\ UNCHANGED <<shown, fired, heard>>
    /\ UNCHANGED <<PC, world, polls, failed, badge, ranOut, cancelled>>

\* The request or its answer is lost: the page shows a message.
PostFails ==
    /\ ~Reachable /\ post # None /\ post' = None
    /\ UNCHANGED <<PC, world, polls, page, history>>

Next ==
    \/ \E a \in Actions : ScheduleElsewhere(a) \/ Confirm(a)
    \/ AbortElsewhere \/ Tick \/ Suspends \/ ExecuteReturns \/ PowersOff
    \/ \E i \in Ids : DeadlinePasses(i)
    \/ NetworkFails \/ NetworkReturns
    \/ \E p \in Polls : AnswerPoll(p) \/ ApplyStatus(p) \/ PollFails(p)
    \/ CountdownEnds \/ PressAbort \/ HandleAction \/ HandleAbort \/ PostAnswered \/ PostFails

Spec == Init /\ [][Next]_vars

\* setInterval keeps polling, and every fetch is answered or rejected in the end.
Fairness ==
    /\ \A p \in Polls : /\ WF_vars(AnswerPoll(p))
                        /\ WF_vars(ApplyStatus(p)) /\ WF_vars(PollFails(p))
    /\ WF_vars(HandleAction) /\ WF_vars(HandleAbort) /\ WF_vars(PostAnswered) /\ WF_vars(PostFails)
FairSpec == Spec /\ Fairness

-----------------------------------------------------------------------------
\* An abort pressed on this page cancels the action that was on the page, and
\* never one another device has put in its place since.
AbortCancelsWhatWasShown == \A c \in cancelled : c[1] = c[2]

\* The page never comes to say "PC is offline" when the last it heard was that
\* nothing is pending or executing any more - aborted here or elsewhere, or over.
OfflineOnlyIfUnderWay ==
    [][badge' # badge /\ badge' = "offline" => heard # "idle"]_vars

\* Whatever order the answers come in, the page comes to show what the server
\* has pending and that it is online, or, if that is how it ends, that it is not.
PageCatchesUp ==
    <>[](IF Reachable THEN badge = "online" /\ shown = Status.pending ELSE badge # "online")

(***************************************************************************)
(* "After a shutdown fires, the page shows 'PC is offline' rather than a   *)
(* connection error": with the PC off, the countdown run out on the page   *)
(* and gone from it, the badge does not turn to "Cannot reach PC".  It does*)
(* if one poll is answered between the return of shutdown.exe, which leaves*)
(* the manager idle, and the moment Windows is down.                       *)
(***************************************************************************)
ShutdownIsConfirmed ==
    [][power = "off" /\ lastId \in ranOut /\ shown = None /\ badge' # badge
          => badge' # "unreachable"]_vars
=============================================================================
