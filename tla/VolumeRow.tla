------------------------------- MODULE VolumeRow -------------------------------
(***************************************************************************)
(* The volume row of the dashboard, from src/internal/web/static/app.js:   *)
(* what the page shows of the PC's volume, the loads it sends while the    *)
(* row is disabled (one at a time and not forever), the changes it sends   *)
(* when the row is used, and the status polls that tell it whether anybody *)
(* is signed in at the PC.  Requests are handled, and their answers taken  *)
(* in, in any order.                                                       *)
(*                                                                         *)
(* A request to the server is one step here; VolumeControl has what        *)
(* happens inside it.                                                      *)
(***************************************************************************)
EXTENDS VolumeSteps, FiniteSets

CONSTANTS
    StepCount,    \* of the PC's playback device
    AskedLevels,  \* levels the slider may be dragged to
    Calls,        \* bound: volume requests in flight at once
    Polls,        \* bound: status polls in flight at once
    MaxFaults     \* bound: requests that fail for want of a device or a network

ASSUME RowAssumption ==
    /\ StepCount \in 1..MaxPlausibleSteps
    /\ AskedLevels \subseteq MinLevel..MaxLevel
    /\ Calls # {} /\ MaxFaults \in Nat

VARIABLES
    device,    \* the level and mute flag of the PC
    console,   \* who is at the PC's console
    faults,    \* requests that have failed so far
    open,      \* the page is open, not gone to /login
    shown,     \* state.volume
    slider,    \* where the slider stands
    loading, failures,   \* volumeLoading, volumeFailures
    calls,     \* volume requests in flight, each with its answer once it has one
    polls,     \* status polls in flight, likewise
    lone       \* history: the last request to reach the device was the only one
               \* in flight, and nobody has changed the device since

world == <<device, console, faults>>
page  == <<open, shown, slider, loading, failures>>
vars  == <<world, page, calls, polls, lone>>

maxVolumeFailures == 3

\* Nobody attached to the console; a session attached with no user's token to
\* start a helper with, as on the sign-in screen; a user signed in.
Consoles == {"none", "attached", "signedIn"}

Load == NoRequest
Request == [level : AskedLevels, muted : {Nothing}] \cup [level : {Nothing}, muted : BOOLEAN]

\* A volume request is on its way, or answered: with a state, with a 503 or 500
\* (or by the network failing), or with a 401.  A poll likewise.
Statuses  == {"none", "ok", "failed", "signedOut"}
Call      == [asks : Request \cup {Load}, status : Statuses, got : State \cup {Nothing}]
PollPhase == {"free", "asked", "available", "unavailable", "signedOut"}

ASSUME NilAssumption ==
    Nothing \notin Call /\ Nothing \notin State /\ Load \notin Request

\* What the device settles on, and what its helper then reads back.
Settled(s) == [s EXCEPT !.level = LevelFromStep(StepFromLevel(@, StepCount), StepCount)]
Devices == {Settled(s) : s \in [level : {MinLevel, MaxLevel}, muted : BOOLEAN]}

TypeOK ==
    /\ device \in State /\ device = Settled(device)
    /\ console \in Consoles /\ faults \in 0..MaxFaults
    /\ open \in BOOLEAN /\ shown \in State \cup {Nothing} /\ slider \in MinLevel..MaxLevel
    /\ loading \in BOOLEAN /\ failures \in 0..maxVolumeFailures
    /\ calls \in [Calls -> Call \cup {Nothing}]
    /\ polls \in [Polls -> PollPhase]
    /\ lone \in BOOLEAN

InFlight == {c \in Calls : calls[c] # Nothing}
FreeCall == CHOOSE c \in Calls : calls[c] = Nothing
CanCall  == InFlight # Calls

\* setVolumeEnabled(false) clears state.volume, and (true) follows its assignment.
Enabled == shown # Nothing

Disable == shown' = Nothing /\ slider' = 0

\* sendVolume or loadVolume up to its await.
Sent(asks) == [calls EXCEPT ![FreeCall] = [asks |-> asks, status |-> "none", got |-> Nothing]]
StillLone == lone' = (lone /\ InFlight = {})

Init ==
    /\ device \in Devices
    /\ console \in Consoles /\ faults = 0
    /\ open = FALSE /\ shown = Nothing /\ slider = 0
    /\ loading = FALSE /\ failures = 0
    /\ calls = [c \in Calls |-> Nothing] /\ polls = [p \in Polls |-> "free"]
    /\ lone = FALSE

-----------------------------------------------------------------------------
\* The page opens: the row is disabled in the template, and the script ends
\* with a load.
Open ==
    /\ ~open /\ open' = TRUE
    /\ shown' = Nothing /\ slider' = 0 /\ failures' = 0
    /\ loading' = TRUE /\ calls' = Sent(Load)
    /\ StillLone
    /\ UNCHANGED <<world, polls>>

\* Off to /login; answers still on their way find no page.
Leave ==
    /\ open' = FALSE /\ shown' = Nothing /\ slider' = 0
    /\ loading' = FALSE /\ failures' = 0
    /\ calls' = [c \in Calls |-> Nothing] /\ polls' = [p \in Polls |-> "free"]
    /\ lone' = FALSE

Send(asks) ==
    /\ open /\ Enabled /\ CanCall
    /\ calls' = Sent(asks) /\ StillLone
    /\ UNCHANGED <<world, open, shown, loading, failures, polls>>

DragSlider == \E l \in AskedLevels : slider' = l /\ Send([level |-> l, muted |-> Nothing])
ClickMute  == UNCHANGED slider /\ Send([level |-> Nothing, muted |-> ~shown.muted])

-----------------------------------------------------------------------------
\* handleVolumeGet, handleVolumeSet: the device takes the change, if it is one,
\* and the answer is what it settled on.
Handle(c) ==
    /\ c \in InFlight /\ calls[c].status = "none" /\ console = "signedIn"
    /\ device' = Settled(Apply(device, calls[c].asks))
    /\ calls' = [calls EXCEPT ![c] = [@ EXCEPT !.status = "ok", !.got = device']]
    /\ lone' = (InFlight = {c})
    /\ UNCHANGED <<console, faults, page, polls>>

Answer(c, status) ==
    /\ c \in InFlight /\ calls[c].status = "none"
    /\ calls' = [calls EXCEPT ![c].status = status]
    /\ UNCHANGED <<console, page, polls>>

\* 503: there is no user to start a helper as.
HandleNoSession(c) ==
    /\ console # "signedIn"
    /\ Answer(c, "failed")
    /\ UNCHANGED <<device, faults, lone>>

\* 500: a helper fails, before its change or after it.
HandleFails(c) ==
    /\ console = "signedIn" /\ faults < MaxFaults /\ faults' = faults + 1
    /\ Answer(c, "failed")
    /\ \/ UNCHANGED <<device, lone>>
       \/ device' = Settled(Apply(device, calls[c].asks)) /\ lone' = FALSE

\* 401: the login has run out.
HandleSignedOut(c) ==
    /\ Answer(c, "signedOut")
    /\ UNCHANGED <<device, faults, lone>>

\* The network loses a request or its answer.
Lose(c) ==
    /\ c \in InFlight /\ calls[c].status # "failed"
    /\ faults < MaxFaults /\ faults' = faults + 1
    /\ calls' = [calls EXCEPT ![c] = [@ EXCEPT !.status = "failed", !.got = Nothing]]
    /\ lone' = FALSE
    /\ UNCHANGED <<device, console, page, polls>>

-----------------------------------------------------------------------------
Answered(c) == c \in InFlight /\ calls[c].status # "none"
Taken(c) == calls' = [calls EXCEPT ![c] = Nothing]

\* Slip: a load that failed leaves volumeLoading set.
TakeLoad_NoFinally(c) ==
    /\ Answered(c) /\ calls[c].asks = Load /\ calls[c].status # "signedOut" /\ Taken(c)
    /\ IF calls[c].status = "failed"
         THEN Disable /\ failures' = failures + 1 /\ UNCHANGED loading
         ELSE shown' = calls[c].got /\ slider' = shown'.level /\ failures' = 0
              /\ loading' = FALSE
    /\ UNCHANGED <<world, open, polls, lone>>

\* loadVolume after its await.
TakeLoad(c) ==
    /\ Answered(c) /\ calls[c].asks = Load /\ calls[c].status # "signedOut" /\ Taken(c)
    /\ loading' = FALSE
    /\ IF calls[c].status = "failed"
         THEN Disable /\ failures' = failures + 1
         ELSE shown' = calls[c].got /\ slider' = shown'.level /\ failures' = 0
    /\ UNCHANGED <<world, open, polls, lone>>

\* Slip: a change that failed leaves the slider where it was dragged to.
TakeSend_NoRender(c) ==
    /\ Answered(c) /\ calls[c].asks # Load /\ calls[c].status # "signedOut" /\ Taken(c)
    /\ IF calls[c].status = "failed"
         THEN UNCHANGED <<shown, failures, slider>>
         ELSE shown' = calls[c].got /\ failures' = 0 /\ slider' = shown'.level
    /\ UNCHANGED <<world, open, loading, polls, lone>>

\* sendVolume after its await: either way the controls are rendered again.
TakeSend(c) ==
    /\ Answered(c) /\ calls[c].asks # Load /\ calls[c].status # "signedOut" /\ Taken(c)
    /\ IF calls[c].status = "failed"
         THEN UNCHANGED <<shown, failures>>
         ELSE shown' = calls[c].got /\ failures' = 0
    /\ slider' = IF shown' = Nothing THEN 0 ELSE shown'.level
    /\ UNCHANGED <<world, open, loading, polls, lone>>

TakeSignedOut(c) ==
    /\ Answered(c) /\ calls[c].status = "signedOut"
    /\ Leave /\ UNCHANGED world

-----------------------------------------------------------------------------
\* setInterval(poll, 3000).
Poll(p) ==
    /\ open /\ polls[p] = "free"
    /\ polls' = [polls EXCEPT ![p] = "asked"]
    /\ UNCHANGED <<world, page, calls, lone>>

\* handleStatus: audioAvailable is Available, which asks for a session and not
\* for a user; or a 401.
HandlePoll(p) ==
    /\ polls[p] = "asked"
    /\ polls' = [polls EXCEPT ![p] = IF console = "none" THEN "unavailable" ELSE "available"]
    /\ UNCHANGED <<world, page, calls, lone>>

HandlePollSignedOut(p) ==
    /\ polls[p] = "asked"
    /\ polls' = [polls EXCEPT ![p] = "signedOut"]
    /\ UNCHANGED <<world, page, calls, lone>>

\* A poll that finds no PC changes nothing of the row.
LosePoll(p) ==
    /\ polls[p] # "free"
    /\ faults < MaxFaults /\ faults' = faults + 1
    /\ polls' = [polls EXCEPT ![p] = "free"]
    /\ UNCHANGED <<device, console, page, calls, lone>>

\* Slip: loadVolume does not look at volumeLoading.
LoadVolume_Doubled ==
    /\ loading' = TRUE /\ calls' = Sent(Load) /\ StillLone

LoadVolume ==
    IF loading THEN UNCHANGED <<loading, calls, lone>>
    ELSE loading' = TRUE /\ calls' = Sent(Load) /\ StillLone

\* Slip: one attempt more than there are.
TakeAvailable_OneMore(p) ==
    /\ polls[p] = "available" /\ polls' = [polls EXCEPT ![p] = "free"]
    /\ IF ~Enabled /\ failures <= maxVolumeFailures
         THEN CanCall /\ LoadVolume
         ELSE UNCHANGED <<loading, calls, lone>>
    /\ UNCHANGED <<world, open, shown, slider, failures>>

\* applyStatus, as far as the row goes.
TakeAvailable(p) ==
    /\ polls[p] = "available" /\ polls' = [polls EXCEPT ![p] = "free"]
    /\ IF ~Enabled /\ failures < maxVolumeFailures
         THEN CanCall /\ LoadVolume
         ELSE UNCHANGED <<loading, calls, lone>>
    /\ UNCHANGED <<world, open, shown, slider, failures>>

\* Slip: the row is left as it is.
TakeUnavailable_StaysEnabled(p) ==
    /\ polls[p] = "unavailable" /\ polls' = [polls EXCEPT ![p] = "free"]
    /\ failures' = 0
    /\ UNCHANGED <<world, open, shown, slider, loading, calls, lone>>

TakeUnavailable(p) ==
    /\ polls[p] = "unavailable" /\ polls' = [polls EXCEPT ![p] = "free"]
    /\ failures' = 0
    /\ IF Enabled THEN Disable ELSE UNCHANGED <<shown, slider>>
    /\ UNCHANGED <<world, open, loading, calls, lone>>

TakePollSignedOut(p) ==
    /\ polls[p] = "signedOut"
    /\ Leave /\ UNCHANGED world

-----------------------------------------------------------------------------
\* Somebody signs in or out at the PC.
ConsoleChanges ==
    /\ console' \in Consoles \ {console}
    /\ UNCHANGED <<device, faults, page, calls, polls, lone>>

\* Somebody else changes the volume: at the PC, from another browser, or by a
\* request this page left behind.
ChangedElsewhere ==
    /\ device' \in Devices \ {device} /\ lone' = FALSE
    /\ UNCHANGED <<console, faults, page, calls, polls>>

HandleCall(c) == Handle(c) \/ HandleNoSession(c) \/ HandleFails(c) \/ HandleSignedOut(c)
TakeCall(c)   == TakeLoad(c) \/ TakeSend(c) \/ TakeSignedOut(c)
AnswerPoll(p) == HandlePoll(p) \/ HandlePollSignedOut(p)
TakePoll(p)   == TakeAvailable(p) \/ TakeUnavailable(p) \/ TakePollSignedOut(p)

Next ==
    \/ Open \/ DragSlider \/ ClickMute
    \/ \E c \in Calls : HandleCall(c) \/ Lose(c) \/ TakeCall(c)
    \/ \E p \in Polls : Poll(p) \/ AnswerPoll(p) \/ LosePoll(p) \/ TakePoll(p)
    \/ ConsoleChanges \/ ChangedElsewhere

Spec == Init /\ [][Next]_vars

\* The timer polls, the server answers, and the browser takes answers in.
Fairness ==
    /\ \A c \in Calls : WF_vars(HandleCall(c)) /\ WF_vars(TakeCall(c))
    /\ \A p \in Polls : WF_vars(Poll(p)) /\ WF_vars(AnswerPoll(p)) /\ WF_vars(TakePoll(p))

FairSpec == Spec /\ Fairness

-----------------------------------------------------------------------------
(***************************************************************************)
(* Properties.                                                             *)
(***************************************************************************)

\* Loads that have failed since one last worked (or nobody was signed in), with
\* the one on its way, are never more than maxVolumeFailures, however many polls
\* say that the row may be tried again: every load is a process on the PC.
Loads == {c \in InFlight : calls[c].asks = Load}
RetriesAreBounded == failures + Cardinality(Loads) <= maxVolumeFailures

\* With no request in flight the row shows what the PC has - the slider too,
\* which a drag moves before any answer - unless requests have overlapped, one
\* has failed after its change, or somebody else has been at the volume, since
\* the page last asked on its own.
ShowsTheDevice ==
    Enabled /\ InFlight = {} /\ lone => shown = device /\ slider = device.level

\* While nobody is attached to the PC's console the row ends up disabled and
\* stays so, whatever loads and changes were still on their way.
DisabledWithNobody == <>[](open /\ console = "none") => <>[](~Enabled)

\* A disabled row of a page that stays open, with somebody signed in, comes back
\* or has used up its attempts: no load or failure leaves it waiting forever.
CanWork == open /\ console = "signedIn"
ComesBackOrGivesUp ==
    (CanWork /\ ~Enabled) ~> (Enabled \/ failures = maxVolumeFailures \/ ~CanWork)

\* README.md:141-143: the controls "re-enable on the next poll once someone
\* signs in".
SigningInReEnables == (CanWork /\ ~Enabled) ~> (Enabled \/ ~CanWork)
=============================================================================
