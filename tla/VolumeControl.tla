----------------------------- MODULE VolumeControl -----------------------------
(***************************************************************************)
(* A volume request from the browser to the device: handleVolumeSet of     *)
(* src/internal/web/volume_handlers.go reads the state with one helper     *)
(* process, merges the request into it (Apply) and hands the result to a   *)
(* second helper, which walks the device to it one step at a time (the     *)
(* volume package, helper_windows.go), sets the mute flag and reads the    *)
(* outcome back.  Nothing serialises two requests, nor a request and the   *)
(* person at the PC.                                                       *)
(***************************************************************************)
EXTENDS VolumeSteps

CONSTANTS
    Clients,
    Settings    \* bound: the situations to look at, one of which Init picks

(***************************************************************************)
(* A situation: the browsers that use the volume, how many steps the       *)
(* device has, the levels they ask for (out of range ones included), and   *)
(* how often somebody at the PC presses a volume key.                      *)
(***************************************************************************)
ASSUME VolumeAssumption == \A s \in Settings :
    /\ s.browsers \subseteq Clients /\ s.stepCount \in 1..MaxPlausibleSteps
    /\ s.levels \subseteq Int /\ s.touches \in Nat

VARIABLES
    setting,  \* the situation, which never changes
    step, muted,   \* the default playback device
    pc,       \* per client: where its request is
    req,      \* per client: what it asks for
    want,     \* per client: the state the second helper was given
    at,       \* per client: the step that helper believes the device is at
    calls,    \* per client: VolumeStepUp/Down calls made by it
    touches,  \* volume keys pressed so far
    before    \* history: the device when the request came, Nothing once anybody
              \* else has been at the volume

stepCount == setting.stepCount
device == <<setting, step, muted>>
vars == <<device, pc, req, want, at, calls, touches, before>>

Request == [level : setting.levels \cup {Nothing}, muted : BOOLEAN \cup {Nothing}]
Phases  == {"idle", "get", "start", "walk", "mute", "reread",
            "done", "failed", "unavailable"}

\* readState, in the helper.
ReadState == [level |-> LevelFromStep(step, stepCount), muted |-> muted]

\* A state on its way out of a helper (EncodeResult, DecodeResult) and into one
\* (FormatHelperArgs, ParseHelperArgs): whole percent, clamped.
Decoded(s) == [s EXCEPT !.level = Clamp(@)]
Parsed(s)  == [s EXCEPT !.level = Clamp(@)]

TypeOK ==
    /\ setting \in Settings /\ step \in 0..(stepCount - 1) /\ muted \in BOOLEAN
    /\ pc \in [Clients -> Phases]
    /\ req \in [Clients -> Request] /\ want \in [Clients -> State]
    /\ at \in [Clients -> 0..(stepCount - 1)] /\ calls \in [Clients -> Nat]
    /\ touches \in 0..setting.touches
    /\ before \in [Clients -> [step : 0..(stepCount - 1), muted : BOOLEAN] \cup {Nothing}]

Init ==
    /\ setting \in Settings /\ step \in 0..(stepCount - 1) /\ muted \in BOOLEAN
    /\ pc = [c \in Clients |-> "idle"]
    /\ req = [c \in Clients |-> NoRequest]
    /\ want = [c \in Clients |-> [level |-> MinLevel, muted |-> FALSE]]
    /\ at = [c \in Clients |-> 0] /\ calls = at
    /\ touches = 0
    /\ before = [c \in Clients |-> Nothing]

Goto(c, phase) == pc' = [pc EXCEPT ![c] = phase]

-----------------------------------------------------------------------------
\* handleVolumeSet up to the first helper; a request with neither field is refused.
Ask(c) ==
    /\ pc[c] = "idle" /\ c \in setting.browsers
    /\ \E r \in Request :
          /\ r # NoRequest
          /\ req' = [req EXCEPT ![c] = r]
    /\ Goto(c, "get")
    /\ before' = [d \in Clients |-> IF d = c /\ \A e \in Clients : pc[e] = "idle"
                                     THEN [step |-> step, muted |-> muted] ELSE Nothing]
    /\ UNCHANGED <<device, want, at, calls, touches>>

\* The first helper answers; Apply; the outcome goes to the second helper.
Get(c) ==
    /\ pc[c] = "get"
    /\ want' = [want EXCEPT ![c] = Parsed(Apply(Decoded(ReadState), req[c]))]
    /\ Goto(c, "start")
    /\ UNCHANGED <<device, req, at, calls, touches, before>>

\* Slip: writeState sets the mute flag before it walks.
StepInfo_MutesFirst(c) ==
    /\ pc[c] = "start"
    /\ at' = [at EXCEPT ![c] = step] /\ muted' = want[c].muted
    /\ calls' = [calls EXCEPT ![c] = 0]
    /\ Goto(c, "walk")
    /\ UNCHANGED <<setting, step, req, want, touches, before>>

\* The second helper: writeState reads where the device is, once.
StepInfo(c) ==
    /\ pc[c] = "start"
    /\ at' = [at EXCEPT ![c] = step]
    /\ calls' = [calls EXCEPT ![c] = 0]
    /\ Goto(c, "walk")
    /\ UNCHANGED <<device, req, want, touches, before>>

Target(c) == StepFromLevel(want[c].level, stepCount)

\* The device itself stays at its ends.
DeviceUp   == IF step < stepCount - 1 THEN step + 1 ELSE step
DeviceDown == IF step > 0 THEN step - 1 ELSE step

\* Slip: the helper keeps stepping until the device is where it should be.
Walk_Watching(c) ==
    /\ pc[c] = "walk" /\ step # Target(c)
    /\ step' = IF step < Target(c) THEN DeviceUp ELSE DeviceDown
    /\ calls' = [calls EXCEPT ![c] = @ + 1]
    /\ UNCHANGED <<setting, muted, pc, req, want, at, touches, before>>

\* Slip: the loop runs one step past its target.
Walk_OneTooFar(c) ==
    /\ pc[c] = "walk" /\ at[c] <= Target(c)
    /\ step' = DeviceUp /\ at' = [at EXCEPT ![c] = @ + 1]
    /\ calls' = [calls EXCEPT ![c] = @ + 1]
    /\ UNCHANGED <<setting, muted, pc, req, want, touches, before>>

\* One VolumeStepUp or VolumeStepDown: the helper counts, it does not look.
Walk(c) ==
    /\ pc[c] = "walk" /\ at[c] # Target(c)
    /\ \/ at[c] < Target(c) /\ step' = DeviceUp   /\ at' = [at EXCEPT ![c] = @ + 1]
       \/ at[c] > Target(c) /\ step' = DeviceDown /\ at' = [at EXCEPT ![c] = @ - 1]
    /\ calls' = [calls EXCEPT ![c] = @ + 1]
    /\ UNCHANGED <<setting, muted, pc, req, want, touches, before>>

Arrive(c) ==
    /\ pc[c] = "walk" /\ at[c] = Target(c)
    /\ Goto(c, "mute")
    /\ UNCHANGED <<device, req, want, at, calls, touches, before>>

SetMute(c) ==
    /\ pc[c] = "mute"
    /\ muted' = want[c].muted
    /\ Goto(c, "reread")
    /\ UNCHANGED <<setting, step, req, want, at, calls, touches, before>>

\* What the device settled on is read back for the answer.
Reread(c) ==
    /\ pc[c] = "reread"
    /\ Goto(c, "done")
    /\ UNCHANGED <<device, req, want, at, calls, touches, before>>

\* Nobody is signed in, so there is no session to start a helper in: the
\* answer is 503.
NoSession(c) ==
    /\ pc[c] \in {"get", "start"}
    /\ Goto(c, "unavailable")
    /\ UNCHANGED <<device, req, want, at, calls, touches, before>>

\* A helper that cannot start, finds no device, fails in COM, or is killed
\* after helperTimeout - wherever it then is: the answer is 500.
HelperFails(c) ==
    /\ pc[c] \in {"get", "start", "walk", "mute", "reread"}
    /\ Goto(c, "failed")
    /\ UNCHANGED <<device, req, want, at, calls, touches, before>>

\* Slip: an error path returns without writing an answer.
Answered_NotOnFailure(c) ==
    /\ pc[c] = "done" /\ Goto(c, "idle")
    /\ UNCHANGED <<device, req, want, at, calls, touches, before>>

Answered(c) ==
    /\ pc[c] \in {"done", "failed", "unavailable"}
    /\ Goto(c, "idle")
    /\ req' = [req EXCEPT ![c] = NoRequest]
    /\ want' = [want EXCEPT ![c] = [level |-> MinLevel, muted |-> FALSE]]
    /\ at' = [at EXCEPT ![c] = 0] /\ calls' = [calls EXCEPT ![c] = 0]
    /\ before' = [before EXCEPT ![c] = Nothing]
    /\ UNCHANGED <<device, touches>>

\* Somebody at the PC presses a volume key.
Touch ==
    /\ touches < setting.touches
    /\ touches' = touches + 1 /\ before' = [c \in Clients |-> Nothing]
    /\ \/ step' \in {DeviceUp, DeviceDown} /\ UNCHANGED muted
       \/ muted' = ~muted /\ UNCHANGED step
    /\ UNCHANGED <<setting, pc, req, want, at, calls>>

Serve(c) == Get(c) \/ StepInfo(c) \/ Walk(c) \/ Arrive(c) \/ SetMute(c) \/ Reread(c)
            \/ NoSession(c) \/ HelperFails(c) \/ Answered(c)

Next == (\E c \in Clients : Ask(c) \/ Serve(c)) \/ Touch

Spec == Init /\ [][Next]_vars

\* A helper runs, or is killed by its timeout; the handler then answers.
FairSpec == Spec /\ \A c \in Clients : WF_vars(Serve(c))

-----------------------------------------------------------------------------
\* A request that took, with no other request and nobody at the PC meanwhile.
Succeeded(c) == pc[c] = "done" /\ before[c] # Nothing

\* A request that only mutes or unmutes leaves the level where it was, to the
\* step, although the level travels to the helper and back as whole percent.
MutingKeepsTheStep ==
    \A c \in Clients : Succeeded(c) /\ req[c].level = Nothing => step = before[c].step

\* A request for a level puts the device on the step nearest to it, and no
\* other step of the device is nearer.
Distance(s, level) ==
    LET d == s * MaxLevel - level * (stepCount - 1) IN IF d < 0 THEN -d ELSE d
LandsOnNearestStep ==
    \A c \in Clients : Succeeded(c) /\ req[c].level # Nothing =>
        \A s \in 0..(stepCount - 1) :
            Distance(step, Clamp(req[c].level)) <= Distance(s, Clamp(req[c].level))

\* The device is between where the request found it and where it was to go, and
\* its mute flag was not touched before the whole way was gone.
OnTheWay(c) ==
    /\ \/ before[c].step <= step /\ step <= Target(c)
       \/ Target(c) <= step /\ step <= before[c].step
    /\ muted # before[c].muted => step = Target(c)

\* A request that fails, wherever its helper was killed, leaves the device on
\* the way: nearer to what was asked for or untouched, past neither end, and
\* never muted or unmuted short of the level that goes with it.  One answered
\* with "nobody is signed in" has changed nothing, also when the user signed
\* out between its two helpers: the page may go back to what it showed.
FailureLeavesOnTheWay ==
    \A c \in Clients : before[c] # Nothing =>
        /\ pc[c] = "failed" => OnTheWay(c)
        /\ pc[c] = "unavailable" => step = before[c].step /\ muted = before[c].muted

\* However many requests and hands are on the volume at once, a helper makes
\* no more calls than the device has steps: it walks a distance it has fixed
\* beforehand and cannot be kept walking by the others.
WalkIsBounded == \A c \in Clients : calls[c] <= stepCount - 1

\* Every request is answered.
EveryRequestAnswered == \A c \in Clients : pc[c] = "get" ~> pc[c] = "idle"
=============================================================================
