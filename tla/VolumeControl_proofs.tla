------------------------- MODULE VolumeControl_proofs -------------------------
(***************************************************************************)
(* Theorems of VolumeControl: for every device, every number of browsers   *)
(* and everything they may ask for.                                        *)
(***************************************************************************)
EXTENDS VolumeControl, VolumeSteps_proofs, TLAPS

-----------------------------------------------------------------------------
(* Type correctness. *)

\* What a request is turned into for the second helper: the level it asks for,
\* or the one the device is at, and a mute flag.
WantedLevel(r, s) == IF r.level = Nothing THEN LevelFromStep(s, stepCount) ELSE Clamp(r.level)
Wanted(r) == Parsed(Apply(Decoded(ReadState), r))

LEMMA StepCountType == TypeOK => stepCount \in 1..MaxPlausibleSteps
BY VolumeAssumption DEF TypeOK, stepCount

LEMMA WantedIs ==
    ASSUME TypeOK, NEW c \in Clients
    PROVE  Wanted(req[c]) \in State /\ Wanted(req[c]).level = WantedLevel(req[c], step)
<1> DEFINE r == req[c]
           l == LevelFromStep(step, stepCount)
<1>1. l \in MinLevel..MaxLevel /\ Clamp(l) = l
  <2>1. stepCount \in 1..MaxPlausibleSteps /\ step \in 0..(stepCount - 1)
    BY StepCountType DEF TypeOK
  <2>2. l \in MinLevel..MaxLevel
    BY <2>1, LevelRange
  <2> QED
    BY <2>2, ClampRange DEF MinLevel, MaxLevel
<1>2. r \in Request /\ setting.levels \subseteq Int
  BY VolumeAssumption DEF TypeOK
<1>3. r.level # Nothing =>
        Clamp(r.level) \in MinLevel..MaxLevel /\ Clamp(Clamp(r.level)) = Clamp(r.level)
  <2> SUFFICES ASSUME r.level # Nothing
               PROVE  Clamp(r.level) \in MinLevel..MaxLevel /\ Clamp(Clamp(r.level)) = Clamp(r.level)
    OBVIOUS
  <2>1. r.level \in Int
    BY <1>2 DEF Request
  <2>2. Clamp(r.level) \in MinLevel..MaxLevel
    BY <2>1, ClampRange
  <2> QED
    BY <2>2, ClampRange DEF MinLevel, MaxLevel
<1>4. Decoded(ReadState).level = l /\ Decoded(ReadState).muted = muted
  BY <1>1 DEF Decoded, ReadState
<1> DEFINE a == Apply(Decoded(ReadState), r)
<1>5. a.level = WantedLevel(r, step) /\ a.level \in MinLevel..MaxLevel /\ a.muted \in BOOLEAN
  BY <1>1, <1>2, <1>3, <1>4 DEF Apply, WantedLevel, Request, TypeOK
<1>6. a = [level |-> a.level, muted |-> a.muted]
  BY DEF Apply
<1>7. Clamp(a.level) = a.level
  BY <1>1, <1>3, <1>5 DEF WantedLevel
<1> HIDE DEF a
<1>8. a \in State
  BY <1>5, <1>6 DEF State
<1>9. Parsed(a) \in State /\ Parsed(a).level = a.level
  BY <1>7, <1>8 DEF Parsed, State
<1> QED
  BY <1>5, <1>9 DEF Wanted, a

LEMMA TargetRange ==
    ASSUME TypeOK, NEW c \in Clients
    PROVE  Target(c) \in 0..(stepCount - 1)
<1>1. stepCount \in 1..MaxPlausibleSteps /\ want[c].level \in Int
  BY StepCountType DEF TypeOK, State, MinLevel, MaxLevel
<1> QED
  BY <1>1, StepRange DEF Target

LEMMA TypeInit == Init => TypeOK
<1> SUFFICES ASSUME Init PROVE TypeOK
  OBVIOUS
<1>1. stepCount \in 1..MaxPlausibleSteps /\ setting.touches \in Nat
  BY VolumeAssumption DEF Init, stepCount
<1>2. 0 \in 0..(stepCount - 1) /\ 0 \in 0..setting.touches
  BY <1>1 DEF MaxPlausibleSteps
<1>3. NoRequest \in Request /\ [level |-> MinLevel, muted |-> FALSE] \in State
  BY DEF NoRequest, Request, State, MinLevel, MaxLevel
<1> QED
  BY <1>1, <1>2, <1>3 DEF Init, TypeOK, Phases

LEMMA TypeStep == TypeOK /\ [Next]_vars => TypeOK'
<1> SUFFICES ASSUME TypeOK, [Next]_vars PROVE TypeOK'
  OBVIOUS
<1>0. stepCount \in 1..MaxPlausibleSteps /\ stepCount' = stepCount /\ setting' = setting
  BY StepCountType
  DEF Next, Ask, Serve, Get, StepInfo, Walk, Arrive, SetMute, Reread, NoSession, HelperFails,
      Answered, Touch, device, vars, stepCount
<1>1. Request' = Request
  BY <1>0 DEF Request
<1>2. step \in 0..(stepCount - 1) /\ DeviceUp \in 0..(stepCount - 1) /\ DeviceDown \in 0..(stepCount - 1)
  BY <1>0 DEF TypeOK, DeviceUp, DeviceDown, MaxPlausibleSteps
<1> USE <1>0, <1>1, <1>2 DEF TypeOK, Phases, Goto, device
<1>3. ASSUME NEW c \in Clients, Ask(c) PROVE TypeOK'
  BY <1>3 DEF Ask
<1>4. ASSUME NEW c \in Clients, Get(c) PROVE TypeOK'
  <2>1. Wanted(req[c]) \in State
    BY WantedIs
  <2> QED
    BY <1>4, <2>1 DEF Get, Wanted
<1>5. ASSUME NEW c \in Clients, StepInfo(c) PROVE TypeOK'
  BY <1>5 DEF StepInfo
<1>6. ASSUME NEW c \in Clients, Walk(c) PROVE TypeOK'
  <2>1. Target(c) \in 0..(stepCount - 1)
    BY TargetRange
  <2>2. /\ at' \in [Clients -> 0..(stepCount - 1)] /\ calls' \in [Clients -> Nat]
        /\ step' \in 0..(stepCount - 1)
    <3> HIDE DEF MaxPlausibleSteps
    <3>1. at[c] \in 0..(stepCount - 1) /\ calls[c] + 1 \in Nat
      OBVIOUS
    <3>2. CASE at[c] < Target(c) /\ step' = DeviceUp /\ at' = [at EXCEPT ![c] = @ + 1]
      <4>1. at[c] + 1 \in 0..(stepCount - 1)
        BY <2>1, <3>1, <3>2 DEF MaxPlausibleSteps
      <4> QED
        BY <1>6, <3>1, <3>2, <4>1 DEF Walk
    <3>3. CASE at[c] > Target(c) /\ step' = DeviceDown /\ at' = [at EXCEPT ![c] = @ - 1]
      <4>1. at[c] - 1 \in 0..(stepCount - 1)
        BY <2>1, <3>1, <3>3 DEF MaxPlausibleSteps
      <4> QED
        BY <1>6, <3>1, <3>3, <4>1 DEF Walk
    <3> QED
      BY <1>6, <3>2, <3>3 DEF Walk
  <2> QED
    BY <1>6, <2>2 DEF Walk
<1>7. ASSUME NEW c \in Clients, Arrive(c) \/ Reread(c) \/ NoSession(c) \/ HelperFails(c)
      PROVE  TypeOK'
  BY <1>7 DEF Arrive, Reread, NoSession, HelperFails
<1>8. ASSUME NEW c \in Clients, SetMute(c) PROVE TypeOK'
  <2>1. want[c].muted \in BOOLEAN
    BY DEF State
  <2> QED
    BY <1>8, <2>1 DEF SetMute
<1>9. ASSUME NEW c \in Clients, Answered(c) PROVE TypeOK'
  <2>1. 0 \in 0..(stepCount - 1)
    BY DEF MaxPlausibleSteps
  <2>2. NoRequest \in Request /\ [level |-> MinLevel, muted |-> FALSE] \in State
    BY DEF NoRequest, Request, State, MinLevel, MaxLevel
  <2> QED
    BY <1>9, <2>1, <2>2 DEF Answered
<1>10. CASE Touch
  <2>1. touches' \in 0..setting.touches
    BY <1>10, VolumeAssumption DEF Touch
  <2>2. before' \in [Clients -> [step : 0..(stepCount - 1), muted : BOOLEAN] \cup {Nothing}]
    BY <1>10 DEF Touch
  <2>3. step' \in 0..(stepCount - 1) /\ muted' \in BOOLEAN
    BY <1>10 DEF Touch
  <2> QED
    BY <1>10, <2>1, <2>2, <2>3 DEF Touch
<1>11. CASE UNCHANGED vars
  BY <1>11 DEF vars
<1> QED
  BY <1>3, <1>4, <1>5, <1>6, <1>7, <1>8, <1>9, <1>10, <1>11 DEF Next, Serve

\* Device, requests and helpers keep their types: the device never leaves its
\* own range, whatever is asked for.
THEOREM TypeCorrect == Spec => []TypeOK
<1> QED
  BY TypeInit, TypeStep, PTL DEF Spec

-----------------------------------------------------------------------------
(* The walk is bounded, however many others are at the volume. *)

Gap(c) == IF at[c] < Target(c) THEN Target(c) - at[c] ELSE at[c] - Target(c)

\* What a helper has walked and what it has still to walk is no more than the
\* device has steps between its ends.
WalkInv(c) ==
    /\ calls[c] <= stepCount - 1
    /\ pc[c] = "walk" => calls[c] + Gap(c) <= stepCount - 1

BoundInv == TypeOK /\ \A c \in Clients : WalkInv(c)

\* The walk of another request, and everything but a step of its own, leaves a
\* helper's count and target alone.
LEMMA BoundKept ==
    ASSUME BoundInv, TypeOK', setting' = setting, NEW c \in Clients,
           calls'[c] = calls[c], pc'[c] = "walk" => pc[c] = "walk",
           at'[c] = at[c], want'[c] = want[c]
    PROVE  WalkInv(c)'
BY DEF BoundInv, WalkInv, Gap, Target, stepCount

LEMMA BoundStep == BoundInv /\ [Next]_vars => BoundInv'
<1> SUFFICES ASSUME BoundInv, [Next]_vars PROVE BoundInv'
  OBVIOUS
<1>0. TypeOK /\ TypeOK' /\ stepCount \in 1..MaxPlausibleSteps
  BY TypeStep, StepCountType DEF BoundInv
<1> SUFFICES ASSUME NEW c \in Clients PROVE WalkInv(c)'
  BY <1>0 DEF BoundInv
<1> USE <1>0 DEF Goto, device
<1> DEFINE Same == /\ setting' = setting /\ calls'[c] = calls[c] /\ at'[c] = at[c]
                   /\ want'[c] = want[c] /\ (pc'[c] = "walk" => pc[c] = "walk")
<1>1. ASSUME NEW d \in Clients, Ask(d) PROVE WalkInv(c)'
  <2>1. Same
    BY <1>1 DEF Ask, TypeOK
  <2> QED
    BY <2>1, BoundKept
<1>2. ASSUME NEW d \in Clients, Get(d) PROVE WalkInv(c)'
  <2>1. CASE c = d
    <3>1. calls'[c] <= stepCount' - 1 /\ pc'[c] # "walk"
      BY <1>2, <2>1 DEF Get, TypeOK, BoundInv, WalkInv, stepCount
    <3> QED
      BY <3>1 DEF WalkInv
  <2>2. CASE c # d
    <3>1. Same
      BY <1>2, <2>2 DEF Get, TypeOK
    <3> QED
      BY <3>1, BoundKept
  <2> QED
    BY <2>1, <2>2
<1>3. ASSUME NEW d \in Clients, StepInfo(d) PROVE WalkInv(c)'
  <2>1. CASE c = d
    <3>1. Target(c) \in 0..(stepCount - 1) /\ step \in 0..(stepCount - 1)
      BY TargetRange DEF TypeOK
    <3>2. /\ at'[c] = step /\ calls'[c] = 0 /\ Target(c)' = Target(c)
          /\ stepCount' = stepCount
      BY <1>3, <2>1 DEF StepInfo, TypeOK, Target, stepCount
    <3> QED
      BY <3>1, <3>2 DEF WalkInv, Gap, MaxPlausibleSteps
  <2>2. CASE c # d
    <3>1. Same
      BY <1>3, <2>2 DEF StepInfo, TypeOK
    <3> QED
      BY <3>1, BoundKept
  <2> QED
    BY <2>1, <2>2
<1>4. ASSUME NEW d \in Clients, Walk(d) PROVE WalkInv(c)'
  <2>1. CASE c = d
    <3>1. /\ Target(c) \in 0..(stepCount - 1) /\ at[c] \in 0..(stepCount - 1)
          /\ calls[c] \in Nat /\ at[c] # Target(c) /\ calls[c] + Gap(c) <= stepCount - 1
      BY <1>4, <2>1, TargetRange DEF Walk, BoundInv, WalkInv, TypeOK
    <3>2. /\ Target(c)' = Target(c) /\ stepCount' = stepCount
          /\ calls'[c] = calls[c] + 1
          /\ \/ at[c] < Target(c) /\ at'[c] = at[c] + 1
             \/ at[c] > Target(c) /\ at'[c] = at[c] - 1
      BY <1>4, <2>1 DEF Walk, TypeOK, Target, stepCount
    <3>3. Gap(c)' = Gap(c) - 1 /\ Gap(c) \in Nat \ {0}
      BY <3>1, <3>2 DEF Gap, MaxPlausibleSteps
    <3>4. calls'[c] + Gap(c)' <= stepCount' - 1 /\ calls'[c] <= stepCount' - 1
      BY <3>1, <3>2, <3>3 DEF MaxPlausibleSteps
    <3> QED
      BY <3>4 DEF WalkInv
  <2>2. CASE c # d
    <3>1. Same
      BY <1>4, <2>2 DEF Walk, TypeOK
    <3> QED
      BY <3>1, BoundKept
  <2> QED
    BY <2>1, <2>2
<1>5. ASSUME NEW d \in Clients,
             Arrive(d) \/ SetMute(d) \/ Reread(d) \/ NoSession(d) \/ HelperFails(d)
      PROVE  WalkInv(c)'
  <2>1. Same
    BY <1>5 DEF Arrive, SetMute, Reread, NoSession, HelperFails, TypeOK
  <2> QED
    BY <2>1, BoundKept
<1>6. ASSUME NEW d \in Clients, Answered(d) PROVE WalkInv(c)'
  <2>1. CASE c = d
    <3>1. calls'[c] = 0 /\ pc'[c] = "idle" /\ stepCount' = stepCount
      BY <1>6, <2>1 DEF Answered, TypeOK, stepCount
    <3> QED
      BY <3>1 DEF WalkInv, MaxPlausibleSteps
  <2>2. CASE c # d
    <3>1. Same
      BY <1>6, <2>2 DEF Answered, TypeOK
    <3> QED
      BY <3>1, BoundKept
  <2> QED
    BY <2>1, <2>2
<1>7. CASE Touch \/ UNCHANGED vars
  <2>1. Same
    BY <1>7 DEF Touch, vars
  <2> QED
    BY <2>1, BoundKept
<1> QED
  BY <1>1, <1>2, <1>3, <1>4, <1>5, <1>6, <1>7 DEF Next, Serve

\* No helper makes more calls than its device has steps, whoever else moves the
\* volume meanwhile: it cannot be kept walking.
THEOREM WalkEnds == Spec => []WalkIsBounded
<1>1. Init => BoundInv
  <2> SUFFICES ASSUME Init PROVE BoundInv
    OBVIOUS
  <2>1. TypeOK /\ stepCount \in 1..MaxPlausibleSteps
    BY TypeInit, StepCountType
  <2> QED
    BY <2>1 DEF Init, BoundInv, WalkInv, MaxPlausibleSteps
<1>2. BoundInv => WalkIsBounded
  BY DEF BoundInv, WalkInv, WalkIsBounded
<1> QED
  BY <1>1, <1>2, BoundStep, PTL DEF Spec

-----------------------------------------------------------------------------
(* What becomes of a request that had the volume to itself. *)

\* A request nobody has disturbed: the others are idle, the device is as it was
\* found until the walk, the second helper was given what was asked for, knows
\* where the device is, takes it straight to its target, and has it there when
\* it arrives; a helper that fails leaves it where it had come to.
AloneInv(c) ==
    before[c] # Nothing =>
        /\ pc[c] # "idle" /\ \A d \in Clients : d # c => pc[d] = "idle"
        /\ pc[c] \in {"get", "start", "unavailable"} =>
              step = before[c].step /\ muted = before[c].muted
        /\ pc[c] \in {"start", "walk", "mute", "reread", "done"} =>
              want[c].level = WantedLevel(req[c], before[c].step)
        /\ pc[c] = "walk" => at[c] = step
        /\ pc[c] \in {"mute", "reread", "done"} => step = Target(c)
        /\ pc[c] \in {"walk", "mute", "reread", "failed"} => OnTheWay(c)

RequestInv == TypeOK /\ \A c \in Clients : AloneInv(c)

LEMMA RequestStep == RequestInv /\ [Next]_vars => RequestInv'
<1> SUFFICES ASSUME RequestInv, [Next]_vars PROVE RequestInv'
  OBVIOUS
<1>0. TypeOK /\ TypeOK' /\ stepCount \in 1..MaxPlausibleSteps
  BY TypeStep, StepCountType DEF RequestInv
<1> SUFFICES ASSUME NEW c \in Clients, before'[c] # Nothing PROVE AloneInv(c)'
  BY <1>0 DEF RequestInv, AloneInv
<1>1. AloneInv(c)
  BY DEF RequestInv
<1> USE DEF Goto, device
<1>2. ASSUME NEW d \in Clients, Ask(d) PROVE AloneInv(c)'
  <2>1. c = d /\ \A e \in Clients : pc[e] = "idle"
    BY <1>2 DEF Ask
  <2>2. before'[c] = [step |-> step, muted |-> muted] /\ pc'[c] = "get"
        /\ \A e \in Clients : e # c => pc'[e] = "idle"
    BY <1>0, <1>2, <2>1 DEF Ask, TypeOK
  <2> QED
    BY <1>2, <2>2 DEF Ask, AloneInv
<1>3. CASE Touch
  BY <1>3 DEF Touch
<1>4. CASE UNCHANGED vars
  BY <1>1, <1>4 DEF vars, AloneInv, WantedLevel, OnTheWay, Target, stepCount
<1>5. ASSUME NEW d \in Clients, Serve(d) PROVE AloneInv(c)'
  <2>1. before[c] # Nothing /\ setting' = setting
    BY <1>0, <1>5 DEF Serve, Get, StepInfo, Walk, Arrive, SetMute, Reread, NoSession,
        HelperFails, Answered, TypeOK
  <2>2. d = c
    BY <1>1, <1>5, <2>1 DEF AloneInv, Serve, Get, StepInfo, Walk, Arrive, SetMute, Reread,
        NoSession, HelperFails, Answered
  <2>3. \A e \in Clients : e # c => pc[e] = "idle"
    BY <1>1, <2>1 DEF AloneInv
  <2>4. stepCount' = stepCount
    BY <2>1 DEF stepCount
  <2> USE <1>0, <1>1, <2>1, <2>2, <2>3, <2>4
  <2>range. Target(c) \in 0..(stepCount - 1) /\ step \in 0..(stepCount - 1)
    BY TargetRange DEF TypeOK
  <2>ints. Target(c) \in Int /\ step \in Int /\ stepCount \in Int /\ before[c].step \in Int
    BY <2>range DEF MaxPlausibleSteps, TypeOK
  <2>target. want' = want => Target(c)' = Target(c)
    BY DEF Target
  <2>5. CASE Get(c)
    <3>1. want'[c].level = WantedLevel(req[c], step)
      BY <2>5, WantedIs DEF Get, Wanted, TypeOK
    <3>2. pc'[c] = "start" /\ \A e \in Clients : e # c => pc'[e] = "idle"
      BY <2>5 DEF Get, TypeOK
    <3>3. step = before[c].step /\ muted = before[c].muted
      BY <2>5 DEF Get, AloneInv
    <3> QED
      BY <2>5, <3>1, <3>2, <3>3 DEF Get, AloneInv, WantedLevel
  <2>6. CASE StepInfo(c)
    <3>1. pc'[c] = "walk" /\ at'[c] = step /\ \A e \in Clients : e # c => pc'[e] = "idle"
      BY <2>6 DEF StepInfo, TypeOK
    <3>2. OnTheWay(c)'
      BY <2>6, <2>ints, <2>target DEF StepInfo, AloneInv, OnTheWay
    <3> QED
      BY <2>6, <3>1, <3>2 DEF StepInfo, AloneInv, WantedLevel
  <2>7. CASE Walk(c)
    <3>1. at[c] = step /\ step # Target(c) /\ muted = before[c].muted /\ OnTheWay(c)
      BY <2>7 DEF Walk, AloneInv, OnTheWay
    <3>2. /\ step' \in Int /\ step' = at'[c]
          /\ \/ step < Target(c) /\ step' = step + 1
             \/ step > Target(c) /\ step' = step - 1
      <4>1. CASE at[c] < Target(c) /\ step' = DeviceUp /\ at' = [at EXCEPT ![c] = @ + 1]
        BY <2>ints, <2>range, <3>1, <4>1 DEF DeviceUp, TypeOK, MaxPlausibleSteps
      <4>2. CASE at[c] > Target(c) /\ step' = DeviceDown /\ at' = [at EXCEPT ![c] = @ - 1]
        BY <2>ints, <2>range, <3>1, <4>2 DEF DeviceDown, TypeOK, MaxPlausibleSteps
      <4> QED
        BY <2>7, <4>1, <4>2 DEF Walk
    <3>3. OnTheWay(c)'
      <4>1. Target(c)' = Target(c) /\ before' = before /\ muted' = muted
        BY <2>7, <2>target DEF Walk
      <4> QED
        BY <2>ints, <3>1, <3>2, <4>1 DEF OnTheWay
    <3> QED
      BY <2>7, <3>2, <3>3 DEF Walk, AloneInv, WantedLevel
  <2>8. CASE Arrive(c)
    <3>1. pc'[c] = "mute" /\ step = Target(c) /\ \A e \in Clients : e # c => pc'[e] = "idle"
      BY <2>8 DEF Arrive, AloneInv, TypeOK
    <3>2. OnTheWay(c)'
      BY <2>8, <2>target DEF Arrive, AloneInv, OnTheWay
    <3> QED
      BY <2>8, <2>target, <3>1, <3>2 DEF Arrive, AloneInv, WantedLevel
  <2>9. CASE SetMute(c)
    <3>1. pc'[c] = "reread" /\ \A e \in Clients : e # c => pc'[e] = "idle"
      BY <2>9 DEF SetMute, TypeOK
    <3>2. OnTheWay(c)'
      BY <2>9, <2>target DEF SetMute, AloneInv, OnTheWay
    <3> QED
      BY <2>9, <2>target, <3>1, <3>2 DEF SetMute, AloneInv, WantedLevel
  <2>10. CASE Reread(c)
    <3>1. pc'[c] = "done" /\ \A e \in Clients : e # c => pc'[e] = "idle"
      BY <2>10 DEF Reread, TypeOK
    <3> QED
      BY <2>10, <2>target, <3>1 DEF Reread, AloneInv, WantedLevel
  <2>11. CASE NoSession(c)
    <3>1. pc'[c] = "unavailable" /\ \A e \in Clients : e # c => pc'[e] = "idle"
      BY <2>11 DEF NoSession, TypeOK
    <3> QED
      BY <2>11, <3>1 DEF NoSession, AloneInv
  <2>12. CASE HelperFails(c)
    <3>1. pc'[c] = "failed" /\ \A e \in Clients : e # c => pc'[e] = "idle"
      BY <2>12 DEF HelperFails, TypeOK
    <3>2. OnTheWay(c)
      <4>1. CASE pc[c] \in {"get", "start"}
        BY <2>ints, <4>1 DEF AloneInv, OnTheWay
      <4>2. CASE pc[c] \in {"walk", "mute", "reread"}
        BY <4>2 DEF AloneInv
      <4> QED
        BY <2>12, <4>1, <4>2 DEF HelperFails
    <3>3. OnTheWay(c)'
      BY <2>12, <2>target, <3>2 DEF HelperFails, OnTheWay
    <3> QED
      BY <2>12, <3>1, <3>3 DEF HelperFails, AloneInv
  <2>13. CASE Answered(c)
    BY <2>13 DEF Answered, TypeOK
  <2> QED
    BY <1>5, <2>5, <2>6, <2>7, <2>8, <2>9, <2>10, <2>11, <2>12, <2>13 DEF Serve
<1> QED
  BY <1>2, <1>3, <1>4, <1>5 DEF Next

LEMMA RequestInvariant == Spec => []RequestInv
<1>1. Init => RequestInv
  BY TypeInit DEF Init, RequestInv, AloneInv
<1> QED
  BY <1>1, RequestStep, PTL DEF Spec

\* A request that fails leaves the device between where it found it and where it
\* was to go, and one answered with 503 as it found it, unless somebody else was
\* at the volume too.
THEOREM FailuresLeaveOnTheWay == Spec => []FailureLeavesOnTheWay
<1>1. RequestInv => FailureLeavesOnTheWay
  BY DEF RequestInv, AloneInv, FailureLeavesOnTheWay
<1> QED
  BY <1>1, RequestInvariant, PTL

\* A request for a level, on any device, ends on a step no other step is nearer
\* to the level than.
THEOREM LevelsLand == Spec => []LandsOnNearestStep
<1>1. RequestInv => LandsOnNearestStep
  <2> SUFFICES ASSUME RequestInv, NEW c \in Clients, Succeeded(c), req[c].level # Nothing,
                      NEW s \in 0..(stepCount - 1)
               PROVE  Distance(step, Clamp(req[c].level)) <= Distance(s, Clamp(req[c].level))
    BY DEF LandsOnNearestStep
  <2>1. stepCount \in 1..MaxPlausibleSteps /\ req[c].level \in Int
    BY StepCountType, VolumeAssumption DEF RequestInv, TypeOK, Request
  <2>2. step = Target(c) /\ want[c].level = Clamp(req[c].level)
    BY DEF RequestInv, AloneInv, Succeeded, WantedLevel
  <2>3. Clamp(want[c].level) = want[c].level /\ want[c].level \in Int
    <3>1. want[c] \in State
      BY DEF RequestInv, TypeOK
    <3>2. want[c].level \in MinLevel..MaxLevel /\ want[c].level \in Int
      BY <3>1 DEF State, MinLevel, MaxLevel
    <3> QED
      BY <3>2, ClampRange
  <2>4. step = StepFromLevel(want[c].level, stepCount)
    BY <2>2 DEF Target
  <2> DEFINE l == want[c].level
             n == stepCount
  <2>5. l \in Int /\ n \in 1..MaxPlausibleSteps /\ s \in 0..(n - 1)
    BY <2>1, <2>3
  <2> HIDE DEF l, n
  <2>6. LET off(x) == x * MaxLevel - Clamp(l) * (n - 1)
            far(x) == IF off(x) < 0 THEN -off(x) ELSE off(x)
        IN  far(StepFromLevel(l, n)) <= far(s)
    BY <2>5, NearestStep
  <2> QED
    BY <2>2, <2>3, <2>4, <2>6 DEF Distance, l, n
<1> QED
  BY <1>1, RequestInvariant, PTL

\* On a device of at most one step per percent, muting and unmuting leave the
\* volume where it was, to the step.
THEOREM MutingIsSilent == Spec => [](stepCount <= MaxLevel + 1 => MutingKeepsTheStep)
<1>1. RequestInv => (stepCount <= MaxLevel + 1 => MutingKeepsTheStep)
  <2> SUFFICES ASSUME RequestInv, stepCount <= MaxLevel + 1, NEW c \in Clients,
                      Succeeded(c), req[c].level = Nothing
               PROVE  step = before[c].step
    BY DEF MutingKeepsTheStep
  <2>1. stepCount \in 1..(MaxLevel + 1) /\ before[c].step \in 0..(stepCount - 1)
    BY StepCountType DEF RequestInv, TypeOK, Succeeded, MaxLevel, MaxPlausibleSteps
  <2>2. step = StepFromLevel(LevelFromStep(before[c].step, stepCount), stepCount)
    BY DEF RequestInv, AloneInv, Succeeded, WantedLevel, Target
  <2> QED
    BY <2>1, <2>2, RoundTrip
<1> QED
  BY <1>1, RequestInvariant, PTL
=============================================================================
