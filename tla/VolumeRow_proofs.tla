--------------------------- MODULE VolumeRow_proofs ---------------------------
(***************************************************************************)
(* Theorems of VolumeRow, for every device, every level the slider can be  *)
(* dragged to, and any number of requests and polls in flight.             *)
(***************************************************************************)
EXTENDS VolumeRow, VolumeSteps_proofs, FiniteSetTheorems, TLAPS

-----------------------------------------------------------------------------
(* What the device settles on. *)

LEMMA StateIs == \A q, r \in State : q.level = r.level /\ q.muted = r.muted => q = r
BY DEF State

LEMMA SettledStays == \A s \in State : Settled(s) \in State /\ Settled(Settled(s)) = Settled(s)
<1> SUFFICES ASSUME NEW s \in State
             PROVE  Settled(s) \in State /\ Settled(Settled(s)) = Settled(s)
  OBVIOUS
<1> DEFINE there == LevelFromStep(StepFromLevel(s.level, StepCount), StepCount)
<1>1. /\ there \in MinLevel..MaxLevel
      /\ LevelFromStep(StepFromLevel(there, StepCount), StepCount) = there
  BY RowAssumption, SettlesOnce DEF State
<1>2. Settled(s) = [s EXCEPT !.level = there]
  BY DEF Settled
<1> HIDE DEF there
<1>3. Settled(s) \in State /\ Settled(s).level = there
  BY <1>1, <1>2 DEF State
<1>4. Settled(Settled(s)) = [Settled(s) EXCEPT !.level = there]
  BY <1>1, <1>3 DEF Settled
<1>5. /\ Settled(Settled(s)) \in State /\ Settled(Settled(s)).level = there
      /\ Settled(Settled(s)).muted = Settled(s).muted
  BY <1>1, <1>3, <1>4 DEF State
<1> QED
  BY <1>3, <1>5, StateIs

LEMMA AppliedIsState ==
    \A s \in State : \A asks \in Request \cup {Load} : Apply(s, asks) \in State
<1> SUFFICES ASSUME NEW s \in State, NEW asks \in Request \cup {Load}
             PROVE  Apply(s, asks) \in State
  OBVIOUS
<1>1. asks.level # Nothing => Clamp(asks.level) \in MinLevel..MaxLevel
  <2> SUFFICES ASSUME asks.level # Nothing
               PROVE  Clamp(asks.level) \in MinLevel..MaxLevel
    OBVIOUS
  <2>1. asks.level \in AskedLevels
    BY DEF Request, Load, NoRequest
  <2>2. \A l \in AskedLevels : l \in Int
    BY RowAssumption DEF MinLevel, MaxLevel
  <2>3. asks.level \in Int
    BY <2>1, <2>2
  <2> QED
    BY <2>3, ClampRange
<1>2. asks.muted # Nothing => asks.muted \in BOOLEAN
  BY DEF Request, Load, NoRequest
<1> QED
  BY <1>1, <1>2 DEF Apply, State

LEMMA DevicesSettled == \A d \in Devices : d \in State /\ d = Settled(d)
<1>1. [level : {MinLevel, MaxLevel}, muted : BOOLEAN] \subseteq State
  BY DEF State, MinLevel, MaxLevel
<1> QED
  BY <1>1, SettledStays DEF Devices

-----------------------------------------------------------------------------
(* What sending, answering and taking in do to the requests in flight. *)

LEMMA Sending ==
    TypeOK /\ CanCall
      => \A asks \in Request \cup {Load} :
           LET sent == [asks |-> asks, status |-> "none", got |-> Nothing]
           IN  calls' = Sent(asks)
                 => /\ calls' \in [Calls -> Call \cup {Nothing}]
                    /\ \E f \in Calls \ InFlight :
                         /\ InFlight' = InFlight \cup {f}
                         /\ \A d \in InFlight : calls'[d] = calls[d]
                         /\ calls'[f] = sent
<1> SUFFICES ASSUME TypeOK, CanCall, NEW asks \in Request \cup {Load}, calls' = Sent(asks)
             PROVE  LET sent == [asks |-> asks, status |-> "none", got |-> Nothing]
                    IN  /\ calls' \in [Calls -> Call \cup {Nothing}]
                        /\ \E f \in Calls \ InFlight :
                             /\ InFlight' = InFlight \cup {f}
                             /\ \A d \in InFlight : calls'[d] = calls[d]
                             /\ calls'[f] = sent
  OBVIOUS
<1> DEFINE sent == [asks |-> asks, status |-> "none", got |-> Nothing]
<1>1. FreeCall \in Calls /\ calls[FreeCall] = Nothing
  BY DEF CanCall, InFlight, FreeCall
<1>2. sent \in Call /\ sent # Nothing
  BY NilAssumption DEF Call, Statuses
<1>3. calls' = [calls EXCEPT ![FreeCall] = sent] /\ calls \in [Calls -> Call \cup {Nothing}]
  BY DEF Sent, TypeOK
<1> HIDE DEF sent
<1>4. calls' \in [Calls -> Call \cup {Nothing}]
  BY <1>1, <1>2, <1>3
<1>5. \A d \in Calls : calls'[d] = IF d = FreeCall THEN sent ELSE calls[d]
  BY <1>1, <1>3
<1>6. FreeCall \in Calls \ InFlight /\ InFlight' = InFlight \cup {FreeCall}
  BY <1>1, <1>2, <1>5 DEF InFlight
<1>7. \A d \in InFlight : calls'[d] = calls[d]
  BY <1>5, <1>6 DEF InFlight
<1> QED
  BY <1>4, <1>5, <1>6, <1>7 DEF sent

LEMMA Answering ==
    TypeOK
      => \A c \in InFlight : \A call \in Call :
           calls' = [calls EXCEPT ![c] = call] /\ call.asks = calls[c].asks
             => /\ calls' \in [Calls -> Call \cup {Nothing}]
                /\ InFlight' = InFlight /\ Loads' = Loads
                /\ \A d \in InFlight : calls'[d] = IF d = c THEN call ELSE calls[d]
<1> SUFFICES ASSUME TypeOK, NEW c \in InFlight, NEW call \in Call,
                    calls' = [calls EXCEPT ![c] = call], call.asks = calls[c].asks
             PROVE  /\ calls' \in [Calls -> Call \cup {Nothing}]
                    /\ InFlight' = InFlight /\ Loads' = Loads
                    /\ \A d \in InFlight : calls'[d] = IF d = c THEN call ELSE calls[d]
  OBVIOUS
<1>1. c \in Calls /\ call # Nothing /\ calls \in [Calls -> Call \cup {Nothing}]
  BY NilAssumption DEF InFlight, TypeOK
<1>2. \A d \in Calls : calls'[d] = IF d = c THEN call ELSE calls[d]
  BY <1>1
<1>3. InFlight' = InFlight
  BY <1>1, <1>2 DEF InFlight
<1>4. Loads' = Loads
  BY <1>2, <1>3 DEF Loads, InFlight
<1> QED
  BY <1>1, <1>2, <1>3, <1>4 DEF InFlight

LEMMA Taking ==
    TypeOK
      => \A c \in InFlight : Taken(c)
           => /\ calls' \in [Calls -> Call \cup {Nothing}]
              /\ InFlight' = InFlight \ {c}
              /\ \A d \in InFlight \ {c} : calls'[d] = calls[d]
BY DEF TypeOK, InFlight, Taken

LEMMA CallTypes ==
    TypeOK => \A c \in InFlight : /\ calls[c] \in Call
                                  /\ calls[c].asks \in Request \cup {Load}
                                  /\ calls[c].status \in Statuses
BY DEF TypeOK, InFlight, Call

-----------------------------------------------------------------------------
(***************************************************************************)
(* The inductive invariant.  A closed page has nothing on its way; one     *)
(* load is on its way while volumeLoading is set and none otherwise, and   *)
(* only while attempts are left; an answer that says ok has a state.       *)
(***************************************************************************)
ClosedInv == ~open => InFlight = {} /\ \A p \in Polls : polls[p] = "free"

LoadInv ==
    /\ \A c, d \in Loads : c = d
    /\ loading <=> Loads # {}
    /\ loading => failures < maxVolumeFailures

AnswerInv == \A c \in InFlight : calls[c].status = "ok" => calls[c].got \in State

(***************************************************************************)
(* As long as requests have not overlapped, the one in flight brings what  *)
(* the PC has or has not changed it since the row was last drawn.          *)
(***************************************************************************)
LoneInv ==
    lone => /\ \A c, d \in InFlight : c = d
            /\ \A c \in InFlight :
                 IF calls[c].status = "ok" THEN calls[c].got = device
                 ELSE Enabled => shown = device
            /\ InFlight = {} /\ Enabled => shown = device /\ slider = device.level

RowInv == TypeOK /\ ClosedInv /\ LoadInv /\ AnswerInv /\ LoneInv

LEMMA RowInit == Init => RowInv
<1> SUFFICES ASSUME Init PROVE RowInv
  OBVIOUS
<1>1. InFlight = {} /\ Loads = {}
  BY DEF Init, InFlight, Loads
<1>2. TypeOK
  <2>1. device \in State /\ device = Settled(device)
    BY DevicesSettled DEF Init
  <2>2. faults \in 0..MaxFaults /\ slider \in MinLevel..MaxLevel /\ failures \in 0..maxVolumeFailures
    BY RowAssumption DEF Init, MinLevel, MaxLevel, maxVolumeFailures
  <2>3. calls \in [Calls -> Call \cup {Nothing}] /\ polls \in [Polls -> PollPhase]
    BY DEF Init, PollPhase
  <2> QED
    BY <2>1, <2>2, <2>3 DEF Init, TypeOK
<1> QED
  BY <1>1, <1>2 DEF Init, RowInv, ClosedInv, LoadInv, AnswerInv, LoneInv, Enabled

LEMMA RowStep == RowInv /\ [Next]_vars => RowInv'
<1> SUFFICES ASSUME RowInv, [Next]_vars PROVE RowInv'
  OBVIOUS
<1>0. TypeOK /\ ClosedInv /\ LoadInv /\ AnswerInv /\ LoneInv
  BY DEF RowInv
<1> USE <1>0
<1>1. device \in State /\ shown \in State \cup {Nothing} /\ failures \in 0..3
      /\ \A s \in State : s.level \in MinLevel..MaxLevel
  BY DEF TypeOK, maxVolumeFailures, State
<1>2. 0 \in MinLevel..MaxLevel /\ Nothing \notin State
  BY NilAssumption DEF MinLevel, MaxLevel
\* A load is sent when none is on its way and attempts are left.
<1>load. ASSUME CanCall, ~loading, ~Enabled', shown' \in State \cup {Nothing},
                loading' = TRUE, calls' = Sent(Load), StillLone,
                failures' \in 0..2, open', slider' \in MinLevel..MaxLevel, UNCHANGED world,
                polls' \in [Polls -> PollPhase]
         PROVE  RowInv'
  <2>1. /\ calls' \in [Calls -> Call \cup {Nothing}]
        /\ \E f \in Calls \ InFlight :
             /\ InFlight' = InFlight \cup {f}
             /\ \A d \in InFlight : calls'[d] = calls[d]
             /\ calls'[f] = [asks |-> Load, status |-> "none", got |-> Nothing]
    BY <1>load, Sending
  <2>2. PICK f \in Calls \ InFlight :
             /\ InFlight' = InFlight \cup {f}
             /\ \A d \in InFlight : calls'[d] = calls[d]
             /\ calls'[f] = [asks |-> Load, status |-> "none", got |-> Nothing]
    BY <2>1
  <2>3. Loads = {} /\ Loads' = {f}
    BY <1>load, <2>2 DEF Loads, LoadInv
  <2>4. TypeOK'
    BY <1>load, <1>2, <2>1 DEF TypeOK, world, StillLone, maxVolumeFailures
  <2>5. ClosedInv' /\ AnswerInv'
    BY <1>load, <2>2 DEF ClosedInv, AnswerInv
  <2>6. LoadInv'
    BY <1>load, <2>3 DEF LoadInv, maxVolumeFailures
  <2>7. LoneInv'
    <3>1. lone' => InFlight' = {f}
      BY <1>load, <2>2 DEF StillLone
    <3>2. calls'[f].status # "ok"
      BY <2>2
    <3> QED
      BY <1>load, <3>1, <3>2 DEF LoneInv
  <2> QED
    BY <2>4, <2>5, <2>6, <2>7 DEF RowInv
\* The page goes, with all it had on its way.
<1>leave. ASSUME Leave, UNCHANGED world PROVE RowInv'
  <2>1. InFlight' = {} /\ Loads' = {}
    BY <1>leave DEF Leave, InFlight, Loads
  <2>2. calls' \in [Calls -> Call \cup {Nothing}] /\ polls' \in [Polls -> PollPhase]
    BY <1>leave DEF Leave, PollPhase
  <2>3. TypeOK'
    <3>1. /\ open' \in BOOLEAN /\ shown' \in State \cup {Nothing} /\ slider' \in MinLevel..MaxLevel
          /\ loading' \in BOOLEAN /\ failures' \in 0..maxVolumeFailures /\ lone' \in BOOLEAN
      <4>1. open' = FALSE /\ loading' = FALSE /\ lone' = FALSE
        BY <1>leave DEF Leave
      <4>2. shown' = Nothing /\ slider' = 0 /\ failures' = 0
        BY <1>leave DEF Leave
      <4>3. failures' \in 0..maxVolumeFailures
        BY <4>2 DEF maxVolumeFailures
      <4>4. slider' \in MinLevel..MaxLevel
        BY <1>2, <4>2
      <4>5. open' \in BOOLEAN /\ loading' \in BOOLEAN /\ lone' \in BOOLEAN
        BY <4>1
      <4> QED
        BY <4>2, <4>3, <4>4, <4>5
    <3> QED
      BY <1>leave, <2>2, <3>1 DEF TypeOK, world
  <2> QED
    BY <1>leave, <2>1, <2>3 DEF RowInv, ClosedInv, LoadInv, AnswerInv, LoneInv, Leave
<1>3. ASSUME Open PROVE RowInv'
  <2>1. InFlight = {} /\ CanCall /\ ~loading
    BY <1>3, RowAssumption DEF Open, ClosedInv, CanCall, LoadInv, Loads
  <2> QED
    BY <1>2, <1>3, <1>load, <2>1 DEF Open, Enabled, TypeOK
<1>4. ASSUME NEW asks \in Request, Send(asks), slider' \in MinLevel..MaxLevel
      PROVE  RowInv'
  <2>1. /\ calls' \in [Calls -> Call \cup {Nothing}]
        /\ \E f \in Calls \ InFlight :
             /\ InFlight' = InFlight \cup {f}
             /\ \A d \in InFlight : calls'[d] = calls[d]
             /\ calls'[f] = [asks |-> asks, status |-> "none", got |-> Nothing]
    BY <1>4, Sending DEF Send
  <2>2. PICK f \in Calls \ InFlight :
             /\ InFlight' = InFlight \cup {f}
             /\ \A d \in InFlight : calls'[d] = calls[d]
             /\ calls'[f] = [asks |-> asks, status |-> "none", got |-> Nothing]
    BY <2>1
  <2>3. Loads' = Loads
    BY <2>2, NilAssumption DEF Loads
  <2>4. TypeOK'
    BY <1>4, <2>1 DEF TypeOK, Send, world, StillLone
  <2>5. ClosedInv' /\ AnswerInv'
    BY <1>4, <2>2 DEF ClosedInv, AnswerInv, Send
  <2>6. LoadInv'
    BY <1>4, <2>3 DEF LoadInv, Send
  <2>7. LoneInv'
    <3>1. lone' => InFlight' = {f} /\ (Enabled => shown = device)
      BY <1>4, <2>2 DEF Send, StillLone, LoneInv
    <3>2. calls'[f].status # "ok" /\ shown' = shown /\ device' = device
      BY <1>4, <2>2 DEF Send, world
    <3> QED
      BY <3>1, <3>2 DEF LoneInv, Enabled
  <2> QED
    BY <2>4, <2>5, <2>6, <2>7 DEF RowInv
<1>5. CASE DragSlider
  <2>1. PICK l \in AskedLevels : slider' = l /\ Send([level |-> l, muted |-> Nothing])
    BY <1>5 DEF DragSlider
  <2>2. [level |-> l, muted |-> Nothing] \in Request /\ l \in MinLevel..MaxLevel
    BY RowAssumption DEF Request
  <2> QED
    BY <1>4, <2>1, <2>2
<1>6. CASE ClickMute
  <2>1. [level |-> Nothing, muted |-> ~shown.muted] \in Request
    BY DEF Request
  <2>2. slider' \in MinLevel..MaxLevel
    BY <1>6 DEF ClickMute, TypeOK
  <2> QED
    BY <1>4, <1>6, <2>1, <2>2 DEF ClickMute
\* An answer that leaves the device alone and brings no state.
<1>answer. ASSUME NEW c \in Calls, NEW status \in {"failed", "signedOut"}, Answer(c, status),
                  device' = device, lone' \in BOOLEAN, lone' => lone, faults' \in 0..MaxFaults
           PROVE  RowInv'
  <2> DEFINE call == [calls[c] EXCEPT !.status = status]
  <2>1. c \in InFlight /\ calls[c] \in Call
    BY <1>answer, CallTypes DEF Answer
  <2>2. call \in Call /\ call.asks = calls[c].asks /\ call.status = status
    BY <2>1 DEF Call, Statuses
  <2>3. calls' = [calls EXCEPT ![c] = call]
    BY <1>answer DEF Answer
  <2> HIDE DEF call
  <2>4. /\ calls' \in [Calls -> Call \cup {Nothing}]
        /\ InFlight' = InFlight /\ Loads' = Loads
        /\ \A d \in InFlight : calls'[d] = IF d = c THEN call ELSE calls[d]
    BY <2>1, <2>2, <2>3, Answering
  <2>5. TypeOK'
    BY <1>answer, <2>4 DEF TypeOK, Answer, page
  <2>6. ClosedInv' /\ LoadInv'
    BY <1>answer, <2>4 DEF ClosedInv, LoadInv, Answer, page
  <2>7. AnswerInv'
    BY <2>2, <2>4 DEF AnswerInv
  <2>8. LoneInv'
    <3>1. calls[c].status # "ok" /\ call.status # "ok"
      BY <1>answer, <2>2 DEF Answer
    <3> QED
      BY <1>answer, <2>1, <2>4, <3>1 DEF LoneInv, Answer, page, Enabled
  <2> QED
    BY <2>5, <2>6, <2>7, <2>8 DEF RowInv
<1>7. ASSUME NEW c \in Calls, Handle(c) PROVE RowInv'
  <2> DEFINE call == [calls[c] EXCEPT !.status = "ok", !.got = device']
  <2>1. c \in InFlight /\ calls[c] \in Call /\ calls[c].asks \in Request \cup {Load}
    BY <1>7, CallTypes DEF Handle
  <2>2. device' \in State /\ device' = Settled(device')
    BY <1>7, <2>1, AppliedIsState, SettledStays, <1>1 DEF Handle
  <2>3. call \in Call /\ call.asks = calls[c].asks /\ call.status = "ok" /\ call.got = device'
    BY <2>1, <2>2 DEF Call, Statuses
  <2>4. calls' = [calls EXCEPT ![c] = call]
    BY <1>7 DEF Handle
  <2> HIDE DEF call
  <2>5. /\ calls' \in [Calls -> Call \cup {Nothing}]
        /\ InFlight' = InFlight /\ Loads' = Loads
        /\ \A d \in InFlight : calls'[d] = IF d = c THEN call ELSE calls[d]
    BY <2>1, <2>3, <2>4, Answering
  <2>6. TypeOK'
    <3>1. (Settled(device))' = Settled(device')
      BY DEF Settled
    <3> QED
      BY <1>7, <2>2, <2>5, <3>1 DEF TypeOK, Handle, page
  <2>7. ClosedInv' /\ LoadInv'
    BY <1>7, <2>5 DEF ClosedInv, LoadInv, Handle, page
  <2>8. AnswerInv'
    BY <2>2, <2>3, <2>5 DEF AnswerInv
  <2>9. LoneInv'
    BY <1>7, <2>1, <2>3, <2>5 DEF LoneInv, Handle
  <2> QED
    BY <2>6, <2>7, <2>8, <2>9 DEF RowInv
<1>8. ASSUME NEW c \in Calls, HandleFails(c) PROVE RowInv'
  <2>1. faults' \in 0..MaxFaults
    BY <1>8, RowAssumption DEF HandleFails, TypeOK
  <2>2. CASE UNCHANGED <<device, lone>>
    BY <1>8, <1>answer, <2>1, <2>2 DEF HandleFails, TypeOK
  <2>3. CASE device' = Settled(Apply(device, calls[c].asks)) /\ lone' = FALSE
    <3> DEFINE call == [calls[c] EXCEPT !.status = "failed"]
    <3>1. c \in InFlight /\ calls[c] \in Call /\ calls[c].asks \in Request \cup {Load}
      BY <1>8, CallTypes DEF HandleFails, Answer
    <3>2. device' \in State /\ device' = Settled(device')
      BY <2>3, <3>1, AppliedIsState, SettledStays, <1>1
    <3>3. call \in Call /\ call.asks = calls[c].asks /\ call.status = "failed"
      BY <3>1 DEF Call, Statuses
    <3>4. calls' = [calls EXCEPT ![c] = call]
      BY <1>8 DEF HandleFails, Answer
    <3> HIDE DEF call
    <3>5. /\ calls' \in [Calls -> Call \cup {Nothing}]
          /\ InFlight' = InFlight /\ Loads' = Loads
          /\ \A d \in InFlight : calls'[d] = IF d = c THEN call ELSE calls[d]
      BY <3>1, <3>3, <3>4, Answering
    <3>6. TypeOK'
      <4>1. (Settled(device))' = Settled(device')
        BY DEF Settled
      <4> QED
        BY <1>8, <2>1, <2>3, <3>2, <3>5, <4>1 DEF TypeOK, HandleFails, Answer, page
    <3>7. ClosedInv' /\ LoadInv'
      BY <1>8, <3>5 DEF ClosedInv, LoadInv, HandleFails, Answer, page
    <3>8. AnswerInv'
      BY <3>3, <3>5 DEF AnswerInv
    <3>9. LoneInv'
      BY <2>3 DEF LoneInv
    <3> QED
      BY <3>6, <3>7, <3>8, <3>9 DEF RowInv
  <2> QED
    BY <1>8, <2>2, <2>3 DEF HandleFails
<1>9. ASSUME NEW c \in Calls, HandleNoSession(c) \/ HandleSignedOut(c) PROVE RowInv'
  BY <1>9, <1>answer DEF HandleNoSession, HandleSignedOut, TypeOK
<1>10. ASSUME NEW c \in Calls, Lose(c) PROVE RowInv'
  <2> DEFINE call == [calls[c] EXCEPT !.status = "failed", !.got = Nothing]
  <2>1. c \in InFlight /\ calls[c] \in Call
    BY <1>10, CallTypes DEF Lose
  <2>2. call \in Call /\ call.asks = calls[c].asks /\ call.status = "failed"
    BY <2>1 DEF Call, Statuses
  <2>3. calls' = [calls EXCEPT ![c] = call]
    BY <1>10 DEF Lose
  <2> HIDE DEF call
  <2>4. /\ calls' \in [Calls -> Call \cup {Nothing}]
        /\ InFlight' = InFlight /\ Loads' = Loads
        /\ \A d \in InFlight : calls'[d] = IF d = c THEN call ELSE calls[d]
    BY <2>1, <2>2, <2>3, Answering
  <2>5. TypeOK'
    <3>1. faults' \in 0..MaxFaults
      BY <1>10, RowAssumption DEF Lose, TypeOK
    <3> QED
      BY <1>10, <2>4, <3>1 DEF TypeOK, Lose, page
  <2>6. ClosedInv' /\ LoadInv' /\ LoneInv'
    BY <1>10, <2>4 DEF ClosedInv, LoadInv, LoneInv, Lose, page
  <2>7. AnswerInv'
    BY <2>2, <2>4 DEF AnswerInv
  <2> QED
    BY <2>5, <2>6, <2>7 DEF RowInv
<1>11. ASSUME NEW c \in Calls, TakeLoad(c) PROVE RowInv'
  <2>1. c \in InFlight /\ c \in Loads /\ Taken(c)
    BY <1>11 DEF TakeLoad, Answered, Loads
  <2>2. /\ calls' \in [Calls -> Call \cup {Nothing}]
        /\ InFlight' = InFlight \ {c}
        /\ \A d \in InFlight \ {c} : calls'[d] = calls[d]
    BY <2>1, Taking
  <2>3. Loads' = {}
    BY <2>1, <2>2 DEF Loads, LoadInv
  <2>4. failures <= 2 /\ open
    BY <1>1, <2>1 DEF LoadInv, maxVolumeFailures, ClosedInv
  <2>5. calls[c].status # "failed" => calls[c].status = "ok" /\ calls[c].got \in State
    BY <1>11, <2>1, CallTypes DEF TakeLoad, Answered, Statuses, AnswerInv
  <2>6. shown' \in State \cup {Nothing} /\ slider' \in MinLevel..MaxLevel /\ failures' \in 0..3
    BY <1>11, <1>1, <1>2, <2>4, <2>5 DEF TakeLoad, Disable
  <2>7. TypeOK'
    BY <1>11, <2>2, <2>6 DEF TypeOK, TakeLoad, world, maxVolumeFailures
  <2>8. ClosedInv' /\ LoadInv' /\ AnswerInv'
    BY <1>11, <2>2, <2>3, <2>4 DEF ClosedInv, LoadInv, AnswerInv, TakeLoad
  <2>9. LoneInv'
    <3>1. CASE calls[c].status = "failed"
      BY <1>11, <2>1, <2>2, <3>1 DEF LoneInv, TakeLoad, Disable, Enabled
    <3>2. CASE calls[c].status # "failed"
      BY <1>11, <2>1, <2>2, <2>5, <3>2 DEF LoneInv, TakeLoad, Enabled, world
    <3> QED
      BY <3>1, <3>2
  <2> QED
    BY <2>7, <2>8, <2>9 DEF RowInv
<1>12. ASSUME NEW c \in Calls, TakeSend(c) PROVE RowInv'
  <2>1. c \in InFlight /\ c \notin Loads /\ Taken(c)
    BY <1>12 DEF TakeSend, Answered, Loads
  <2>2. /\ calls' \in [Calls -> Call \cup {Nothing}]
        /\ InFlight' = InFlight \ {c}
        /\ \A d \in InFlight \ {c} : calls'[d] = calls[d]
    BY <2>1, Taking
  <2>3. Loads' = Loads
    BY <2>1, <2>2 DEF Loads
  <2>4. open /\ open' = open
    BY <1>12, <2>1 DEF ClosedInv, TakeSend
  <2>5. calls[c].status # "failed" => calls[c].status = "ok" /\ calls[c].got \in State
    BY <1>12, <2>1, CallTypes DEF TakeSend, Answered, Statuses, AnswerInv
  <2>6. /\ shown' \in State \cup {Nothing} /\ slider' \in MinLevel..MaxLevel /\ failures' \in 0..3
        /\ failures' = failures \/ failures' = 0
    BY <1>12, <1>1, <1>2, <2>5 DEF TakeSend
  <2>7. TypeOK'
    BY <1>12, <2>2, <2>6 DEF TypeOK, TakeSend, world, maxVolumeFailures
  <2>8. ClosedInv' /\ LoadInv' /\ AnswerInv'
    BY <1>12, <2>2, <2>3, <2>4, <2>6 DEF ClosedInv, LoadInv, AnswerInv, TakeSend, maxVolumeFailures
  <2>9. LoneInv'
    <3>1. CASE calls[c].status = "failed"
      BY <1>12, <2>1, <2>2, <3>1 DEF LoneInv, TakeSend, Enabled, world
    <3>2. CASE calls[c].status # "failed"
      BY <1>12, <2>1, <2>2, <2>5, <3>2 DEF LoneInv, TakeSend, Enabled, world
    <3> QED
      BY <3>1, <3>2
  <2> QED
    BY <2>7, <2>8, <2>9 DEF RowInv
<1>13. ASSUME NEW c \in Calls, TakeSignedOut(c) PROVE RowInv'
  BY <1>13, <1>leave DEF TakeSignedOut
<1>14. ASSUME NEW p \in Polls, Poll(p) \/ AnswerPoll(p) \/ LosePoll(p) PROVE RowInv'
  <2>1. UNCHANGED <<device, console, page, calls, lone>> /\ faults' \in 0..MaxFaults
    BY <1>14, RowAssumption
    DEF Poll, AnswerPoll, HandlePoll, HandlePollSignedOut, LosePoll, TypeOK, world
  <2>2. InFlight' = InFlight /\ Loads' = Loads
    BY <2>1 DEF InFlight, Loads
  <2>3. open
    BY <1>14 DEF Poll, AnswerPoll, HandlePoll, HandlePollSignedOut, LosePoll, ClosedInv
  <2>4. polls' \in [Polls -> PollPhase]
    BY <1>14
    DEF Poll, AnswerPoll, HandlePoll, HandlePollSignedOut, LosePoll, TypeOK, PollPhase
  <2>5. TypeOK'
    BY <2>1, <2>4 DEF TypeOK, page
  <2> QED
    BY <2>1, <2>2, <2>3, <2>5
    DEF RowInv, ClosedInv, LoadInv, AnswerInv, LoneInv, Enabled, page
<1>15. ASSUME NEW p \in Polls, TakeAvailable(p) PROVE RowInv'
  <2>1. open /\ open' /\ polls' \in [Polls -> PollPhase]
    BY <1>15 DEF TakeAvailable, ClosedInv, TypeOK, PollPhase
  <2>2. CASE UNCHANGED <<loading, calls, lone>>
    <3>1. InFlight' = InFlight /\ Loads' = Loads
      BY <2>2 DEF InFlight, Loads
    <3>2. TypeOK'
      BY <1>15, <2>1, <2>2 DEF TypeOK, TakeAvailable, world
    <3> QED
      BY <1>15, <2>1, <2>2, <3>1, <3>2
      DEF TakeAvailable, RowInv, ClosedInv, LoadInv, AnswerInv, LoneInv, Enabled, world
  <2>3. CASE ~UNCHANGED <<loading, calls, lone>>
    <3>1. /\ ~Enabled /\ failures < maxVolumeFailures /\ CanCall /\ ~loading
          /\ loading' = TRUE /\ calls' = Sent(Load) /\ StillLone
      BY <1>15, <2>3 DEF TakeAvailable, LoadVolume
    <3>2. /\ ~Enabled' /\ shown' \in State \cup {Nothing} /\ failures' \in 0..2
          /\ UNCHANGED world /\ slider' \in MinLevel..MaxLevel
      BY <1>15, <1>1, <3>1 DEF TakeAvailable, Enabled, maxVolumeFailures, TypeOK
    <3> QED
      BY <1>load, <2>1, <3>1, <3>2
  <2> QED
    BY <2>2, <2>3
<1>16. ASSUME NEW p \in Polls, TakeUnavailable(p) PROVE RowInv'
  <2>1. open /\ open' /\ polls' \in [Polls -> PollPhase]
    BY <1>16 DEF TakeUnavailable, ClosedInv, TypeOK, PollPhase
  <2>2. InFlight' = InFlight /\ Loads' = Loads
    BY <1>16 DEF TakeUnavailable, InFlight, Loads
  <2>3. TypeOK'
    BY <1>16, <1>2, <2>1 DEF TypeOK, TakeUnavailable, Disable, world, maxVolumeFailures
  <2> QED
    BY <1>16, <2>1, <2>2, <2>3
    DEF TakeUnavailable, Disable, RowInv, ClosedInv, LoadInv, AnswerInv, LoneInv, Enabled,
        world, maxVolumeFailures
<1>17. ASSUME NEW p \in Polls, TakePollSignedOut(p) PROVE RowInv'
  BY <1>17, <1>leave DEF TakePollSignedOut
<1>18. ASSUME ConsoleChanges \/ ChangedElsewhere \/ UNCHANGED vars PROVE RowInv'
  <2>1. UNCHANGED <<faults, page, calls, polls>>
    BY <1>18 DEF ConsoleChanges, ChangedElsewhere, vars, world
  <2>2. InFlight' = InFlight /\ Loads' = Loads
    BY <2>1 DEF InFlight, Loads
  <2>3. device' \in State /\ device' = Settled(device') /\ console' \in Consoles
    BY <1>18, DevicesSettled DEF ConsoleChanges, ChangedElsewhere, vars, world, TypeOK
  <2>4. lone' \in BOOLEAN /\ (lone' => lone /\ device' = device)
    <3>1. \/ lone' = lone /\ device' = device
          \/ lone' = FALSE
      BY <1>18 DEF ConsoleChanges, ChangedElsewhere, vars, world
    <3>2. CASE lone' = lone /\ device' = device
      BY <3>2 DEF TypeOK
    <3>3. CASE lone' = FALSE
      BY <3>3
    <3> QED
      BY <3>1, <3>2, <3>3
  <2>5. TypeOK'
    <3>1. (Settled(device))' = Settled(device')
      BY DEF Settled
    <3> QED
      BY <2>1, <2>3, <2>4, <3>1 DEF TypeOK, page
  <2> QED
    BY <2>1, <2>2, <2>4, <2>5
    DEF RowInv, ClosedInv, LoadInv, AnswerInv, LoneInv, Enabled, page
<1> QED
  BY <1>3, <1>5, <1>6, <1>7, <1>8, <1>9, <1>10, <1>11, <1>12, <1>13, <1>14, <1>15, <1>16,
     <1>17, <1>18
  DEF Next, HandleCall, TakeCall, TakePoll

-----------------------------------------------------------------------------
LEMMA RowInvariant == Spec => []RowInv
BY RowInit, RowStep, PTL DEF Spec

\* The page's state and the requests in flight keep their types.
THEOREM TypeCorrect == Spec => []TypeOK
<1>1. RowInv => TypeOK
  BY DEF RowInv
<1> QED
  BY <1>1, RowInvariant, PTL

\* However many polls say that the row may be tried again, a page has no more
\* than maxVolumeFailures loads that have failed or are on their way.
THEOREM LoadsAreFew == Spec => []RetriesAreBounded
<1>1. RowInv => RetriesAreBounded
  <2> SUFFICES ASSUME RowInv PROVE RetriesAreBounded
    OBVIOUS
  <2>1. failures \in 0..3 /\ LoadInv
    BY DEF RowInv, TypeOK, maxVolumeFailures
  <2>2. CASE Loads = {}
    BY <2>1, <2>2, FS_EmptySet DEF RetriesAreBounded, maxVolumeFailures
  <2>3. CASE Loads # {}
    <3>1. PICK c \in Loads : Loads = {c}
      BY <2>1, <2>3 DEF LoadInv
    <3>2. Cardinality(Loads) = 1
      BY <3>1, FS_Singleton
    <3> QED
      BY <2>1, <2>3, <3>2 DEF LoadInv, RetriesAreBounded, maxVolumeFailures
  <2> QED
    BY <2>2, <2>3
<1> QED
  BY <1>1, RowInvariant, PTL

\* A row at rest shows what the PC has, unless requests have overlapped, one has
\* failed after its change, or somebody else has been at the volume.
THEOREM RowShowsTheDevice == Spec => []ShowsTheDevice
<1>1. RowInv => ShowsTheDevice
  BY DEF RowInv, LoneInv, ShowsTheDevice
<1> QED
  BY <1>1, RowInvariant, PTL
=============================================================================
