---------------------------- MODULE ActionManager ----------------------------
(***************************************************************************)
(* The single scheduled power action of Shutdowner, from                   *)
(* src/internal/action/manager.go: the manager's fields under its mutex,   *)
(* the tick goroutine that runs the power action outside that mutex, the   *)
(* schedule file, the PC's wall clock, the requests that have computed a   *)
(* deadline and not yet reached the manager, and the process that may end  *)
(* at any instant and start again.                                         *)
(*                                                                         *)
(* A critical section of the manager is one step.  The work a handler does *)
(* before it locks (ResolveWhen) and the work Tick does between unlocking  *)
(* and locking again (Execute) are steps of their own.                     *)
(***************************************************************************)
EXTENDS Integers

CONSTANTS
    Actions,           \* the power actions Valid accepts
    Suspending,        \* those that Suspends() reports, gated by a capability
    NotAnAction,       \* an action name Valid refuses
    MissedGrace,       \* how far past its deadline an action may still fire
    MaxHorizon,        \* how far ahead an action may be scheduled
    FailedRetention,   \* how long a failure is reported
    Clients,           \* requests that may be in flight at once
    None,              \* nil
    Damaged,           \* a schedule file Load cannot read or parse
    MaxClock,          \* bound: the clock stops here
    MaxIds,            \* bound: schedules accepted
    MaxExits,          \* bound: times the process ends
    MaxLostWrites,     \* bound: writes of the schedule file that fail
    MaxFailedReads,    \* bound: reads of a good schedule file that fail
    MaxStepBacks       \* bound: corrections of the clock backwards

Ids == 1..MaxIds
PendingRecord == [id : Nat, action : Actions \cup {NotAnAction}, firesAt : Nat]
AskedRecord   == [action : Actions \cup {NotAnAction}, firesAt : Nat]
MissedRecord  == [action : Actions \cup {NotAnAction}, wasDueAt : Nat]
Persisted     == [pending : PendingRecord \cup {None},
                  missed  : MissedRecord \cup {None}]

ASSUME ClockAssumption ==
    /\ MissedGrace \in Nat /\ MaxHorizon \in Nat /\ FailedRetention \in Nat
    /\ MaxClock \in Nat /\ MaxIds \in Nat \ {0}
    /\ MaxExits \in Nat /\ MaxLostWrites \in Nat
    /\ MaxFailedReads \in Nat /\ MaxStepBacks \in Nat
ASSUME ActionAssumption == Suspending \subseteq Actions /\ NotAnAction \notin Actions
ASSUME NilAssumption ==
    None \notin PendingRecord /\ None \notin MissedRecord /\ Damaged \notin Persisted

VARIABLES
    now,        \* the PC's wall clock
    stepBacks,  \* corrections of the clock so far
    up,         \* the process is running and has run Restore
    exits,      \* times the process has ended
    state, id, action, firesAt, lastErr, failedAt, missed, \* Manager's fields
    worker,     \* where the tick goroutine is
    disk,       \* the schedule file
    lostWrites, \* writes of the schedule file that have failed
    failedReads,\* reads of a good schedule file that have failed
    unread,     \* this process could not read the file, and has not written it since
    requests,   \* per client: the deadline computed by ResolveWhen, not yet scheduled
    lastId,     \* the last identifier newID returned
    due,        \* history: the deadline each identifier was accepted with
    fired,      \* history: how often each identifier's action was carried out
    aborted,    \* history: identifiers whose Abort was answered with success
    skipped     \* history: identifiers turned into a missed record

store   == <<disk, lostWrites, failedReads, unread>>
memory  == <<state, id, action, firesAt, lastErr, failedAt, missed>>
clock   == <<now, stepBacks>>
process == <<up, exits>>
history == <<due, fired, aborted, skipped>>
vars == <<clock, process, memory, worker, store, requests, lastId, history>>

States  == {"idle", "pending", "executing", "failed", "missed"}
Workers == {"waiting", "claimed", "succeeded", "broke"}
NoId    == 0                      \* the empty string of m.id
Empty   == [pending |-> None, missed |-> None]   \* what Load makes of no file

TypeOK ==
    /\ now \in Nat /\ stepBacks \in Nat
    /\ up \in BOOLEAN /\ exits \in Nat
    /\ state \in States /\ id \in Nat /\ firesAt \in Nat
    /\ action \in Actions \cup {NotAnAction}
    /\ lastErr \in BOOLEAN /\ failedAt \in Nat
    /\ missed \in MissedRecord \cup {None}
    /\ worker \in Workers
    /\ disk \in Persisted \cup {Damaged}
    /\ lostWrites \in Nat /\ failedReads \in Nat /\ unread \in BOOLEAN
    /\ requests \in [Clients -> AskedRecord \cup {None}]
    /\ lastId \in 0..MaxIds
    /\ due \in [Ids -> Nat] /\ fired \in [Ids -> Nat]
    /\ aborted \subseteq Nat /\ skipped \subseteq Nat

(***************************************************************************)
(* What a file left by an earlier run may hold, edited by hand included:   *)
(* an action that is none, a deadline too far ahead, a missed record next  *)
(* to a pending one.  Its pending action, if any, has identifier 1.        *)
(***************************************************************************)
EarlierFile ==
    {Damaged} \cup
    [pending : {None} \cup [id : {1}, action : Actions \cup {NotAnAction}, firesAt : 0..MaxClock],
     missed  : {None} \cup [action : Actions, wasDueAt : {0}]]

OnDisk == IF disk = Damaged THEN None ELSE disk.pending

NewManager ==
    /\ state = "idle" /\ id = NoId /\ action = NotAnAction /\ firesAt = 0
    /\ lastErr = FALSE /\ failedAt = 0 /\ missed = None

Init ==
    /\ now = 0 /\ stepBacks = 0 /\ up = FALSE /\ exits = 0
    /\ NewManager /\ worker = "waiting"
    /\ disk \in EarlierFile
    /\ lostWrites = 0 /\ failedReads = 0 /\ unread = FALSE
    /\ requests = [c \in Clients |-> None]
    /\ lastId = IF OnDisk = None THEN 0 ELSE OnDisk.id
    /\ due = [i \in Ids |-> IF OnDisk = None THEN 0 ELSE OnDisk.firesAt]
    /\ fired = [i \in Ids |-> 0]
    /\ aborted = {} /\ skipped = {}

-----------------------------------------------------------------------------
(***************************************************************************)
(* persistLocked: the image of the fields goes to the file, an empty image *)
(* by removing the file.  The error of a write is logged and dropped, and  *)
(* the file then still holds what it held before.                          *)
(***************************************************************************)
Image ==
    [pending |-> IF state = "pending"
                   THEN [id |-> id, action |-> action, firesAt |-> firesAt]
                   ELSE None,
     missed  |-> missed]

PersistFails ==
    /\ lostWrites < MaxLostWrites
    /\ lostWrites' = lostWrites + 1 /\ UNCHANGED <<disk, failedReads, unread>>
PersistLocked ==
    \/ disk' = Image' /\ unread' = FALSE /\ UNCHANGED <<lostWrites, failedReads>>
    \/ PersistFails

\* missLocked, for the action a that was due at t.
MissLocked(a, t) ==
    /\ missed' = [action |-> a, wasDueAt |-> t]
    /\ state' = "missed" /\ id' = NoId
    /\ PersistLocked

-----------------------------------------------------------------------------
\* Slip: the delay's lower bound is not checked.
Request_NegativeDelay(c) ==
    /\ up /\ requests[c] = None
    /\ \E a \in Actions, t \in (now - 1)..(now + MaxHorizon) :
          requests' = [requests EXCEPT ![c] = [action |-> a, firesAt |-> t]]
    /\ UNCHANGED <<clock, process, memory, worker, store, lastId, history>>

\* handleAction up to ResolveWhen: the deadline is computed from the clock
\* before anything is locked.
Request(c) ==
    /\ up /\ requests[c] = None
    /\ \E a \in Actions \cup {NotAnAction}, t \in now..(now + MaxHorizon) :
          /\ t <= MaxClock
          /\ requests' = [requests EXCEPT ![c] = [action |-> a, firesAt |-> t]]
    /\ UNCHANGED <<clock, process, memory, worker, store, lastId, history>>

Conflict == state \in {"pending", "executing"}

\* Schedule.  expireFailedLocked at its start leaves nothing behind: the
\* fields it resets are all assigned here.
Schedule(c) ==
    /\ up /\ requests[c] # None
    /\ requests[c].action \in Actions
    /\ ~Conflict
    /\ lastId < MaxIds
    /\ requests' = [requests EXCEPT ![c] = None]
    /\ lastId' = lastId + 1
    /\ state' = "pending" /\ id' = lastId + 1
    /\ action' = requests[c].action /\ firesAt' = requests[c].firesAt
    /\ missed' = None /\ lastErr' = FALSE
    /\ PersistLocked
    /\ due' = [due EXCEPT ![lastId + 1] = requests[c].firesAt]
    /\ UNCHANGED <<clock, process, failedAt, worker, fired, aborted, skipped>>

\* An unknown action, and a suspend state, which this machine may not offer at
\* this moment; shutdown and restart are always allowed.
Refusable(a) == a \notin Actions \/ a \in Suspending

\* Schedule's refusals; the controller is asked before the lock is taken.
Refuse(c) ==
    /\ up /\ requests[c] # None
    /\ Refusable(requests[c].action) \/ Conflict
    /\ requests' = [requests EXCEPT ![c] = None]
    /\ UNCHANGED <<clock, process, memory, worker, store, lastId, history>>

\* Abort of the identifier a client shows; any other identifier is refused
\* with ErrNoPending and changes nothing.
Abort(i) ==
    /\ up /\ state = "pending" /\ id = i
    /\ state' = "idle" /\ id' = NoId
    /\ aborted' = aborted \cup {i}
    /\ UNCHANGED missed
    /\ PersistLocked
    /\ UNCHANGED <<clock, process, action, firesAt, lastErr, failedAt,
                   worker, requests, lastId, due, fired, skipped>>

\* Slip: the record goes from memory only.
Dismiss_NotWritten ==
    /\ up
    /\ state' = IF state = "missed" THEN "idle" ELSE state
    /\ missed' = None
    /\ UNCHANGED <<clock, process, id, action, firesAt, lastErr, failedAt,
                   worker, store, requests, lastId, history>>

\* Dismiss, which writes the file whatever the state is.
Dismiss ==
    /\ up
    /\ state' = IF state = "missed" THEN "idle" ELSE state
    /\ missed' = None
    /\ UNCHANGED <<id, action, firesAt>>
    /\ PersistLocked
    /\ UNCHANGED <<clock, process, lastErr, failedAt, worker, requests, lastId, history>>

\* Status: expireFailedLocked is the only thing it changes.
ExpireFailed ==
    /\ up /\ state = "failed" /\ now - failedAt >= FailedRetention
    /\ state' = "idle" /\ lastErr' = FALSE
    /\ UNCHANGED <<clock, process, id, action, firesAt, failedAt, missed,
                   worker, store, requests, lastId, history>>

-----------------------------------------------------------------------------
\* Slip: the last instant of the grace counts as late.
Late_AtBoundary(t) == now - t >= MissedGrace

Late(t) == now - t > MissedGrace

\* Slip: a deadline too long gone is passed over.
TickMisses_Ignored ==
    /\ up /\ worker = "waiting" /\ state = "pending" /\ Late(firesAt)
    /\ UNCHANGED vars

\* Tick, first critical section, the deadline too long gone.
TickMisses ==
    /\ up /\ worker = "waiting" /\ state = "pending"
    /\ now >= firesAt /\ Late(firesAt)
    /\ MissLocked(action, firesAt)
    /\ skipped' = skipped \cup {id}
    /\ UNCHANGED <<clock, process, action, firesAt, lastErr, failedAt,
                   worker, requests, lastId, due, fired, aborted>>

\* Slip: the claim is written only when Execute has returned.
TickClaims_NotWritten ==
    /\ up /\ worker = "waiting" /\ state = "pending"
    /\ now >= firesAt /\ ~Late(firesAt)
    /\ state' = "executing" /\ worker' = "claimed"
    /\ UNCHANGED <<clock, process, id, action, firesAt, lastErr, failedAt, missed,
                   store, requests, lastId, history>>

\* Slip: no grace, whatever is due is carried out.
TickClaims_NoGrace ==
    /\ up /\ worker = "waiting" /\ state = "pending"
    /\ now >= firesAt
    /\ state' = "executing" /\ worker' = "claimed"
    /\ UNCHANGED <<id, missed>>
    /\ PersistLocked
    /\ UNCHANGED <<clock, process, action, firesAt, lastErr, failedAt,
                   requests, lastId, history>>

\* Tick, first critical section: the action is claimed, and the claim is
\* written before the lock is released.
TickClaims ==
    /\ up /\ worker = "waiting" /\ state = "pending"
    /\ now >= firesAt /\ ~Late(firesAt)
    /\ state' = "executing" /\ worker' = "claimed"
    /\ UNCHANGED <<id, missed>>
    /\ PersistLocked
    /\ UNCHANGED <<clock, process, action, firesAt, lastErr, failedAt,
                   requests, lastId, history>>

\* execute: the controller carries the action out, with the manager unlocked.
ExecuteSucceeds ==
    /\ up /\ worker = "claimed"
    /\ worker' = "succeeded"
    /\ fired' = [fired EXCEPT ![id] = @ + 1]
    /\ UNCHANGED <<clock, process, memory, store, requests, lastId, due, aborted, skipped>>

\* execute: the controller returns an error, or panics and is recovered.
ExecuteFails ==
    /\ up /\ worker = "claimed"
    /\ worker' = "broke"
    /\ UNCHANGED <<clock, process, memory, store, requests, lastId, history>>

\* Tick, second critical section.
TickFinishes ==
    /\ up /\ worker \in {"succeeded", "broke"}
    /\ worker' = "waiting"
    /\ \/ /\ worker = "broke"
          /\ state' = "failed" /\ lastErr' = TRUE /\ failedAt' = now
       \/ /\ worker = "succeeded"
          /\ state' = "idle" /\ lastErr' = FALSE /\ UNCHANGED failedAt
    /\ UNCHANGED <<id, missed>>
    /\ PersistLocked
    /\ UNCHANGED <<clock, process, action, firesAt, requests, lastId, history>>

-----------------------------------------------------------------------------
\* The process ends: the listener fails, a stop or a shutdown of the PC, neither
\* of which waits for Execute, or a crash.  Memory is gone, and so are the
\* requests in flight.
Exit ==
    /\ up /\ exits < MaxExits
    /\ up' = FALSE /\ exits' = exits + 1
    /\ state' = "idle" /\ id' = NoId /\ action' = NotAnAction /\ firesAt' = 0
    /\ lastErr' = FALSE /\ failedAt' = 0 /\ missed' = None
    /\ worker' = "waiting"
    /\ requests' = [c \in Clients |-> None]
    /\ unread' = FALSE
    /\ UNCHANGED <<clock, disk, lostWrites, failedReads, lastId, history>>

\* Restore at the start of the process, one action per way it can go.  In one
\* Load returns an error, of which main makes a line in the log: always on a
\* damaged file, and at times on a good one, whose contents stay where they are
\* while the manager starts with nothing.
LoadFails ==
    /\ ~up /\ up' = TRUE
    /\ unread' = TRUE
    /\ \/ disk = Damaged /\ UNCHANGED failedReads
       \/ /\ disk # Damaged /\ failedReads < MaxFailedReads
          /\ failedReads' = failedReads + 1
    /\ UNCHANGED <<clock, exits, memory, worker, disk, lostWrites, requests, lastId, history>>

\* Slip: a missed record on its own is taken for an empty schedule.
RestoresNoPending_Cleared ==
    /\ ~up /\ up' = TRUE
    /\ disk # Damaged /\ OnDisk = None
    /\ disk' = Empty
    /\ UNCHANGED <<clock, exits, memory, worker, lostWrites, failedReads, unread,
                   requests, lastId, history>>

RestoresNoPending ==
    /\ ~up /\ up' = TRUE
    /\ disk # Damaged /\ OnDisk = None
    /\ IF disk.missed # None
         THEN missed' = disk.missed /\ state' = "missed"
         ELSE UNCHANGED <<missed, state>>
    /\ UNCHANGED <<clock, exits, id, action, firesAt, lastErr, failedAt,
                   worker, store, requests, lastId, history>>

Invalid(p) == p.action \notin Actions \/ p.firesAt - now > MaxHorizon

RestoreRefuses ==
    /\ ~up /\ up' = TRUE
    /\ OnDisk # None /\ Invalid(OnDisk)
    /\ missed' = None /\ state' = "idle"
    /\ UNCHANGED <<id, action, firesAt>>
    /\ PersistLocked
    /\ UNCHANGED <<clock, exits, lastErr, failedAt, worker, requests, lastId, history>>

RestoreMisses ==
    /\ ~up /\ up' = TRUE
    /\ OnDisk # None /\ ~Invalid(OnDisk) /\ Late(OnDisk.firesAt)
    /\ action' = OnDisk.action /\ firesAt' = OnDisk.firesAt
    /\ MissLocked(OnDisk.action, OnDisk.firesAt)
    /\ skipped' = skipped \cup {OnDisk.id}
    /\ UNCHANGED <<clock, exits, lastErr, failedAt, worker, requests, lastId,
                   due, fired, aborted>>

\* Slip: a missed record found next to the pending action stays.
RestoreRearms_KeepsMissed ==
    /\ ~up /\ up' = TRUE
    /\ OnDisk # None /\ ~Invalid(OnDisk) /\ ~Late(OnDisk.firesAt)
    /\ state' = "pending" /\ id' = OnDisk.id /\ missed' = disk.missed
    /\ action' = OnDisk.action /\ firesAt' = OnDisk.firesAt
    /\ PersistLocked
    /\ UNCHANGED <<clock, exits, lastErr, failedAt, worker, requests, lastId, history>>

RestoreRearms ==
    /\ ~up /\ up' = TRUE
    /\ OnDisk # None /\ ~Invalid(OnDisk) /\ ~Late(OnDisk.firesAt)
    /\ state' = "pending" /\ id' = OnDisk.id /\ missed' = None
    /\ action' = OnDisk.action /\ firesAt' = OnDisk.firesAt
    /\ PersistLocked
    /\ UNCHANGED <<clock, exits, lastErr, failedAt, worker, requests, lastId, history>>

-----------------------------------------------------------------------------
\* The clock moves on: a second at a time, or by a whole suspension.
Advance ==
    /\ \E t \in (now + 1)..MaxClock : now' = t
    /\ UNCHANGED <<stepBacks, process, memory, worker, store, requests, lastId, history>>

\* Time synchronisation or the operator sets the clock back.
StepBack ==
    /\ stepBacks < MaxStepBacks /\ now > 0
    /\ stepBacks' = stepBacks + 1 /\ now' = now - 1
    /\ UNCHANGED <<process, memory, worker, store, requests, lastId, history>>

Tick    == TickMisses \/ TickClaims
Restore == LoadFails \/ RestoresNoPending \/ RestoreRefuses \/ RestoreMisses \/ RestoreRearms

Next ==
    \/ \E c \in Clients : Request(c) \/ Schedule(c) \/ Refuse(c)
    \/ \E i \in Ids : Abort(i)
    \/ Dismiss \/ ExpireFailed
    \/ Tick \/ ExecuteSucceeds \/ ExecuteFails \/ TickFinishes
    \/ Exit \/ Restore
    \/ Advance \/ StepBack

Spec == Init /\ [][Next]_vars

(***************************************************************************)
(* What the code and its host schedule: the ticker keeps calling Tick, the *)
(* service is started again, time passes.  Nothing says that Execute       *)
(* returns or that anybody uses the page.                                  *)
(***************************************************************************)
Fairness == WF_vars(Tick) /\ WF_vars(Restore) /\ WF_vars(Advance)

FairSpec == Spec /\ Fairness

-----------------------------------------------------------------------------
(***************************************************************************)
(* Properties.                                                             *)
(***************************************************************************)

\* An identifier meets at most one fate, and is carried out at most once:
\* an action whose abort was acknowledged is never carried out nor reported
\* as missed, and one reported as missed was not carried out.  Restore and
\* the early write of the claim in Tick are there for this.  It holds as long
\* as every write of the schedule file has succeeded.
OneFate(i) ==
    /\ fired[i] <= 1
    /\ fired[i] = 1 => i \notin aborted \cup skipped
    /\ ~(i \in aborted /\ i \in skipped)
AtMostOneFate == lostWrites = 0 => \A i \in Ids : OneFate(i)

\* The same for what is carried out alone, as manager.go:182-184 puts it:
\* a write that fails loses the schedule across a restart "and nothing more".
\* So an aborted action, or one already carried out, is not carried out later.
FailedWriteOnlyLoses ==
    \A i \in Ids : fired[i] + (IF i \in aborted THEN 1 ELSE 0) <= 1

\* While the process runs, the file says exactly what a restart should
\* resume: every path that changes the schedule reaches the file before the
\* lock is released, unless the write itself fails.  The exception is a file
\* Restore could not read, which stays, whatever it holds, beside a manager that
\* has nothing, until a schedule or a dismissal writes over it or a restart
\* reads it.
FileAgrees ==
    up /\ lostWrites = 0 =>
        IF unread THEN state = "idle" /\ missed = None ELSE disk = Image

\* A missed record is shown in the missed state and in no other, whatever
\* the file held and however many writes failed: Status reports the record
\* regardless of the state, so a stale one would sit next to a pending action.
MissedIffReported == up => ((missed # None) <=> (state = "missed"))

\* The tick goroutine is inside Execute exactly while the manager says it is
\* executing, so no second action can be claimed, armed or aborted meanwhile.
WorkerMatchesState == up => ((worker # "waiting") <=> (state = "executing"))

StateAgrees == MissedIffReported /\ WorkerMatchesState

\* An action is claimed only between the deadline its request was accepted
\* with and MissedGrace after it, on whatever path (file, restart, failed
\* write) the deadline travelled in between.
ClaimStep == worker = "waiting" /\ worker' = "claimed"
ClaimedInWindow ==
    [][ClaimStep => due[id] <= now /\ now <= due[id] + MissedGrace]_vars

\* A missed record, once on the page, goes only by an explicit Dismiss, a new
\* schedule, or the process ending - and in the last case a restart brings it
\* back, so it is never lost: the file keeps it while the process is down, and
\* while one runs that could not read it.  A write that fails may leave an older
\* file, and a restart then reads that.
OnFileMissed == IF disk = Damaged THEN None ELSE disk.missed
MissedRecordKept ==
    [][ (OnFileMissed # None /\ OnFileMissed' = None /\ lostWrites' = 0)
          => \/ Dismiss
             \/ ~up /\ OnDisk # None
             \/ \E c \in Clients : Schedule(c) ]_vars

\* An armed action does not stay armed: it is claimed, missed, refused or
\* aborted, in this run of the process or a later one.  A file may keep it that
\* the process could not read or could not write, but no process that runs does,
\* and the next one that reads the file starts on it again.
ArmedHere(i) == up /\ state = "pending" /\ id = i
ArmedOnFile(i) == OnDisk # None /\ OnDisk.id = i
EveryActionSettles ==
    \A i \in Ids : (ArmedHere(i) \/ ArmedOnFile(i))
                    ~> (~ArmedHere(i) /\ (lostWrites = 0 /\ ~unread => ~ArmedOnFile(i)))

(***************************************************************************)
(* What makes these inductive.  ManagerInv holds whatever writes fail, the  *)
(* rest of ScheduleInv as long as none has.                                *)
(***************************************************************************)
DownIsNew == ~up => NewManager /\ worker = "waiting" /\ ~unread

\* The deadline of an armed action, in memory or in the file, is the one its
\* identifier was accepted with.
DeadlinesKept ==
    /\ up /\ state = "pending" => id \in 1..lastId /\ due[id] = firesAt
    /\ OnDisk # None => OnDisk.id \in 1..lastId /\ due[OnDisk.id] = OnDisk.firesAt

\* What is armed is an action that can be carried out: Schedule and Restore
\* both look, and nothing looks again.
ArmedIsValid == up /\ state = "pending" => action \in Actions

ManagerInv ==
    /\ TypeOK /\ DownIsNew /\ WorkerMatchesState /\ MissedIffReported
    /\ DeadlinesKept /\ ArmedIsValid

NoFate(i) == fired[i] = 0 /\ i \notin aborted \cup skipped

\* Nothing has become of an action that is still in the file, of one being
\* carried out, or of an identifier not yet given out.
FateInv ==
    lostWrites = 0 =>
        /\ OnDisk # None => NoFate(OnDisk.id)
        /\ worker = "claimed" => id \in 1..lastId /\ NoFate(id)
        /\ \A i \in Ids : i > lastId => NoFate(i)

ScheduleInv == ManagerInv /\ FileAgrees /\ FateInv /\ AtMostOneFate

(***************************************************************************)
(* The promise of PowerSchedule, read off the file (which outlives the     *)
(* process) and the tick goroutine, kept up to the first write that fails; *)
(* what a process could not read at its start is hidden from it.           *)
(***************************************************************************)
Promise == INSTANCE PowerSchedule WITH
    ValidActions <- Actions,
    armed     <- OnDisk,
    hidden    <- unread /\ OnDisk # None,
    claimed   <- IF worker = "waiting" THEN {} ELSE {id},
    used      <- lastId,
    fired     <- {i \in Ids : fired[i] > 0},
    cancelled <- aborted
KeepsPromise == Promise!Init /\ [][lostWrites' = 0 => Promise!Next]_(Promise!vars)
=============================================================================
