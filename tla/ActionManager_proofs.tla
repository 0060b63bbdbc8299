------------------------- MODULE ActionManager_proofs -------------------------
(***************************************************************************)
(* Theorems of ActionManager, for every value of its constants.            *)
(***************************************************************************)
EXTENDS ActionManager, TLAPS

-----------------------------------------------------------------------------
(* Type correctness. *)

LEMMA OnDiskType ==
    ASSUME disk \in Persisted \cup {Damaged}, OnDisk # None
    PROVE  /\ OnDisk \in PendingRecord
           /\ disk \in Persisted /\ OnDisk = disk.pending
BY DEF OnDisk, Persisted

LEMMA PersistType ==
    ASSUME disk \in Persisted \cup {Damaged},
           state' \in States, id' \in Nat, firesAt' \in Nat,
           action' \in Actions \cup {NotAnAction},
           missed' \in MissedRecord \cup {None},
           PersistLocked
    PROVE  disk' \in Persisted \cup {Damaged}
<1>1. Image' \in Persisted
  BY DEF Image, Persisted, PendingRecord
<1> QED
  BY <1>1 DEF PersistLocked, PersistFails

LEMMA TypeInit == Init => TypeOK
<1> SUFFICES ASSUME Init PROVE TypeOK
  OBVIOUS
<1> USE DEF Init, NewManager, TypeOK
<1>1. disk \in Persisted \cup {Damaged}
  BY ClockAssumption, ActionAssumption DEF EarlierFile, Persisted, PendingRecord, MissedRecord
<1>2. OnDisk # None => OnDisk.id = 1 /\ OnDisk.firesAt \in Nat
  BY ClockAssumption DEF EarlierFile, OnDisk
<1>3. lastId \in 0..MaxIds /\ due \in [Ids -> Nat]
  BY <1>2, ClockAssumption
<1> QED
  BY <1>1, <1>3 DEF States, Workers, NoId

LEMMA TypeStep == TypeOK /\ [Next]_vars => TypeOK'
<1> SUFFICES ASSUME TypeOK, [Next]_vars PROVE TypeOK'
  OBVIOUS
<1> USE ClockAssumption, ActionAssumption
<1> USE DEF TypeOK, States, Workers, NoId, AskedRecord, memory, clock, process, store, history
<1>0. ASSUME PersistLocked
      PROVE  lostWrites' \in Nat /\ failedReads' \in Nat /\ unread' \in BOOLEAN
  <2>1. CASE PersistFails
    BY <2>1 DEF PersistFails
  <2>2. CASE unread' = FALSE /\ UNCHANGED <<lostWrites, failedReads>>
    BY <2>2
  <2> QED
    BY <1>0, <2>1, <2>2 DEF PersistLocked
<1>1. ASSUME NEW c \in Clients, Request(c) PROVE TypeOK'
  BY <1>1 DEF Request
<1>2. ASSUME NEW c \in Clients, Schedule(c) PROVE TypeOK'
  <2>1. requests[c] \in AskedRecord
    BY <1>2 DEF Schedule
  <2>2. disk' \in Persisted \cup {Damaged}
    BY <1>2, <2>1, PersistType DEF Schedule
  <2>3. due' \in [Ids -> Nat]
    BY <1>2, <2>1 DEF Schedule
  <2>4. requests' \in [Clients -> AskedRecord \cup {None}]
    BY <1>2 DEF Schedule
  <2>5. lastId' \in 0..MaxIds /\ id' \in Nat
    BY <1>2 DEF Schedule
  <2> QED
    BY <1>0, <1>2, <2>1, <2>2, <2>3, <2>4, <2>5 DEF Schedule
<1>3. ASSUME NEW c \in Clients, Refuse(c) PROVE TypeOK'
  BY <1>3 DEF Refuse
<1>4. ASSUME NEW i \in Ids, Abort(i) PROVE TypeOK'
  <2>1. disk' \in Persisted \cup {Damaged}
    BY <1>4, PersistType DEF Abort
  <2> QED
    BY <1>0, <1>4, <2>1 DEF Abort, Ids
<1>5. CASE Dismiss
  <2>1. disk' \in Persisted \cup {Damaged}
    BY <1>5, PersistType DEF Dismiss
  <2> QED
    BY <1>0, <1>5, <2>1 DEF Dismiss
<1>6. CASE ExpireFailed
  BY <1>6 DEF ExpireFailed
<1>7. CASE TickMisses
  <2>1. missed' \in MissedRecord
    BY <1>7 DEF TickMisses, MissLocked, MissedRecord
  <2>2. disk' \in Persisted \cup {Damaged}
    BY <1>7, <2>1, PersistType DEF TickMisses, MissLocked
  <2> QED
    BY <1>0, <1>7, <2>1, <2>2 DEF TickMisses, MissLocked
<1>8. CASE TickClaims
  <2>1. disk' \in Persisted \cup {Damaged}
    BY <1>8, PersistType DEF TickClaims
  <2> QED
    BY <1>0, <1>8, <2>1 DEF TickClaims
<1>9. CASE ExecuteSucceeds
  <2>1. \A i \in Ids : fired[i] \in Nat /\ fired[i] + 1 \in Nat
    OBVIOUS
  <2>2. fired' = [i \in Ids |-> IF i = id THEN fired[id] + 1 ELSE fired[i]]
    BY <1>9 DEF ExecuteSucceeds
  <2>3. fired' \in [Ids -> Nat]
    BY <2>1, <2>2
  <2> QED
    BY <1>9, <2>3 DEF ExecuteSucceeds
<1>10. CASE ExecuteFails
  BY <1>10 DEF ExecuteFails
<1>11. CASE TickFinishes
  <2>1. disk' \in Persisted \cup {Damaged}
    BY <1>11, PersistType DEF TickFinishes
  <2> QED
    BY <1>0, <1>11, <2>1 DEF TickFinishes
<1>12. CASE Exit
  <2>1. requests' \in [Clients -> AskedRecord \cup {None}]
    BY <1>12 DEF Exit
  <2>2. up' \in BOOLEAN
    BY <1>12 DEF Exit
  <2>3. exits' \in Nat
    BY <1>12 DEF Exit
  <2>4. /\ now' \in Nat /\ stepBacks' \in Nat /\ disk' \in Persisted \cup {Damaged}
        /\ lostWrites' \in Nat /\ failedReads' \in Nat /\ unread' \in BOOLEAN
        /\ lastId' \in 0..MaxIds /\ aborted' \subseteq Nat /\ skipped' \subseteq Nat
        /\ due' \in [Ids -> Nat] /\ fired' \in [Ids -> Nat]
    BY <1>12 DEF Exit
  <2>5. /\ state' \in States /\ id' \in Nat /\ firesAt' \in Nat
        /\ action' \in Actions \cup {NotAnAction}
        /\ lastErr' \in BOOLEAN /\ failedAt' \in Nat
        /\ missed' \in MissedRecord \cup {None}
        /\ worker' \in Workers
    BY <1>12 DEF Exit
  <2> QED
    BY <2>1, <2>2, <2>3, <2>4, <2>5
<1>13. CASE RestoresNoPending
  BY <1>13 DEF RestoresNoPending, Persisted
<1>14. CASE RestoreRefuses
  <2>1. disk' \in Persisted \cup {Damaged}
    BY <1>14, PersistType DEF RestoreRefuses
  <2> QED
    BY <1>0, <1>14, <2>1 DEF RestoreRefuses
<1>15. CASE RestoreMisses
  <2>1. OnDisk \in PendingRecord
    BY <1>15, OnDiskType DEF RestoreMisses
  <2>2. missed' \in MissedRecord
    BY <1>15, <2>1 DEF RestoreMisses, MissLocked, MissedRecord, PendingRecord
  <2>3. disk' \in Persisted \cup {Damaged}
    BY <1>15, <2>1, <2>2, PersistType DEF RestoreMisses, MissLocked, PendingRecord
  <2> QED
    BY <1>0, <1>15, <2>1, <2>2, <2>3 DEF RestoreMisses, MissLocked, PendingRecord
<1>16. CASE RestoreRearms
  <2>1. OnDisk \in PendingRecord
    BY <1>16, OnDiskType DEF RestoreRearms
  <2>2. disk' \in Persisted \cup {Damaged}
    BY <1>16, <2>1, PersistType DEF RestoreRearms, PendingRecord
  <2> QED
    BY <1>0, <1>16, <2>1, <2>2 DEF RestoreRearms, PendingRecord
<1>17. CASE Advance
  BY <1>17 DEF Advance
<1>18. CASE StepBack
  BY <1>18 DEF StepBack
<1>19. CASE UNCHANGED vars
  BY <1>19 DEF vars
<1>20. CASE LoadFails
  BY <1>20 DEF LoadFails
<1> QED
  BY <1>1, <1>2, <1>3, <1>4, <1>5, <1>6, <1>7, <1>8, <1>9, <1>10, <1>11, <1>12,
     <1>13, <1>14, <1>15, <1>16, <1>17, <1>18, <1>19, <1>20 DEF Next, Tick, Restore

\* Every variable keeps its type, whatever fails: the manager, the file and
\* the tick goroutine never leave the shapes the code declares.
THEOREM TypeCorrect == Spec => []TypeOK
<1> QED
  BY TypeInit, TypeStep, PTL DEF Spec

-----------------------------------------------------------------------------
(* What holds whatever writes of the schedule file fail. *)

LEMMA ManagerInit == Init => ManagerInv
<1> SUFFICES ASSUME Init PROVE ManagerInv
  OBVIOUS
<1>1. TypeOK
  BY TypeInit
<1>2. DownIsNew /\ WorkerMatchesState /\ MissedIffReported /\ ArmedIsValid
  BY DEF Init, DownIsNew, WorkerMatchesState, MissedIffReported, ArmedIsValid
<1>3. OnDisk # None => OnDisk.id = 1 /\ OnDisk.firesAt \in Nat
  BY ClockAssumption DEF Init, EarlierFile, OnDisk
<1>4. DeadlinesKept
  BY <1>3, ClockAssumption DEF Init, DeadlinesKept, Ids
<1> QED
  BY <1>1, <1>2, <1>4 DEF ManagerInv

\* What the file holds after persistLocked: the image, or what it held before.
LEMMA PersistOnDisk ==
    ASSUME TypeOK', PersistLocked
    PROVE  \/ OnDisk' = OnDisk
           \/ state' = "pending" /\ OnDisk' = [id |-> id', action |-> action', firesAt |-> firesAt']
           \/ state' # "pending" /\ OnDisk' = None
<1>1. CASE PersistFails
  BY <1>1 DEF PersistFails, OnDisk
<1>2. CASE disk' = Image'
  <2>1. Image' # Damaged
    BY NilAssumption DEF TypeOK, Image, Persisted, PendingRecord
  <2>2. OnDisk' = disk'.pending
    BY <1>2, <2>1 DEF OnDisk
  <2>3. disk'.pending = IF state' = "pending"
                          THEN [id |-> id', action |-> action', firesAt |-> firesAt']
                          ELSE None
    BY <1>2 DEF Image
  <2> QED
    BY <2>2, <2>3
<1> QED
  BY <1>1, <1>2 DEF PersistLocked

LEMMA ManagerStep == ManagerInv /\ [Next]_vars => ManagerInv'
<1> SUFFICES ASSUME ManagerInv, [Next]_vars PROVE ManagerInv'
  OBVIOUS
<1>0. TypeOK'
  BY TypeStep DEF ManagerInv
<1> DEFINE Rest == /\ DownIsNew /\ WorkerMatchesState /\ MissedIffReported
                   /\ DeadlinesKept /\ ArmedIsValid
<1> SUFFICES Rest'
  BY <1>0 DEF ManagerInv
<1> USE <1>0, NilAssumption DEF ManagerInv, DownIsNew, WorkerMatchesState, MissedIffReported,
        DeadlinesKept, ArmedIsValid, memory, clock, process, store, history
<1>1. ASSUME NEW c \in Clients, Request(c) PROVE Rest'
  BY <1>1 DEF Request, NewManager, OnDisk
<1>2. ASSUME NEW c \in Clients, Schedule(c) PROVE Rest'
  <2>1. worker = "waiting" /\ state # "executing"
    BY <1>2 DEF Schedule, Conflict
  <2>2. lastId + 1 \in Ids /\ lastId' = lastId + 1 /\ 1..lastId \subseteq 1..lastId'
    BY <1>2, ClockAssumption DEF Schedule, TypeOK, Ids
  <2>3. due'[lastId + 1] = requests[c].firesAt /\ \A i \in 1..lastId : due'[i] = due[i]
    BY <1>2, <2>2 DEF Schedule, TypeOK, Ids
  <2>4. \/ OnDisk' = OnDisk
        \/ OnDisk' = [id |-> id', action |-> action', firesAt |-> firesAt']
    BY <1>2, PersistOnDisk DEF Schedule
  <2>5. DeadlinesKept'
    BY <1>2, <2>2, <2>3, <2>4 DEF Schedule, TypeOK
  <2> QED
    BY <1>2, <2>1, <2>5 DEF Schedule
<1>3. ASSUME NEW c \in Clients, Refuse(c) PROVE Rest'
  BY <1>3 DEF Refuse, NewManager, OnDisk
<1>4. ASSUME NEW i \in Ids, Abort(i) PROVE Rest'
  BY <1>4, PersistOnDisk DEF Abort
<1>5. CASE Dismiss
  BY <1>5, PersistOnDisk DEF Dismiss
<1>6. CASE ExpireFailed
  BY <1>6 DEF ExpireFailed, OnDisk
<1>7. CASE TickMisses
  <2>1. missed' # None
    BY <1>7 DEF TickMisses, MissLocked, MissedRecord, TypeOK
  <2> QED
    BY <1>7, <2>1, PersistOnDisk DEF TickMisses, MissLocked
<1>8. CASE TickClaims
  BY <1>8, PersistOnDisk DEF TickClaims
<1>9. CASE ExecuteSucceeds
  BY <1>9 DEF ExecuteSucceeds, OnDisk
<1>10. CASE ExecuteFails
  BY <1>10 DEF ExecuteFails, OnDisk
<1>11. CASE TickFinishes
  BY <1>11, PersistOnDisk DEF TickFinishes
<1>12. CASE Exit
  BY <1>12 DEF Exit, NewManager, OnDisk
<1>13. CASE RestoresNoPending
  BY <1>13 DEF RestoresNoPending, NewManager, OnDisk
<1>14. CASE RestoreRefuses
  BY <1>14, PersistOnDisk DEF RestoreRefuses, NewManager
<1>15. CASE RestoreMisses
  <2>1. missed' # None
    BY <1>15, OnDiskType DEF RestoreMisses, MissLocked, MissedRecord, PendingRecord, TypeOK
  <2> QED
    BY <1>15, <2>1, PersistOnDisk DEF RestoreMisses, MissLocked, NewManager
<1>16. CASE RestoreRearms
  BY <1>16, PersistOnDisk DEF RestoreRearms, Invalid, NewManager
<1>17. CASE Advance
  BY <1>17 DEF Advance, NewManager, OnDisk
<1>18. CASE StepBack
  BY <1>18 DEF StepBack, NewManager, OnDisk
<1>19. CASE UNCHANGED vars
  BY <1>19 DEF vars, NewManager, OnDisk
<1>20. CASE LoadFails
  BY <1>20 DEF LoadFails, NewManager, OnDisk
<1> QED
  BY <1>1, <1>2, <1>3, <1>4, <1>5, <1>6, <1>7, <1>8, <1>9, <1>10, <1>11, <1>12,
     <1>13, <1>14, <1>15, <1>16, <1>17, <1>18, <1>19, <1>20 DEF Next, Tick, Restore

LEMMA ManagerInvariant == Spec => []ManagerInv
<1> QED
  BY ManagerInit, ManagerStep, PTL DEF Spec

\* A missed record is reported in the missed state and in no other, and the
\* tick goroutine is inside Execute exactly while the state says executing,
\* whatever the file held and whatever writes failed.
THEOREM StateAgreement == Spec => []StateAgrees
<1>1. ManagerInv => StateAgrees
  BY DEF ManagerInv, StateAgrees
<1> QED
  BY <1>1, ManagerInvariant, PTL

\* No action is claimed before the deadline it was accepted with, nor more
\* than MissedGrace after it, whatever writes fail and however the clock moves.
THEOREM ClaimInWindow == Spec => ClaimedInWindow
<1> DEFINE InWindow == due[id] <= now /\ now <= due[id] + MissedGrace
<1>1. ManagerInv /\ [Next]_vars => [ClaimStep => InWindow]_vars
  <2> SUFFICES ASSUME ManagerInv, [Next]_vars, ClaimStep PROVE InWindow
    BY DEF vars
  <2>1. TickClaims
    BY DEF ClaimStep, Next, Request, Schedule, Refuse, Abort, Dismiss, ExpireFailed,
           Tick, TickMisses, MissLocked, ExecuteSucceeds, ExecuteFails, TickFinishes, Exit,
           Restore, LoadFails, RestoresNoPending, RestoreRefuses, RestoreMisses, RestoreRearms,
           Advance, StepBack, vars
  <2>2. due[id] = firesAt /\ now >= firesAt /\ ~(now - firesAt > MissedGrace)
    BY <2>1 DEF TickClaims, Late, ManagerInv, DeadlinesKept
  <2> QED
    BY <2>2, ClockAssumption DEF ManagerInv, TypeOK
<1> QED
  BY <1>1, ManagerInvariant, PTL DEF Spec, ClaimedInWindow

-----------------------------------------------------------------------------
(* What holds as long as no write of the schedule file has failed. *)

LEMMA PersistWrites ==
    ASSUME TypeOK, lostWrites' = 0, PersistLocked
    PROVE  disk' = Image' /\ unread' = FALSE
BY DEF TypeOK, PersistLocked, PersistFails

\* A write lost stays lost.
LEMMA NoneLostBefore ==
    ASSUME TypeOK, [Next]_vars, lostWrites' = 0 PROVE lostWrites = 0
<1>1. CASE UNCHANGED lostWrites
  BY <1>1
<1>2. CASE PersistLocked
  BY <1>2 DEF PersistLocked, PersistFails, TypeOK
<1> QED
  BY <1>1, <1>2
  DEF Next, Request, Schedule, Refuse, Abort, Dismiss, ExpireFailed, Tick, TickMisses,
      MissLocked, TickClaims, ExecuteSucceeds, ExecuteFails, TickFinishes, Exit, Restore,
      LoadFails, RestoresNoPending, RestoreRefuses, RestoreMisses, RestoreRearms, Advance, StepBack,
      vars, store

LEMMA ScheduleInit == Init => ScheduleInv
<1> SUFFICES ASSUME Init PROVE ScheduleInv
  OBVIOUS
<1>1. ManagerInv
  BY ManagerInit
<1>2. OnDisk # None => OnDisk.id = 1
  BY DEF Init, EarlierFile, OnDisk
<1>3. FateInv
  BY <1>2, ClockAssumption DEF Init, FateInv, NoFate, Ids
<1>4. FileAgrees /\ AtMostOneFate
  BY DEF Init, FileAgrees, AtMostOneFate, OneFate
<1> QED
  BY <1>1, <1>3, <1>4 DEF ScheduleInv

\* The file and the fields agree after every step.
LEMMA FileStep ==
    ASSUME ManagerInv, FileAgrees, [Next]_vars
    PROVE  FileAgrees'
<1> SUFFICES ASSUME lostWrites' = 0 PROVE FileAgrees'
  BY DEF FileAgrees
<1>0. TypeOK /\ TypeOK' /\ lostWrites = 0
  BY TypeStep, NoneLostBefore DEF ManagerInv
<1> USE <1>0 DEF store
<1>1. ASSUME PersistLocked PROVE FileAgrees'
  BY <1>1, PersistWrites DEF FileAgrees
<1>2. ASSUME UNCHANGED <<up, memory, disk, unread>> PROVE FileAgrees'
  BY <1>2 DEF FileAgrees, Image, memory
<1>3. CASE ExpireFailed
  <2>1. ~unread /\ disk = Image /\ Image' = Image
    BY <1>3 DEF ExpireFailed, FileAgrees, Image
  <2> QED
    BY <1>3, <2>1 DEF ExpireFailed, FileAgrees
<1>4. CASE Exit
  BY <1>4 DEF Exit, FileAgrees
<1>5. CASE RestoresNoPending
  <2>1. disk = [pending |-> None, missed |-> disk.missed]
    BY <1>0, <1>5 DEF RestoresNoPending, OnDisk, TypeOK, Persisted
  <2>2. /\ missed' = disk.missed /\ state' # "pending" /\ disk' = disk
        /\ ~unread'
    BY <1>5 DEF RestoresNoPending, ManagerInv, DownIsNew, NewManager
  <2> QED
    BY <2>1, <2>2 DEF FileAgrees, Image
<1>6. CASE LoadFails
  BY <1>6 DEF LoadFails, memory, FileAgrees, ManagerInv, DownIsNew, NewManager
<1> QED
  BY <1>1, <1>2, <1>3, <1>4, <1>5, <1>6
  DEF Next, Request, Schedule, Refuse, Abort, Dismiss, Tick, TickMisses, MissLocked,
      TickClaims, ExecuteSucceeds, ExecuteFails, TickFinishes, Restore,
      RestoreRefuses, RestoreMisses, RestoreRearms, Advance, StepBack, vars, process

\* While a process runs that has read its file or written it since, the file
\* holds a pending action exactly in the pending state, and it is the manager's.
FilePending ==
    up /\ lostWrites = 0 =>
        IF state = "pending" THEN ~unread /\ OnDisk # None /\ OnDisk.id = id
                             ELSE unread \/ OnDisk = None

LEMMA FileHoldsPending == ManagerInv /\ FileAgrees => FilePending
<1> SUFFICES ASSUME ManagerInv, FileAgrees, up, lostWrites = 0
             PROVE  IF state = "pending" THEN ~unread /\ OnDisk # None /\ OnDisk.id = id
                                         ELSE unread \/ OnDisk = None
  BY DEF FilePending
<1>1. CASE ~unread
  <2>0. disk = Image
    BY <1>1 DEF FileAgrees
  <2>1. Image # Damaged
    BY NilAssumption DEF ManagerInv, TypeOK, Image, Persisted, PendingRecord
  <2>2. OnDisk = IF state = "pending"
                   THEN [id |-> id, action |-> action, firesAt |-> firesAt] ELSE None
    BY <2>0, <2>1 DEF OnDisk, Image
  <2>3. [id |-> id, action |-> action, firesAt |-> firesAt] \in PendingRecord
    BY DEF ManagerInv, TypeOK, PendingRecord
  <2> QED
    BY <1>1, <2>2, <2>3, NilAssumption
<1>2. CASE unread
  BY <1>2 DEF FileAgrees
<1> QED
  BY <1>1, <1>2

\* No action meets a second fate: each fate takes an identifier that has none
\* and takes it out of the file in the same step.
LEMMA FateStep ==
    ASSUME ScheduleInv, [Next]_vars
    PROVE  FateInv' /\ AtMostOneFate'
<1> SUFFICES ASSUME lostWrites' = 0 PROVE FateInv' /\ AtMostOneFate'
  BY DEF FateInv, AtMostOneFate
<1>0. TypeOK /\ ManagerInv' /\ FileAgrees' /\ lostWrites = 0
  BY ManagerStep, FileStep, NoneLostBefore DEF ScheduleInv, ManagerInv
<1>1. FilePending'
  BY <1>0, FileHoldsPending, PTL
<1>2. FilePending
  BY FileHoldsPending DEF ScheduleInv
<1>3. ASSUME UNCHANGED <<lastId, fired, aborted, skipped>>,
             worker' = "claimed" => worker = "claimed" /\ id' = id,
             OnDisk' = None \/ (OnDisk # None /\ OnDisk'.id = OnDisk.id)
      PROVE  FateInv' /\ AtMostOneFate'
  BY <1>0, <1>3 DEF ScheduleInv, FateInv, AtMostOneFate, OneFate, NoFate, Ids
<1>w. ASSUME PersistLocked PROVE ~unread'
  BY <1>0, <1>w, PersistWrites
<1> USE <1>0 DEF ScheduleInv, FilePending, memory, clock, process, store, history
<1>4. ASSUME NEW c \in Clients, Schedule(c) PROVE FateInv' /\ AtMostOneFate'
  <2>1. /\ OnDisk'.id = lastId + 1 /\ lastId + 1 \in Ids /\ lastId' = lastId + 1
        /\ UNCHANGED <<worker, fired, aborted, skipped>> /\ worker # "claimed"
    BY <1>0, <1>1, <1>w, <1>4 DEF Schedule, Conflict, ManagerInv, WorkerMatchesState, TypeOK, Ids
  <2>2. NoFate(lastId + 1)
    BY <1>0, <2>1 DEF FateInv, Ids, TypeOK
  <2> QED
    BY <1>0, <2>1, <2>2 DEF FateInv, AtMostOneFate, OneFate, NoFate, Ids, TypeOK
<1>5. ASSUME NEW i \in Ids, Abort(i) PROVE FateInv' /\ AtMostOneFate'
  <2>1. /\ OnDisk' = None /\ NoFate(i) /\ i \in 1..lastId
        /\ worker # "claimed" /\ UNCHANGED <<worker, lastId, fired, skipped>>
        /\ aborted' = aborted \cup {i}
    BY <1>1, <1>2, <1>w, <1>5 DEF Abort, FateInv, ManagerInv, WorkerMatchesState, DeadlinesKept
  <2> QED
    BY <1>0, <2>1 DEF FateInv, AtMostOneFate, OneFate, NoFate, Ids, TypeOK
<1>6. CASE TickMisses
  <2>1. /\ OnDisk' = None /\ NoFate(id) /\ id \in 1..lastId
        /\ worker' # "claimed" /\ UNCHANGED <<lastId, fired, aborted>>
        /\ skipped' = skipped \cup {id}
    BY <1>1, <1>2, <1>w, <1>6 DEF TickMisses, MissLocked, FateInv, ManagerInv, DeadlinesKept
  <2> QED
    BY <1>0, <2>1 DEF FateInv, AtMostOneFate, OneFate, NoFate, Ids, TypeOK
<1>7. CASE RestoreMisses
  <2>1. /\ OnDisk' = None /\ NoFate(OnDisk.id) /\ OnDisk.id \in 1..lastId
        /\ worker' # "claimed" /\ UNCHANGED <<lastId, fired, aborted>>
        /\ skipped' = skipped \cup {OnDisk.id}
    BY <1>1, <1>w, <1>7 DEF RestoreMisses, MissLocked, FateInv, ManagerInv, DeadlinesKept,
                      DownIsNew
  <2> QED
    BY <1>0, <2>1 DEF FateInv, AtMostOneFate, OneFate, NoFate, Ids, TypeOK
<1>8. CASE TickClaims
  <2>1. /\ OnDisk' = None /\ id' = id /\ NoFate(id) /\ id \in 1..lastId
        /\ UNCHANGED <<lastId, fired, aborted, skipped>>
    BY <1>1, <1>2, <1>w, <1>8 DEF TickClaims, FateInv, ManagerInv, DeadlinesKept
  <2> QED
    BY <1>0, <2>1 DEF FateInv, AtMostOneFate, OneFate, NoFate, Ids, TypeOK
<1>9. CASE ExecuteSucceeds
  <2>1. /\ ~unread /\ worker' # "claimed" /\ NoFate(id) /\ id \in 1..lastId
        /\ UNCHANGED <<lastId, aborted, skipped>>
        /\ fired' = [fired EXCEPT ![id] = @ + 1]
    BY <1>1, <1>9 DEF ExecuteSucceeds, FateInv, FileAgrees, ManagerInv, WorkerMatchesState
  <2>3. OnDisk' = None
    BY <1>1, <1>9, <2>1 DEF ExecuteSucceeds, ManagerInv, WorkerMatchesState, DownIsNew
  <2>2. \A i \in Ids : fired'[i] = IF i = id THEN 1 ELSE fired[i]
    BY <1>0, <2>1 DEF NoFate, TypeOK
  <2> QED
    BY <1>0, <2>1, <2>2, <2>3 DEF FateInv, AtMostOneFate, OneFate, NoFate, Ids, TypeOK
<1>10. ASSUME NEW c \in Clients, Request(c) \/ Refuse(c) PROVE FateInv' /\ AtMostOneFate'
  BY <1>3, <1>10 DEF Request, Refuse, OnDisk
<1>11. CASE Dismiss
  BY <1>1, <1>2, <1>3, <1>w, <1>11 DEF Dismiss
<1>12. CASE ExpireFailed \/ ExecuteFails \/ Advance \/ StepBack \/ UNCHANGED vars
  BY <1>3, <1>12 DEF ExpireFailed, ExecuteFails, Advance, StepBack, OnDisk, vars
<1>13. CASE TickFinishes
  BY <1>1, <1>3, <1>w, <1>13 DEF TickFinishes
<1>14. CASE Exit
  BY <1>3, <1>14 DEF Exit, OnDisk
<1>15. CASE LoadFails \/ RestoresNoPending
  BY <1>3, <1>15 DEF LoadFails, RestoresNoPending, OnDisk
<1>16. CASE RestoreRefuses \/ RestoreRearms
  <2>1. OnDisk # None /\ (OnDisk' = None \/ OnDisk'.id = OnDisk.id)
    BY <1>1, <1>w, <1>16 DEF RestoreRefuses, RestoreRearms
  <2> QED
    BY <1>3, <1>16, <2>1 DEF RestoreRefuses, RestoreRearms, ManagerInv, DownIsNew
<1> QED
  BY <1>4, <1>5, <1>6, <1>7, <1>8, <1>9, <1>10, <1>11, <1>12, <1>13, <1>14, <1>15,
     <1>16
  DEF Next, Tick, Restore

LEMMA ScheduleInvariant == Spec => []ScheduleInv
<1>1. ScheduleInv /\ [Next]_vars => ScheduleInv'
  BY ManagerStep, FileStep, FateStep DEF ScheduleInv
<1> QED
  BY <1>1, ScheduleInit, PTL DEF Spec

\* Until a write of the schedule file fails, no action meets two fates: none is
\* carried out twice, nor carried out once aborted or reported missed, through
\* any crash and restart.
THEOREM OneFateOnly == Spec => []AtMostOneFate
<1>1. ScheduleInv => AtMostOneFate
  BY DEF ScheduleInv
<1> QED
  BY <1>1, ScheduleInvariant, PTL

\* Until then, the file always says what a restart should resume, or is one
\* Restore could not read, next to a manager that has nothing.
THEOREM FileFollowsState == Spec => []FileAgrees
<1>1. ScheduleInv => FileAgrees
  BY DEF ScheduleInv
<1> QED
  BY <1>1, ScheduleInvariant, PTL
-----------------------------------------------------------------------------
(* The refinement of PowerSchedule. *)

\* While a process runs that has read its file or written it since, and no write
\* has failed, what the file has armed is what the manager has; a process that
\* could not read it has nothing.
FileArmed ==
    up /\ lostWrites = 0 => IF unread THEN state = "idle" ELSE OnDisk = Image.pending

LEMMA FileHoldsArmed == ManagerInv /\ FileAgrees => FileArmed
<1> SUFFICES ASSUME ManagerInv, FileAgrees, up, lostWrites = 0
             PROVE  IF unread THEN state = "idle" ELSE OnDisk = Image.pending
  BY DEF FileArmed
<1>1. CASE ~unread
  <2>0. disk = Image
    BY <1>1 DEF FileAgrees
  <2>1. Image # Damaged
    BY NilAssumption DEF ManagerInv, TypeOK, Image, Persisted, PendingRecord
  <2> QED
    BY <1>1, <2>0, <2>1 DEF OnDisk
<1>2. CASE unread
  BY <1>2 DEF FileAgrees
<1> QED
  BY <1>1, <1>2

\* The identifiers whose action has been carried out.
FiredIds == {i \in Ids : fired[i] > 0}

\* Every step, up to the first write that fails, is a step of PowerSchedule or
\* changes nothing there.
LEMMA PromiseStep ==
    ASSUME ScheduleInv, [Next]_vars, lostWrites' = 0
    PROVE  Promise!Next \/ UNCHANGED Promise!vars
<1>0. TypeOK /\ TypeOK' /\ ManagerInv' /\ lostWrites = 0
  BY ManagerStep, NoneLostBefore DEF ScheduleInv, ManagerInv
<1>1. up => IF unread THEN state = "idle" ELSE OnDisk = Image.pending
  BY <1>0, FileHoldsArmed DEF ScheduleInv, FileArmed
<1>2. up' /\ ~unread' => OnDisk' = Image'.pending
  <2>1. ManagerInv' /\ FileAgrees'
    BY ManagerStep, FileStep DEF ScheduleInv
  <2>2. FileArmed'
    BY <2>1, FileHoldsArmed, PTL
  <2> QED
    BY <2>2 DEF FileArmed
<1>w. ASSUME PersistLocked PROVE ~unread'
  BY <1>0, <1>w, PersistWrites
<1>3. up /\ state = "pending" => Image.pending # None
  BY <1>0, NilAssumption DEF Image, TypeOK, PendingRecord
<1>4. up' /\ state' = "pending" => Image'.pending # None
  BY <1>0, NilAssumption DEF Image, TypeOK, PendingRecord
<1> DEFINE Hidden == unread /\ OnDisk # None
<1> DEFINE Claimed == IF worker = "waiting" THEN {} ELSE {id}
<1> DEFINE Goal == Promise!Next \/ UNCHANGED Promise!vars
<1>5. ASSUME UNCHANGED <<now, OnDisk, Hidden, Claimed, lastId, fired, aborted, skipped>> PROVE Goal
  BY <1>5 DEF Promise!vars
<1> USE DEF memory, clock, process, store, history
<1>6. ASSUME NEW c \in Clients, Request(c) \/ Refuse(c) PROVE Goal
  BY <1>5, <1>6 DEF Request, Refuse, OnDisk
<1>7. ASSUME NEW c \in Clients, Schedule(c) PROVE Goal
  <2>1. /\ OnDisk = None \/ Hidden
        /\ ~Hidden' /\ Claimed = {} /\ worker' = worker
        /\ OnDisk' = [id |-> lastId + 1, action |-> requests[c].action,
                      firesAt |-> requests[c].firesAt]
        /\ OnDisk' # None /\ requests[c].action \in Actions /\ lastId' = lastId + 1
        /\ UNCHANGED <<now, fired, aborted, skipped>>
    BY <1>1, <1>2, <1>w, <1>4, <1>7
    DEF Schedule, Conflict, Image, ScheduleInv, ManagerInv, WorkerMatchesState
  <2>2. Promise!Arm
    BY <2>1 DEF Promise!Arm
  <2> QED
    BY <2>2 DEF Promise!Next
<1>8. ASSUME NEW i \in Ids, Abort(i) PROVE Goal
  <2>1. /\ OnDisk # None /\ OnDisk.id = i /\ OnDisk' = None
        /\ ~Hidden /\ ~Hidden' /\ Claimed = {} /\ worker' = worker /\ aborted' = aborted \cup {i}
        /\ UNCHANGED <<now, lastId, fired, skipped>>
    BY <1>1, <1>2, <1>w, <1>3, <1>8
    DEF Abort, Image, ScheduleInv, ManagerInv, WorkerMatchesState
  <2>2. Promise!Cancel
    BY <2>1 DEF Promise!Cancel
  <2> QED
    BY <2>2 DEF Promise!Next
<1>9. CASE Dismiss
  <2>0. ~Hidden' /\ UNCHANGED <<now, Claimed, lastId, fired, aborted, skipped>>
    BY <1>w, <1>9 DEF Dismiss
  <2>1. CASE ~unread
    <3>1. OnDisk' = OnDisk /\ ~Hidden
      BY <1>1, <1>2, <1>w, <1>9, <2>1 DEF Dismiss, Image
    <3> QED
      BY <1>5, <2>0, <3>1
  <2>2. CASE unread
    <3>1. OnDisk' = None
      BY <1>1, <1>2, <1>w, <1>9, <2>2 DEF Dismiss, Image
    <3>2. CASE OnDisk = None
      BY <1>5, <2>0, <3>1, <3>2
    <3>3. CASE OnDisk # None
      <4>1. Promise!Drop
        BY <2>0, <2>2, <3>1, <3>3 DEF Promise!Drop
      <4> QED
        BY <4>1 DEF Promise!Next
    <3> QED
      BY <3>2, <3>3
  <2> QED
    BY <2>1, <2>2
<1>10. CASE ExpireFailed \/ ExecuteFails \/ UNCHANGED vars
  BY <1>5, <1>10 DEF ExpireFailed, ExecuteFails, OnDisk, vars
<1>11. CASE TickMisses
  <2>1. /\ OnDisk # None /\ OnDisk.id = id /\ OnDisk.firesAt = firesAt /\ OnDisk' = None
        /\ ~Hidden /\ ~Hidden'
        /\ now - firesAt > MissedGrace /\ worker = "waiting" /\ worker' = worker
        /\ skipped' = skipped \cup {id}
        /\ UNCHANGED <<now, lastId, fired, aborted>>
    BY <1>1, <1>2, <1>w, <1>3, <1>11 DEF TickMisses, MissLocked, Late, Image
  <2>2. now > firesAt + MissedGrace
    BY <1>0, <2>1, ClockAssumption DEF TypeOK
  <2>3. Promise!Skip
    BY <2>1, <2>2 DEF Promise!Skip
  <2> QED
    BY <2>3 DEF Promise!Next
<1>12. CASE TickClaims
  <2>1. /\ OnDisk # None /\ OnDisk.id = id /\ OnDisk.firesAt = firesAt
        /\ OnDisk.action = action /\ OnDisk' = None
        /\ ~Hidden /\ ~Hidden'
        /\ firesAt <= now /\ ~(now - firesAt > MissedGrace)
        /\ worker' # "waiting" /\ id' = id
        /\ UNCHANGED <<now, lastId, fired, aborted, skipped>>
    BY <1>0, <1>1, <1>2, <1>w, <1>3, <1>12 DEF TickClaims, Late, Image, TypeOK
  <2>2. now <= firesAt + MissedGrace
    BY <1>0, <2>1, ClockAssumption DEF TypeOK
  <2>3. action \in Actions
    BY <1>12 DEF TickClaims, ScheduleInv, ManagerInv, ArmedIsValid
  <2>4. Promise!Claim
    BY <2>1, <2>2, <2>3 DEF Promise!Claim
  <2> QED
    BY <2>4 DEF Promise!Next
<1>13. CASE ExecuteSucceeds
  <2>1. /\ Claimed = {id} /\ Claimed' = {id} /\ id \in Ids /\ fired[id] = 0
        /\ UNCHANGED <<now, OnDisk, Hidden, lastId, aborted, skipped>>
    BY <1>0, <1>13 DEF ExecuteSucceeds, ScheduleInv, FateInv, NoFate, TypeOK, Ids, OnDisk
  <2>2. \A i \in Ids : fired[i] \in Nat /\ fired'[i] = IF i = id THEN 1 ELSE fired[i]
    BY <1>0, <1>13, <2>1 DEF ExecuteSucceeds, TypeOK
  <2>3. FiredIds' = FiredIds \cup {id} /\ id \notin FiredIds
    BY <2>1, <2>2 DEF FiredIds
  <2>4. Promise!Fire
    BY <2>1, <2>3 DEF Promise!Fire, FiredIds
  <2> QED
    BY <2>4 DEF Promise!Next
<1>14. CASE TickFinishes
  <2>1. /\ Claimed = {id} /\ Claimed' = {} /\ OnDisk' = OnDisk /\ ~Hidden /\ ~Hidden'
        /\ UNCHANGED <<now, lastId, fired, aborted, skipped>>
    BY <1>1, <1>2, <1>w, <1>14
    DEF TickFinishes, Image, ScheduleInv, ManagerInv, WorkerMatchesState
  <2>2. Promise!Release
    BY <2>1 DEF Promise!Release
  <2> QED
    BY <2>2 DEF Promise!Next
<1>15. CASE Exit
  <2>1. /\ Claimed' = {} /\ OnDisk' = OnDisk /\ ~Hidden'
        /\ UNCHANGED <<now, lastId, fired, aborted, skipped>>
    BY <1>15 DEF Exit, OnDisk
  <2>2. CASE ~Hidden /\ Claimed = {}
    BY <1>5, <2>1, <2>2
  <2>3. CASE Claimed # {}
    <3>1. ~Hidden
      BY <1>1, <1>15, <2>3 DEF Exit, ScheduleInv, ManagerInv, WorkerMatchesState
    <3>2. Promise!Release
      BY <2>1, <2>3, <3>1 DEF Promise!Release
    <3> QED
      BY <3>2 DEF Promise!Next
  <2>4. CASE Hidden /\ Claimed = {}
    <3>1. Promise!Hide
      BY <2>1, <2>4 DEF Promise!Hide
    <3> QED
      BY <3>1 DEF Promise!Next
  <2> QED
    BY <2>2, <2>3, <2>4
<1>16. CASE RestoresNoPending
  BY <1>5, <1>16 DEF RestoresNoPending, OnDisk
<1>21. CASE LoadFails
  <2>1. /\ Claimed = {} /\ Claimed' = {} /\ OnDisk' = OnDisk /\ ~Hidden
        /\ (Hidden' <=> OnDisk # None)
        /\ UNCHANGED <<now, lastId, fired, aborted, skipped>>
    BY <1>21 DEF LoadFails, OnDisk, ScheduleInv, ManagerInv, DownIsNew
  <2>2. CASE OnDisk = None
    BY <1>5, <2>1, <2>2
  <2>3. CASE OnDisk # None
    <3>1. Promise!Hide
      BY <2>1, <2>3 DEF Promise!Hide
    <3> QED
      BY <3>1 DEF Promise!Next
  <2> QED
    BY <2>2, <2>3
<1>17. CASE RestoreRefuses
  <2>1. /\ OnDisk # None /\ OnDisk' = None /\ ~Hidden' /\ Invalid(OnDisk)
        /\ worker = "waiting" /\ UNCHANGED worker
        /\ UNCHANGED <<now, lastId, fired, aborted, skipped>>
    BY <1>2, <1>w, <1>17 DEF RestoreRefuses, Image, ScheduleInv, ManagerInv, DownIsNew
  <2>2. OnDisk.action \notin Actions \/ OnDisk.firesAt > now + MaxHorizon
    BY <1>0, <2>1, OnDiskType, ClockAssumption DEF Invalid, TypeOK, PendingRecord
  <2>3. Promise!Drop
    BY <2>1, <2>2 DEF Promise!Drop
  <2> QED
    BY <2>3 DEF Promise!Next
<1>18. CASE RestoreMisses
  <2>1. /\ OnDisk # None /\ OnDisk' = None /\ ~Hidden /\ ~Hidden' /\ Late(OnDisk.firesAt)
        /\ worker = "waiting" /\ UNCHANGED worker
        /\ skipped' = skipped \cup {OnDisk.id}
        /\ UNCHANGED <<now, lastId, fired, aborted>>
    BY <1>2, <1>w, <1>18 DEF RestoreMisses, MissLocked, Image, ScheduleInv, ManagerInv, DownIsNew
  <2>2. now > OnDisk.firesAt + MissedGrace
    BY <1>0, <2>1, OnDiskType, ClockAssumption DEF Late, TypeOK, PendingRecord
  <2>3. Promise!Skip
    BY <2>1, <2>2 DEF Promise!Skip
  <2> QED
    BY <2>3 DEF Promise!Next
<1>19. CASE RestoreRearms
  <2>1. /\ OnDisk' = [id |-> OnDisk.id, action |-> OnDisk.action, firesAt |-> OnDisk.firesAt]
        /\ OnDisk # None /\ worker = "waiting" /\ UNCHANGED worker
        /\ ~Hidden /\ ~Hidden'
        /\ UNCHANGED <<now, lastId, fired, aborted, skipped>>
    BY <1>2, <1>w, <1>19 DEF RestoreRearms, Image, ScheduleInv, ManagerInv, DownIsNew
  <2>2. OnDisk' = OnDisk
    BY <1>0, <2>1, OnDiskType DEF TypeOK, PendingRecord
  <2> QED
    BY <1>5, <2>1, <2>2
<1>20. CASE Advance \/ StepBack
  <2>0. now \in Nat /\ MaxClock \in Nat
    BY <1>0, ClockAssumption DEF TypeOK
  <2>1. UNCHANGED <<OnDisk, Hidden, Claimed, lastId, fired, aborted, skipped>>
    BY <1>20 DEF Advance, StepBack, OnDisk
  <2>2. now' # now
    BY ONLY <1>20, <2>0 DEF Advance, StepBack
  <2>3. Promise!Time
    BY <2>1, <2>2 DEF Promise!Time
  <2> QED
    BY <2>3 DEF Promise!Next
<1> QED
  BY <1>6, <1>7, <1>8, <1>9, <1>10, <1>11, <1>12, <1>13, <1>14, <1>15, <1>16, <1>17,
     <1>18, <1>19, <1>20, <1>21
  DEF Next, Tick, Restore

LEMMA PromiseInit == Init => Promise!Init
<1> SUFFICES ASSUME Init PROVE Promise!Init
  OBVIOUS
<1>1. {i \in Ids : fired[i] > 0} = {}
  BY DEF Init
<1>2. lastId = IF OnDisk = None THEN 0 ELSE OnDisk.id
  BY DEF Init
<1> QED
  BY <1>1, <1>2 DEF Init, Promise!Init

\* The manager keeps the promise of PowerSchedule, read off the file and the
\* tick goroutine, through restarts, reads of the file that fail and corrections
\* of the clock, until a write of the schedule file fails.
THEOREM PromiseKept == Spec => KeepsPromise
<1>1. ScheduleInv /\ [Next]_vars => [lostWrites' = 0 => Promise!Next]_(Promise!vars)
  BY PromiseStep
<1> QED
  BY <1>1, PromiseInit, ScheduleInvariant, PTL DEF Spec, KeepsPromise

-----------------------------------------------------------------------------
(* The missed record. *)

\* While a process runs that has read its file or written it since, and no write
\* has failed, the file has the missed record the manager has.
FileMissed == up /\ lostWrites = 0 => IF unread THEN state = "idle" ELSE OnFileMissed = missed

LEMMA FileHoldsMissed == ManagerInv /\ FileAgrees => FileMissed
<1> SUFFICES ASSUME ManagerInv, FileAgrees, up, lostWrites = 0
             PROVE  IF unread THEN state = "idle" ELSE OnFileMissed = missed
  BY DEF FileMissed
<1>1. CASE ~unread
  <2>0. disk = Image
    BY <1>1 DEF FileAgrees
  <2>1. Image # Damaged
    BY NilAssumption DEF ManagerInv, TypeOK, Image, Persisted, PendingRecord
  <2> QED
    BY <1>1, <2>0, <2>1 DEF OnFileMissed, Image
<1>2. CASE unread
  BY <1>2 DEF FileAgrees
<1> QED
  BY <1>1, <1>2

\* Until a write of the schedule file fails, a missed record leaves the file
\* only by Dismiss, by a new schedule, or in a restart that finds an action
\* pending next to it: no other path through the manager loses it.
THEOREM MissedKept == Spec => MissedRecordKept
<1> DEFINE Gone == OnFileMissed # None /\ OnFileMissed' = None /\ lostWrites' = 0
           Allowed == \/ Dismiss
                      \/ ~up /\ OnDisk # None
                      \/ \E c \in Clients : Schedule(c)
<1>1. ScheduleInv /\ [Next]_vars => [Gone => Allowed]_vars
  <2> SUFFICES ASSUME ScheduleInv, [Next]_vars, Gone PROVE Allowed
    BY DEF vars
  <2>0. TypeOK /\ lostWrites = 0
    BY NoneLostBefore DEF ScheduleInv, ManagerInv
  <2>1. up => IF unread THEN state = "idle" ELSE OnFileMissed = missed
    BY <2>0, FileHoldsMissed DEF ScheduleInv, FileMissed
  <2>2. up' /\ ~unread' => OnFileMissed' = missed'
    <3>1. ManagerInv' /\ FileAgrees'
      BY ManagerStep, FileStep DEF ScheduleInv
    <3>2. FileMissed'
      BY <3>1, FileHoldsMissed, PTL
    <3> QED
      BY <3>2 DEF FileMissed
  <2>3. disk' # disk
    BY DEF OnFileMissed
  <2>4. up => IF unread THEN state = "idle" ELSE state = "missed"
    BY <2>1 DEF ScheduleInv, ManagerInv, MissedIffReported
  <2>5. up' /\ ~unread' => missed' = None
    BY <2>2
  <2>6. ASSUME PersistLocked PROVE ~unread'
    BY <2>0, <2>6, PersistWrites
  <2> QED
    BY <2>3, <2>4, <2>5, <2>6
    DEF Next, Request, Schedule, Refuse, Abort, Dismiss, ExpireFailed, Tick, TickMisses,
        TickClaims, ExecuteSucceeds, ExecuteFails, TickFinishes, Exit, Restore,
        LoadFails, RestoresNoPending, RestoreRefuses, RestoreMisses, RestoreRearms,
        Advance, StepBack, vars, store, ScheduleInv, ManagerInv, WorkerMatchesState
<1> QED
  BY <1>1, ScheduleInvariant, PTL DEF Spec, MissedRecordKept
=============================================================================
