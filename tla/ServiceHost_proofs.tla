-------------------------- MODULE ServiceHost_proofs --------------------------
(***************************************************************************)
(* Theorems of ServiceHost and of the FileStore it drives, for every set   *)
(* of processes, however often each is started.                            *)
(***************************************************************************)
EXTENDS ServiceHost, TLAPS

-----------------------------------------------------------------------------
(* The store: what its calls do, and that this is an atomic cell. *)

\* One call of a writer begins, gets on, returns, or ends with its process.
StoreNext(w) == Save(w) \/ Clear(w) \/ Proceed(w) \/ Return(w) \/ CutOff(w)

\* Up to the step that can place the file, a Save carries its own schedule and
\* no error, and from the seal on the temporary file holds all of it.
CallInv(w) ==
    /\ pc[w] \in {"create", "write", "seal", "rename"} => value[w] = w /\ ~error[w]
    /\ pc[w] \in {"seal", "rename"} => temp[w] = w
    /\ pc[w] = "remove" => value[w] = None /\ ~error[w]
    /\ pc[w] \in {"idle", "create", "remove", "return"} => temp[w] = None

StoreInv ==
    /\ StoreTypeOK
    /\ file # Partial
    /\ \A w \in Writers : CallInv(w)

LEMMA StoreInvInit == StoreInit => StoreInv
BY StoreAssumption DEF StoreInit, StoreInv, StoreTypeOK, CallInv, Steps

LEMMA StoreTypeStep ==
    ASSUME StoreInv, NEW w \in Writers, StoreNext(w) PROVE StoreTypeOK'
<1> USE DEF StoreInv, StoreTypeOK, Steps, Goto, Fail
<1>1. CASE Save(w)
  BY <1>1 DEF Save
<1>2. CASE Clear(w)
  BY <1>2 DEF Clear
<1>3. CASE CreateTemp(w)
  <2>1. temp[w] = None
    BY <1>3 DEF CreateTemp, CallInv
  <2> QED
    BY <1>3, <2>1 DEF CreateTemp
<1>4. CASE Write(w)
  BY <1>4 DEF Write
<1>5. CASE Seal(w)
  BY <1>5 DEF Seal
<1>6. CASE Rename(w)
  <2>1. temp[w] \in Writers
    BY <1>6 DEF Rename, CallInv
  <2> QED
    BY <1>6, <2>1 DEF Rename
<1>7. CASE Cleanup(w)
  BY <1>7 DEF Cleanup
<1>8. CASE Remove(w)
  <2>1. temp[w] = None
    BY <1>8 DEF Remove, CallInv
  <2> QED
    BY <1>8, <2>1 DEF Remove
<1>9. CASE Return(w)
  BY <1>9 DEF Return
<1>10. CASE CutOff(w)
  BY <1>10 DEF CutOff
<1> QED
  BY <1>1, <1>2, <1>3, <1>4, <1>5, <1>6, <1>7, <1>8, <1>9, <1>10 DEF StoreNext, Proceed

LEMMA StoreInvStep ==
    ASSUME StoreInv, NEW w \in Writers, StoreNext(w) PROVE StoreInv'
<1>0. StoreTypeOK'
  BY StoreTypeStep
<1> SUFFICES file' # Partial /\ \A v \in Writers : CallInv(v)'
  BY <1>0 DEF StoreInv
<1> USE StoreAssumption DEF StoreInv, StoreTypeOK, CallInv, Steps, Goto, Fail
<1>1. CASE Save(w)
  BY <1>1 DEF Save
<1>2. CASE Clear(w)
  BY <1>2 DEF Clear
<1>3. CASE CreateTemp(w)
  BY <1>3 DEF CreateTemp
<1>4. CASE Write(w)
  BY <1>4 DEF Write
<1>5. CASE Seal(w)
  BY <1>5 DEF Seal
<1>6. CASE Rename(w)
  BY <1>6 DEF Rename
<1>7. CASE Cleanup(w)
  BY <1>7 DEF Cleanup
<1>8. CASE Remove(w)
  BY <1>8 DEF Remove
<1>9. CASE Return(w)
  BY <1>9 DEF Return
<1>10. CASE CutOff(w)
  BY <1>10 DEF CutOff
<1> QED
  BY <1>1, <1>2, <1>3, <1>4, <1>5, <1>6, <1>7, <1>8, <1>9, <1>10 DEF StoreNext, Proceed

\* A step of one writer leaves the calls of the others as they are.
LEMMA OneCallMoves ==
    ASSUME StoreInv, NEW w \in Writers, StoreNext(w)
    PROVE  [v \in Writers |-> CallOf(v)]' = [[v \in Writers |-> CallOf(v)] EXCEPT ![w] = CallOf(w)']
<1>1. ASSUME NEW v \in Writers, v # w
      PROVE  pc'[v] = pc[v] /\ value'[v] = value[v] /\ error'[v] = error[v]
  BY <1>1 DEF StoreInv, StoreTypeOK, StoreNext, Save, Clear, Proceed, CreateTemp, Write,
              Seal, Rename, Cleanup, Remove, Return, CutOff, Goto, Fail
<1>2. \A v \in Writers : v # w => CallOf(v)' = CallOf(v)
  BY <1>1 DEF CallOf
<1> QED
  BY <1>2

\* What a call of w looks like before anything has come of it, and after.
Under(w)  == [busy |-> TRUE, value |-> value[w], placed |-> FALSE, failed |-> FALSE]
Placed(w) == [busy |-> TRUE, value |-> value[w], placed |-> TRUE, failed |-> FALSE]
Failed(w) == [busy |-> TRUE, value |-> value[w], placed |-> FALSE, failed |-> TRUE]
Idle      == [busy |-> FALSE, value |-> None, placed |-> FALSE, failed |-> FALSE]

CallRecord ==
    [busy : BOOLEAN, value : Writers \cup {None}, placed : BOOLEAN, failed : BOOLEAN]

\* Two calls are the same if their fields are.
LEMMA SameCall ==
    \A r, q \in CallRecord :
        r.busy = q.busy /\ r.value = q.value /\ r.placed = q.placed /\ r.failed = q.failed
            => r = q
BY DEF CallRecord

\* What each step does to its own call and to the file.
LEMMA CallStep ==
    ASSUME StoreInv, NEW w \in Writers, StoreNext(w)
    PROVE  \/ CallOf(w)' = CallOf(w) /\ file' = file
           \/ CallOf(w) = Idle /\ CallOf(w)' = Under(w)' /\ file' = file
           \/ CallOf(w) = Under(w) /\ CallOf(w)' = Failed(w) /\ file' = file
           \/ CallOf(w) = Under(w) /\ CallOf(w)' = Placed(w) /\ file' = value[w]
           \/ CallOf(w).busy /\ CallOf(w)' = Idle /\ file' = file
<1> USE DEF StoreInv, StoreTypeOK, CallInv, Goto, Fail
<1>1. CASE Save(w)
  BY <1>1 DEF Save, CallOf, Under, Idle
<1>2. CASE Clear(w)
  BY <1>2 DEF Clear, CallOf, Under, Idle
<1>3. CASE CreateTemp(w)
  <2>1. /\ pc[w] = "create" /\ error[w] = FALSE /\ value'[w] = value[w]
        /\ \/ pc'[w] = "write" /\ error'[w] = FALSE /\ file' = file
           \/ pc'[w] \in {"cleanup", "return"} /\ error'[w] = TRUE /\ file' = file
    BY <1>3 DEF CreateTemp
  <2> QED
    BY <2>1 DEF CallOf, Under, Placed, Failed
<1>4. CASE Write(w)
  <2>1. /\ pc[w] = "write" /\ error[w] = FALSE /\ value'[w] = value[w]
        /\ \/ pc'[w] = "seal" /\ error'[w] = FALSE /\ file' = file
           \/ pc'[w] \in {"cleanup", "return"} /\ error'[w] = TRUE /\ file' = file
    BY <1>4 DEF Write
  <2> QED
    BY <2>1 DEF CallOf, Under, Placed, Failed
<1>5. CASE Seal(w)
  <2>1. /\ pc[w] = "seal" /\ error[w] = FALSE /\ value'[w] = value[w]
        /\ \/ pc'[w] = "rename" /\ error'[w] = FALSE /\ file' = file
           \/ pc'[w] \in {"cleanup", "return"} /\ error'[w] = TRUE /\ file' = file
    BY <1>5 DEF Seal
  <2> QED
    BY <2>1 DEF CallOf, Under, Placed, Failed
<1>6. CASE Rename(w)
  <2>1. /\ pc[w] = "rename" /\ error[w] = FALSE /\ value'[w] = value[w]
        /\ \/ pc'[w] = "cleanup" /\ error'[w] = FALSE /\ file' = value[w]
           \/ pc'[w] \in {"cleanup", "return"} /\ error'[w] = TRUE /\ file' = file
    BY <1>6 DEF Rename
  <2> QED
    BY <2>1 DEF CallOf, Under, Placed, Failed
<1>7. CASE Cleanup(w)
  BY <1>7 DEF Cleanup, CallOf
<1>8. CASE Remove(w)
  <2>1. /\ pc[w] = "remove" /\ error[w] = FALSE /\ value'[w] = value[w]
        /\ \/ pc'[w] = "return" /\ error'[w] = FALSE /\ file' = value[w]
           \/ pc'[w] \in {"cleanup", "return"} /\ error'[w] = TRUE /\ file' = file
    BY <1>8 DEF Remove
  <2> QED
    BY <2>1 DEF CallOf, Under, Placed, Failed
<1>9. CASE Return(w)
  BY <1>9 DEF Return, CallOf, Idle
<1>10. CASE CutOff(w)
  BY <1>10 DEF CutOff, CallOf, Idle
<1> QED
  BY <1>1, <1>2, <1>3, <1>4, <1>5, <1>6, <1>7, <1>8, <1>9, <1>10 DEF StoreNext, Proceed

\* Every step of the store is one of the cell's, or none.
LEMMA CellStep ==
    ASSUME StoreInv, NEW w \in Writers, StoreNext(w)
    PROVE  [Cell!Next]_(Cell!vars)
<1> DEFINE Calls == [v \in Writers |-> CallOf(v)]
<1>1. Calls' = [Calls EXCEPT ![w] = CallOf(w)'] /\ Calls[w] = CallOf(w)
  BY OneCallMoves
<1>2. \A v \in Writers : value[v] \in Writers \cup {None} /\ value'[v] \in Writers \cup {None}
  BY StoreTypeStep DEF StoreInv, StoreTypeOK
<1>3. CASE CallOf(w)' = CallOf(w) /\ file' = file
  <2>1. Calls' = Calls
    BY <1>1, <1>3
  <2> QED
    BY <1>3, <2>1 DEF Cell!vars
<1>4. CASE CallOf(w) = Idle /\ CallOf(w)' = Under(w)' /\ file' = file
  <2>1. ~Calls[w].busy
    BY <1>1, <1>4 DEF Idle
  <2>2. CallOf(w)' = Cell!Call(value'[w])
    <3> DEFINE r == [Idle EXCEPT !.busy = TRUE, !.value = value'[w]]
    <3>1. Idle \in CallRecord /\ Under(w)' \in CallRecord
      BY <1>2 DEF Idle, Under, CallRecord
    <3>2. /\ r \in CallRecord
          /\ r.busy = Under(w)'.busy /\ r.value = Under(w)'.value
          /\ r.placed = Under(w)'.placed /\ r.failed = Under(w)'.failed
      BY <1>2, <3>1 DEF CallRecord, Under, Idle
    <3>3. Cell!Call(value'[w]) = r
      BY DEF Idle, Cell!Call, Cell!NoCall
    <3> QED
      BY <1>4, <3>1, <3>2, <3>3, SameCall
  <2>3. Cell!Begin(w)
    BY <1>1, <1>2, <1>4, <2>1, <2>2 DEF Cell!Begin
  <2> QED
    BY <2>3 DEF Cell!Next
<1>5. CASE CallOf(w) = Under(w) /\ CallOf(w)' = Failed(w) /\ file' = file
  <2>1. Calls[w].busy /\ ~Calls[w].placed /\ ~Calls[w].failed
    BY <1>1, <1>5 DEF Under
  <2>2. Failed(w) = [Under(w) EXCEPT !.failed = TRUE]
    <3>1. Under(w) \in CallRecord /\ Failed(w) \in CallRecord
      BY <1>2 DEF Under, Failed, CallRecord
    <3> DEFINE r == [Under(w) EXCEPT !.failed = TRUE]
    <3>2. /\ r \in CallRecord
          /\ r.busy = Failed(w).busy /\ r.value = Failed(w).value
          /\ r.placed = Failed(w).placed /\ r.failed = Failed(w).failed
      BY <3>1 DEF CallRecord, Under, Failed
    <3> QED
      BY <3>1, <3>2, SameCall
  <2>3. Cell!GiveUp(w)
    BY <1>1, <1>5, <2>1, <2>2 DEF Cell!GiveUp
  <2> QED
    BY <2>3 DEF Cell!Next
<1>6. CASE CallOf(w) = Under(w) /\ CallOf(w)' = Placed(w) /\ file' = value[w]
  <2>1. Calls[w].busy /\ ~Calls[w].placed /\ ~Calls[w].failed /\ Calls[w].value = value[w]
    BY <1>1, <1>6 DEF Under
  <2>2. Placed(w) = [Under(w) EXCEPT !.placed = TRUE]
    <3>1. Under(w) \in CallRecord /\ Placed(w) \in CallRecord
      BY <1>2 DEF Under, Placed, CallRecord
    <3> DEFINE r == [Under(w) EXCEPT !.placed = TRUE]
    <3>2. /\ r \in CallRecord
          /\ r.busy = Placed(w).busy /\ r.value = Placed(w).value
          /\ r.placed = Placed(w).placed /\ r.failed = Placed(w).failed
      BY <3>1 DEF CallRecord, Under, Placed
    <3> QED
      BY <3>1, <3>2, SameCall
  <2>3. Cell!Place(w)
    BY <1>1, <1>6, <2>1, <2>2 DEF Cell!Place
  <2> QED
    BY <2>3 DEF Cell!Next
<1>7. CASE CallOf(w).busy /\ CallOf(w)' = Idle /\ file' = file
  <2>1. Cell!Die(w)
    BY <1>1, <1>7 DEF Cell!Die, Cell!NoCall, Idle
  <2> QED
    BY <2>1 DEF Cell!Next
<1> QED
  BY CallStep, <1>3, <1>4, <1>5, <1>6, <1>7
-----------------------------------------------------------------------------
(* The processes. *)

\* What a process does to the store is a step of its call.
LEMMA HostStep ==
    ASSUME [Next]_vars
    PROVE  (\E w \in Writers : StoreNext(w)) \/ UNCHANGED store
<1>1. ASSUME NEW p \in Writers,
             \/ StoreStep(p) \/ StoreReturns(p) \/ Load(p) \/ Restores(p)
             \/ Tick(p) \/ ExecuteReturns(p)
             \/ Request(p) \/ RequestSaves(p) \/ RequestAnswered(p)
             \/ StartByHand(p) \/ Hosted(p) \/ Listen(p) \/ ServeFails(p)
             \/ ServerStopped(p) \/ Leave(p) \/ Crash(p)
      PROVE  StoreNext(p) \/ UNCHANGED store
  BY <1>1
  DEF StoreStep, StoreReturns, Load, Restores, Tick, ExecuteReturns, Request, RequestSaves,
      RequestAnswered, StartByHand, StartProcess, Hosted, Listen, ServeFails, ServerStopped,
      Verdict, Leave, Crash, Ends, Persist, StoreNext
<1>2. CASE StartService \/ Recover \/ TellToStop \/ Stop \/ Drained \/ GivesUp \/ Setup
  BY <1>2
  DEF StartService, Recover, StartProcess, TellToStop, Stop, Drained, GivesUp, Verdict, Setup,
      CreateService, SetRecoveryActions, RegisterEventSource, StartInstalled, UninstallStops,
      Delete, SetupRest
<1> QED
  BY <1>1, <1>2 DEF Next, vars

LEMMA StoreInvariant == Spec => []StoreInv
<1>1. Init => StoreInv
  BY StoreInvInit DEF Init
<1>2. StoreInv /\ [Next]_vars => StoreInv'
  <2> SUFFICES ASSUME StoreInv, [Next]_vars PROVE StoreInv'
    OBVIOUS
  <2>1. CASE \E w \in Writers : StoreNext(w)
    BY <2>1, StoreInvStep
  <2>2. CASE UNCHANGED store
    BY <2>2 DEF StoreInv, StoreTypeOK, CallInv, store
  <2> QED
    BY <2>1, <2>2, HostStep
<1> QED
  BY <1>1, <1>2, PTL DEF Spec

\* The schedule file is an atomic cell, whatever fails, wherever processes end
\* and however many of them write: what a restart loads was saved whole.
THEOREM StoreIsAtomic == Spec => ActsAtomically
<1>1. Init => Cell!Init
  <2> SUFFICES ASSUME Init PROVE Cell!Init
    OBVIOUS
  <2>1. \A w \in Writers : CallOf(w) = Cell!NoCall
    BY DEF Init, StoreInit, CallOf, Cell!NoCall
  <2> QED
    BY <2>1 DEF Init, StoreInit, Cell!Init
<1>2. StoreInv /\ [Next]_vars => [Cell!Next]_(Cell!vars)
  <2> SUFFICES ASSUME StoreInv, [Next]_vars PROVE [Cell!Next]_(Cell!vars)
    OBVIOUS
  <2>1. CASE \E w \in Writers : StoreNext(w)
    BY <2>1, CellStep
  <2>2. CASE UNCHANGED store
    BY <2>2 DEF store, CallOf, Cell!vars
  <2> QED
    BY <2>1, <2>2, HostStep
<1> QED
  BY <1>1, <1>2, StoreInvariant, PTL DEF Spec, ActsAtomically, Cell!Spec

-----------------------------------------------------------------------------
(* Types of the processes. *)

HostTypeOK ==
    /\ phase \in [Writers -> Phases] /\ listener \in [Writers -> Listeners]
    /\ request \in [Writers -> {"none", "handled", "saving"}]
    /\ worker \in [Writers -> Workers]
    /\ starts \in [Writers -> Nat]
    /\ told \in BOOLEAN /\ outcome \in Outcomes /\ setup \in Setups
    /\ registered \in BOOLEAN /\ recovers \in BOOLEAN
    /\ installed \in BOOLEAN /\ dropped \in BOOLEAN

LEMMA HostTypeInit == Init => HostTypeOK
<1> SUFFICES ASSUME Init PROVE HostTypeOK
  OBVIOUS
<1>1. /\ phase \in [Writers -> Phases] /\ listener \in [Writers -> Listeners]
      /\ request \in [Writers -> {"none", "handled", "saving"}]
      /\ worker \in [Writers -> Workers]
  BY DEF Init, Everywhere, Phases, Listeners, Workers
<1>2. /\ starts \in [Writers -> Nat] /\ setup \in Setups
      /\ registered \in BOOLEAN /\ recovers \in BOOLEAN /\ installed \in BOOLEAN
  <2>1. PICK s \in Situations :
           /\ starts = s.starts /\ setup = IF s.installs THEN "idle" ELSE "none"
           /\ registered = ~s.installs /\ recovers = ~s.installs /\ installed = ~s.installs
    BY DEF Init
  <2>2. s.starts \in [Writers -> Nat] /\ s.installs \in BOOLEAN
    BY HostAssumption
  <2> QED
    BY <2>1, <2>2 DEF Setups
<1>3. told \in BOOLEAN /\ outcome \in Outcomes /\ dropped \in BOOLEAN
  BY DEF Init, Outcomes
<1> QED
  BY <1>1, <1>2, <1>3 DEF HostTypeOK

LEMMA HostTypeStep == HostTypeOK /\ [Next]_vars => HostTypeOK'
<1> SUFFICES ASSUME HostTypeOK, [Next]_vars PROVE HostTypeOK'
  OBVIOUS
<1> USE HostAssumption DEF HostTypeOK, Phases, Listeners, Workers, Outcomes, Setups, To,
        StoreRest, process, manager
<1>1. ASSUME NEW p \in Writers, StoreStep(p) \/ Restores(p) PROVE HostTypeOK'
  BY <1>1 DEF StoreStep, Restores
<1>2. ASSUME NEW p \in Writers, StoreReturns(p) PROVE HostTypeOK'
  BY <1>2 DEF StoreReturns, Start
<1>3. ASSUME NEW p \in Writers, Load(p) PROVE HostTypeOK'
  BY <1>3 DEF Load, Start
<1>4. ASSUME NEW p \in Writers, Tick(p) PROVE HostTypeOK'
  BY <1>4 DEF Tick
<1>5. ASSUME NEW p \in Writers, ExecuteReturns(p) PROVE HostTypeOK'
  BY <1>5 DEF ExecuteReturns
<1>6. ASSUME NEW p \in Writers, Request(p) \/ RequestSaves(p) \/ RequestAnswered(p)
      PROVE HostTypeOK'
  BY <1>6 DEF Request, RequestSaves, RequestAnswered
<1>7. ASSUME NEW p \in Writers, StartProcess(p), setup' \in Setups PROVE HostTypeOK'
  BY <1>7 DEF StartProcess
<1>8. ASSUME NEW p \in Writers, Hosted(p) PROVE HostTypeOK'
  BY <1>8 DEF Hosted
<1>9. ASSUME NEW p \in Writers, Listen(p) \/ ServeFails(p) PROVE HostTypeOK'
  BY <1>9 DEF Listen, ServeFails
<1>10. ASSUME NEW p \in Writers, ServerStopped(p) PROVE HostTypeOK'
  BY <1>10 DEF ServerStopped, Verdict
<1>11. ASSUME NEW p \in Writers, Ends(p), outcome' \in Outcomes, dropped' \in BOOLEAN
       PROVE  HostTypeOK'
  BY <1>11 DEF Ends
<1>12. ASSUME NEW p \in Writers, Leave(p) PROVE HostTypeOK'
  BY <1>11, <1>12 DEF Leave
<1>13. ASSUME NEW p \in Writers, Crash(p) PROVE HostTypeOK'
  BY <1>11, <1>13 DEF Crash
<1>14. CASE TellToStop
  BY <1>14 DEF TellToStop
<1>15. CASE Stop
  BY <1>15 DEF Stop
<1>16. CASE Drained \/ GivesUp
  BY <1>16 DEF Drained, GivesUp, Verdict
<1>17. CASE CreateService \/ SetRecoveryActions \/ RegisterEventSource \/ UninstallStops \/ Delete
  BY <1>17 DEF CreateService, SetRecoveryActions, RegisterEventSource, UninstallStops, Delete,
              SetupRest
<1>18. CASE StartInstalled
  BY <1>7, <1>18 DEF StartInstalled, SetupRest
<1>19. CASE StartService \/ Recover
  BY <1>7, <1>19 DEF StartService, Recover
<1>20. ASSUME NEW p \in Writers, StartByHand(p) PROVE HostTypeOK'
  BY <1>7, <1>20 DEF StartByHand
<1>21. CASE UNCHANGED vars
  BY <1>21 DEF vars
<1> QED
  BY <1>1, <1>2, <1>3, <1>4, <1>5, <1>6, <1>8, <1>9, <1>10, <1>12, <1>13, <1>14, <1>15,
     <1>16, <1>17, <1>18, <1>19, <1>20, <1>21
  DEF Next, Setup

LEMMA HostType == Spec => []HostTypeOK
<1> QED
  BY HostTypeInit, HostTypeStep, PTL DEF Spec

\* Types, and no temporary file left behind by a call that returned.
THEOREM TypeCorrect == Spec => []TypeOK
<1>1. StoreInv /\ HostTypeOK => TypeOK
  BY DEF StoreInv, HostTypeOK, TypeOK
<1> QED
  BY <1>1, StoreInvariant, HostType, PTL

-----------------------------------------------------------------------------
(* Stopping. *)

\* A listener is closed by App.Stop alone, and a process that leaves with its
\* listener closed and before its time was up has no request under way: with
\* the listener closed it gets no new one.
ClosedIsDrained(p) ==
    listener[p] = "closed" =>
        \/ phase[p] \in {"draining", "gaveUp"}
        \/ phase[p] = "leaving" /\ request[p] = "none"

DrainInv == HostTypeOK /\ NoneDropped /\ \A p \in Writers : ClosedIsDrained(p)

LEMMA DrainStep == DrainInv /\ [Next]_vars => DrainInv'
<1> SUFFICES ASSUME DrainInv, [Next]_vars PROVE DrainInv'
  OBVIOUS
<1>0. HostTypeOK'
  BY HostTypeStep DEF DrainInv
<1> DEFINE Goal == NoneDropped' /\ \A q \in Writers : ClosedIsDrained(q)'
<1> SUFFICES Goal
  BY <1>0 DEF DrainInv
<1> USE HostAssumption DEF DrainInv, HostTypeOK, ClosedIsDrained, NoneDropped, To, StoreRest,
        process, manager
<1>1. ASSUME NEW p \in Writers, StoreStep(p) \/ Restores(p) \/ Tick(p) \/ ExecuteReturns(p)
      PROVE  Goal
  BY <1>1 DEF StoreStep, Restores, Tick, ExecuteReturns
<1>2. ASSUME NEW p \in Writers, StoreReturns(p) PROVE Goal
  BY <1>2 DEF StoreReturns, Start
<1>3. ASSUME NEW p \in Writers, Load(p) PROVE Goal
  BY <1>3 DEF Load, Start
<1>4. ASSUME NEW p \in Writers, Request(p) \/ RequestSaves(p) \/ RequestAnswered(p)
      PROVE  Goal
  BY <1>4 DEF Request, RequestSaves, RequestAnswered
<1>5. ASSUME NEW p \in Writers, StartProcess(p) PROVE Goal
  BY <1>5 DEF StartProcess
<1>6. ASSUME NEW p \in Writers, Hosted(p) PROVE Goal
  BY <1>6 DEF Hosted
<1>7. ASSUME NEW p \in Writers, Listen(p) \/ ServeFails(p) PROVE Goal
  BY <1>7 DEF Listen, ServeFails
<1>8. ASSUME NEW p \in Writers, ServerStopped(p) PROVE Goal
  BY <1>8 DEF ServerStopped, Verdict
<1>9. ASSUME NEW p \in Writers, Leave(p) PROVE Goal
  BY <1>9 DEF Leave, Drops, Ends
<1>10. ASSUME NEW p \in Writers, Crash(p) PROVE Goal
  BY <1>10 DEF Crash, Ends
<1>11. CASE Stop
  BY <1>11 DEF Stop
<1>12. CASE Drained \/ GivesUp
  BY <1>12 DEF Drained, GivesUp, Verdict
<1>13. CASE TellToStop \/ CreateService \/ SetRecoveryActions \/ RegisterEventSource
            \/ UninstallStops \/ Delete
  BY <1>13 DEF TellToStop, CreateService, SetRecoveryActions, RegisterEventSource,
              UninstallStops, Delete, SetupRest
<1>14. CASE StartInstalled
  BY <1>5, <1>14 DEF StartInstalled, SetupRest
<1>15. CASE StartService \/ Recover
  BY <1>5, <1>15 DEF StartService, Recover
<1>16. ASSUME NEW p \in Writers, StartByHand(p) PROVE Goal
  BY <1>5, <1>16 DEF StartByHand
<1>17. CASE UNCHANGED vars
  BY <1>17 DEF vars
<1> QED
  BY <1>1, <1>2, <1>3, <1>4, <1>6, <1>7, <1>8, <1>9, <1>10, <1>11, <1>12, <1>13, <1>14,
     <1>15, <1>16, <1>17
  DEF Next, Setup

\* No request under way when App.Stop is called is cut off by the service's own
\* end before Shutdown's five seconds are up.
THEOREM StopDropsNone == Spec => []NoneDropped
<1>1. Init => DrainInv
  BY HostTypeInit DEF Init, DrainInv, NoneDropped, ClosedIsDrained, Everywhere
<1>2. DrainInv => NoneDropped
  BY DEF DrainInv
<1> QED
  BY <1>1, <1>2, DrainStep, PTL DEF Spec
=============================================================================
