------------------------------ MODULE ServiceHost ------------------------------
(***************************************************************************)
(* The processes that run the server, from runServer of src/cmd/shutdowner *)
(* (main.go, app.go), src/internal/winsvc and Manager.Start: how one       *)
(* starts, serves, is told to stop and ends, what of it is in the middle   *)
(* of a call to FileStore at each moment, and how the service is installed *)
(* and removed.  The service manager hosts one of the processes; others    *)
(* are started by hand on the same port and the same schedule.             *)
(*                                                                         *)
(* What requests and ticks decide is ActionManager's; here it matters that *)
(* they save or clear, and that Execute may never return.                  *)
(***************************************************************************)
EXTENDS FileStore

CONSTANTS
    Service,     \* the process under the service manager
    Situations   \* bound: how often each process may be started, and whether the
                 \* service is installed and removed meanwhile; Init picks one

ASSUME HostAssumption ==
    /\ Service \in Writers
    /\ Situations \subseteq [starts : [Writers -> Nat], installs : BOOLEAN]

VARIABLES
    phase,      \* per process: where its main goroutine is
    listener,   \* per process: where the goroutine that runs App.Start is
    request,    \* per process: an HTTP request it has accepted
    worker,     \* per process: the tick goroutine
    starts,     \* per process: how often it may still be started
    told,       \* a Stop or Shutdown for the service is in its channel
    outcome,    \* how the service last ended, as the service manager sees it
    setup,      \* where Install or Uninstall is; "none" if neither is used
    registered, recovers,   \* what the service manager has on file of the service
    installed,  \* history: Install has returned without an error
    dropped     \* history: a request under way when App.Stop was called was cut
                \* off by the process ending before Shutdown's time was up

process == <<phase, listener, request, worker>>
manager == <<told, outcome, registered, recovers>>
vars == <<store, process, starts, manager, setup, installed, dropped>>

Phases    == {"off", "loading", "restoring", "starting", "running", "draining", "gaveUp", "leaving"}
Listeners == {"none", "open", "failed", "closed"}
Workers   == {"off", "ticking", "claiming", "executing", "settling"}
Outcomes  == {"none", "stopped", "failed", "crashed"}
Setups    == {"none", "idle", "recovery", "eventlog", "start", "starting", "waiting"}

TypeOK ==
    /\ StoreTypeOK
    /\ phase \in [Writers -> Phases] /\ listener \in [Writers -> Listeners]
    /\ request \in [Writers -> {"none", "handled", "saving"}]
    /\ worker \in [Writers -> Workers]
    /\ starts \in [Writers -> Nat]
    /\ told \in BOOLEAN /\ outcome \in Outcomes /\ setup \in Setups
    /\ {registered, recovers, installed, dropped} \subseteq BOOLEAN

Everywhere(x) == [p \in Writers |-> x]

Init ==
    /\ StoreInit
    /\ phase = Everywhere("off") /\ listener = Everywhere("none")
    /\ request = Everywhere("none") /\ worker = Everywhere("off")
    /\ \E s \in Situations :
         /\ starts = s.starts /\ setup = IF s.installs THEN "idle" ELSE "none"
         /\ registered = ~s.installs /\ recovers = ~s.installs /\ installed = ~s.installs
    /\ told = FALSE /\ outcome = "none" /\ dropped = FALSE

To(p, next) == phase' = [phase EXCEPT ![p] = next]

-----------------------------------------------------------------------------
(***************************************************************************)
(* The manager's lock, as far as the store goes: held from the beginning   *)
(* of a call to its return, by Restore, a request or a tick.               *)
(***************************************************************************)
Persist(p) == Save(p) \/ Clear(p)
StoreRest  == UNCHANGED <<starts, manager, setup, installed, dropped>>

StoreStep(p) == Proceed(p) /\ UNCHANGED process /\ StoreRest

\* Manager.Start.
Start(p) == To(p, "starting") /\ worker' = [worker EXCEPT ![p] = "ticking"]

\* The call returns, and what made it goes on.
StoreReturns(p) ==
    /\ Return(p)
    /\ IF phase[p] = "restoring"
         THEN Start(p) /\ UNCHANGED request
       ELSE IF request[p] = "saving"
         THEN request' = [request EXCEPT ![p] = "none"] /\ UNCHANGED <<phase, worker>>
         ELSE worker' = [worker EXCEPT ![p] = IF @ = "claiming" THEN "executing" ELSE "ticking"]
              /\ UNCHANGED <<phase, request>>
    /\ UNCHANGED listener /\ StoreRest

\* Restore reads the schedule, unlocked; Manager.Start follows it.
Load(p) ==
    /\ phase[p] = "loading"
    /\ \/ Start(p)
       \/ file # None /\ To(p, "restoring") /\ UNCHANGED worker
    /\ UNCHANGED <<store, listener, request>> /\ StoreRest

\* It saves what it re-arms and clears what it refuses, whatever has become of
\* the file since; with nothing pending, or a missed action, it leaves it alone.
Restores(p) ==
    /\ phase[p] = "restoring" /\ Persist(p)
    /\ UNCHANGED process /\ StoreRest

\* A tick finds a deadline: missed, or to be claimed and carried out.
Tick(p) ==
    /\ worker[p] = "ticking"
    /\ \/ Save(p)  /\ worker' = [worker EXCEPT ![p] = "settling"]
       \/ Clear(p) /\ worker' = [worker EXCEPT ![p] = "claiming"]
    /\ UNCHANGED <<phase, listener, request>> /\ StoreRest

ExecuteReturns(p) ==
    /\ worker[p] = "executing" /\ Clear(p)
    /\ worker' = [worker EXCEPT ![p] = "settling"]
    /\ UNCHANGED <<phase, listener, request>> /\ StoreRest

-----------------------------------------------------------------------------
Request(p) ==
    /\ listener[p] = "open" /\ request[p] = "none"
    /\ request' = [request EXCEPT ![p] = "handled"]
    /\ UNCHANGED <<store, phase, listener, worker>> /\ StoreRest

RequestSaves(p) ==
    /\ request[p] = "handled" /\ Persist(p)
    /\ request' = [request EXCEPT ![p] = "saving"]
    /\ UNCHANGED <<phase, listener, worker>> /\ StoreRest

RequestAnswered(p) ==
    /\ request[p] = "handled"
    /\ request' = [request EXCEPT ![p] = "none"]
    /\ UNCHANGED <<store, phase, listener, worker>> /\ StoreRest

-----------------------------------------------------------------------------
\* A process starts, and for the service manager the service does.
StartProcess(p) ==
    /\ phase[p] = "off" /\ starts[p] > 0
    /\ starts' = [starts EXCEPT ![p] = @ - 1]
    /\ To(p, "loading")
    /\ outcome' = IF p = Service THEN "none" ELSE outcome
    /\ UNCHANGED <<store, listener, request, worker, told, registered, recovers, installed, dropped>>

StartByHand(p) == p # Service /\ StartProcess(p) /\ UNCHANGED setup

\* At boot, or somebody starts it.
StartService == registered /\ StartProcess(Service) /\ UNCHANGED setup

\* The service manager restarts what ended without a word.
Recover == outcome = "crashed" /\ recovers /\ registered /\ StartProcess(Service) /\ UNCHANGED setup

\* web.New, and winsvc.Run: the service reports that it runs, and s.Start
\* returns to the installer; App.Start gets its goroutine.
Hosted(p) ==
    /\ phase[p] = "starting" /\ To(p, "running")
    /\ installed' = (installed \/ (p = Service /\ setup = "starting"))
    /\ setup' = IF p = Service /\ setup = "starting" THEN "idle" ELSE setup
    /\ UNCHANGED <<store, listener, request, worker, starts, manager, dropped>>

\* ListenAndServe: the port is one process's, and Serve may fail later.
Listen(p) ==
    /\ phase[p] = "running" /\ listener[p] = "none"
    /\ listener' = [listener EXCEPT ![p] =
                      IF \E q \in Writers : listener[q] = "open" THEN "failed" ELSE "open"]
    /\ UNCHANGED <<store, phase, request, worker>> /\ StoreRest

ServeFails(p) ==
    /\ listener[p] = "open"
    /\ listener' = [listener EXCEPT ![p] = "failed"]
    /\ UNCHANGED <<store, phase, request, worker>> /\ StoreRest

\* What Execute returns, which the service manager is told.
Verdict(p, verdict) ==
    /\ outcome' = IF p = Service THEN verdict ELSE outcome
    /\ UNCHANGED <<store, listener, request, worker, starts, told, registered, recovers,
                   setup, installed, dropped>>

\* Slip: the handler waits in its select while stop runs, and takes the end of
\* ListenAndServe, which returns as Shutdown begins, for the end of the service.
ServerStopped_WhileDraining(p) ==
    /\ phase[p] \in {"running", "draining"} /\ listener[p] \in {"failed", "closed"}
    /\ To(p, "leaving")
    /\ Verdict(p, IF listener[p] = "failed" THEN "failed" ELSE "stopped")

\* App.Start has returned: in the foreground so does Run, and a service leaves
\* its select.
ServerStopped(p) ==
    /\ phase[p] = "running" /\ listener[p] \in {"failed", "closed"}
    /\ To(p, "leaving")
    /\ Verdict(p, IF listener[p] = "failed" THEN "failed" ELSE "stopped")

\* A Stop, or the Shutdown of a PC going down, ours or not.
TellToStop ==
    /\ phase[Service] = "running" /\ ~told /\ told' = TRUE
    /\ UNCHANGED <<store, process, starts, outcome, registered, recovers, setup, installed, dropped>>

\* App.Stop: the listener is closed, requests under way are waited for ...
Stop ==
    /\ phase[Service] = "running" /\ told /\ To(Service, "draining")
    /\ listener' = [listener EXCEPT ![Service] = IF @ = "failed" THEN @ ELSE "closed"]
    /\ UNCHANGED <<store, request, worker>> /\ StoreRest

Drained ==
    /\ phase[Service] = "draining" /\ request[Service] = "none"
    /\ To(Service, "leaving")
    /\ Verdict(Service, "stopped")

\* ... for five seconds.
GivesUp ==
    /\ phase[Service] = "draining" /\ To(Service, "gaveUp")
    /\ Verdict(Service, "stopped")

\* A process is gone, and with it all its goroutines.
Ends(p) ==
    /\ CutOff(p) /\ To(p, "off")
    /\ listener' = [listener EXCEPT ![p] = "none"] /\ request' = [request EXCEPT ![p] = "none"]
    /\ worker' = [worker EXCEPT ![p] = "off"]
    /\ told' = (told /\ p # Service)
    /\ setup' = IF p = Service /\ setup = "starting" THEN "idle" ELSE setup
    /\ UNCHANGED <<starts, registered, recovers, installed>>

Drops(p) == p = Service /\ phase[p] = "leaving" /\ listener[p] = "closed" /\ request[p] # "none"

\* Slip: stop waits for the tick goroutine.
Leave_WaitsForTick(p) ==
    /\ phase[p] \in {"leaving", "gaveUp"} /\ worker[p] = "ticking" /\ Ends(p)
    /\ dropped' = (dropped \/ Drops(p))
    /\ UNCHANGED outcome

\* Run returns, runServer's deferred calls run (stopTicking waits for nobody)
\* and main does.
Leave(p) ==
    /\ phase[p] \in {"leaving", "gaveUp"} /\ Ends(p)
    /\ dropped' = (dropped \/ Drops(p))
    /\ UNCHANGED outcome

\* The process crashes, is killed, or fails before it gets as far as Run.
Crash(p) ==
    /\ phase[p] # "off" /\ Ends(p)
    /\ outcome' = IF p # Service THEN outcome
                  ELSE IF phase[p] \in {"loading", "restoring", "starting"} THEN "failed"
                  ELSE IF outcome = "none" THEN "crashed" ELSE outcome
    /\ UNCHANGED dropped

-----------------------------------------------------------------------------
(***************************************************************************)
(* Install and Uninstall, by one operator.  Install stops at the first     *)
(* call that fails and takes back nothing.                                 *)
(***************************************************************************)
SetupRest == UNCHANGED <<store, process, starts, told, outcome, installed, dropped>>

CreateService ==
    /\ setup = "idle" /\ ~registered /\ phase[Service] = "off"
    /\ registered' = TRUE /\ setup' = "recovery"
    /\ UNCHANGED recovers /\ SetupRest

\* Slip: a failure to set the recovery actions is not looked at.
SetRecoveryActions_Unchecked ==
    /\ setup = "recovery" /\ setup' = "eventlog"
    /\ recovers' \in BOOLEAN
    /\ UNCHANGED registered /\ SetupRest

SetRecoveryActions ==
    /\ setup = "recovery"
    /\ \/ recovers' = TRUE /\ setup' = "eventlog"
       \/ setup' = "idle"  /\ UNCHANGED recovers
    /\ UNCHANGED registered /\ SetupRest

RegisterEventSource ==
    /\ setup = "eventlog" /\ setup' \in {"start", "idle"}
    /\ UNCHANGED <<registered, recovers>> /\ SetupRest

StartInstalled ==
    /\ setup = "start"
    /\ \/ StartProcess(Service) /\ setup' = "starting"
       \/ setup' = "idle" /\ UNCHANGED <<registered, recovers>> /\ SetupRest

\* Uninstall asks the service to stop, if it can be asked ...
UninstallStops ==
    /\ setup = "idle" /\ registered /\ setup' = "waiting"
    /\ told' = (told \/ phase[Service] = "running")
    /\ UNCHANGED <<store, process, starts, outcome, registered, recovers, installed, dropped>>

\* ... waits until it has stopped, or for twenty seconds, and deletes it; the
\* deletion may fail.
Delete ==
    /\ setup = "waiting" /\ setup' = "idle"
    /\ \/ registered' = FALSE /\ recovers' = FALSE /\ installed' = FALSE
       \/ UNCHANGED <<registered, recovers, installed>>
    /\ UNCHANGED <<store, process, starts, told, outcome, dropped>>

-----------------------------------------------------------------------------
Setup == CreateService \/ SetRecoveryActions \/ RegisterEventSource \/ StartInstalled
         \/ UninstallStops \/ Delete

Next ==
    \/ \E p \in Writers :
         \/ StoreStep(p) \/ StoreReturns(p) \/ Load(p) \/ Restores(p)
         \/ Tick(p) \/ ExecuteReturns(p)
         \/ Request(p) \/ RequestSaves(p) \/ RequestAnswered(p)
         \/ StartByHand(p) \/ Hosted(p) \/ Listen(p) \/ ServeFails(p)
         \/ ServerStopped(p) \/ Leave(p) \/ Crash(p)
    \/ StartService \/ Recover \/ TellToStop \/ Stop \/ Drained \/ GivesUp
    \/ Setup

Spec == Init /\ [][Next]_vars

\* A process that can get on does, except for what a request or Execute waits
\* for; Shutdown's five seconds pass; the service manager recovers.
Fairness ==
    /\ \A p \in Writers : WF_vars(ServerStopped(p)) /\ WF_vars(Leave(p))
    /\ WF_vars(Stop) /\ WF_vars(Drained \/ GivesUp) /\ WF_vars(Recover)
FairSpec == Spec /\ Fairness

-----------------------------------------------------------------------------
\* A service told to stop ends, and so does a process that cannot listen or
\* whose server fails: even with an Execute that never returns, a request that
\* is never finished, and a write under way.
StopsWhenItShould ==
    /\ told ~> ~told
    /\ \A p \in Writers : (phase[p] = "running" /\ listener[p] = "failed") ~> phase[p] = "off"

\* No request under way when App.Stop is called is cut off by the service's own
\* end, except after Shutdown's five seconds: although ListenAndServe returns
\* at once, and with it the goroutine that the handler otherwise waits for.
NoneDropped == ~dropped

\* A service that Install reported installed is started again after a crash,
\* until it is uninstalled.
ComesBack ==
    (installed /\ outcome = "crashed" /\ starts[Service] > 0)
        ~> (~installed \/ outcome # "crashed")
=============================================================================
