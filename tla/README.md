# Shutdowner, specified

TLA+ models of Shutdowner, the TLC runs that check them and the theorems TLAPS
proves about them. Shutdowner is a Windows service with a web page from which
one PC is shut down, restarted, put to sleep or hibernated, at once or at a
given time, and its volume is set. Paths below are relative to `src/`.

## The system

| part | state | operations | who calls it |
|---|---|---|---|
| action manager, `internal/action/manager.go` | one action: state, id, action, deadline, error, missed record; a mutex | Schedule, Abort, Dismiss, Status, Tick, Restore | HTTP handlers; one tick goroutine; the program at its start |
| timing, `internal/action/when.go` | none | ResolveWhen | `handleAction`, before the manager's lock |
| schedule store, `internal/action/store.go` | a JSON file | Load, Save, Clear | the manager, under its lock |
| power controllers, `internal/power` | the PC | Execute, Capabilities | the tick goroutine, unlocked; `Schedule`, before the lock |
| volume, `internal/volume`, `internal/web/volume_handlers.go` | the default playback device | a get helper, then a set helper, each a process in the user's session | one goroutine per request, not serialised |
| login limiter, `internal/auth/ratelimit.go` | times of failed logins, per address and in all; a mutex | Allow, RecordFailure, Reset | `handleLoginSubmit`, with the password comparison in between |
| log writer, `internal/logging/rotate.go` | the log file, its size, older generations | New, Write, Close | every goroutine that logs |
| dashboard page, `internal/web/static/app.js` | what is pending, the countdown's marker, failed polls, the badge; the volume row, its load and its count of failures | poll, render, confirm, abort, loadVolume, sendVolume | the browser's timers and the user |
| sessions, CSRF, passwords, `internal/auth` | none on the server (signed tokens), one cookie in the browser | Issue, Verify, ValidCSRF | middleware, login |
| routes and middleware, `internal/web` | none | session, CSRF, body limit, panics | the HTTP server |
| service host and program, `internal/winsvc`, `cmd/shutdowner` | the process, its goroutines; what the service manager has on file of it | runServer, App.Start, App.Stop, the service's select loop, Install, Uninstall | the service manager, somebody at a prompt |
| configuration, system information, templates, build tools | none that changes | | |

What makes it hard to get right:

* The manager is entered by requests and by the ticker, and gives up its lock
  for as long as Execute takes, which for a sleep is the whole suspension.
* The process may end at any instant (shutting down is what it is for), starts
  again by itself and finds a file from which it may arm an action.
* The clock jumps, by a suspension or by a correction.
* Every write of the file, and the read at the start, may fail, and nobody is
  told but the log.
* Two volume requests, and hands at the PC, move the same device at once.
* Answers reach the page in any order, from a PC that is about to go down, and
  a browser's tabs share one cookie.
* A stop must not wait for what may never return, nor cut off what will.

What makes each part correct: the manager carries an action out at most once,
in its window, and never against an acknowledged abort, across restarts; the
store is an atomic cell; volume requests end where they should when alone and
end at all when not; the limiter counts what happened; a login lasts its time,
and a change comes from a page of its own login; the service stops when told and
comes back when it crashed; the log keeps what it reported written; the page ends
up showing what the server has. `PROJECT.json` lists the hazards one by one, each
at its line.

## Modules

| module | models | checked by |
|---|---|---|
| `ActionManager` | the manager, the tick goroutine, the schedule file as one cell, requests in flight, the clock, the process | `schedule_*` |
| `PowerSchedule` | the promise to the user, abstractly | as `KeepsPromise` |
| `FileStore` | Save and Clear, one system call at a time | through `ServiceHost` |
| `AtomicStore` | the cell the manager takes the store for | as `ActsAtomically` |
| `ServiceHost` | the processes that run the server, from start to end, on one port and one schedule file; Install and Uninstall | `service_host` |
| `VolumeSteps` | percent to steps and back, and `Apply` | through the next two |
| `VolumeControl` | a request through two helpers to the device | `volume_control`, `volume_fine_steps` |
| `VolumeRow` | the page's volume row and the requests it has in flight | `volume_row`, `volume_row_signin` |
| `LoginLimiter` | the limiter under concurrent logins | through `SessionGate` |
| `SessionGate` | login, logout, sessions, the checks in front of every handler, a browser with several tabs | `login_gate` |
| `RotatingWriter` | the log writer, one system call at a time | `log_*` |
| `Dashboard` | the page, with the manager as the page's requests see it | `dashboard_*` |
| `MC...` | the values TLC gives to the constants | |
| `ActionManager_proofs` | theorems of `ActionManager` and its refinement of `PowerSchedule` | TLAPS |
| `ServiceHost_proofs` | theorems of `ServiceHost`, and `FileStore`'s refinement of `AtomicStore` | TLAPS |
| `VolumeSteps_proofs`, `VolumeControl_proofs` | the arithmetic of steps and percent; theorems of `VolumeControl` | TLAPS |
| `VolumeRow_proofs`, `Dashboard_proofs` | theorems of the two halves of the page | TLAPS |
| `SessionGate_proofs` | theorems of `LoginLimiter` and `SessionGate` | TLAPS |
| `RotatingWriter_proofs` | theorems of the log writer | TLAPS |

How they fit together: `ServiceHost` drives `FileStore`, which implements
`AtomicStore`, and one call on that cell is what `ActionManager` has in
`PersistLocked`. The end of a process, anywhere in `ServiceHost`, is
`ActionManager`'s `Exit`. `ActionManager` implements `PowerSchedule`. `Dashboard`
has the manager cut down to idle, pending and executing, and `VolumeRow` has a
volume request cut down to one step; `ActionManager` and `VolumeControl` are the
full accounts. `SessionGate` makes `LoginLimiter`'s steps parts of its own.
`FileStore`, `LoginLimiter` and `VolumeSteps` have no specification of their own:
they are state and steps for the modules that extend them.

Operators whose name has an underscore and whose comment starts with "Slip"
(`TickClaims_NotWritten`) are not part of the specification. Each is a
definition with a plausible mistake in it; putting it in the place of the
definition it is named after makes the property `PROJECT.json` names for it
fail, which shows that the property looks at that code.

### ActionManager

One action per critical section, plus one for each thing that happens between
two of them.

| code | model |
|---|---|
| fields of `Manager` | `state id action firesAt lastErr failedAt missed`; `lastErr` only says whether there is an error |
| `handleAction` up to `ResolveWhen` | `Request`: any deadline from now to now + MaxHorizon; what is computed here is used later |
| `Schedule` | `Schedule`, or `Refuse` for an unknown action, a missing capability or a conflict |
| `Abort`, `Dismiss` | the same names; refused aborts change nothing and are no step |
| `Status` | `ExpireFailed`, the only thing it changes |
| `Tick` | `TickMisses`, or `TickClaims`, then `ExecuteSucceeds` or `ExecuteFails`, then `TickFinishes`; the goroutine's place is `worker` |
| `persistLocked` | `PersistLocked`, part of every step that calls it; up to `MaxLostWrites` times it leaves the file as it was |
| `Restore` | `LoadFails`, `RestoresNoPending`, `RestoreRefuses`, `RestoreMisses`, `RestoreRearms`, one per way through it. `LoadFails` is the early return when Load reports an error: always on a `Damaged` file, up to `MaxFailedReads` times on a good one, which stays as it is beside a manager that has nothing |
| the process ends | `Exit`, possible in every state, between the claim and the execution too |
| the clock | `Advance` by any amount, `StepBack` |

`due`, `fired`, `aborted` and `skipped` are history variables. Identifiers are
numbers; `unread` says that this process could not read the file and has not
written it since; `randomID`'s collisions are left out. The force flag is left
out: it is carried along and decides nothing here.

### The others

* `FileStore`: each of Save's calls is a step that may fail or be the last. A
  crash ends the process, not the machine. Schedules are told apart by the
  process that saved them, which is all that atomicity depends on.
* `ServiceHost`: per process, `phase` is where `runServer` (and the service
  handler under it) is, `listener` the goroutine in `ListenAndServe`, `worker`
  the tick goroutine, `request` one request being handled; the manager's lock is
  held from the beginning of a call to the store to its return. `ServerStopped`
  and `Stop` are the two branches of the handler's select. `Drained` and
  `GivesUp` are the two ways `http.Server.Shutdown` returns. `registered` and
  `recovers` are what the service manager has on file; `Recover` is its doing.
  That an error returned by the service does not count as a crash is its rule.
* `VolumeControl`: the set helper reads the device's step once and then counts;
  it may fail, or be killed, between any two steps. `Parsed` and `Decoded` are
  what passing a state through a command line and a line of JSON does to it.
* `VolumeRow`: a disabled row is `shown = Nothing`, since `setVolumeEnabled(false)`
  clears `state.volume`. The console has nobody, a session without a user (the
  sign-in screen), or a user; `Available` tells the first from the others, a
  helper needs the third. Answers are made in one step and taken in in another.
* `LoginLimiter`: `Admit` and then `Fail`, `Succeed` or `IssueFails`, with
  anything in between. `recent` counts, apart from the limiter, what happened,
  instant by instant.
* `SessionGate`: a session is its position among those issued; the cookie, the
  page's token and the request carry it. `Take` is the browser: it applies the
  answer's cookie, then follows redirects. The limiter uses the monotonic clock,
  sessions the wall clock. The address of a login (`ClientIP`) is a free choice.
* `RotatingWriter`: a file is a sequence of records, each with the offset it ends
  at (the file's size is where the last one ends). The mutex makes one call run
  at a time, so the interleavings are those with failures and with the end of
  the process.
* `Dashboard`: an answer is fixed when the server makes it and taken in later.
  A deadline is only known to have passed or not; the page's clock and the
  server's agree on that, to within an answer's delay. `power` tells a PC going
  down from one that is off. A restart of the service is, to the page, an outage.

## Runs

All passing runs end with no error and exhaust their state space; the largest
takes about two minutes.

| run | bounds | shows |
|---|---|---|
| `schedule_kept` | 1 action that may be refused or accepted, 2 requests in flight, horizon and grace 1, clock to 2, 2 identifiers, 2 process ends, 1 step back, 1 failing read, 1 failing write | whatever write fails: types, the worker and the missed record agree with the state, claims are in the window, every action settles; until one fails, and whatever read does: one fate per action, file and memory agree unless the file could not be read, a missed record is kept, `PowerSchedule` is implemented |
| `schedule_store_failure` | 2 actions, horizon 2, clock to 3, 2 failing writes | a failed write does more than lose the schedule (below) |
| `service_host` | the service installed, crashing, removed (2 starts); or installed already next to an instance by hand (1 start each) | it stops whatever is under way, cuts off no request before its five seconds, comes back after a crash; the file is an atomic cell |
| `volume_control` | one browser on devices of 1, 2, 3, 17, 100, 101 steps, levels from -5 to 150; two browsers and a touch of the keys on 3 steps | muting keeps the step, levels land on the nearest step, a killed helper leaves the device on its way and a 503 untouched, the walk is bounded, every request is answered |
| `volume_fine_steps` | 103 steps | muting moves the volume (below) |
| `volume_row` | a device of 2 steps, 2 requests and 1 poll in flight, 1 fault | loads are bounded, the row shows the device, is off while nobody is there, comes back or gives up |
| `volume_row_signin` | the same, no fault | the row stays disabled after a sign-in (below) |
| `login_gate` | 2 addresses and 2 handlers that only try to log in; a browser with 2 tabs; limits 2 and 3, window 2, a TTL of one second that is 2 units, clock to 4, 2 logins, 1 restart, 1 step back | exact counts, bounded overrun, and how often who waits as Retry-After says may be refused again; a login lasts its TTL, who is signed out stays out, changes come from a page of their login |
| `log_rotation` | 3 older generations, limit 3 bytes, records of 1, 2 and 4, 6 records, 2 faults | order, size, bounds, nothing reported is lost early |
| `log_rename_failure` | the same | records are lost while the rename fails (below) |
| `dashboard_follows` | 2 actions, 2 identifiers, 2 polls in flight, 1 outage | an abort cancels what was shown, "PC is offline" only for an action under way, the page catches up |
| `dashboard_shutdown` | the same, no outage | a shutdown may end in "Cannot reach PC" (below) |

Several runs look at more than one situation. The situations are a constant, and
`Init` picks one into a variable that never changes (`setting`, `situation`) or
into the starting values (`starts`, `setup`).

Why the bounds are enough. With a grace and a horizon of 1 a clock of 2 holds a
deadline before, in, at the end of and past its window, and one step back makes
a restored deadline too far ahead. Two identifiers are an action and its
successor; two ends of the process are a restart whose own work is cut short.
There is one slot in the manager, so a third action meets nothing a second does
not, and the one action of `schedule_kept` may be refused like a suspend state
and carried out like any. A second failing write leaves an old file like the
first, and a second failing read the same file and the same empty manager. The
earlier file holds every combination a file can hold, edited by hand included. A
process of `ServiceHost` has no memory of an earlier one but the file, so two
starts of the service hold a crash and its recovery; the second instance meets
the first over the port and the file, once each. The limiter's window slides
over itself twice, and one restart comes at every moment of it. The wall clock's
two units to the second put every login at either half of one. Two logins are an
old page and a new one; two tabs are an answer and the one that overtakes it.
Six records fill every generation of a small log and push some out. Two polls
are enough for one answer to overtake another; the row of `VolumeRow` needs two
requests, which overtake each other and a poll. A walk of the volume is the same
at every step, so three steps (with both ends) suffice when several walk at
once, and all the arithmetic is in the situations with one browser.

Symmetry is used in `login_gate` only, of the two tabs, and no liveness is
checked there. Deadlock is checked everywhere but in `service_host`, which does
stop when the starts it may make are used up.

### What the violations say

* `schedule_store_failure`. `persistLocked` drops the error of a write; the file
  stays as it was. The comment there says that this means losing the schedule
  and nothing more. If the write was that of an abort, or of a claim, the old
  file holds the action still, and a restart before the end of the grace carries
  it out, for the second time or in spite of the abort.
* `volume_fine_steps`. A level passes through whole percent on its way back to
  the device. `stepInfo` lets devices of up to 1000 steps through, but with more
  than 101 some steps share a percent, and muting moves the volume to another of
  them. With 101 and fewer it does not: `volume_control`.
* `volume_row_signin`. The page gives up after three loads that failed. At the
  sign-in screen the PC reports an attached session, so the polls ask for loads,
  and those fail for want of a user. Signing in then changes nothing a poll says,
  so the row stays disabled until the page is reloaded, where the README promises
  the next poll and the comment in `app.js` a fresh set of attempts.
* `log_rename_failure`. After a failed rename the file is opened again, "so
  logging survives", but the error is returned before the record is written and
  the next record meets the same rename.
* `dashboard_shutdown`. `shutdown.exe` returns at once, and the manager is idle
  while Windows is going down. A poll answered then clears the page's marker, and
  the polls that fail afterwards show a connection error where the README
  promises "PC is offline".

## Fairness

* `ActionManager`: the ticker keeps ticking (`Start`'s loop), the service is
  installed to start automatically and so restores, and time passes. Execute is
  not assumed to return, nor anyone to use the page. An action being executed is
  settled in the sense of `EveryActionSettles`.
* `VolumeControl`: a helper gets on or is killed by `helperTimeout`, and the
  handler then answers.
* `VolumeRow`: the timer polls, the server answers, the browser takes answers in.
  Nobody is assumed to sign in, and the network loses only so many requests.
* `ServiceHost`: the handler takes a stop or the end of the server out of its
  select, Shutdown returns at the latest with its context's five seconds, a main
  goroutine that has nothing to wait for ends the process, and the service manager
  recovers. Neither a request nor Execute nor a write is assumed to finish.
* `Dashboard`: `setInterval` keeps polling, a fetch is answered or fails, and a
  script that was resumed runs on. Neither the network nor the PC is assumed to
  come back.

## Proofs

Every safety invariant and every action property that a passing run checks is
also a theorem, for every value of the constants: any number of clients,
browsers, tabs, handlers, polls, processes and identifiers, any limits, windows,
grace, TTL and generations, any device. The bounds that keep TLC's runs finite
(clock, identifiers, faults) are constants too, and so arbitrarily large.

| module | theorem | states |
|---|---|---|
| `ActionManager_proofs` | `TypeCorrect`, `StateAgreement` | `[]TypeOK`, `[]StateAgrees` |
| | `ClaimInWindow` | `ClaimedInWindow` |
| | `OneFateOnly`, `FileFollowsState` | `[]AtMostOneFate`, `[]FileAgrees` |
| | `PromiseKept` | `KeepsPromise`: the refinement of `PowerSchedule` |
| | `MissedKept` | `MissedRecordKept` |
| `ServiceHost_proofs` | `TypeCorrect`, `StopDropsNone` | `[]TypeOK`, `[]NoneDropped` |
| | `StoreIsAtomic` | `ActsAtomically`: the refinement of `AtomicStore` |
| `VolumeSteps_proofs` | `RoundTrip`, `NearestStep`, `SettlesOnce` | what the arithmetic does |
| `VolumeControl_proofs` | `TypeCorrect`, `WalkEnds` | `[]TypeOK`, `[]WalkIsBounded` |
| | `FailuresLeaveOnTheWay`, `LevelsLand` | `[]FailureLeavesOnTheWay`, `[]LandsOnNearestStep` |
| | `MutingIsSilent` | `[](stepCount <= 101 => MutingKeepsTheStep)` |
| `VolumeRow_proofs` | `TypeCorrect`, `LoadsAreFew`, `RowShowsTheDevice` | `[]TypeOK`, `[]RetriesAreBounded`, `[]ShowsTheDevice` |
| `SessionGate_proofs` | `TypeCorrect` | `[]TypeOK` |
| | `CountsExact`, `OverrunBounded`, `WaitingWorks` | `[]CountsAreExact`, `[]OverrunIsBounded`, `[]WaitingAsToldWorks` |
| | `SignedOut`, `ChangesFromPage`, `LoginLasts` | `[]SignedOutStaysOut`, `[]ChangesComeFromTheirPage`, `LoginLastsTTL` |
| `RotatingWriter_proofs` | `TypeCorrect`, `RecordsInOrder`, `SizeExact` | `[]TypeOK`, `[]InOrder`, `[]SizeIsExact` |
| | `FilesStayBounded`, `ReportedStays` | `[]FilesBounded`, `[]ReportedIsKept` |
| `Dashboard_proofs` | `TypeCorrect`, `AbortCancelsShown` | `[]TypeOK`, `[]AbortCancelsWhatWasShown` |
| | `OfflineUnderWay` | `OfflineOnlyIfUnderWay` |

Only `MutingIsSilent` has a hypothesis: a device of at most one step per percent,
without which the property does not hold (`volume_fine_steps`). `AtMostOneFate`,
`FileAgrees`, `KeepsPromise` and `MissedRecordKept` themselves speak of behaviours
up to the first write that fails (`lostWrites = 0`); `schedule_store_failure`
shows that past it the first does not hold. A read that fails is no such limit:
`FileAgrees` says what then holds instead, and `PowerSchedule` has an armed action
`hidden`, which is not claimed, aborted or missed, over which another may be
armed. The others hold whatever fails.

The assumptions are those on the constants, named in the module that declares
them, and TLC evaluates them in every run: numbers are natural numbers, lengths,
limits and windows not zero; a device has between 1 and `MaxPlausibleSteps`
steps, as `stepInfo` sees to; the actions that suspend or power off are among the
actions; the handlers that compare passwords at a time are finitely many; what
stands for nil is no value of the type it is nil in.

### The arguments

* **`ActionManager`.** `ManagerInv`: types; a process that is down has a new
  manager (`DownIsNew`, without which Restore could start from anything); worker
  and missed record agree with the state; and `DeadlinesKept`, that the deadline
  of an armed action, in memory or in the file, is the one its identifier was
  accepted with. The last is what carries the window across restarts: Restore
  takes its deadline from the file. `ScheduleInv` adds `FileAgrees` and `FateInv`:
  nothing has become of an action that is still in the file, nor of one being
  carried out, nor of an identifier not yet given out. An abort or a claim takes
  the action out of the file in the same step, so what Restore finds has no
  fate, and neither has what Tick claims. The refinement reads the promise off
  the file and the tick goroutine, with what a process could not read hidden from
  it, and needs both invariants: every action of the
  manager is an action of `PowerSchedule` or changes nothing there, as long as no
  write has failed. A failed read hides what is armed (`Hide`), the next read
  brings it back or finds it late, and Schedule and Dismiss write over it.
* **`FileStore`.** `StoreInv`: the file is never partial, and from the seal of
  the temporary file to its rename it holds all of what was to be saved. Each
  writer has a temporary file of its own, so any number of them is no harder
  than one. The rename, and the removal in Clear, are where the cell changes;
  every other call, failure and end is a stutter.
* **`ServiceHost`.** `DrainInv`: once the listener is closed the process drains,
  has given up, or leaves with no request left (`ClosedIsDrained`).
* **`VolumeSteps`.** Division is by its two inequalities, quotient times divisor
  at most the dividend and the next multiple above it. The rest is nonlinear
  arithmetic taken apart until each product is bounded by a lemma.
* **`VolumeControl`.** What a helper has walked and what it has still to walk is
  at most the number of steps less one (`WalkInv`). A request nobody has
  disturbed knows, at each of its steps, where the device is, that it is between
  where it was found and where it is to go, and that the mute flag is as it was
  found until it is there (`AloneInv`); where it ends is then `VolumeSteps`'s.
* **`VolumeRow`.** One load is on its way exactly while `volumeLoading` is set, and
  only while attempts are left (`LoadInv`); while no two requests have overlapped
  the one in flight brings what the PC has, or has not changed it (`LoneInv`).
* **`LoginLimiter`.** The lists are in order and not from the future, so the
  prefix that pruning drops is all that is out of the window (`KeptInv`); list and
  history count the same at every instant of the window (`ExactInv`); the failures
  held for an address and the handlers that may add to them are less than the
  limit and all the handlers together (`RoomInv`, by counting: whoever is
  admitted found the list under its limit); and while an address is refused
  nobody is admitted for it, so its failures and running handlers together only
  shrink, by one at least whenever it has waited as told, and cannot do so more
  often than they exceed the limit (`ToldInv`).
* **`SessionGate`.** While the browser is sent to log in it has no cookie and what
  it sends has none (`JarInv`, `RequestInv`); what it sends from a page carries that
  page's token; a session expires in the second that is its TTL after its login
  by the clock of that time (`ExpiryInv`).
* **`RotatingWriter`.** Generations are in order and each is sound: ids and offsets
  ascend, and what is larger than the limit is one record (`FilesInv`). The handle
  is closed from the close to the reopening, and before the new file is made
  there is none at the path (`PlaceInv`). The size is the file's while it is
  open, and the record about to be appended fits in or comes first (`SizeInv`). A
  reported record is no further down than the rotations since, one less if it
  has yet to move in this one, and not where the next rename goes (`KeptInv`).
* **`Dashboard`.** An answer that carries an action says pending, and one that says
  its time is up too; so the page shows an action only if pending was the last it
  heard, and marks one as fired only if idle was not (`Tells`, `PageOK`).

TLC checked the larger ones, `ScheduleInv` (with `ManagerInv` in it), `GateInv`
and `WriterInv`, on the instances of the runs. Trying to prove changed the
models in two places: the limiter's exactness was stated of totals and is now
stated of every instant, because totals are not inductive; a log record had a
length and now has its end, so that a file's size is read off and not summed by
recursion.

### Left to TLC

Liveness under the fairness above: `EveryActionSettles`, `StopsWhenItShould`,
`ComesBack`, `EveryRequestAnswered`, `DisabledWithNobody`, `ComesBackOrGivesUp`,
`PageCatchesUp`. These provers handle neither ENABLED nor an induction over how
far a behaviour has got. And what the violations say, which is about particular
behaviours.

## Not modelled

* Two managers that claim the same action: `ServiceHost` has two processes, but of
  the manager only its calls to the store. The code has nothing against it (the
  second instance restores before it finds the port taken), so there would be
  nothing to state.
* Middleware without state: the body cap, recovery from panics, security headers;
  signatures and bcrypt, which are taken to do what they are for.
* The page's time picker and banners.
* `--init`, `--hash-password` and the files and secrets they write: run by hand,
  once, alone. The configuration: read once, validated in a straight line.
* What a power cut does to unsynced writes: it depends on the file system.
* Local-time parsing in `ResolveWhen`, DST, JSON, argument quoting, COM
  marshalling: conversions without control that matters here.
* System information, fakes, templates, icon generator: pure, or for development
  only.

## Plan

The components worth modelling are modelled, and their safety is proved. What
may still be proved: that `VolumeRow`'s one-step volume request is what
`VolumeControl` does to a device nobody else is at, from `LevelsLand` and
`MutingIsSilent`; that `Dashboard`'s cut-down server takes only steps that
`ActionManager`'s takes; invariants between the parts of `ServiceHost` and the
manager's lock; and the safety half of the liveness properties (what is enabled
whenever something is still to happen), as invariants.
