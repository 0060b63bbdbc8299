SPECIFICATION FairSpec
CONSTANTS
    shutdown = shutdown
    sleep = sleep
    c1 = c1
    c2 = c2
    None = None
    Damaged = Damaged
    NotAnAction = NotAnAction
    Actions <- JustSleep
    Suspending <- MCSuspending
    Clients <- TwoClients
    MissedGrace = 1
    MaxHorizon = 1
    FailedRetention = 1
    MaxClock = 2
    MaxIds = 2
    MaxExits = 2
    MaxLostWrites = 1
    MaxFailedReads = 1
    MaxStepBacks = 1
INVARIANTS TypeOK AtMostOneFate FileAgrees StateAgrees
PROPERTIES ClaimedInWindow MissedRecordKept KeepsPromise EveryActionSettles
