SPECIFICATION Spec
CONSTANTS
    shutdown = shutdown
    sleep = sleep
    c1 = c1
    c2 = c2
    None = None
    Damaged = Damaged
    NotAnAction = NotAnAction
    Actions <- MCActions
    Suspending <- MCSuspending
    Clients <- OneClient
    MissedGrace = 1
    MaxHorizon = 2
    FailedRetention = 1
    MaxLostWrites = 2
    MaxFailedReads = 1
    MaxClock = 3
    MaxIds = 2
    MaxExits = 2
    MaxStepBacks = 1
INVARIANTS FailedWriteOnlyLoses
