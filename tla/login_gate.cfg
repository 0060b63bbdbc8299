SPECIFICATION Spec
CONSTANTS
    home = home
    mobile = mobile
    t1 = t1
    t2 = t2
    None = None
    IPs <- MCIPs
    Attempts <- MCTabs
    Situations <- MCSituations
    PerIPLimit = 2
    GlobalLimit = 3
    Window = 2
    TTL = 2
    PerSecond = 2
    MaxClock = 4
    MaxLogins = 2
    MaxStepBacks = 1
    MaxRestarts = 1
SYMMETRY Symmetry
INVARIANTS TypeOK CountsAreExact OverrunIsBounded WaitingAsToldWorks SignedOutStaysOut ChangesComeFromTheirPage
PROPERTIES LoginLastsTTL
