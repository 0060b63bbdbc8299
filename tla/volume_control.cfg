SPECIFICATION FairSpec
CONSTANTS
    phone = phone
    laptop = laptop
    Nothing = Nothing
    Clients <- Browsers
    Settings <- UpToOnePerPercent
INVARIANTS TypeOK MutingKeepsTheStep LandsOnNearestStep FailureLeavesOnTheWay WalkIsBounded
PROPERTIES EveryRequestAnswered
