SPECIFICATION FairSpec
CONSTANTS
    r1 = r1
    r2 = r2
    p1 = p1
    p2 = p2
    Nothing = Nothing
    Calls <- TwoCalls
    Polls <- OnePoll
    StepCount = 2
    AskedLevels <- Coarse
    MaxFaults = 0
PROPERTIES SigningInReEnables
