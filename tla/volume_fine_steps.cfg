SPECIFICATION Spec
CONSTANTS
    phone = phone
    laptop = laptop
    Nothing = Nothing
    Clients <- Browsers
    Settings <- OverOnePerPercent
INVARIANTS MutingKeepsTheStep
