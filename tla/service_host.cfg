SPECIFICATION FairSpec
CONSTANTS
    service = service
    console = console
    None = None
    Partial = Partial
    Writers <- MCWriters
    Service = service
    Situations <- MCSituations
INVARIANTS TypeOK NoneDropped
PROPERTIES ActsAtomically StopsWhenItShould ComesBack
CHECK_DEADLOCK FALSE
