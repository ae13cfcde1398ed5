\* A table of two jobs, with and without the first installation of the handlers.
SPECIFICATION FairSpec
CONSTANTS
    MAX_JOBS = 2
    InstallsFirst = {TRUE, FALSE}
INVARIANTS
    ForegroundOnly
    StatusTrue
    SignalsReachJob
    CleanedUp
    IInv
PROPERTIES
    NobodyStuck
CHECK_DEADLOCK FALSE
