\* Every acyclic graph on three nodes.
SPECIFICATION FairSpec
CONSTANTS
    N = 3
    Graphs <- AcyclicGraphs
    EarlyStart = FALSE
INVARIANTS
    ListedInOrder
    BossVerdict
    CheckExact
PROPERTY
    ImplementsListing
CHECK_DEADLOCK FALSE
