\* Workers that start when the boss says that the setup is done.
SPECIFICATION Spec
CONSTANTS
    N = 2
    Graphs <- ForwardGraphs
    EarlyStart = TRUE
INVARIANT ValidMeansValid
CHECK_DEADLOCK FALSE
