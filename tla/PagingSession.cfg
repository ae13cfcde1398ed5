\* Two processes, more pages than frames; the MMU may crash.
CONSTANTS
    k = 2
    m = 2
    f = 3
    RefStrings <- Strings
SPECIFICATION Spec
INVARIANTS
    FramesExclusive
    NotMisled
    OneAnswerEach
    FramesReturned
PROPERTY
    SessionEnds
CHECK_DEADLOCK FALSE
