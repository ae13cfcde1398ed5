\* Twenty arrival files; the process ends, or waits for ever.
CONSTANTS
    NUM_PATIENTS = 3
    NUM_SALES_REPS = 1
    Files <- SomeFiles
SPECIFICATION Spec
INVARIANTS
    QueueIsRight
    OneInChamber
    NobodyForgotten
PROPERTY
    CallsInOrder
    EndsOrMisses
CHECK_DEADLOCK FALSE
