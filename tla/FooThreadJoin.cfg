\* Joinable threads one at a time, detached ones beside them; the table is
\* full if the second detached thread comes at the wrong time.
SPECIFICATION FairSpec
CONSTANTS
    main = main
    c1 = c1
    c2 = c2
    d1 = d1
    d2 = d2
    Exit = Exit
    Leader = main
    Threads = {main, c1, c2, d1, d2}
    Joinable = {c1, c2}
    Script <- OneAtATime
    MaxThreads = 3
INVARIANTS
    TableSound
    JoinsCountKids
PROPERTY
    AllFinish
CHECK_DEADLOCK FALSE
