\* Three threads and two mutexes: the process may stop for good, when a check
\* fails or a thread locks one mutex while it holds the other.
SPECIFICATION FairSpec
CONSTANTS
    t1 = t1
    t2 = t2
    t3 = t3
    m1 = m1
    m2 = m2
    Threads = {t1, t2, t3}
    Mutexes = {m1, m2}
    Nobody = Nobody
    Habits = {"nested", "misuse"}
INVARIANTS
    OneHoldAtATime
    OnlyHolderPosts
    QuiescentUnlocked
    IInv
PROPERTY
    LockServedToOne
CHECK_DEADLOCK FALSE
