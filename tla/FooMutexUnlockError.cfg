\* Two threads that lock and unlock correctly.
SPECIFICATION Spec
CONSTANTS
    t1 = t1
    t2 = t2
    m1 = m1
    Threads = {t1, t2}
    Mutexes = {m1}
    Nobody = Nobody
    Habits = {}
INVARIANT UnlockErrorIsReal
CHECK_DEADLOCK FALSE
