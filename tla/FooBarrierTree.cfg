\* The root of a tree with a leaf and an inner node that has one leaf.
SPECIFICATION FairSpec
CONSTANTS
    t1 = t1
    t2 = t2
    t3 = t3
    t4 = t4
    b1 = b1
    b2 = b2
    Threads = {t1, t2, t3, t4}
    Barriers = {b1, b2}
    Count <- TreeCount
    Plan <- Tree
PROPERTY AllReleased
CHECK_DEADLOCK FALSE
