\* The smallest tree with a sum to wait for.
SPECIFICATION Spec
CONSTANTS
    num_nodes = 2
    Parent <- RootAndLeaf
    Value <- FiveInLeaf
INVARIANTS
    PrintedRight
CHECK_DEADLOCK FALSE
