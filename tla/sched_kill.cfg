SPECIFICATION Spec
CONSTANTS
    NR_TASKS = 3
    Pages = {p1, p2, p3, p4, p5}
    INIT_TASK = init_task
    NULL = NULL
    Threads = 1
    Irqs = {}
    Kills = TRUE
    MaxLag = 1
    MaxDepth = 1
SYMMETRY PageSymmetry
INVARIANTS
    NoRunAfterFree
    NoDoubleFree
    StacksOwned
    NrTasksExact
