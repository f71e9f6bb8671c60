SPECIFICATION Spec
CONSTANTS
    NR_TASKS = 3
    Pages = {p1, p2, p3, p4}
    INIT_TASK = init_task
    NULL = NULL
    Threads = 1
    Irqs = {"timer"}
    Kills = TRUE
    MaxLag = 1
    MaxDepth = 1
INVARIANTS
    NoRunAfterFree
