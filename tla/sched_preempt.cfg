SPECIFICATION FairSpec
CONSTANTS
    NR_TASKS = 3
    Pages = {p1, p2, p3, p4}
    INIT_TASK = init_task
    NULL = NULL
    Threads = 1
    Irqs = {"timer", "uart"}
    Kills = FALSE
    MaxLag = 1
    MaxDepth = 2
INVARIANTS
    TypeOK
    PreemptBalance
    ForkedStackComplete
    ExitNeverReturns
    NoPageLeak
PROPERTIES
    SwitchToRunning
    NoStarvation
