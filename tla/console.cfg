SPECIFICATION FairSpec
CONSTANTS
    MAX_BUFFER_LEN = 2
    Readers = {r1, r2}
    Idle = idle
    WaitQueue = waitQueue
    NULL = null
    Keys = {"regular", "newline", "backspace", "unknown"}
    MaxTyped = 4
    MaxUnder = 2
INVARIANTS
    TypeOK
    NoCharLost
    WaitEntriesLive
PROPERTY
    InputServed
