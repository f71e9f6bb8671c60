SPECIFICATION Spec
CONSTANTS
    FREQ = 3
    PERIOD = 1
    WORD = 48
    TVAL = 16
    Durations = {0, 1, 2}
    Garbage = {0, 1, 8}
    MaxCount = 12
    MaxEvents = 3
    MaxSwitches = 1
    MaxAdd = 2
    MaxLatency = 1
INVARIANTS
    TypeOK
    
    ArmedForHead
    NotEarly
    
    HandlerFindsEvent
