SPECIFICATION Spec
CONSTANTS
    FREQ = 3
    PERIOD = 1
    WORD = 48
    TVAL = 16
    Durations = {0, 1, 2}
    Garbage = {0, 1, 8}
    MaxCount = 16
    MaxEvents = 3
    MaxSwitches = 0
    MaxAdd = 2
    MaxLatency = 1
INVARIANT
    NotLateAcrossSecond
