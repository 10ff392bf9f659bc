SPECIFICATION RewindSpec
CONSTANTS
    Interval = 1
    MinEvictable = 2
    MaxMessages = 7
    MaxRewinds = 2
    MaxCompactions = 1
    MaxProcesses = 2
INVARIANTS AnchorsHold NothingSkipped
PROPERTIES RewoundIsPaired
CHECK_DEADLOCK FALSE
