\* A process killed with anchors past the end of the session file.
SPECIFICATION RewindSpec
CONSTANTS
    Interval = 1
    MinEvictable = 2
    MaxMessages = 7
    MaxRewinds = 2
    MaxCompactions = 1
    MaxProcesses = 2
INVARIANTS NoStaleAnchor
CHECK_DEADLOCK FALSE
