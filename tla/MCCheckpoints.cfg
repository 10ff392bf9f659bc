SPECIFICATION Spec
CONSTANTS
    Procs = {p1, p2}
    Paths = {f, g}
    Contents = {c1, c2}
    Absent = Absent
    None = None
    MaxRetained = 0
    FaultSets <- Apart
    MaxCalls = 3
    MaxEdits = 1
    MaxRestores = 2
    MaxStarts = 2
    Budget = 6
SYMMETRY Same
INVARIANTS
    UndoOneGoesBack
PROPERTIES
    NothingLostByRestore
    OnlyOwnWritesRemoved
CHECK_DEADLOCK FALSE
