CONSTANTS
    p1 = p1
    p2 = p2
    f1 = f1
    one = one
    two = two
    key = key
    Procs = {p1, p2}
    Files = {f1}
    Words = {one, two, key}
    Flagged = {key}
    Cap = 2
    MaxCalls = 2
    MaxEdits = 1
    MaxKills = 1
SYMMETRY MCSymmetry
SPECIFICATION Spec
INVARIANT GoneMeansDecided
PROPERTY LandsWhatItComputed
CHECK_DEADLOCK FALSE
