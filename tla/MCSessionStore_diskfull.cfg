\* One process whose writes may throw.
SPECIFICATION Spec
CONSTANTS
    Procs = {p}
    Headers = {h1, h2}
    None = None
    FaultSets = {{"throw"}}
    MaxMessage = 6
    MaxLen = 4
INVARIANT
    AppendsOnlyGrow
