\* A kill may take the last newline and nothing else.
SPECIFICATION Spec
CONSTANTS
    Procs = {p}
    Headers = {h1, h2}
    None = None
    FaultSets = {{"kill", "newline"}}
    MaxMessage = 4
    MaxLen = 4
INVARIANT
    NeverUnreadable
