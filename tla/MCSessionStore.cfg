\* Two processes on one session: killed; killed or with writes that throw;
\* writing between each other's stat and append.
SPECIFICATION Spec
CONSTANTS
    Procs = {p, q}
    Headers = {h1, h2}
    None = None
    FaultSets = {{"kill"}, {"kill", "throw"}, {"window"}}
    MaxMessage = 4
    MaxLen = 4
SYMMETRY Same
INVARIANTS
    SaveIsExact
    NeverUnreadable
PROPERTIES
    KillLosesNothingSaved
