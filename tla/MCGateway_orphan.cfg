\* Nothing goes wrong but the answer to a claim.
SPECIFICATION Spec
CONSTANTS
    Requests = {r1, r2}
    Stamps = {t1, t2, t3, t4}
    NoStamp = NoStamp
    Free = TRUE
    Cap = 1
    StaleAfter = 1
    HoldLimit = 1
    Faults = {"claim errors"}
SYMMETRY Same
INVARIANTS
    SlotsAreHeld
