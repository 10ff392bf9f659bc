\* A Free account: three requests at once, every fault, a window that is as
\* long as a request may take.
SPECIFICATION FairSpec
CONSTANTS
    Requests = {r1, r2, r3}
    Stamps = {t1, t2, t3, t4}
    NoStamp = NoStamp
    Free = TRUE
    Cap = 2
    StaleAfter = 2
    HoldLimit = 2
    Faults = {"claim errors", "release fails", "die"}
INVARIANTS
    BoundedBurst
    OneStream
PROPERTIES
    SlotIsALease
    SlotComesBack
