\* Two gateway requests and a portal render, lookup and calls within the margin.
SPECIFICATION FairSpec
CONSTANTS
    Servers = {s1, s2}
    Portals = {p1}
    Tokens = {t1, t2, t3}
    NoToken = NoToken
    StaleAfter = 4
    CallTimeout = 1
PROPERTIES
    ClaimIsALease
    NoLockOut
