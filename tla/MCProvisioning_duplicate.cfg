\* Two requests, one of which reads before the other claims.
SPECIFICATION ClaimSpec
CONSTANTS
    Servers = {s1, s2}
    Portals = {}
    Tokens = {t1, t2, t3}
    NoToken = NoToken
    StaleAfter = 4
    CallTimeout = 1
SYMMETRY Same
INVARIANT
    OneFreeSubscription
