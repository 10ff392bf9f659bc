CONSTANTS
    Procs = {"tui", "other"}
    Tui = "tui"
    Reqs = {"r1", "r2"}
    MaxLogins = 2
    MaxLogouts = 1
    MaxKills = 1
SPECIFICATION Spec
INVARIANT NoTokenUsedTwice
INVARIANT SessionStaysUsable
INVARIANT DismissedNeverSaved
PROPERTY WaitersGoOn
CHECK_DEADLOCK FALSE
