\* Two models, two sessions, two commands at once; a screen of two widths and
\* heights; one or two rows in a panel.  The run may end.
SPECIFICATION FairSpec
CONSTANTS
    m1 = m1
    m2 = m2
    Models = {m1, m2}
    NoModel = NoModel
    Commands = {c1, c2}
    ProviderKeys = {k1}
    Settings = {s1, s2}
    Switches = {s2}
    GrantTools = {g1}
    Limits <- Limited
INVARIANTS
    NothingTakenBack
    SavedHasAnswered
    CheckpointsFollowTheSession
PROPERTIES
    CommandsReturn
    StopEnds
    ReaderStays
    OwnEntryOnly
CHECK_DEADLOCK FALSE
