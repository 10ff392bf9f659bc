\* Two answers of up to two calls each, every kind of write tool, the user
\* cycling the mode and aborting at any await; a window of one message.
SPECIFICATION FairSpec
CONSTANTS
    Tools = {"edit", "bash", "ghost"}
    DefinedTools = {"edit", "bash"}
    WriteTools = {"edit", "bash"}
    PersistableTools = {"edit"}
    HasApprovalPrompt = TRUE
    Interactive = TRUE
    Histories <- NewSession
    MaxIterations = 2
    MaxConsecutiveDenials = 2
    PreserveRecent = 1
    MinEvictable = 2
    MaxCalls = 2
INVARIANTS
    DenialLimit
PROPERTIES
    NothingNewAfterAbort
    NoWriteStartsReadOnly
    ImplementsConversation
    AbortEndsRun
