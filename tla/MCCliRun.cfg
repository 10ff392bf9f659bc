\* Two runs over one session, each of up to two answers, interrupted once,
\* twice or terminated at any await; a window of two messages.
SPECIFICATION CliSpec
CONSTANTS
    Tools = {"edit"}
    DefinedTools = {"edit"}
    WriteTools = {"edit"}
    PersistableTools = {"edit"}
    HasApprovalPrompt = TRUE
    Interactive = FALSE
    Histories <- NewSession
    MaxIterations = 2
    MaxConsecutiveDenials = 2
    PreserveRecent = 2
    MinEvictable = 1
    MaxCalls = 1
    MaxRuns = 2
INVARIANTS
    ResumableUnlessKilled
    ExitZeroMeansAccomplished
PROPERTIES
    CancelEndsInSignal
