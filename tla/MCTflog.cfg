SPECIFICATION FairSpec
CONSTANTS
    MaxMsgs <- TwoMsgs
    MaxChunk <- TwoChunk
    GraceIsLong = FALSE
INVARIANTS
    TypeOK
    CleanupAlone
    NoUseAfterClose
    CompleteCopy
    IInv
PROPERTIES
    RefinesSession
    StopEndsProgram
    ShutdownCompletes
