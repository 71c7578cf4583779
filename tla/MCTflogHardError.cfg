SPECIFICATION FairSpec
CONSTANTS
    MaxMsgs <- OneMsg
    MaxChunk <- OneChunk
    GraceIsLong = FALSE
PROPERTY HardErrorStopsProgram
