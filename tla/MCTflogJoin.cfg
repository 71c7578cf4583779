SPECIFICATION FairSpec
CONSTANTS
    MaxMsgs <- OneMsg
    MaxChunk <- OneChunk
    GraceIsLong = TRUE
PROPERTY GraceLetsThreadsJoin
