SPECIFICATION ReceiveSpec
CONSTANTS
    Funcs <- Handlers
    NULL = "null"
    Slots = 3
    AnyOrder = FALSE
    MaxByte = 2
    STX = 1
    Checksums <- Nine
    crc_init = 8
    crc_accumulate <- Accumulate
    crc_extra <- Extra
    low <- Low
    high <- High
    Bodies <- Traffic
    HEARTBEAT = 0
    STATUSTEXT = 2
    LoggedIds <- Logged
    HbLen = 2
    MaxFaults = 1
INVARIANTS
    ListInv
    ParserTypeOK
    InsideBuffer
    ForwardedAsReceived
    InStep
    ChecksumHolds
    HandlersActOnMessage
    TargetIsLastHeartbeat
PROPERTY RefinesHandlerSet
