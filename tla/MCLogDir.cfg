SPECIFICATION FairSpec
CONSTANTS
    a = a
    b = b
    c = c
    Names <- ThreeNames
    MaxChunks = 2
INVARIANTS
    TypeOK
    CleanedUp
    OkMeansCopied
    TruncatedByFailure
PROPERTIES
    PublishesSession
    Ends
