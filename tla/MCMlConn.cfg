SPECIFICATION Spec
CONSTANTS
    main = main
    qgc = qgc
    NoOne = NoOne
    Senders <- MavSenders
    Reporters <- MavReporters
    IsStream = TRUE
    Modulus = 5
    Lens = {2}
    MaxFrames = 2
    MaxRead = 8
INVARIANTS
    FramesContiguous
    WireInv
    ReceivedIsReported
