SPECIFICATION Spec
CONSTANTS
    main = main
    qgc = qgc
    NoOne = NoOne
    Senders <- MavSenders
    Reporters <- MavReporters
    IsStream = TRUE
    Modulus = 4
    Lens = {1, 3}
    MaxFrames = 1
    MaxRead = 0
INVARIANT
    TxCountIsExact
