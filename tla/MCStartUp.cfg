SPECIFICATION StartSpec
CONSTANTS
    Bodies <- TwoBodies
    MaxPackets = 3
    MaxFd = 7
    MavFiles = 2
INVARIANTS
    NoLineLost
    FilesKeepDescriptors
    ConnectionsAreOwn
    AllClosed
PROPERTY FileOfLine
