SPECIFICATION Spec
CONSTANTS
    MaxSets = 2
    MaxMarkers = 2
    MaxSkeletons = 1
INVARIANTS
    HandlersSeeFrame
    OtherListsReadable
