SPECIFICATION FairSpec
CONSTANTS
    Rest <- AtRest
    Positions <- ThrottleOpens
    MaxUser = 2
    MaxFlight = 1
    MaxSent = 1
INVARIANTS
    TypeOK
    NoStuckPress
PROPERTIES
    HalvesAreRecent
    OnlyPressesCommand
    Settles
    LastPressActs
    ControlFollows
