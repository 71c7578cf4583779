SPECIFICATION Spec
CONSTANTS
    Rest <- AtRest
    Positions <- ThrottleOpens
    MaxUser = 2
    MaxFlight = 0
    MaxSent = 1
PROPERTY OnePressOneToggle
