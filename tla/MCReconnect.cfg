CONSTANTS
    MaxRequests = 1
    MaxLogins = 0
    MaxSends = 0
SPECIFICATION Spec
PROPERTY ReconnectEnds
CHECK_DEADLOCK FALSE
