CONSTANTS
    MaxRequests = 2
    MaxLogins = 1
    MaxSends = 3
SPECIFICATION Spec
INVARIANTS OneOperationAtATime NoStuckPacket InOrderOnce ViewMatchesConnection
PROPERTY AttemptEnds
CHECK_DEADLOCK FALSE
