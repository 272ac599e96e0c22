CONSTANTS
    Conn = {c1, c2}
    Length = {1, 3}
    MaxPacketSize = 2
    MaxRequests = 2
    MaxSends = 2
SPECIFICATION Spec
INVARIANTS
    OpenSessionListens
    QueueIsWritten
PROPERTIES
    IsPacketLink
    LossIsNoticed
CHECK_DEADLOCK FALSE
