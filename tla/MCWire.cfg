CONSTANTS
    null = null
    nullopt = nullopt
    Invalid = Invalid
    Messages <- MCMessages
    Sizes = {1, 10, 11}
    MAX_PACKET_SIZE = 10
    Base = 2
    MaxSent = 2
SPECIFICATION Spec
INVARIANTS
    UnderstoodAsMeant
PROPERTIES
    Delivered
CHECK_DEADLOCK FALSE
