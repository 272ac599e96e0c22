CONSTANTS
    Player = {"A", "B", "C"}
    SeatOrder <- MCSeatOrder
    Bankroll = {2}
    SmallBlind = 1
    BigBlind = 2
    UIntRange = 64
    MaxRaise = 6
    NoPlayer = NoPlayer
SPECIFICATION FairSpec
PROPERTY HandIsResolved
CHECK_DEADLOCK FALSE
