CONSTANTS
    Player = {"A", "B", "C"}
    SeatOrder <- MCSeatOrder
    Bankroll = {2}
    SmallBlind = 1
    BigBlind = 2
    UIntRange = 64
    MaxRaise = 6
    NoPlayer = NoPlayer
SPECIFICATION FairSpec
INVARIANTS
    TypeOK
    StackLedger
    PotBacked
    SomeoneIsAsked
    EqualStakesAtShowdown
    NeverBetAhead
PROPERTIES
    FoldedNeverPaid
    ChipsConserved
    IsTable
    HandEndsUnlessLeft
CHECK_DEADLOCK FALSE
