CONSTANTS
    A = A
    B = B
    C = C
    Player <- MCPlayer
    StartingChips = 2
    SmallBlind = 1
    BigBlind = 2
    MaxCrashes = 2
    MaxFailures = 1
    MaxHands = 2
    MaxDropped = 1
SPECIFICATION Spec
SYMMETRY MCSymmetry
INVARIANTS
    SchemaIsSound
    MoneyMultipliesOnlyTorn
    StacksAreDurable
    CrashRefundsBets
CHECK_DEADLOCK FALSE
