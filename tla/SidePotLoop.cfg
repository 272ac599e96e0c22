CONSTANTS
    Player = {A, B, C, D}
    MaxContribution = 4
SPECIFICATION Spec
INVARIANTS
    NoChipLostWhilePeeling
    TableStakes
PROPERTY Terminates
CHECK_DEADLOCK FALSE
