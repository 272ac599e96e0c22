CONSTANTS
    Conn = {c1, c2, c3}
    ann = ann
    Ann = Ann
    Name = {ann, Ann, bob}
    Account = {ann, bob}
    AccountOf <- MCAccountOf
    StartingChips = 2
    SmallBlind = 1
    BigBlind = 2
    Capacity = {1, 2, 3}
    MaxRoomId = 2
    MaxMoney = 4
    NoName = NoName
SYMMETRY Symmetry
SPECIFICATION Spec
INVARIANTS OneLoginPerAccount
