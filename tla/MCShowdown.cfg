CONSTANTS
    Shuffles <- MCShuffles
    Hints <- MCHints
SPECIFICATION Spec
INVARIANTS
    NoCardTwice
    RunsOutOnlyIfTooMany
    BestByTheRules
    WinnersByTheRules
PROPERTIES
    LoopAdvances
CHECK_DEADLOCK FALSE
