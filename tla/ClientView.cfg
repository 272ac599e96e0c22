CONSTANTS
    MaxPrompts = 3
    MaxUp = 2
    MaxDown = 3
    MaxLosses = 1
SPECIFICATION Spec
INVARIANTS
    PromptIsShown
    ScreenMatchesServer
