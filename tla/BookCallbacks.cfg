SPECIFICATION BookSpec
CONSTANTS
    Screens = 3
    Calls = 2
INVARIANTS
    HarmNeedsOverlap
CHECK_DEADLOCK FALSE
