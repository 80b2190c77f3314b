SPECIFICATION Spec
CONSTANTS
    MaxPicks = 3
    MaxDeaths = 1
INVARIANTS
    PointerStaysInProcess
