SPECIFICATION FairSpec
CONSTANTS
    MaxPicks = 3
    MaxDeaths = 1
INVARIANTS
    OneCropPerLoad
    LostHasReason
    DataBeforeCrop
PROPERTIES
    DialogGoes
