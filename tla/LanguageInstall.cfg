SPECIFICATION FairSpec
CONSTANTS
    Langs = {fra, deu}
    MaxDownloads = 2
    MaxDeaths = 1
INVARIANTS
    FlagHasReason
    PartialHasReason
PROPERTIES
    FlagClears
    OrdersAreServedOnce
