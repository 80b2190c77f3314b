SPECIFICATION FairSpec
CONSTANTS
    Leaked = 1
INVARIANTS
    FaultHasReason
    BookReadsLiveCard
    ResultHasText
    GivesCardBack
PROPERTIES
    StartLeadsToResult
