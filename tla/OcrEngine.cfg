SPECIFICATION FairSpec
CONSTANTS
    Rects = 3
    Words = 3
INVARIANTS
    TypeOK
    ReadsLiveText
    PublishedIsWhole
    LateCancelHarmless
    CleanFinish
PROPERTIES
    ImplementsJob
    BothThreadsEnd
    CancelCostsOneBlock
