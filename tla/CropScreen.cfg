SPECIFICATION FairSpec
INVARIANTS
    FaultHasReason
    PhotoOutlivesClip
    HandsOverLiveCard
    OneOcrScreen
    PreviewRecycled
PROPERTIES
    CropLeadsOn
