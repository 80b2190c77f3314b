SPECIFICATION Spec
CONSTANTS
    CardWidth = 97
    CardHeight = 48
    ViewWidth = 240
    CardContours <- MCCardContours
INVARIANTS
    LettersCovered
    PointsOnCard
    OverlapOnlyGrown
PROPERTIES
    CallEnds
