SPECIFICATION Spec
CONSTANTS
    Rects = 2
    Words = 2
INVARIANT StopOnlyFlags
