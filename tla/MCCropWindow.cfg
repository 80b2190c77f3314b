SPECIFICATION BoxSpec
CONSTANTS
    Width = 200
    Height = 160
    Grain = 40
    Zoom = 3
    Photos <- MCPhotos
    Distances <- MCDistances
    Views <- MCViews
    Cut <- MCCut
INVARIANTS
    UprightUnlessSlid
    CornersInOrder
    BoxHoldsFrame
PROPERTIES
    DragIsLocal
