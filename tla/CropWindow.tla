------------------------------ MODULE CropWindow ------------------------------
(***************************************************************************)
(* The frame the user drags over the photo: CropWindow with the gestures   *)
(* of CropImageView, from showDefaultCroppingRectangle, which takes the    *)
(* corners of CardDetection. CropBox composes it with what CropImageProcess*)
(* makes of the frame, and has the specification of both.                  *)
(* A frame is four corners, p0..p7 of the code; coordinates count half     *)
(* pixels, so that the casts to int lose something.                        *)
(***************************************************************************)
EXTENDS CardDetection

CONSTANTS
    Photos,     \* records: what OpenCV finds in a photo (squares), and how many
                \* movements the user makes on it at most (moves)
    Distances   \* pairs: how far the finger goes from one event to the next

\* A square of find_squares has four points.
ASSUME InputAssumption ==
    /\ \A photo \in Photos :
          photo.squares \in Seq([1..4 -> [x : Int, y : Int]]) /\ photo.moves \in Nat
    /\ Distances \subseteq Int \X Int

\* Those of the photo: find_squares keeps only what IsSquare says, of points on the photo.
ASSUME SquaresAssumption ==
    \A photo \in Photos : \A i \in DOMAIN photo.squares :
        LET q == photo.squares[i]
        IN  /\ IsSquare(q)
            /\ \A k \in 1..4 : /\ q[k].x \in 0..Width /\ q[k].x % Grain = 0
                               /\ q[k].y \in 0..Height /\ q[k].y % Grain = 0

VARIABLES
    squares,    \* what find_squares returned for the photo
    frame,      \* mPoints
    edge,       \* mMotionEdge while mIsMoving, a set of edges or {"move"}; {} otherwise
    left,       \* movements left
    sound,      \* history: the frame was upright at first, no edge has slid along itself,
                \* and it is still in coordinates of the photo
    shifts      \* history: how often the frame was moved as a whole since then

vars == <<squares, frame, edge, left, sound, shifts>>

Edges == {"left", "right", "top", "bottom"}

Half(n) == 2 * n
Cap == Half(50)
Right == Half(Width)
Bottom == Half(Height)

\* The cast to int of n / d half pixels, in half pixels: towards zero.
TruncTo(n, d) ==
    LET whole == Half(Abs(n) \div Half(Abs(d)))
    IN  IF (n >= 0) = (d > 0) THEN whole ELSE -whole
Trunc(n) == TruncTo(n, 1)

Halves(f) == [c \in DOMAIN f |-> At(Half(f[c].x), Half(f[c].y))]
Least(a, b) == IF a <= b THEN a ELSE b
Most(a, b) == IF a >= b THEN a ELSE b

\* Rect of the bounding points, truncated.
BoundingRect(f) ==
    [left |-> Trunc(Least(f.tl.x, f.bl.x)), right |-> Trunc(Most(f.tr.x, f.br.x)),
     top |-> Trunc(Least(f.tl.y, f.tr.y)), bottom |-> Trunc(Most(f.br.y, f.bl.y))]

\* The detected card, or a square in the middle of 4/5 of the shorter side.
DefaultFrame ==
    LET size == (Least(Width, Height) * 4) \div 5
        x == (Width - size) \div 2
        y == (Height - size) \div 2
    IN  Halves(IF squares = <<>> THEN Rectangle(x, y, x + size, y + size)
               ELSE DetectCardVisit(squares))

-----------------------------------------------------------------------------
(* Dragging. *)

\* The first part of capPoints: each coordinate against one border of the photo.
OntoPhoto(f) ==
    [tl |-> At(Most(0, f.tl.x), Most(0, f.tl.y)),
     tr |-> At(Least(Right, f.tr.x), Most(0, f.tr.y)),
     br |-> At(Least(Right, f.br.x), Least(Bottom, f.br.y)),
     bl |-> At(Most(0, f.bl.x), Least(Bottom, f.bl.y))]

\* Mutated form of CapPoints: the bounds come from one corner each.
CapPointsLoosely(f, e) ==
    LET p == OntoPhoto(f)
        L(x) == IF "left" \in e THEN Least(x, p.tr.x - Cap) ELSE x
        R(x) == IF "right" \in e THEN Most(x, p.tl.x + Cap) ELSE x
        T(y) == IF "top" \in e THEN Least(y, p.bl.y - Cap) ELSE y
        B(y) == IF "bottom" \in e THEN Most(y, p.tl.y + Cap) ELSE y
    IN  [tl |-> At(L(p.tl.x), T(p.tl.y)), tr |-> At(R(p.tr.x), T(p.tr.y)),
         br |-> At(R(p.br.x), B(p.br.y)), bl |-> At(L(p.bl.x), B(p.bl.y))]

\* capPoints: then the dragged edges against the opposite ones, 50 pixels apart.
CapPoints(f, e) ==
    LET p == OntoPhoto(f)
        L(x) == IF "left" \in e THEN Least(x, Least(p.tr.x, p.br.x) - Cap) ELSE x
        R(x) == IF "right" \in e THEN Most(x, Most(p.tl.x, p.bl.x) + Cap) ELSE x
        T(y) == IF "top" \in e THEN Least(y, Least(p.bl.y, p.br.y) - Cap) ELSE y
        B(y) == IF "bottom" \in e THEN Most(y, Most(p.tl.y, p.tr.y) + Cap) ELSE y
    IN  [tl |-> At(L(p.tl.x), T(p.tl.y)), tr |-> At(R(p.tr.x), T(p.tr.y)),
         br |-> At(R(p.br.x), B(p.br.y)), bl |-> At(L(p.bl.x), B(p.bl.y))]

Corner == [tl |-> {"left", "top"}, tr |-> {"right", "top"},
           br |-> {"right", "bottom"}, bl |-> {"left", "bottom"}]

Shifted(f, cs, d) ==
    [c \in DOMAIN f |-> IF c \in cs THEN At(f[c].x + d[1], f[c].y + d[2]) ELSE f[c]]

\* growBy: a corner alone, an edge with both its ends and in both directions; a
\* finger near two or more edges but at no corner moves nothing.
GrowBy(f, e, d) ==
    CapPoints(Shifted(f, {c \in DOMAIN f : e = Corner[c] \/ (\E s \in Corner[c] : e = {s})}, d), e)

\* capDx and capDy, up to the border of the photo, by the truncated bounds.
CapMove(near, far, d, end) ==
    IF far + d >= end THEN end - far ELSE IF near + d <= 0 THEN -near ELSE d

\* Mutated form of MoveBy: the whole way, and capPoints sees to the border.
MoveAndClamp(f, d) == CapPoints(Shifted(f, DOMAIN f, d), {})

MoveBy(f, d) ==
    LET r == BoundingRect(f)
        by == <<CapMove(r.left, r.right, d[1], Right), CapMove(r.top, r.bottom, d[2], Bottom)>>
    IN  CapPoints(Shifted(f, DOMAIN f, by), {})

-----------------------------------------------------------------------------
\* All corners are on the photo, but for some half pixels.
OnPhoto(f, lost) ==
    \A c \in DOMAIN f : f[c].x \in -lost..Right + lost /\ f[c].y \in -lost..Bottom + lost

\* The upper corners are above the lower ones and the left ones left of the right
\* ones, 50 pixels apart, and on the photo, but for the half pixels that got lost.
Spread(f, lost) ==
    /\ Most(f.tl.x, f.bl.x) + Cap <= Least(f.tr.x, f.br.x) + lost
    /\ Most(f.tl.y, f.tr.y) + Cap <= Least(f.bl.y, f.br.y) + lost
    /\ OnPhoto(f, lost)

Init ==
    /\ \E photo \in Photos : squares = photo.squares /\ left = photo.moves
    /\ frame = DefaultFrame
    /\ edge = {}
    /\ sound = Spread(frame, 0) /\ shifts = 0

\* The finger comes down on the frame; where it is hit is an input.
Press(e) ==
    /\ left > 0
    /\ edge = {}
    /\ edge' = e
    /\ UNCHANGED <<squares, frame, left, sound, shifts>>

Slides(e, d) == (e \in {{"left"}, {"right"}} /\ d[2] # 0) \/ (e \in {{"top"}, {"bottom"}} /\ d[1] # 0)

Drag(d) ==
    /\ left > 0
    /\ edge # {}
    /\ frame' = IF edge = {"move"} THEN MoveBy(frame, d) ELSE GrowBy(frame, edge, d)
    /\ left' = left - 1
    /\ sound' = (sound /\ ~Slides(edge, d))
    /\ shifts' = IF edge = {"move"} THEN shifts + 1 ELSE shifts
    /\ UNCHANGED <<squares, edge>>

Release ==
    /\ edge # {}
    /\ edge' = {}
    /\ UNCHANGED <<squares, frame, left, sound, shifts>>

\* A new frame for the rotated photo, also while the finger is down or the task runs.
Rotate ==
    /\ frame' = DefaultFrame
    /\ sound' = Spread(frame', 0) /\ shifts' = 0
    /\ UNCHANGED <<squares, edge, left>>

Gesture ==
    \/ \E e \in ((SUBSET Edges) \ {{}}) \cup {{"move"}} : Press(e)
    \/ \E d \in Distances : Drag(d)
    \/ Release

-----------------------------------------------------------------------------
(* Properties. *)

TypeOK ==
    /\ frame \in [{"tl", "tr", "br", "bl"} -> [x : Int, y : Int]]
    /\ edge \in (SUBSET Edges) \cup {{"move"}}
    /\ left \in Nat /\ shifts \in Nat /\ sound \in BOOLEAN

\* However often corners, edges and the frame itself are dragged against each
\* other and the borders, a frame that was upright stays on the photo with 50
\* pixels between opposite sides, but for less than a pixel lost in each move of
\* the whole frame (moveBy goes by truncated bounds), unless an edge slid along itself.
UprightUnlessSlid == TypeOK /\ (sound => Spread(frame, shifts))

\* On a frame with the distances of capPoints, dragging a corner leaves the other
\* three where they are; moving a frame that is on the photo changes no side by a
\* pixel or more.
DragIsLocal ==
    [][ \A d \in Distances : Drag(d) =>
        /\ \A c \in DOMAIN frame :
              Spread(frame, 0) /\ edge = Corner[c]
                  => \A other \in DOMAIN frame \ {c} : frame'[other] = frame[other]
        /\ edge = {"move"} /\ OnPhoto(frame, 0) =>
              \A c1, c2 \in DOMAIN frame :
                  /\ Abs((frame'[c1].x - frame'[c2].x) - (frame[c1].x - frame[c2].x)) < Half(1)
                  /\ Abs((frame'[c1].y - frame'[c2].y) - (frame[c1].y - frame[c2].y)) < Half(1) ]_vars

\* The ways to name the points of a contour, going round in either direction.
Readings(q) ==
    {[tl |-> q[i], tr |-> q[((i + s - 1) % 4) + 1], br |-> q[((i + 1) % 4) + 1],
      bl |-> q[((i - s + 3) % 4) + 1]] : i \in 1..4, s \in {1, -1}}

\* If the contour that is taken has two upper and two lower points far enough apart, in
\* whatever order it goes round, they are the corners: such a card is not given up for
\* the whole photo.
UprightCardIsKept ==
    squares # <<>> =>
        \A r \in Readings(FindLargestSquare(squares)) :
            Most(r.tl.y, r.tr.y) < Least(r.bl.y, r.br.y) /\ ~TooSmall(r)
                => DetectCardVisit(squares) = r

\* That, and the corners of a detected card are the corners of one convex figure in
\* clockwise order, which the projection needs, whatever contour was taken and wherever
\* it starts.
CornersInOrder ==
    /\ UprightCardIsKept
    /\ squares # <<>> =>
           LET c == DetectCardVisit(squares)
               q == <<c.tl, c.tr, c.br, c.bl>>
           IN  \A i \in 1..4 : Cross(q[(i % 4) + 1], q[((i + 1) % 4) + 1], q[i]) > 0
=============================================================================
