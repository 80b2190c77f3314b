------------------------------- MODULE CropBox -------------------------------
(***************************************************************************)
(* The box that CropImageProcess cuts out for the frame of CropWindow. The *)
(* task reads the frame twice on its background thread: the corners, which *)
(* getTrapezoid hands out as the live array, and the box around them, for  *)
(* which getPerspectiveCorrectedBoundingRect computes in mMappedPoints.    *)
(* Meanwhile the main thread may show another frame for the rotated photo  *)
(* and draw the one it shows, and the drawing uses the same mMappedPoints. *)
(***************************************************************************)
EXTENDS CropWindow

CONSTANTS
    Views,  \* view matrices of the main thread's drawing: zoom, dx, dy
    Zoom,   \* pixels of the photo for one of the preview, along each axis
    Cut(_)  \* bound: whether the user goes on to cut the photo with these squares

ASSUME ViewsAssumption ==
    /\ Views \subseteq [zoom : Nat, dx : Int, dy : Int]
    /\ Zoom \in Nat \ {0}

VARIABLES
    pc,         \* where the task is, named for its next step; "drag" before it
    points,     \* trapezoid, the corners that are mapped onto the box
    scratch,    \* mMappedPoints of the window the box is computed by, times unit
    unit,       \* the denominators of the floats in scratch along each axis
    sides,      \* w1, w2 and h1, h2 of the computation
    box,        \* the box that is cut out of the photo
    shown,      \* of the task's windows those that are still shown: the one that
                \* "points" aliases, the one of the "box"
    spoilt      \* history: what came between the task's reads and writes

taskVars == <<points, scratch, unit, sides, box>>
boxVars == <<vars, pc, taskVars, shown, spoilt>>

TaskPoints == {"drag", "points", "copy", "sides", "pull", "bound", "cut", "mapped"}

Unscaled == At(1, 1)

\* No box yet, or none that can be cut out: of infinite floats, or of floats that are no numbers.
ZeroRect == [left |-> 0, right |-> 0, top |-> 0, bottom |-> 0]

-----------------------------------------------------------------------------
(* getPerspectiveCorrectedBoundingRect. *)

\* The upper and the lower width, the left and the right height.
SidesOf(f) ==
    [w |-> <<f.tr.x - f.tl.x, f.br.x - f.bl.x>>, h |-> <<f.bl.y - f.tl.y, f.br.y - f.tr.y>>]

\* Mutated form of Stretched: the difference keeps its sign.
StretchedSigned(a, b) == Most(a, b) + (a - b)

\* The longer of two opposite sides, and the difference on top.
Stretched(a, b) == Most(a, b) + Abs(a - b)

\* The scale of the heights, and that of the widths, which comes from the old difference
\* and a scaled height: numerator s over denominator d.
HeightScale(w) == [s |-> Stretched(w[1], w[2]), d |-> Most(w[1], w[2])]
WidthScale(w, h) ==
    LET up == HeightScale(w)
        d == Most(h[1], h[2]) * up.s
    IN  [s |-> d + Abs(h[1] - h[2]) * up.d, d |-> d]

\* Two opposite sides from near to far, their lengths scaled by r: the near ends are
\* pulled outwards if the second side is the longer one, else the far ends are pushed.
Sign(n) == IF n < 0 THEN -1 ELSE 1
NearEnd(outwards, near, far, length, r) ==
    Sign(r.d) * (IF outwards THEN far * r.d - length * r.s ELSE near * r.d)
FarEnd(outwards, near, far, length, r) ==
    Sign(r.d) * (IF outwards THEN far * r.d ELSE near * r.d + length * r.s)

\* The corners after the shorter of two opposite sides has pulled its side outwards.
PulledOut(f, w, h) ==
    LET x == WidthScale(w, h)   left1 == h[1] < h[2]
        y == HeightScale(w)     up == w[1] < w[2]
    IN  [tl |-> At(NearEnd(left1, f.tl.x, f.tr.x, w[1], x), NearEnd(up, f.tl.y, f.bl.y, h[1], y)),
         tr |-> At(FarEnd(left1, f.tl.x, f.tr.x, w[1], x), NearEnd(up, f.tr.y, f.br.y, h[2], y)),
         br |-> At(FarEnd(left1, f.bl.x, f.br.x, w[2], x), FarEnd(up, f.tr.y, f.br.y, h[2], y)),
         bl |-> At(NearEnd(left1, f.bl.x, f.br.x, w[2], x), FarEnd(up, f.tl.y, f.bl.y, h[1], y))]

UnitOf(w, h) == At(Abs(WidthScale(w, h).d), Abs(HeightScale(w).d))

\* getBoundingRect of corners over u.
BoundingBox(f, u) ==
    IF u.x = 0 \/ u.y = 0 THEN ZeroRect ELSE
    [left |-> TruncTo(Least(f.tl.x, f.bl.x), u.x), right |-> TruncTo(Most(f.tr.x, f.br.x), u.x),
     top |-> TruncTo(Least(f.tl.y, f.tr.y), u.y), bottom |-> TruncTo(Most(f.br.y, f.bl.y), u.y)]

-----------------------------------------------------------------------------
BoxInit ==
    /\ Init
    /\ pc = "drag" /\ points = frame /\ scratch = frame /\ unit = Unscaled
    /\ sides = SidesOf(frame) /\ box = ZeroRect /\ shown = {} /\ spoilt = {}

(* The main thread. *)

\* The view takes no gestures any more while the task runs.
Touch ==
    /\ pc = "drag"
    /\ Gesture
    /\ UNCHANGED <<pc, taskVars, shown, spoilt>>

\* The rotated photo gets a window of its own, also while the task runs.
NewWindow ==
    /\ Rotate
    /\ shown' = {}
    /\ spoilt' = IF pc = "copy" THEN spoilt \cup {"rotated"} ELSE spoilt
    /\ UNCHANGED <<pc, taskVars>>

\* getScreenPoints of the window that is shown writes one corner after the other.
Draw ==
    /\ pc \in {"sides", "pull", "bound"} /\ "box" \in shown
    /\ \E c \in DOMAIN frame, v \in Views :
          scratch' = [scratch EXCEPT ![c] = At((v.zoom * frame[c].x + v.dx) * unit.x,
                                               (v.zoom * frame[c].y + v.dy) * unit.y)]
    /\ spoilt' = spoilt \cup {"drawn"}
    /\ UNCHANGED <<vars, pc, points, unit, sides, box, shown>>

Crop ==
    /\ pc = "drag" /\ pc' = "points"
    /\ Cut(squares)
    /\ UNCHANGED <<vars, taskVars, shown, spoilt>>

(* The background task. *)

TaskAt(from, to) == pc = from /\ pc' = to /\ UNCHANGED spoilt

\* The corners are those of the live array ...
ReadPoints ==
    /\ TaskAt("points", "copy")
    /\ points' = frame
    /\ shown' = shown \cup {"points"}
    /\ UNCHANGED <<vars, scratch, unit, sides, box>>

\* ... and the box is computed by the window the activity has by then: a copy,
CopyFrame ==
    /\ TaskAt("copy", "sides")
    /\ scratch' = frame /\ unit' = Unscaled
    /\ shown' = shown \cup {"box"}
    /\ UNCHANGED <<vars, points, sides, box>>

\* from which the sides are taken,
ReadSides ==
    /\ TaskAt("sides", "pull")
    /\ sides' = SidesOf(scratch)
    /\ UNCHANGED <<vars, points, scratch, unit, box, shown>>

\* which is pulled out,
PullSides ==
    /\ TaskAt("pull", "bound")
    /\ scratch' = PulledOut(scratch, sides.w, sides.h)
    /\ unit' = UnitOf(sides.w, sides.h)
    /\ UNCHANGED <<vars, points, sides, box, shown>>

\* and whose bounds are the box.
ReadBox ==
    /\ TaskAt("bound", "cut")
    /\ box' = BoundingBox(scratch, unit)
    /\ UNCHANGED <<vars, points, scratch, unit, sides, shown>>

\* The corners go into the box of the whole photo, in the array of the frame itself.
MapPoints ==
    LET OnBox(f) == [c \in DOMAIN f |-> At(Zoom * (f[c].x - box.left), Zoom * (f[c].y - box.top))]
    IN  /\ TaskAt("cut", "mapped")
        /\ points' = OnBox(points)
        /\ frame' = IF "points" \in shown THEN points' ELSE frame
        /\ sound' = (sound /\ "points" \notin shown)
        /\ UNCHANGED <<squares, edge, left, shifts, scratch, unit, sides, box, shown>>

CropTask == ReadPoints \/ CopyFrame \/ ReadSides \/ PullSides \/ ReadBox \/ MapPoints

BoxNext == Touch \/ NewWindow \/ Draw \/ Crop \/ CropTask

BoxSpec == BoxInit /\ [][BoxNext]_boxVars

-----------------------------------------------------------------------------
(* Properties. *)

BoxTypeOK ==
    /\ pc \in TaskPoints
    /\ {frame, points, scratch} \subseteq [{"tl", "tr", "br", "bl"} -> [x : Int, y : Int]]
    /\ unit \in [x : Nat, y : Nat]
    /\ shown \subseteq {"points", "box"} /\ spoilt \subseteq {"rotated", "drawn"}

\* The box that is cut out holds the corners that are mapped onto it, as far as they are
\* on the photo and up to the pixel that the cast drops, whatever the main thread does
\* and unless a side of the frame is turned over. There are two reasons for a box that
\* does not, and no others: the photo was rotated exactly between the two reads, or the
\* frame was drawn while its box was computed.
BoxHoldsFrame ==
    /\ BoxTypeOK
    /\ pc = "cut" /\ spoilt = {}
       /\ points.tl.x < points.tr.x /\ points.bl.x < points.br.x
       /\ points.tl.y < points.bl.y /\ points.tr.y < points.br.y
       => \A c \in DOMAIN points :
             /\ box.left <= Most(points[c].x, 0) /\ points[c].x < box.right + Half(1)
             /\ box.top <= Most(points[c].y, 0) /\ points[c].y < box.bottom + Half(1)
=============================================================================
