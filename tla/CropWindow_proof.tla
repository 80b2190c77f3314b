---------------------------- MODULE CropWindow_proof ----------------------------
(***************************************************************************)
(* What CropWindow keeps for every size of the photo, all distances and    *)
(* any number of gestures: the frame stays upright, a gesture moves what   *)
(* it is meant to move, and the corners of a card that was found go round  *)
(* it clockwise; and what CropBox makes of the frame: the box holds it.    *)
(*                                                                         *)
(* The two axes do not touch each other: on each of them a frame is two    *)
(* near corners, two far ones and the end of the photo.  The corners of a  *)
(* card need both, and products of them: they are stated as vectors.       *)
(***************************************************************************)
EXTENDS CropBox, SequenceTheorems, WellFoundedInduction, TLAPS

FourCorners == {"tl", "tr", "br", "bl"}
Point == [x : Int, y : Int]
Frame == [FourCorners -> Point]

-----------------------------------------------------------------------------
(* One axis.                                                               *)

\* The near corners a1 and a2, the far ones b1 and b2, the end, and what got lost.  A
\* near corner is off the photo only when its edge was pushed there by the far edge,
\* both ends at once.
Ordered(a1, a2, b1, b2, end, lost) ==
    /\ Cap <= end
    /\ a1 + Cap <= b1 + lost /\ a1 + Cap <= b2 + lost
    /\ a2 + Cap <= b1 + lost /\ a2 + Cap <= b2 + lost
    /\ -lost <= a1 /\ -lost <= a2 /\ b1 <= end + lost /\ b2 <= end + lost
    /\ a1 + Cap <= end + lost /\ a2 + Cap <= end + lost
    /\ Cap <= b1 + lost /\ Cap <= b2 + lost
    /\ a1 < 0 \/ a2 < 0 => a1 = a2
    /\ b1 > end \/ b2 > end => b1 = b2

\* capPoints on one axis.
CapNear(near, e, a, a1, a2, b1, b2, end) ==
    IF near \in e THEN Least(Most(0, a), Least(Least(end, b1), Least(end, b2)) - Cap) ELSE Most(0, a)
CapFar(far, e, b, a1, a2, b1, b2, end) ==
    IF far \in e THEN Most(Least(end, b), Most(Most(0, a1), Most(0, a2)) + Cap) ELSE Least(end, b)

\* Less and greater.
LEMMA LeastMost ==
    ASSUME NEW a \in Int, NEW b \in Int
    PROVE  /\ Least(a, b) \in Int /\ Most(a, b) \in Int
           /\ Least(a, b) <= a /\ Least(a, b) <= b /\ (Least(a, b) = a \/ Least(a, b) = b)
           /\ Most(a, b) >= a /\ Most(a, b) >= b /\ (Most(a, b) = a \/ Most(a, b) = b)
  BY DEF Least, Most

\* The cast to int goes to the next whole pixel towards zero.
LEMMA TruncFacts ==
    ASSUME NEW n \in Int
    PROVE  /\ Trunc(n) \in Int
           /\ n >= 0 => Trunc(n) >= 0 /\ n - 1 <= Trunc(n) /\ Trunc(n) <= n
           /\ n <= 0 => Trunc(n) <= 0 /\ n <= Trunc(n) /\ Trunc(n) <= n + 1
  <1>1. PICK k : k = Abs(n)
    OBVIOUS
  <1>2. k \in Nat /\ (n >= 0 => k = n) /\ (n <= 0 => k = -n)
    BY <1>1 DEF Abs
  <1>3. PICK h : h = k \div 2
    OBVIOUS
  <1>4. h \in Nat /\ 2 * h <= k /\ k <= 2 * h + 1
    BY <1>2, <1>3
  <1>5. Half(Abs(1)) = 2
    BY DEF Half, Abs
  <1>6. Trunc(n) = IF n >= 0 THEN 2 * h ELSE -(2 * h)
    <2>1. TruncTo(n, 1) = IF (n >= 0) = (1 > 0) THEN 2 * h ELSE -(2 * h)
      BY <1>1, <1>3, <1>5 DEF TruncTo, Half
    <2>2. CASE n >= 0
      BY <2>1, <2>2 DEF Trunc
    <2>3. CASE ~(n >= 0)
      BY <2>1, <2>3 DEF Trunc
    <2> QED
      BY <2>2, <2>3
  <1> QED
    BY <1>2, <1>4, <1>6

\* Dragging the near edge leaves the axis in order, and nothing more is lost.
LEMMA NearAxis ==
    ASSUME NEW a1 \in Int, NEW a2 \in Int, NEW b1 \in Int, NEW b2 \in Int, NEW end \in Int,
           NEW lost \in Nat, Ordered(a1, a2, b1, b2, end, lost), NEW e, NEW near, NEW far,
           NEW c1 \in Int, NEW c2 \in Int, near \in e, far \notin e
    PROVE  Ordered(CapNear(near, e, c1, c1, c2, b1, b2, end),
                   CapNear(near, e, c2, c1, c2, b1, b2, end),
                   CapFar(far, e, b1, c1, c2, b1, b2, end),
                   CapFar(far, e, b2, c1, c2, b1, b2, end), end, lost)
  BY DEF Ordered, CapNear, CapFar, Least, Most, Cap, Half

\* Dragging the far edge.
LEMMA FarAxis ==
    ASSUME NEW a1 \in Int, NEW a2 \in Int, NEW b1 \in Int, NEW b2 \in Int, NEW end \in Int,
           NEW lost \in Nat, Ordered(a1, a2, b1, b2, end, lost), NEW e, NEW near, NEW far,
           NEW c1 \in Int, NEW c2 \in Int, far \in e, near \notin e
    PROVE  Ordered(CapNear(near, e, a1, a1, a2, c1, c2, end),
                   CapNear(near, e, a2, a1, a2, c1, c2, end),
                   CapFar(far, e, c1, a1, a2, c1, c2, end),
                   CapFar(far, e, c2, a1, a2, c1, c2, end), end, lost)
  BY DEF Ordered, CapNear, CapFar, Least, Most, Cap, Half

\* Capping an axis on which nothing was dragged.
LEMMA StillAxis ==
    ASSUME NEW a1 \in Int, NEW a2 \in Int, NEW b1 \in Int, NEW b2 \in Int, NEW end \in Int,
           NEW lost \in Nat, Ordered(a1, a2, b1, b2, end, lost), NEW e, NEW near, NEW far
    PROVE  Ordered(CapNear(near, e, a1, a1, a2, b1, b2, end),
                   CapNear(near, e, a2, a1, a2, b1, b2, end),
                   CapFar(far, e, b1, a1, a2, b1, b2, end),
                   CapFar(far, e, b2, a1, a2, b1, b2, end), end, lost)
  BY DEF Ordered, CapNear, CapFar, Least, Most, Cap, Half

\* Moving the whole frame: half a pixel more may be lost.
LEMMA MoveAxis ==
    ASSUME NEW a1 \in Int, NEW a2 \in Int, NEW b1 \in Int, NEW b2 \in Int, NEW end \in Int,
           NEW lost \in Nat, Ordered(a1, a2, b1, b2, end, lost), NEW d \in Int,
           NEW by, by = CapMove(Trunc(Least(a1, a2)), Trunc(Most(b1, b2)), d, end)
    PROVE  /\ by \in Int
           /\ Ordered(Most(0, a1 + by), Most(0, a2 + by), Least(end, b1 + by), Least(end, b2 + by),
                      end, lost + 1)
  <1> USE DEF Cap, Half
  <1>1. PICK m, n : m = Least(a1, a2) /\ n = Most(b1, b2)
    OBVIOUS
  <1>2. m \in Int /\ n \in Int
    BY <1>1, LeastMost
  <1>3. PICK near, far : near = Trunc(m) /\ far = Trunc(n)
    OBVIOUS
  <1>4. near \in Int /\ far \in Int
    BY <1>2, <1>3, TruncFacts
  <1>5. /\ m >= 0 => near >= 0 /\ m - 1 <= near /\ near <= m
        /\ m <= 0 => near <= 0 /\ m <= near /\ near <= m + 1
        /\ n >= 0 => far >= 0 /\ n - 1 <= far /\ far <= n
        /\ n <= 0 => far <= 0 /\ n <= far /\ far <= n + 1
    BY <1>2, <1>3, TruncFacts
  <1>6. by = IF far + d >= end THEN end - far ELSE IF near + d <= 0 THEN -near ELSE d
    BY <1>1, <1>3 DEF CapMove
  <1>7. CASE far + d >= end
    <2>1. by = end - far
      BY <1>6, <1>7
    <2> QED
      BY <1>1, <1>4, <1>5, <2>1 DEF Ordered, Least, Most
  <1>8. CASE ~(far + d >= end) /\ near + d <= 0
    <2>1. by = -near
      BY <1>6, <1>8
    <2> QED
      BY <1>1, <1>4, <1>5, <2>1 DEF Ordered, Least, Most
  <1>9. CASE ~(far + d >= end) /\ ~(near + d <= 0)
    <2>1. by = d
      BY <1>6, <1>9
    <2> QED
      BY <1>1, <1>4, <1>5, <1>9, <2>1 DEF Ordered, Least, Most
  <1> QED
    BY <1>7, <1>8, <1>9

\* From the photo, all corners go the same way, but for the half pixel that the border
\* takes from the far ones.
LEMMA MoveTogether ==
    ASSUME NEW a1 \in Int, NEW a2 \in Int, NEW b1 \in Int, NEW b2 \in Int, NEW end \in Nat,
           0 <= a1, 0 <= a2, b1 <= end, b2 <= end, NEW d \in Int,
           NEW by, by = CapMove(Trunc(Least(a1, a2)), Trunc(Most(b1, b2)), d, end)
    PROVE  /\ by \in Int
           /\ Most(0, a1 + by) = a1 + by /\ Most(0, a2 + by) = a2 + by
           /\ Least(end, b1 + by) \in {b1 + by, b1 + by - 1}
           /\ Least(end, b2 + by) \in {b2 + by, b2 + by - 1}
  <1>1. PICK m, n : m = Least(a1, a2) /\ n = Most(b1, b2)
    OBVIOUS
  <1>2. m \in Int /\ n \in Int
    BY <1>1, LeastMost
  <1>3. PICK near, far : near = Trunc(m) /\ far = Trunc(n)
    OBVIOUS
  <1>4. near \in Int /\ far \in Int
    BY <1>2, <1>3, TruncFacts
  <1>5. /\ m >= 0 => near >= 0 /\ m - 1 <= near /\ near <= m
        /\ n >= 0 => far >= 0 /\ n - 1 <= far /\ far <= n
        /\ n <= 0 => far <= 0 /\ n <= far /\ far <= n + 1
    BY <1>2, <1>3, TruncFacts
  <1>6. by = IF far + d >= end THEN end - far ELSE IF near + d <= 0 THEN -near ELSE d
    BY <1>1, <1>3 DEF CapMove
  <1>7. CASE far + d >= end
    <2>1. by = end - far
      BY <1>6, <1>7
    <2> QED
      BY <1>1, <1>4, <1>5, <2>1 DEF Least, Most
  <1>8. CASE ~(far + d >= end) /\ near + d <= 0
    <2>1. by = -near
      BY <1>6, <1>8
    <2> QED
      BY <1>1, <1>4, <1>5, <2>1 DEF Least, Most
  <1>9. CASE ~(far + d >= end) /\ ~(near + d <= 0)
    <2>1. by = d
      BY <1>6, <1>9
    <2> QED
      BY <1>1, <1>4, <1>5, <1>9, <2>1 DEF Least, Most
  <1> QED
    BY <1>7, <1>8, <1>9

-----------------------------------------------------------------------------
(* Frames.                                                                 *)

\* Both axes in order.
Settled(f, lost) ==
    /\ Ordered(f.tl.x, f.bl.x, f.tr.x, f.br.x, Right, lost)
    /\ Ordered(f.tl.y, f.tr.y, f.bl.y, f.br.y, Bottom, lost)

LEMMA Sizes == Right \in Nat /\ Bottom \in Nat /\ Right \in Int /\ Bottom \in Int
  BY PhotoAssumption DEF Right, Bottom, Half

\* A frame is known by its eight coordinates.
LEMMA FrameFacts ==
    ASSUME NEW f \in Frame
    PROVE  /\ DOMAIN f = FourCorners
           /\ \A c \in FourCorners : f[c] \in Point /\ f[c].x \in Int /\ f[c].y \in Int
           /\ f.tl.x \in Int /\ f.tl.y \in Int /\ f.tr.x \in Int /\ f.tr.y \in Int
           /\ f.br.x \in Int /\ f.br.y \in Int /\ f.bl.x \in Int /\ f.bl.y \in Int
  BY DEF Frame, FourCorners, Point

LEMMA MakeFrame ==
    ASSUME NEW a \in Point, NEW b \in Point, NEW c \in Point, NEW d \in Point
    PROVE  [tl |-> a, tr |-> b, br |-> c, bl |-> d] \in Frame
  BY DEF Frame, FourCorners

\* An upright frame with nothing lost is settled, and a settled one is upright.
LEMMA SpreadSettles ==
    ASSUME NEW f \in Frame, Spread(f, 0)
    PROVE  Settled(f, 0)
  <1>1. DOMAIN f = FourCorners /\ {"tl", "tr", "br", "bl"} = FourCorners
    BY FrameFacts DEF FourCorners
  <1>2. \A c \in FourCorners : f[c].x \in 0..Right /\ f[c].y \in 0..Bottom
    BY <1>1, Sizes DEF Spread, OnPhoto
  <1>3. /\ f.tl.x \in 0..Right /\ f.tr.x \in 0..Right /\ f.br.x \in 0..Right /\ f.bl.x \in 0..Right
        /\ f.tl.y \in 0..Bottom /\ f.tr.y \in 0..Bottom /\ f.br.y \in 0..Bottom /\ f.bl.y \in 0..Bottom
    BY <1>1, <1>2
  <1> QED
    BY <1>3, Sizes DEF Spread, Settled, Ordered, Least, Most, Cap, Half

LEMMA SettledSpreads ==
    ASSUME NEW f \in Frame, NEW lost \in Nat, Settled(f, lost)
    PROVE  Spread(f, lost)
  <1>1. DOMAIN f = FourCorners
    BY FrameFacts
  <1>2. /\ f.tl.x \in -lost..Right + lost /\ f.tr.x \in -lost..Right + lost
        /\ f.br.x \in -lost..Right + lost /\ f.bl.x \in -lost..Right + lost
        /\ f.tl.y \in -lost..Bottom + lost /\ f.tr.y \in -lost..Bottom + lost
        /\ f.br.y \in -lost..Bottom + lost /\ f.bl.y \in -lost..Bottom + lost
    BY FrameFacts, Sizes DEF Settled, Ordered, Cap, Half
  <1>3. OnPhoto(f, lost)
    BY <1>1, <1>2 DEF OnPhoto, FourCorners
  <1>4. /\ Most(f.tl.x, f.bl.x) + Cap <= Least(f.tr.x, f.br.x) + lost
        /\ Most(f.tl.y, f.tr.y) + Cap <= Least(f.bl.y, f.br.y) + lost
    BY FrameFacts DEF Settled, Ordered, Least, Most, Cap, Half
  <1> QED
    BY <1>3, <1>4 DEF Spread

\* capPoints, coordinate by coordinate.
LEMMA CapPointsFacts ==
    ASSUME NEW f \in Frame, NEW e, NEW r, r = CapPoints(f, e)
    PROVE  /\ r \in Frame
           /\ r.tl.x = CapNear("left", e, f.tl.x, f.tl.x, f.bl.x, f.tr.x, f.br.x, Right)
           /\ r.bl.x = CapNear("left", e, f.bl.x, f.tl.x, f.bl.x, f.tr.x, f.br.x, Right)
           /\ r.tr.x = CapFar("right", e, f.tr.x, f.tl.x, f.bl.x, f.tr.x, f.br.x, Right)
           /\ r.br.x = CapFar("right", e, f.br.x, f.tl.x, f.bl.x, f.tr.x, f.br.x, Right)
           /\ r.tl.y = CapNear("top", e, f.tl.y, f.tl.y, f.tr.y, f.bl.y, f.br.y, Bottom)
           /\ r.tr.y = CapNear("top", e, f.tr.y, f.tl.y, f.tr.y, f.bl.y, f.br.y, Bottom)
           /\ r.bl.y = CapFar("bottom", e, f.bl.y, f.tl.y, f.tr.y, f.bl.y, f.br.y, Bottom)
           /\ r.br.y = CapFar("bottom", e, f.br.y, f.tl.y, f.tr.y, f.bl.y, f.br.y, Bottom)
  <1>1. PICK p : p = OntoPhoto(f)
    OBVIOUS
  <1>2. /\ p.tl.x = Most(0, f.tl.x) /\ p.tl.y = Most(0, f.tl.y)
        /\ p.tr.x = Least(Right, f.tr.x) /\ p.tr.y = Most(0, f.tr.y)
        /\ p.br.x = Least(Right, f.br.x) /\ p.br.y = Least(Bottom, f.br.y)
        /\ p.bl.x = Most(0, f.bl.x) /\ p.bl.y = Least(Bottom, f.bl.y)
    BY <1>1 DEF OntoPhoto, At
  <1>3. /\ r.tl.x = IF "left" \in e THEN Least(p.tl.x, Least(p.tr.x, p.br.x) - Cap) ELSE p.tl.x
        /\ r.bl.x = IF "left" \in e THEN Least(p.bl.x, Least(p.tr.x, p.br.x) - Cap) ELSE p.bl.x
        /\ r.tr.x = IF "right" \in e THEN Most(p.tr.x, Most(p.tl.x, p.bl.x) + Cap) ELSE p.tr.x
        /\ r.br.x = IF "right" \in e THEN Most(p.br.x, Most(p.tl.x, p.bl.x) + Cap) ELSE p.br.x
    BY <1>1 DEF CapPoints, At
  <1>4. /\ r.tl.y = IF "top" \in e THEN Least(p.tl.y, Least(p.bl.y, p.br.y) - Cap) ELSE p.tl.y
        /\ r.tr.y = IF "top" \in e THEN Least(p.tr.y, Least(p.bl.y, p.br.y) - Cap) ELSE p.tr.y
        /\ r.bl.y = IF "bottom" \in e THEN Most(p.bl.y, Most(p.tl.y, p.tr.y) + Cap) ELSE p.bl.y
        /\ r.br.y = IF "bottom" \in e THEN Most(p.br.y, Most(p.tl.y, p.tr.y) + Cap) ELSE p.br.y
    BY <1>1 DEF CapPoints, At
  <1>5. /\ r.tl.x = CapNear("left", e, f.tl.x, f.tl.x, f.bl.x, f.tr.x, f.br.x, Right)
        /\ r.bl.x = CapNear("left", e, f.bl.x, f.tl.x, f.bl.x, f.tr.x, f.br.x, Right)
        /\ r.tr.x = CapFar("right", e, f.tr.x, f.tl.x, f.bl.x, f.tr.x, f.br.x, Right)
        /\ r.br.x = CapFar("right", e, f.br.x, f.tl.x, f.bl.x, f.tr.x, f.br.x, Right)
    BY <1>2, <1>3 DEF CapNear, CapFar
  <1>6. /\ r.tl.y = CapNear("top", e, f.tl.y, f.tl.y, f.tr.y, f.bl.y, f.br.y, Bottom)
        /\ r.tr.y = CapNear("top", e, f.tr.y, f.tl.y, f.tr.y, f.bl.y, f.br.y, Bottom)
        /\ r.bl.y = CapFar("bottom", e, f.bl.y, f.tl.y, f.tr.y, f.bl.y, f.br.y, Bottom)
        /\ r.br.y = CapFar("bottom", e, f.br.y, f.tl.y, f.tr.y, f.bl.y, f.br.y, Bottom)
    BY <1>2, <1>4 DEF CapNear, CapFar
  <1>7. r \in Frame
    <2>1. /\ r.tl.x \in Int /\ r.bl.x \in Int /\ r.tr.x \in Int /\ r.br.x \in Int
      BY <1>5, FrameFacts, Sizes DEF CapNear, CapFar, Least, Most, Cap, Half
    <2>2. /\ r.tl.y \in Int /\ r.bl.y \in Int /\ r.tr.y \in Int /\ r.br.y \in Int
      BY <1>6, FrameFacts, Sizes DEF CapNear, CapFar, Least, Most, Cap, Half
    <2>3. r = [tl |-> At(r.tl.x, r.tl.y), tr |-> At(r.tr.x, r.tr.y),
               br |-> At(r.br.x, r.br.y), bl |-> At(r.bl.x, r.bl.y)]
      BY DEF CapPoints, At
    <2>4. /\ At(r.tl.x, r.tl.y) \in Point /\ At(r.tr.x, r.tr.y) \in Point
          /\ At(r.br.x, r.br.y) \in Point /\ At(r.bl.x, r.bl.y) \in Point
      BY <2>1, <2>2 DEF At, Point
    <2> QED
      BY <2>3, <2>4, MakeFrame
  <1> QED
    BY <1>5, <1>6, <1>7

LEMMA ShiftedFacts ==
    ASSUME NEW f \in Frame, NEW cs, NEW d \in Int \X Int, NEW g, g = Shifted(f, cs, d)
    PROVE  /\ g \in Frame
           /\ \A c \in FourCorners :
                 /\ c \in cs => g[c].x = f[c].x + d[1] /\ g[c].y = f[c].y + d[2]
                 /\ c \notin cs => g[c] = f[c]
  BY DEF Frame, FourCorners, Point, Shifted, At

\* The corners that an edge or a corner drags with it.
Dragged(f, e) == {c \in DOMAIN f : e = Corner[c] \/ (\E s \in Corner[c] : e = {s})}

LEMMA DraggedFacts ==
    ASSUME NEW f \in Frame, NEW e
    PROVE  /\ "tl" \in Dragged(f, e) <=> e = {"left", "top"} \/ e = {"left"} \/ e = {"top"}
           /\ "tr" \in Dragged(f, e) <=> e = {"right", "top"} \/ e = {"right"} \/ e = {"top"}
           /\ "br" \in Dragged(f, e) <=> e = {"right", "bottom"} \/ e = {"right"} \/ e = {"bottom"}
           /\ "bl" \in Dragged(f, e) <=> e = {"left", "bottom"} \/ e = {"left"} \/ e = {"bottom"}
  BY FrameFacts DEF Dragged, Corner, FourCorners

\* Dragging a corner or an edge, not along itself.
LEMMA GrowSettled ==
    ASSUME NEW f \in Frame, NEW e \in SUBSET Edges, NEW d \in Int \X Int, NEW lost \in Nat
    PROVE  /\ GrowBy(f, e, d) \in Frame
           /\ Settled(f, lost) /\ ~Slides(e, d) => Settled(GrowBy(f, e, d), lost)
  <1>1. PICK g, r : g = Shifted(f, Dragged(f, e), d) /\ r = CapPoints(g, e)
    OBVIOUS
  <1>2. r = GrowBy(f, e, d)
    BY <1>1 DEF GrowBy, Dragged
  <1>3. /\ g \in Frame
        /\ \A c \in FourCorners :
              /\ c \in Dragged(f, e) => g[c].x = f[c].x + d[1] /\ g[c].y = f[c].y + d[2]
              /\ c \notin Dragged(f, e) => g[c] = f[c]
    BY <1>1, ShiftedFacts
  <1>4. r \in Frame
    BY <1>1, <1>3, CapPointsFacts
  <1>5. ASSUME Settled(f, lost), ~Slides(e, d) PROVE Settled(r, lost)
    <2> USE DEF FourCorners
    <2>1. /\ d[1] \in Int /\ d[2] \in Int
          /\ e = {"left"} \/ e = {"right"} => d[2] = 0
          /\ e = {"top"} \/ e = {"bottom"} => d[1] = 0
      BY <1>5 DEF Slides
    <2>2. /\ f.tl.x \in Int /\ f.tl.y \in Int /\ f.tr.x \in Int /\ f.tr.y \in Int
          /\ f.br.x \in Int /\ f.br.y \in Int /\ f.bl.x \in Int /\ f.bl.y \in Int
          /\ g.tl.x \in Int /\ g.tl.y \in Int /\ g.tr.x \in Int /\ g.tr.y \in Int
          /\ g.br.x \in Int /\ g.br.y \in Int /\ g.bl.x \in Int /\ g.bl.y \in Int
      BY <1>3, FrameFacts
    <2>3. \/ "left" \in e /\ "right" \notin e
          \/ g.tl.x = f.tl.x /\ g.bl.x = f.bl.x
      BY <1>3, <2>1, <2>2, DraggedFacts
    <2>4. \/ "right" \in e /\ "left" \notin e
          \/ g.tr.x = f.tr.x /\ g.br.x = f.br.x
      BY <1>3, <2>1, <2>2, DraggedFacts
    <2>5. \/ "top" \in e /\ "bottom" \notin e
          \/ g.tl.y = f.tl.y /\ g.tr.y = f.tr.y
      BY <1>3, <2>1, <2>2, DraggedFacts
    <2>6. \/ "bottom" \in e /\ "top" \notin e
          \/ g.bl.y = f.bl.y /\ g.br.y = f.br.y
      BY <1>3, <2>1, <2>2, DraggedFacts
    <2>7. Ordered(r.tl.x, r.bl.x, r.tr.x, r.br.x, Right, lost)
      <3>1. PICK a1, a2, b1, b2, c1, c2, d1, d2, n, k :
               /\ a1 = f.tl.x /\ a2 = f.bl.x /\ b1 = f.tr.x /\ b2 = f.br.x
               /\ c1 = g.tl.x /\ c2 = g.bl.x /\ d1 = g.tr.x /\ d2 = g.br.x
               /\ n = "left" /\ k = "right"
        OBVIOUS
      <3>2. /\ a1 \in Int /\ a2 \in Int /\ b1 \in Int /\ b2 \in Int
            /\ c1 \in Int /\ c2 \in Int /\ d1 \in Int /\ d2 \in Int
            /\ Ordered(a1, a2, b1, b2, Right, lost)
            /\ (n \in e /\ k \notin e) \/ (c1 = a1 /\ c2 = a2)
            /\ (k \in e /\ n \notin e) \/ (d1 = b1 /\ d2 = b2)
        BY <1>5, <2>2, <2>3, <2>4, <3>1 DEF Settled
      <3>3. Ordered(CapNear(n, e, c1, c1, c2, d1, d2, Right),
                    CapNear(n, e, c2, c1, c2, d1, d2, Right),
                    CapFar(k, e, d1, c1, c2, d1, d2, Right),
                    CapFar(k, e, d2, c1, c2, d1, d2, Right), Right, lost)
        <4>1. CASE n \in e /\ k \notin e
          <5>1. d1 = b1 /\ d2 = b2
            BY <3>2, <4>1
          <5> QED
            BY <3>2, <4>1, <5>1, NearAxis, Sizes
        <4>2. CASE k \in e /\ n \notin e
          <5>1. c1 = a1 /\ c2 = a2
            BY <3>2, <4>2
          <5> QED
            BY <3>2, <4>2, <5>1, FarAxis, Sizes
        <4>3. CASE ~(n \in e /\ k \notin e) /\ ~(k \in e /\ n \notin e)
          <5>1. c1 = a1 /\ c2 = a2 /\ d1 = b1 /\ d2 = b2
            BY <3>2, <4>3
          <5> QED
            BY <3>2, <5>1, StillAxis, Sizes
        <4> QED
          BY <4>1, <4>2, <4>3
      <3> QED
        BY <1>1, <1>3, <3>1, <3>3, CapPointsFacts
    <2>8. Ordered(r.tl.y, r.tr.y, r.bl.y, r.br.y, Bottom, lost)
      <3>1. PICK a1, a2, b1, b2, c1, c2, d1, d2, n, k :
               /\ a1 = f.tl.y /\ a2 = f.tr.y /\ b1 = f.bl.y /\ b2 = f.br.y
               /\ c1 = g.tl.y /\ c2 = g.tr.y /\ d1 = g.bl.y /\ d2 = g.br.y
               /\ n = "top" /\ k = "bottom"
        OBVIOUS
      <3>2. /\ a1 \in Int /\ a2 \in Int /\ b1 \in Int /\ b2 \in Int
            /\ c1 \in Int /\ c2 \in Int /\ d1 \in Int /\ d2 \in Int
            /\ Ordered(a1, a2, b1, b2, Bottom, lost)
            /\ (n \in e /\ k \notin e) \/ (c1 = a1 /\ c2 = a2)
            /\ (k \in e /\ n \notin e) \/ (d1 = b1 /\ d2 = b2)
        BY <1>5, <2>2, <2>5, <2>6, <3>1 DEF Settled
      <3>3. Ordered(CapNear(n, e, c1, c1, c2, d1, d2, Bottom),
                    CapNear(n, e, c2, c1, c2, d1, d2, Bottom),
                    CapFar(k, e, d1, c1, c2, d1, d2, Bottom),
                    CapFar(k, e, d2, c1, c2, d1, d2, Bottom), Bottom, lost)
        <4>1. CASE n \in e /\ k \notin e
          <5>1. d1 = b1 /\ d2 = b2
            BY <3>2, <4>1
          <5> QED
            BY <3>2, <4>1, <5>1, NearAxis, Sizes
        <4>2. CASE k \in e /\ n \notin e
          <5>1. c1 = a1 /\ c2 = a2
            BY <3>2, <4>2
          <5> QED
            BY <3>2, <4>2, <5>1, FarAxis, Sizes
        <4>3. CASE ~(n \in e /\ k \notin e) /\ ~(k \in e /\ n \notin e)
          <5>1. c1 = a1 /\ c2 = a2 /\ d1 = b1 /\ d2 = b2
            BY <3>2, <4>3
          <5> QED
            BY <3>2, <5>1, StillAxis, Sizes
        <4> QED
          BY <4>1, <4>2, <4>3
      <3> QED
        BY <1>1, <1>3, <3>1, <3>3, CapPointsFacts
    <2> QED
      BY <2>7, <2>8 DEF Settled
  <1> QED
    BY <1>2, <1>4, <1>5

\* The way that moveBy goes.
WayX(f, d) == CapMove(Trunc(Least(f.tl.x, f.bl.x)), Trunc(Most(f.tr.x, f.br.x)), d[1], Right)
WayY(f, d) == CapMove(Trunc(Least(f.tl.y, f.tr.y)), Trunc(Most(f.bl.y, f.br.y)), d[2], Bottom)

LEMMA MoveFacts ==
    ASSUME NEW f \in Frame, NEW d \in Int \X Int, WayX(f, d) \in Int, WayY(f, d) \in Int,
           NEW r, r = MoveBy(f, d), NEW x, x = WayX(f, d), NEW y, y = WayY(f, d)
    PROVE  /\ r \in Frame
           /\ r.tl.x = Most(0, f.tl.x + x) /\ r.bl.x = Most(0, f.bl.x + x)
           /\ r.tr.x = Least(Right, f.tr.x + x) /\ r.br.x = Least(Right, f.br.x + x)
           /\ r.tl.y = Most(0, f.tl.y + y) /\ r.tr.y = Most(0, f.tr.y + y)
           /\ r.bl.y = Least(Bottom, f.bl.y + y) /\ r.br.y = Least(Bottom, f.br.y + y)
  <1>1. /\ BoundingRect(f).left = Trunc(Least(f.tl.x, f.bl.x))
        /\ BoundingRect(f).right = Trunc(Most(f.tr.x, f.br.x))
        /\ BoundingRect(f).top = Trunc(Least(f.tl.y, f.tr.y))
        /\ BoundingRect(f).bottom = Trunc(Most(f.bl.y, f.br.y))
    <2>1. Most(f.br.y, f.bl.y) = Most(f.bl.y, f.br.y)
      BY FrameFacts DEF Most
    <2> QED
      BY <2>1 DEF BoundingRect
  <1>2. PICK by, g : by = <<x, y>> /\ g = Shifted(f, DOMAIN f, by)
    OBVIOUS
  <1>3. r = CapPoints(g, {})
    BY <1>1, <1>2 DEF MoveBy, WayX, WayY
  <1>4. by \in Int \X Int /\ by[1] = x /\ by[2] = y
    BY <1>2
  <1>5. /\ g \in Frame
        /\ \A c \in FourCorners : g[c].x = f[c].x + x /\ g[c].y = f[c].y + y
    BY <1>2, <1>4, ShiftedFacts, FrameFacts
  <1>6. /\ r \in Frame
        /\ r.tl.x = Most(0, g.tl.x) /\ r.bl.x = Most(0, g.bl.x)
        /\ r.tr.x = Least(Right, g.tr.x) /\ r.br.x = Least(Right, g.br.x)
        /\ r.tl.y = Most(0, g.tl.y) /\ r.tr.y = Most(0, g.tr.y)
        /\ r.bl.y = Least(Bottom, g.bl.y) /\ r.br.y = Least(Bottom, g.br.y)
    BY <1>3, <1>5, CapPointsFacts DEF CapNear, CapFar
  <1> QED
    BY <1>5, <1>6 DEF FourCorners

LEMMA WayFacts ==
    ASSUME NEW f \in Frame, NEW d \in Int \X Int
    PROVE  WayX(f, d) \in Int /\ WayY(f, d) \in Int
  <1>1. /\ Trunc(Least(f.tl.x, f.bl.x)) \in Int /\ Trunc(Most(f.tr.x, f.br.x)) \in Int
        /\ Trunc(Least(f.tl.y, f.tr.y)) \in Int /\ Trunc(Most(f.bl.y, f.br.y)) \in Int
    BY FrameFacts, LeastMost, TruncFacts
  <1> QED
    BY <1>1, Sizes DEF WayX, WayY, CapMove

\* Moving the frame costs half a pixel at most.
LEMMA MoveSettled ==
    ASSUME NEW f \in Frame, NEW d \in Int \X Int, NEW lost \in Nat
    PROVE  /\ MoveBy(f, d) \in Frame
           /\ Settled(f, lost) => Settled(MoveBy(f, d), lost + 1)
  <1>1. PICK r, x, y : r = MoveBy(f, d) /\ x = WayX(f, d) /\ y = WayY(f, d)
    OBVIOUS
  <1>2. /\ r \in Frame
        /\ r.tl.x = Most(0, f.tl.x + x) /\ r.bl.x = Most(0, f.bl.x + x)
        /\ r.tr.x = Least(Right, f.tr.x + x) /\ r.br.x = Least(Right, f.br.x + x)
        /\ r.tl.y = Most(0, f.tl.y + y) /\ r.tr.y = Most(0, f.tr.y + y)
        /\ r.bl.y = Least(Bottom, f.bl.y + y) /\ r.br.y = Least(Bottom, f.br.y + y)
    BY <1>1, WayFacts, MoveFacts
  <1>3. ASSUME Settled(f, lost) PROVE Settled(r, lost + 1)
    <2>1. /\ Ordered(f.tl.x, f.bl.x, f.tr.x, f.br.x, Right, lost)
          /\ Ordered(f.tl.y, f.tr.y, f.bl.y, f.br.y, Bottom, lost)
      BY <1>3 DEF Settled
    <2>2. d[1] \in Int /\ d[2] \in Int
      OBVIOUS
    <2>3. Ordered(Most(0, f.tl.x + x), Most(0, f.bl.x + x), Least(Right, f.tr.x + x),
                  Least(Right, f.br.x + x), Right, lost + 1)
      <3>1. PICK a1, a2, b1, b2, e :
               /\ a1 = f.tl.x /\ a2 = f.bl.x /\ b1 = f.tr.x /\ b2 = f.br.x /\ e = d[1]
        OBVIOUS
      <3>2. /\ a1 \in Int /\ a2 \in Int /\ b1 \in Int /\ b2 \in Int /\ e \in Int
            /\ Ordered(a1, a2, b1, b2, Right, lost)
            /\ x = CapMove(Trunc(Least(a1, a2)), Trunc(Most(b1, b2)), e, Right)
        BY <1>1, <2>1, <2>2, <3>1, FrameFacts DEF WayX
      <3>3. Ordered(Most(0, a1 + x), Most(0, a2 + x), Least(Right, b1 + x),
                    Least(Right, b2 + x), Right, lost + 1)
        BY <3>2, MoveAxis, Sizes
      <3> QED
        BY <3>1, <3>3
    <2>4. Ordered(Most(0, f.tl.y + y), Most(0, f.tr.y + y), Least(Bottom, f.bl.y + y),
                  Least(Bottom, f.br.y + y), Bottom, lost + 1)
      <3>1. PICK a1, a2, b1, b2, e :
               /\ a1 = f.tl.y /\ a2 = f.tr.y /\ b1 = f.bl.y /\ b2 = f.br.y /\ e = d[2]
        OBVIOUS
      <3>2. /\ a1 \in Int /\ a2 \in Int /\ b1 \in Int /\ b2 \in Int /\ e \in Int
            /\ Ordered(a1, a2, b1, b2, Bottom, lost)
            /\ y = CapMove(Trunc(Least(a1, a2)), Trunc(Most(b1, b2)), e, Bottom)
        BY <1>1, <2>1, <2>2, <3>1, FrameFacts DEF WayY
      <3>3. Ordered(Most(0, a1 + y), Most(0, a2 + y), Least(Bottom, b1 + y),
                    Least(Bottom, b2 + y), Bottom, lost + 1)
        BY <3>2, MoveAxis, Sizes
      <3> QED
        BY <3>1, <3>3
    <2> QED
      BY <1>2, <2>3, <2>4 DEF Settled
  <1> QED
    BY <1>1, <1>2, <1>3

-----------------------------------------------------------------------------
(* A gesture moves what it is meant to move.                               *)

LEMMA SamePoint ==
    ASSUME NEW p \in Point, NEW q \in Point, p.x = q.x, p.y = q.y
    PROVE  p = q
  BY DEF Point

\* On an upright frame a corner is dragged alone.
LEMMA CornerAlone ==
    ASSUME NEW f \in Frame, Spread(f, 0), NEW d \in Int \X Int, NEW c \in FourCorners,
           NEW o \in FourCorners \ {c}
    PROVE  GrowBy(f, Corner[c], d)[o] = f[o]
  <1>1. PICK e, g, r : e = Corner[c] /\ g = Shifted(f, Dragged(f, e), d) /\ r = CapPoints(g, e)
    OBVIOUS
  <1>2. r = GrowBy(f, Corner[c], d)
    BY <1>1 DEF GrowBy, Dragged
  <1>3. /\ g \in Frame
        /\ \A k \in FourCorners : k \notin Dragged(f, e) => g[k] = f[k]
    BY <1>1, ShiftedFacts
  <1>4. r \in Frame
    BY <1>1, <1>3, CapPointsFacts
  <1>5. /\ f.tl.x \in 0..Right /\ f.tr.x \in 0..Right /\ f.br.x \in 0..Right /\ f.bl.x \in 0..Right
        /\ f.tl.y \in 0..Bottom /\ f.tr.y \in 0..Bottom /\ f.br.y \in 0..Bottom /\ f.bl.y \in 0..Bottom
    BY FrameFacts, Sizes DEF Spread, OnPhoto, FourCorners
  <1>6. /\ f.tl.x + Cap <= f.tr.x /\ f.tl.x + Cap <= f.br.x
        /\ f.bl.x + Cap <= f.tr.x /\ f.bl.x + Cap <= f.br.x
        /\ f.tl.y + Cap <= f.bl.y /\ f.tl.y + Cap <= f.br.y
        /\ f.tr.y + Cap <= f.bl.y /\ f.tr.y + Cap <= f.br.y
    BY <1>5, Sizes DEF Spread, Least, Most, Cap, Half
  <1>7. r.tl.x = CapNear("left", e, g.tl.x, g.tl.x, g.bl.x, g.tr.x, g.br.x, Right)
    BY <1>1, <1>3, CapPointsFacts
  <1>8. r.bl.x = CapNear("left", e, g.bl.x, g.tl.x, g.bl.x, g.tr.x, g.br.x, Right)
    BY <1>1, <1>3, CapPointsFacts
  <1>9. r.tr.x = CapFar("right", e, g.tr.x, g.tl.x, g.bl.x, g.tr.x, g.br.x, Right)
    BY <1>1, <1>3, CapPointsFacts
  <1>10. r.br.x = CapFar("right", e, g.br.x, g.tl.x, g.bl.x, g.tr.x, g.br.x, Right)
    BY <1>1, <1>3, CapPointsFacts
  <1>11. r.tl.y = CapNear("top", e, g.tl.y, g.tl.y, g.tr.y, g.bl.y, g.br.y, Bottom)
    BY <1>1, <1>3, CapPointsFacts
  <1>12. r.tr.y = CapNear("top", e, g.tr.y, g.tl.y, g.tr.y, g.bl.y, g.br.y, Bottom)
    BY <1>1, <1>3, CapPointsFacts
  <1>13. r.bl.y = CapFar("bottom", e, g.bl.y, g.tl.y, g.tr.y, g.bl.y, g.br.y, Bottom)
    BY <1>1, <1>3, CapPointsFacts
  <1>14. r.br.y = CapFar("bottom", e, g.br.y, g.tl.y, g.tr.y, g.bl.y, g.br.y, Bottom)
    BY <1>1, <1>3, CapPointsFacts
  <1>15. r[o].x = f[o].x /\ r[o].y = f[o].y
    <2>1. CASE c = "tl"
      <3>1. /\ e = {"left", "top"}
            /\ "left" \in e /\ "top" \in e /\ "right" \notin e /\ "bottom" \notin e
        BY <1>1, <2>1 DEF Corner
      <3>2. /\ "tr" \notin Dragged(f, e) /\ "br" \notin Dragged(f, e)
            /\ "bl" \notin Dragged(f, e)
        BY <3>1, DraggedFacts
      <3>3. g.tr = f.tr /\ g.br = f.br /\ g.bl = f.bl
        BY <1>3, <3>2 DEF FourCorners
      <3>4. r.tr.x = f.tr.x
        BY <1>5, <1>9, <3>1, <3>3, Sizes DEF CapFar, Least, Most
      <3>5. r.tr.y = f.tr.y
        BY <1>5, <1>6, <1>12, <3>1, <3>3, Sizes DEF CapNear, Least, Most, Cap, Half
      <3>6. r.br.x = f.br.x
        BY <1>5, <1>10, <3>1, <3>3, Sizes DEF CapFar, Least, Most
      <3>7. r.br.y = f.br.y
        BY <1>5, <1>14, <3>1, <3>3, Sizes DEF CapFar, Least, Most
      <3>8. r.bl.x = f.bl.x
        BY <1>5, <1>6, <1>8, <3>1, <3>3, Sizes DEF CapNear, Least, Most, Cap, Half
      <3>9. r.bl.y = f.bl.y
        BY <1>5, <1>13, <3>1, <3>3, Sizes DEF CapFar, Least, Most
      <3> QED
        BY <2>1, <3>4, <3>5, <3>6, <3>7, <3>8, <3>9 DEF FourCorners
    <2>2. CASE c = "tr"
      <3>1. /\ e = {"right", "top"}
            /\ "right" \in e /\ "top" \in e /\ "left" \notin e /\ "bottom" \notin e
        BY <1>1, <2>2 DEF Corner
      <3>2. /\ "tl" \notin Dragged(f, e) /\ "br" \notin Dragged(f, e)
            /\ "bl" \notin Dragged(f, e)
        BY <3>1, DraggedFacts
      <3>3. g.tl = f.tl /\ g.br = f.br /\ g.bl = f.bl
        BY <1>3, <3>2 DEF FourCorners
      <3>4. r.tl.x = f.tl.x
        BY <1>5, <1>7, <3>1, <3>3, Sizes DEF CapNear, Least, Most
      <3>5. r.tl.y = f.tl.y
        BY <1>5, <1>6, <1>11, <3>1, <3>3, Sizes DEF CapNear, Least, Most, Cap, Half
      <3>6. r.br.x = f.br.x
        BY <1>5, <1>6, <1>10, <3>1, <3>3, Sizes DEF CapFar, Least, Most, Cap, Half
      <3>7. r.br.y = f.br.y
        BY <1>5, <1>14, <3>1, <3>3, Sizes DEF CapFar, Least, Most
      <3>8. r.bl.x = f.bl.x
        BY <1>5, <1>8, <3>1, <3>3, Sizes DEF CapNear, Least, Most
      <3>9. r.bl.y = f.bl.y
        BY <1>5, <1>13, <3>1, <3>3, Sizes DEF CapFar, Least, Most
      <3> QED
        BY <2>2, <3>4, <3>5, <3>6, <3>7, <3>8, <3>9 DEF FourCorners
    <2>3. CASE c = "br"
      <3>1. /\ e = {"right", "bottom"}
            /\ "right" \in e /\ "bottom" \in e /\ "left" \notin e /\ "top" \notin e
        BY <1>1, <2>3 DEF Corner
      <3>2. /\ "tl" \notin Dragged(f, e) /\ "tr" \notin Dragged(f, e)
            /\ "bl" \notin Dragged(f, e)
        BY <3>1, DraggedFacts, SMTT(30)
      <3>3. g.tl = f.tl /\ g.tr = f.tr /\ g.bl = f.bl
        BY <1>3, <3>2 DEF FourCorners
      <3>4. r.tl.x = f.tl.x
        BY <1>5, <1>7, <3>1, <3>3, Sizes DEF CapNear, Least, Most
      <3>5. r.tl.y = f.tl.y
        BY <1>5, <1>11, <3>1, <3>3, Sizes DEF CapNear, Least, Most
      <3>6. r.tr.x = f.tr.x
        BY <1>5, <1>6, <1>9, <3>1, <3>3, Sizes DEF CapFar, Least, Most, Cap, Half
      <3>7. r.tr.y = f.tr.y
        BY <1>5, <1>12, <3>1, <3>3, Sizes DEF CapNear, Least, Most
      <3>8. r.bl.x = f.bl.x
        BY <1>5, <1>8, <3>1, <3>3, Sizes DEF CapNear, Least, Most
      <3>9. r.bl.y = f.bl.y
        BY <1>5, <1>6, <1>13, <3>1, <3>3, Sizes DEF CapFar, Least, Most, Cap, Half
      <3> QED
        BY <2>3, <3>4, <3>5, <3>6, <3>7, <3>8, <3>9 DEF FourCorners
    <2>4. CASE c = "bl"
      <3>1. /\ e = {"left", "bottom"}
            /\ "left" \in e /\ "bottom" \in e /\ "right" \notin e /\ "top" \notin e
        BY <1>1, <2>4 DEF Corner
      <3>2. /\ "tl" \notin Dragged(f, e) /\ "tr" \notin Dragged(f, e)
            /\ "br" \notin Dragged(f, e)
        BY <3>1, DraggedFacts
      <3>3. g.tl = f.tl /\ g.tr = f.tr /\ g.br = f.br
        BY <1>3, <3>2 DEF FourCorners
      <3>4. r.tl.x = f.tl.x
        BY <1>5, <1>6, <1>7, <3>1, <3>3, Sizes DEF CapNear, Least, Most, Cap, Half
      <3>5. r.tl.y = f.tl.y
        BY <1>5, <1>11, <3>1, <3>3, Sizes DEF CapNear, Least, Most
      <3>6. r.tr.x = f.tr.x
        BY <1>5, <1>9, <3>1, <3>3, Sizes DEF CapFar, Least, Most
      <3>7. r.tr.y = f.tr.y
        BY <1>5, <1>12, <3>1, <3>3, Sizes DEF CapNear, Least, Most
      <3>8. r.br.x = f.br.x
        BY <1>5, <1>10, <3>1, <3>3, Sizes DEF CapFar, Least, Most
      <3>9. r.br.y = f.br.y
        BY <1>5, <1>6, <1>14, <3>1, <3>3, Sizes DEF CapFar, Least, Most, Cap, Half
      <3> QED
        BY <2>4, <3>4, <3>5, <3>6, <3>7, <3>8, <3>9 DEF FourCorners
    <2> QED
      BY <2>1, <2>2, <2>3, <2>4 DEF FourCorners
  <1>16. r[o] \in Point /\ f[o] \in Point
    BY <1>4, FrameFacts
  <1> QED
    BY <1>2, <1>15, <1>16, SamePoint

\* A frame on the photo keeps its shape when it is moved, but for half a pixel.
LEMMA ShapeKept ==
    ASSUME NEW f \in Frame, OnPhoto(f, 0), NEW d \in Int \X Int, NEW r, r = MoveBy(f, d),
           NEW c1 \in FourCorners, NEW c2 \in FourCorners
    PROVE  /\ Abs((r[c1].x - r[c2].x) - (f[c1].x - f[c2].x)) < Half(1)
           /\ Abs((r[c1].y - r[c2].y) - (f[c1].y - f[c2].y)) < Half(1)
  <1>1. PICK x, y : x = WayX(f, d) /\ y = WayY(f, d)
    OBVIOUS
  <1>2. x \in Int /\ y \in Int /\ d[1] \in Int /\ d[2] \in Int
    BY <1>1, WayFacts
  <1>3. /\ f.tl.x \in 0..Right /\ f.tr.x \in 0..Right /\ f.br.x \in 0..Right /\ f.bl.x \in 0..Right
        /\ f.tl.y \in 0..Bottom /\ f.tr.y \in 0..Bottom /\ f.br.y \in 0..Bottom /\ f.bl.y \in 0..Bottom
    BY FrameFacts, Sizes DEF OnPhoto, FourCorners
  <1>4. /\ r \in Frame
        /\ r.tl.x = Most(0, f.tl.x + x) /\ r.bl.x = Most(0, f.bl.x + x)
        /\ r.tr.x = Least(Right, f.tr.x + x) /\ r.br.x = Least(Right, f.br.x + x)
        /\ r.tl.y = Most(0, f.tl.y + y) /\ r.tr.y = Most(0, f.tr.y + y)
        /\ r.bl.y = Least(Bottom, f.bl.y + y) /\ r.br.y = Least(Bottom, f.br.y + y)
    BY <1>1, WayFacts, MoveFacts
  <1>5. /\ r.tl.x = f.tl.x + x /\ r.bl.x = f.bl.x + x
        /\ r.tr.x \in {f.tr.x + x, f.tr.x + x - 1} /\ r.br.x \in {f.br.x + x, f.br.x + x - 1}
    <2>1. PICK a1, a2, b1, b2, e :
             /\ a1 = f.tl.x /\ a2 = f.bl.x /\ b1 = f.tr.x /\ b2 = f.br.x /\ e = d[1]
      OBVIOUS
    <2>2. /\ a1 \in Int /\ a2 \in Int /\ b1 \in Int /\ b2 \in Int /\ e \in Int
          /\ 0 <= a1 /\ 0 <= a2 /\ b1 <= Right /\ b2 <= Right
          /\ x = CapMove(Trunc(Least(a1, a2)), Trunc(Most(b1, b2)), e, Right)
      BY <1>1, <1>2, <1>3, <2>1, Sizes DEF WayX
    <2>3. /\ Most(0, a1 + x) = a1 + x /\ Most(0, a2 + x) = a2 + x
          /\ Least(Right, b1 + x) \in {b1 + x, b1 + x - 1}
          /\ Least(Right, b2 + x) \in {b2 + x, b2 + x - 1}
      <3>1. PICK end : end = Right
        OBVIOUS
      <3>2. end \in Nat /\ b1 <= end /\ b2 <= end
            /\ x = CapMove(Trunc(Least(a1, a2)), Trunc(Most(b1, b2)), e, end)
        BY <2>2, <3>1, Sizes
      <3>3. /\ Most(0, a1 + x) = a1 + x /\ Most(0, a2 + x) = a2 + x
            /\ Least(end, b1 + x) \in {b1 + x, b1 + x - 1}
            /\ Least(end, b2 + x) \in {b2 + x, b2 + x - 1}
        BY <2>2, <3>2, MoveTogether, Z3T(60)
      <3> QED
        BY <3>1, <3>3
    <2> QED
      BY <1>4, <2>1, <2>3
  <1>6. /\ r.tl.y = f.tl.y + y /\ r.tr.y = f.tr.y + y
        /\ r.bl.y \in {f.bl.y + y, f.bl.y + y - 1} /\ r.br.y \in {f.br.y + y, f.br.y + y - 1}
    <2>1. PICK a1, a2, b1, b2, e :
             /\ a1 = f.tl.y /\ a2 = f.tr.y /\ b1 = f.bl.y /\ b2 = f.br.y /\ e = d[2]
      OBVIOUS
    <2>2. /\ a1 \in Int /\ a2 \in Int /\ b1 \in Int /\ b2 \in Int /\ e \in Int
          /\ 0 <= a1 /\ 0 <= a2 /\ b1 <= Bottom /\ b2 <= Bottom
          /\ y = CapMove(Trunc(Least(a1, a2)), Trunc(Most(b1, b2)), e, Bottom)
      BY <1>1, <1>2, <1>3, <2>1, Sizes DEF WayY
    <2>3. /\ Most(0, a1 + y) = a1 + y /\ Most(0, a2 + y) = a2 + y
          /\ Least(Bottom, b1 + y) \in {b1 + y, b1 + y - 1}
          /\ Least(Bottom, b2 + y) \in {b2 + y, b2 + y - 1}
      <3>1. PICK end : end = Bottom
        OBVIOUS
      <3>2. end \in Nat /\ b1 <= end /\ b2 <= end
            /\ y = CapMove(Trunc(Least(a1, a2)), Trunc(Most(b1, b2)), e, end)
        BY <2>2, <3>1, Sizes
      <3>3. /\ Most(0, a1 + y) = a1 + y /\ Most(0, a2 + y) = a2 + y
            /\ Least(end, b1 + y) \in {b1 + y, b1 + y - 1}
            /\ Least(end, b2 + y) \in {b2 + y, b2 + y - 1}
        BY <2>2, <3>2, MoveTogether, Z3T(60)
      <3> QED
        BY <3>1, <3>3
    <2> QED
      BY <1>4, <2>1, <2>3
  <1>7. \A c \in FourCorners :
           /\ f[c].x \in Int /\ f[c].y \in Int
           /\ r[c].x \in {f[c].x + x, f[c].x + x - 1}
           /\ r[c].y \in {f[c].y + y, f[c].y + y - 1}
    BY <1>5, <1>6, FrameFacts DEF FourCorners
  <1>8. /\ f[c1].x \in Int /\ f[c2].x \in Int /\ f[c1].y \in Int /\ f[c2].y \in Int
        /\ r[c1].x \in {f[c1].x + x, f[c1].x + x - 1} /\ r[c2].x \in {f[c2].x + x, f[c2].x + x - 1}
        /\ r[c1].y \in {f[c1].y + y, f[c1].y + y - 1} /\ r[c2].y \in {f[c2].y + y, f[c2].y + y - 1}
    BY <1>7
  <1> QED
    BY <1>2, <1>8 DEF Abs, Half

-----------------------------------------------------------------------------
(* The box.                                                                *)

\* Integer division.
LEMMA DivFacts ==
    ASSUME NEW k \in Nat, NEW d \in Nat, d > 0, NEW h, h = k \div d
    PROVE  h \in Nat /\ h * d <= k /\ k < h * d + d
  OBVIOUS

LEMMA ProductOrder ==
    ASSUME NEW a \in Int, NEW b \in Int, NEW d \in Nat, d > 0
    PROVE  /\ a * d <= b * d => a <= b
           /\ a * d < b * d => a < b
           /\ a <= b => a * d <= b * d
  OBVIOUS

\* The cast of n / d.
LEMMA CastFacts ==
    ASSUME NEW n \in Int, NEW d \in Nat, d > 0, NEW k, k = Abs(n), NEW e, e = 2 * d,
           NEW h, h = k \div e
    PROVE  TruncTo(n, d) = IF n >= 0 THEN 2 * h ELSE -(2 * h)
  <1>1. Half(Abs(d)) = e
    BY DEF Half, Abs
  <1>2. TruncTo(n, d) = IF (n >= 0) = (d > 0) THEN 2 * h ELSE -(2 * h)
    BY <1>1 DEF TruncTo, Half
  <1> QED
    BY <1>2

\* A cast below a bound stays below it, but not below 0 ...
LEMMA TruncLow ==
    ASSUME NEW n \in Int, NEW m \in Int, NEW d \in Nat, d > 0, n <= m * d
    PROVE  TruncTo(n, d) <= Most(m, 0)
  <1>1. PICK k, e, h : k = Abs(n) /\ e = 2 * d /\ h = k \div e
    OBVIOUS
  <1>2. k \in Nat /\ (n >= 0 => k = n) /\ (n < 0 => k = -n) /\ e \in Nat /\ e > 0
    BY <1>1 DEF Abs
  <1>3. h \in Nat /\ h * e <= k /\ k < h * e + e
    BY <1>1, <1>2, DivFacts
  <1>4. TruncTo(n, d) = IF n >= 0 THEN 2 * h ELSE -(2 * h)
    BY <1>1, CastFacts
  <1>5. CASE n < 0
    BY <1>3, <1>4, <1>5 DEF Most
  <1>6. CASE n >= 0
    <2>1. h * e = (2 * h) * d
      BY <1>1, <1>3
    <2>2. (2 * h) * d <= m * d
      BY <1>2, <1>3, <1>6, <2>1
    <2>3. 2 * h <= m
      BY <1>3, <2>2, ProductOrder
    <2> QED
      BY <1>4, <1>6, <2>3, <1>3 DEF Most
  <1> QED
    BY <1>5, <1>6

\* ... and one above a bound loses less than a pixel.
LEMMA TruncHigh ==
    ASSUME NEW n \in Int, NEW m \in Int, NEW d \in Nat, d > 0, m * d <= n
    PROVE  m < TruncTo(n, d) + Half(1)
  <1>1. PICK k, e, h : k = Abs(n) /\ e = 2 * d /\ h = k \div e
    OBVIOUS
  <1>2. k \in Nat /\ (n >= 0 => k = n) /\ (n < 0 => k = -n) /\ e \in Nat /\ e > 0
    BY <1>1 DEF Abs
  <1>3. h \in Nat /\ h * e <= k /\ k < h * e + e
    BY <1>1, <1>2, DivFacts
  <1>4. TruncTo(n, d) = IF n >= 0 THEN 2 * h ELSE -(2 * h)
    BY <1>1, CastFacts
  <1>5. CASE n < 0
    <2>1. h * e = (2 * h) * d /\ (-(2 * h)) * d = -((2 * h) * d)
      BY <1>1, <1>3
    <2>2. m * d <= (-(2 * h)) * d
      BY <1>2, <1>3, <1>5, <2>1
    <2>3. m <= -(2 * h)
      BY <1>3, <2>2, ProductOrder
    <2> QED
      BY <1>3, <1>4, <1>5, <2>3 DEF Half
  <1>6. CASE n >= 0
    <2>1. h * e + e = (2 * h + 2) * d
      BY <1>1, <1>3
    <2>2. m * d < (2 * h + 2) * d
      BY <1>2, <1>3, <1>6, <2>1
    <2>3. m < 2 * h + 2
      BY <1>3, <2>2, ProductOrder
    <2> QED
      BY <1>3, <1>4, <1>6, <2>3 DEF Half
  <1> QED
    BY <1>5, <1>6

\* A pair of opposite sides, the scale s / d >= 1, pulls each of its ends outwards.
LEMMA Pulled ==
    ASSUME NEW p \in Int, NEW q \in Int, p < q, NEW d \in Nat, NEW s \in Nat, d <= s
    PROVE  q * d - (q - p) * s <= p * d /\ q * d <= p * d + (q - p) * s
  <1>1. PICK h : h = q - p
    OBVIOUS
  <1>2. h \in Nat /\ h > 0 /\ q = p + h
    BY <1>1
  <1>3. h * d <= h * s
    BY <1>2
  <1>4. q * d = p * d + h * d
    BY <1>2
  <1>5. p * d \in Int /\ h * d \in Int /\ h * s \in Int
    BY <1>2
  <1> QED
    BY <1>1, <1>3, <1>4, <1>5

\* The ends of a side are numbers.
LEMMA EndTypes ==
    ASSUME NEW up, NEW p \in Int, NEW q \in Int, NEW h \in Int, NEW r \in [s : Int, d : Int]
    PROVE  NearEnd(up, p, q, h, r) \in Int /\ FarEnd(up, p, q, h, r) \in Int
  <1>1. PICK s, d : s = r.s /\ d = r.d
    OBVIOUS
  <1>2. s \in Int /\ d \in Int
    BY <1>1
  <1>3. PICK pd, qd, hs, g : pd = p * d /\ qd = q * d /\ hs = h * s /\ g = Sign(d)
    OBVIOUS
  <1>4. pd \in Int /\ qd \in Int /\ hs \in Int /\ g \in {1, -1}
    BY <1>2, <1>3 DEF Sign
  <1>5. /\ NearEnd(up, p, q, h, r) = g * (IF up THEN qd - hs ELSE pd)
        /\ FarEnd(up, p, q, h, r) = g * (IF up THEN qd ELSE pd + hs)
    BY <1>1, <1>3 DEF NearEnd, FarEnd
  <1> QED
    BY <1>4, <1>5

\* What becomes of the two ends of a side that is not turned over.
LEMMA Ends ==
    ASSUME NEW p \in Int, NEW q \in Int, p < q, NEW d \in Nat, d > 0, NEW s \in Nat, d <= s,
           NEW up, NEW r, r = [s |-> s, d |-> d], NEW h, h = q - p,
           NEW a, a = NearEnd(up, p, q, h, r), NEW b, b = FarEnd(up, p, q, h, r)
    PROVE  /\ a \in Int /\ a <= p * d /\ a <= q * d
           /\ b \in Int /\ p * d <= b /\ q * d <= b
  <1>1. r.d = d /\ r.s = s /\ Sign(d) = 1
    BY DEF Sign
  <1>2. PICK pd, qd, hs : pd = p * d /\ qd = q * d /\ hs = h * s
    OBVIOUS
  <1>3. pd \in Int /\ qd \in Int /\ hs \in Int
    BY <1>2
  <1>4. pd <= qd
    BY <1>2, ProductOrder
  <1>5. qd - hs <= pd /\ qd <= pd + hs
    BY <1>2, Pulled
  <1>6. a = 1 * (IF up THEN qd - hs ELSE pd) /\ b = 1 * (IF up THEN qd ELSE pd + hs)
    BY <1>1, <1>2 DEF NearEnd, FarEnd
  <1>7. CASE up
    <2>1. a = 1 * (qd - hs) /\ b = 1 * qd
      BY <1>6, <1>7, Zenon
    <2> QED
      BY <1>2, <1>3, <1>4, <1>5, <2>1
  <1>8. CASE ~up
    <2>1. a = 1 * pd /\ b = 1 * (pd + hs)
      BY <1>6, <1>8, Zenon
    <2> QED
      BY <1>2, <1>3, <1>4, <1>5, <2>1
  <1> QED
    BY <1>7, <1>8

\* The scales are no shrinking ones.
LEMMA ScaleFacts ==
    ASSUME NEW a \in Int, NEW b \in Int, a > 0, b > 0
    PROVE  /\ Most(a, b) \in Nat /\ Most(a, b) > 0
           /\ Stretched(a, b) \in Nat /\ Most(a, b) <= Stretched(a, b)
           /\ Abs(a - b) \in Nat
  BY DEF Most, Stretched, Abs

\* The box that getPerspectiveCorrectedBoundingRect computes when nobody disturbs it.
BoxAround(f) ==
    BoundingBox(PulledOut(f, SidesOf(f).w, SidesOf(f).h), UnitOf(SidesOf(f).w, SidesOf(f).h))

\* The ends that bound two sides on one axis.
Nearest(up, p1, q1, p2, q2, h1, h2, r) == Least(NearEnd(up, p1, q1, h1, r), NearEnd(up, p2, q2, h2, r))
Farthest(up, p1, q1, p2, q2, h1, h2, r) == Most(FarEnd(up, p1, q1, h1, r), FarEnd(up, p2, q2, h2, r))
Within(n, k, m, d) == n \in Int /\ k \in Int /\ n <= m * d /\ m * d <= k

\* On one axis, two sides from near to far whose ends are pulled apart: the lesser of the
\* near ends and the greater of the far ones have all four corners between them.
LEMMA BetweenEnds ==
    ASSUME NEW p1 \in Int, NEW p2 \in Int, NEW q1 \in Int, NEW q2 \in Int, p1 < q1, p2 < q2,
           NEW d \in Nat, d > 0, NEW s \in Nat, d <= s, NEW up, NEW r, r = [s |-> s, d |-> d],
           NEW h1, h1 = q1 - p1, NEW h2, h2 = q2 - p2,
           NEW n, n = Nearest(up, p1, q1, p2, q2, h1, h2, r),
           NEW k, k = Farthest(up, p1, q1, p2, q2, h1, h2, r)
    PROVE  Within(n, k, p1, d) /\ Within(n, k, p2, d) /\ Within(n, k, q1, d) /\ Within(n, k, q2, d)
  <1>1. PICK a1, b1, a2, b2 : /\ a1 = NearEnd(up, p1, q1, h1, r) /\ b1 = FarEnd(up, p1, q1, h1, r)
                              /\ a2 = NearEnd(up, p2, q2, h2, r) /\ b2 = FarEnd(up, p2, q2, h2, r)
    OBVIOUS
  <1>2. a1 \in Int /\ a1 <= p1 * d /\ a1 <= q1 * d /\ b1 \in Int /\ p1 * d <= b1 /\ q1 * d <= b1
    BY <1>1, Ends
  <1>3. a2 \in Int /\ a2 <= p2 * d /\ a2 <= q2 * d /\ b2 \in Int /\ p2 * d <= b2 /\ q2 * d <= b2
    BY <1>1, Ends
  <1>4. /\ n \in Int /\ n <= a1 /\ n <= a2 /\ k \in Int /\ b1 <= k /\ b2 <= k
    BY <1>1, <1>2, <1>3, LeastMost DEF Nearest, Farthest
  <1>5. p1 * d \in Int /\ p2 * d \in Int /\ q1 * d \in Int /\ q2 * d \in Int
    OBVIOUS
  <1> QED
    BY <1>2, <1>3, <1>4, <1>5 DEF Within

\* The box of a frame with no side turned over holds all its corners.
LEMMA BoxOf ==
    ASSUME NEW f \in Frame, f.tl.x < f.tr.x, f.bl.x < f.br.x, f.tl.y < f.bl.y, f.tr.y < f.br.y,
           NEW r, r = BoxAround(f)
    PROVE  \A c \in FourCorners :
              /\ r.left <= Most(f[c].x, 0) /\ f[c].x < r.right + Half(1)
              /\ r.top <= Most(f[c].y, 0) /\ f[c].y < r.bottom + Half(1)
  <1>1. PICK w1, w2, h1, h2 : /\ w1 = f.tr.x - f.tl.x /\ w2 = f.br.x - f.bl.x
                              /\ h1 = f.bl.y - f.tl.y /\ h2 = f.br.y - f.tr.y
    OBVIOUS
  <1>2. w1 \in Int /\ w2 \in Int /\ h1 \in Int /\ h2 \in Int /\ w1 > 0 /\ w2 > 0 /\ h1 > 0 /\ h2 > 0
    BY <1>1, FrameFacts
  <1>3. PICK dv, sv, hm, k : /\ dv = Most(w1, w2) /\ sv = Stretched(w1, w2)
                             /\ hm = Most(h1, h2) /\ k = Abs(h1 - h2)
    OBVIOUS
  <1>4. dv \in Nat /\ dv > 0 /\ sv \in Nat /\ dv <= sv /\ hm \in Nat /\ hm > 0 /\ k \in Nat
    BY <1>2, <1>3, ScaleFacts
  <1>5. PICK dh, sh : dh = hm * sv /\ sh = dh + k * dv
    OBVIOUS
  <1>6. dh \in Nat /\ dh > 0 /\ sh \in Nat /\ dh <= sh
    <2>1. hm * sv \in Nat /\ hm * sv > 0 /\ k * dv \in Nat
      BY <1>4
    <2> QED
      BY <1>5, <2>1
  <1>a. PICK ws, hs, x, y, g, u : /\ ws = <<w1, w2>> /\ hs = <<h1, h2>>
                                  /\ x = [s |-> sh, d |-> dh] /\ y = [s |-> sv, d |-> dv]
                                  /\ g = PulledOut(f, ws, hs) /\ u = UnitOf(ws, hs)
    OBVIOUS
  <1>b. /\ ws[1] = w1 /\ ws[2] = w2 /\ hs[1] = h1 /\ hs[2] = h2 /\ SidesOf(f).w = ws /\ SidesOf(f).h = hs
        /\ x.s = sh /\ x.d = dh /\ y.s = sv /\ y.d = dv
    BY <1>1, <1>a DEF SidesOf
  <1>c. HeightScale(ws) = y
    BY <1>3, <1>a, <1>b DEF HeightScale
  <1>d. WidthScale(ws, hs) = x
    BY <1>3, <1>5, <1>a, <1>b, <1>c DEF WidthScale
  <1>e. u.x = dh /\ u.y = dv
    <2>1. Abs(dh) = dh /\ Abs(dv) = dv
      BY <1>4, <1>6 DEF Abs
    <2> QED
      BY <1>a, <1>b, <1>c, <1>d, <2>1 DEF UnitOf, At
  <1>f. r = BoundingBox(g, u)
    BY <1>a, <1>b DEF BoxAround
  <1>g. /\ g.tl.x = NearEnd(h1 < h2, f.tl.x, f.tr.x, w1, x) /\ g.tl.y = NearEnd(w1 < w2, f.tl.y, f.bl.y, h1, y)
        /\ g.tr.x = FarEnd(h1 < h2, f.tl.x, f.tr.x, w1, x) /\ g.tr.y = NearEnd(w1 < w2, f.tr.y, f.br.y, h2, y)
        /\ g.br.x = FarEnd(h1 < h2, f.bl.x, f.br.x, w2, x) /\ g.br.y = FarEnd(w1 < w2, f.tr.y, f.br.y, h2, y)
        /\ g.bl.x = NearEnd(h1 < h2, f.bl.x, f.br.x, w2, x) /\ g.bl.y = FarEnd(w1 < w2, f.tl.y, f.bl.y, h1, y)
    BY <1>a, <1>b, <1>c, <1>d DEF PulledOut, At
  <1>7. PICK west, east, top, bottom :
           /\ west = Least(g.tl.x, g.bl.x) /\ east = Most(g.tr.x, g.br.x)
           /\ top = Least(g.tl.y, g.tr.y) /\ bottom = Most(g.br.y, g.bl.y)
    OBVIOUS
  <1>8. r = [left |-> TruncTo(west, dh), right |-> TruncTo(east, dh),
             top |-> TruncTo(top, dv), bottom |-> TruncTo(bottom, dv)]
    BY <1>4, <1>6, <1>7, <1>e, <1>f DEF BoundingBox
  <1>9. TAKE c \in FourCorners
  <1>10. /\ f[c].x \in {f.tl.x, f.bl.x, f.tr.x, f.br.x}
         /\ f[c].y \in {f.tl.y, f.tr.y, f.bl.y, f.br.y}
    BY DEF FourCorners
  <1>11. f[c].x \in Int /\ f[c].y \in Int
    BY FrameFacts
  <1>12. west \in Int /\ east \in Int /\ west <= f[c].x * dh /\ f[c].x * dh <= east
    <2>1. PICK p1, p2, q1, q2, up, m : /\ p1 = f.tl.x /\ p2 = f.bl.x /\ q1 = f.tr.x /\ q2 = f.br.x
                                       /\ up = (h1 < h2) /\ m = f[c].x
      OBVIOUS
    <2>2. p1 \in Int /\ p2 \in Int /\ q1 \in Int /\ q2 \in Int /\ p1 < q1 /\ p2 < q2
      BY <2>1, FrameFacts
    <2>3. w1 = q1 - p1 /\ w2 = q2 - p2 /\ m \in {p1, p2, q1, q2}
      BY <1>1, <1>10, <2>1
    <2>4. west = Nearest(up, p1, q1, p2, q2, w1, w2, x)
      BY <1>7, <1>g, <2>1 DEF Nearest
    <2>5. east = Farthest(up, p1, q1, p2, q2, w1, w2, x)
      BY <1>7, <1>g, <2>1 DEF Farthest
    <2>6. /\ Within(west, east, p1, dh) /\ Within(west, east, p2, dh)
         /\ Within(west, east, q1, dh) /\ Within(west, east, q2, dh)
      BY <1>6, <1>a, <2>2, <2>3, <2>4, <2>5, BetweenEnds
    <2> QED
      BY <2>1, <2>3, <2>6 DEF Within
  <1>13. top \in Int /\ bottom \in Int /\ top <= f[c].y * dv /\ f[c].y * dv <= bottom
    <2>1. PICK p1, p2, q1, q2, up, m : /\ p1 = f.tl.y /\ p2 = f.tr.y /\ q1 = f.bl.y /\ q2 = f.br.y
                                       /\ up = (w1 < w2) /\ m = f[c].y
      OBVIOUS
    <2>2. p1 \in Int /\ p2 \in Int /\ q1 \in Int /\ q2 \in Int /\ p1 < q1 /\ p2 < q2
      BY <2>1, FrameFacts
    <2>3. h1 = q1 - p1 /\ h2 = q2 - p2 /\ m \in {p1, p2, q1, q2}
      BY <1>1, <1>10, <2>1
    <2>4. top = Nearest(up, p1, q1, p2, q2, h1, h2, y)
      BY <1>7, <1>g, <2>1 DEF Nearest
    <2>5. g.bl.y \in Int /\ g.br.y \in Int
      BY <1>2, <1>4, <1>a, <1>g, FrameFacts, EndTypes
    <2>6. bottom = Most(g.bl.y, g.br.y)
      BY <1>7, <2>5 DEF Most
    <2>7. bottom = Farthest(up, p1, q1, p2, q2, h1, h2, y)
      BY <1>g, <2>1, <2>6 DEF Farthest
    <2>8. /\ Within(top, bottom, p1, dv) /\ Within(top, bottom, p2, dv)
         /\ Within(top, bottom, q1, dv) /\ Within(top, bottom, q2, dv)
      BY <1>4, <1>a, <2>2, <2>3, <2>4, <2>7, BetweenEnds
    <2> QED
      BY <2>1, <2>3, <2>8 DEF Within
  <1>16. r.left <= Most(f[c].x, 0) /\ r.top <= Most(f[c].y, 0)
    BY <1>4, <1>6, <1>8, <1>11, <1>12, <1>13, TruncLow
  <1>17. f[c].x < r.right + Half(1) /\ f[c].y < r.bottom + Half(1)
    BY <1>4, <1>6, <1>8, <1>11, <1>12, <1>13, TruncHigh
  <1> QED
    BY <1>16, <1>17

-----------------------------------------------------------------------------
(* The corners of the detected card.                                       *)

\* A bounded set of numbers that is not empty has a greatest member.
LEMMA Greatest ==
    ASSUME NEW n \in Nat, NEW S, S \subseteq 0..n, S # {}
    PROVE  Max(S) \in S
  <1>1. PICK T : T = {n - i : i \in S}
    OBVIOUS
  <1>2. T \subseteq Nat /\ T # {}
    <2>1. \A i \in S : i \in Int /\ n - i \in Nat
      OBVIOUS
    <2> QED
      BY <1>1, <2>1
  <1>3. PICK t \in T : \A y \in T : ~(<<y, t>> \in OpToRel(<, Nat))
    BY <1>2, NatLessThanWellFounded, WFMin
  <1>4. \A y \in T : ~(y < t)
    BY <1>2, <1>3 DEF OpToRel
  <1>5. PICK i \in S : t = n - i
    BY <1>1, <1>3
  <1>6. \A j \in S : i >= j
    <2>1. TAKE j \in S
    <2>2. n - j \in T /\ i \in Int /\ j \in Int
      BY <1>1
    <2> QED
      BY <1>4, <1>5, <2>2
  <1> QED
    BY <1>5, <1>6 DEF Max

\* The quadrilaterals that OpenCV finds.
Quad == [1..4 -> Point]

LEMMA ExchangeType ==
    ASSUME NEW q \in Quad, NEW i \in 1..4, NEW j \in 1..4
    PROVE  Exchange(q, i, j) \in Quad
  BY DEF Exchange, Quad

LEMMA CornersType ==
    ASSUME NEW q \in Quad
    PROVE  Corners(q) \in Frame
  <1>1. PICK s : s = SortByHeight(q)
    OBVIOUS
  <1>2. s \in Quad
    BY <1>1, ExchangeType DEF SortByHeight
  <1>3. s[1] \in Point /\ s[2] \in Point /\ s[3] \in Point /\ s[4] \in Point
    BY <1>2 DEF Quad
  <1>4. PICK t, b : /\ t = (IF s[1].x < s[2].x THEN <<s[1], s[2]>> ELSE <<s[2], s[1]>>)
                    /\ b = (IF s[3].x < s[4].x THEN <<s[3], s[4]>> ELSE <<s[4], s[3]>>)
    OBVIOUS
  <1>5. t[1] \in Point /\ t[2] \in Point /\ b[1] \in Point /\ b[2] \in Point
    BY <1>3, <1>4
  <1>6. Corners(q) = [tl |-> t[1], tr |-> t[2], br |-> b[2], bl |-> b[1]]
    BY <1>1, <1>4 DEF Corners
  <1> QED
    BY <1>5, <1>6, MakeFrame

-----------------------------------------------------------------------------
(* The sort of detectCardVisit.                                            *)

\* Two points that are exchanged or not.
LEMMA ExchangeFacts ==
    ASSUME NEW q \in Quad, NEW i \in 1..4, NEW j \in 1..4, i < j, NEW e, e = Exchange(q, i, j)
    PROVE  /\ e \in Quad
           /\ e[i].y <= e[j].y
           /\ \A k \in 1..4 : k # i /\ k # j => e[k] = q[k]
           /\ (e[i] = q[i] /\ e[j] = q[j]) \/ (e[i] = q[j] /\ e[j] = q[i])
  <1>1. CASE q[i].y > q[j].y
    <2>1. e = [q EXCEPT ![i] = q[j], ![j] = q[i]]
      BY <1>1 DEF Exchange
    <2> QED
      BY <1>1, <2>1 DEF Quad, Point
  <1>2. CASE ~(q[i].y > q[j].y)
    <2>1. e = q
      BY <1>2 DEF Exchange
    <2> QED
      BY <1>2, <2>1 DEF Quad, Point
  <1> QED
    BY <1>1, <1>2

\* No point is lost, and the upper ones come first.
LEMMA SortFacts ==
    ASSUME NEW q \in Quad, NEW s, s = SortByHeight(q)
    PROVE  /\ s \in Quad
           /\ s[1].y <= s[2].y /\ s[2].y <= s[3].y /\ s[3].y <= s[4].y
           /\ \A i \in 1..4 : \E j \in 1..4 : s[j] = q[i]
           /\ \A j \in 1..4 : \E i \in 1..4 : s[j] = q[i]
  <1>1. PICK a : a = Exchange(q, 1, 2)
    OBVIOUS
  <1>2. PICK b : b = Exchange(a, 1, 3)
    OBVIOUS
  <1>3. PICK c : c = Exchange(b, 1, 4)
    OBVIOUS
  <1>4. PICK d : d = Exchange(c, 2, 3)
    OBVIOUS
  <1>5. PICK e : e = Exchange(d, 2, 4)
    OBVIOUS
  <1>6. s = Exchange(e, 3, 4)
    BY <1>1, <1>2, <1>3, <1>4, <1>5 DEF SortByHeight
  <1>7. /\ a \in Quad /\ a[1].y <= a[2].y /\ a[3] = q[3] /\ a[4] = q[4]
        /\ (a[1] = q[1] /\ a[2] = q[2]) \/ (a[1] = q[2] /\ a[2] = q[1])
    BY <1>1, ExchangeFacts
  <1>8. /\ b \in Quad /\ b[1].y <= b[3].y /\ b[2] = a[2] /\ b[4] = a[4]
        /\ (b[1] = a[1] /\ b[3] = a[3]) \/ (b[1] = a[3] /\ b[3] = a[1])
    BY <1>2, <1>7, ExchangeFacts
  <1>9. /\ c \in Quad /\ c[1].y <= c[4].y /\ c[2] = b[2] /\ c[3] = b[3]
        /\ (c[1] = b[1] /\ c[4] = b[4]) \/ (c[1] = b[4] /\ c[4] = b[1])
    BY <1>3, <1>8, ExchangeFacts
  <1>10. /\ d \in Quad /\ d[2].y <= d[3].y /\ d[1] = c[1] /\ d[4] = c[4]
         /\ (d[2] = c[2] /\ d[3] = c[3]) \/ (d[2] = c[3] /\ d[3] = c[2])
    BY <1>4, <1>9, ExchangeFacts
  <1>11. /\ e \in Quad /\ e[2].y <= e[4].y /\ e[1] = d[1] /\ e[3] = d[3]
         /\ (e[2] = d[2] /\ e[4] = d[4]) \/ (e[2] = d[4] /\ e[4] = d[2])
    BY <1>5, <1>10, ExchangeFacts
  <1>12. /\ s \in Quad /\ s[3].y <= s[4].y /\ s[1] = e[1] /\ s[2] = e[2]
         /\ (s[3] = e[3] /\ s[4] = e[4]) \/ (s[3] = e[4] /\ s[4] = e[3])
    BY <1>6, <1>11, ExchangeFacts
  <1>13. \A f \in Quad : /\ f[1].y \in Int /\ f[2].y \in Int /\ f[3].y \in Int /\ f[4].y \in Int
    BY DEF Quad, Point
  <1>14. c[1].y <= c[2].y /\ c[1].y <= c[3].y /\ c[1].y <= c[4].y
    <2>1. b[1].y <= b[2].y
      BY <1>7, <1>8, <1>13
    <2> QED
      BY <1>8, <1>9, <1>13, <2>1
  <1>15. e[1].y <= e[2].y /\ e[1].y <= e[3].y /\ e[1].y <= e[4].y
    BY <1>9, <1>10, <1>11, <1>13, <1>14
  <1>16. e[2].y <= e[3].y
    BY <1>10, <1>11, <1>13
  <1>17. s[1].y <= s[2].y /\ s[2].y <= s[3].y /\ s[3].y <= s[4].y
    BY <1>11, <1>12, <1>13, <1>15, <1>16
  <1>18. \A f, g \in Quad :
            /\ f[1] = g[1] \/ f[1] = g[2] \/ f[1] = g[3] \/ f[1] = g[4]
            /\ f[2] = g[1] \/ f[2] = g[2] \/ f[2] = g[3] \/ f[2] = g[4]
            /\ f[3] = g[1] \/ f[3] = g[2] \/ f[3] = g[3] \/ f[3] = g[4]
            /\ f[4] = g[1] \/ f[4] = g[2] \/ f[4] = g[3] \/ f[4] = g[4]
            => \A i \in 1..4 : \E j \in 1..4 : g[j] = f[i]
    <2>1. TAKE f, g \in Quad
    <2>2. \A i \in 1..4 : i = 1 \/ i = 2 \/ i = 3 \/ i = 4
      OBVIOUS
    <2>3. 1 \in 1..4 /\ 2 \in 1..4 /\ 3 \in 1..4 /\ 4 \in 1..4
      OBVIOUS
    <2> QED
      BY <2>2, <2>3, Zenon
  <1>19. \A i \in 1..4 : \E j \in 1..4 : s[j] = q[i]
    BY <1>7, <1>8, <1>9, <1>10, <1>11, <1>12, <1>18
  <1>20. \A j \in 1..4 : \E i \in 1..4 : s[j] = q[i]
    BY <1>7, <1>8, <1>9, <1>10, <1>11, <1>12, <1>18
  <1> QED
    BY <1>12, <1>17, <1>19, <1>20

\* Two upper points and two lower ones, left and right of each other, are the corners.
LEMMA UprightCorners ==
    ASSUME NEW q \in Quad, NEW A \in Point, NEW B \in Point, NEW C \in Point, NEW D \in Point,
           \A i \in 1..4 : q[i] \in {A, B, C, D},
           \A p \in {A, B, C, D} : \E i \in 1..4 : q[i] = p,
           A.y < C.y, A.y < D.y, B.y < C.y, B.y < D.y, A.x < B.x, D.x < C.x
    PROVE  Corners(q) = [tl |-> A, tr |-> B, br |-> C, bl |-> D]
  <1>1. PICK s : s = SortByHeight(q)
    OBVIOUS
  <1>2. /\ s \in Quad
        /\ s[1].y <= s[2].y /\ s[2].y <= s[3].y /\ s[3].y <= s[4].y
        /\ \A i \in 1..4 : \E j \in 1..4 : s[j] = q[i]
        /\ \A j \in 1..4 : \E i \in 1..4 : s[j] = q[i]
    BY <1>1, SortFacts
  <1>3. PICK s1, s2, s3, s4 : s1 = s[1] /\ s2 = s[2] /\ s3 = s[3] /\ s4 = s[4]
    OBVIOUS
  <1>4. /\ s1 \in {A, B, C, D} /\ s2 \in {A, B, C, D}
        /\ s3 \in {A, B, C, D} /\ s4 \in {A, B, C, D}
    BY <1>2, <1>3
  <1>5. /\ A \in {s1, s2, s3, s4} /\ B \in {s1, s2, s3, s4}
        /\ C \in {s1, s2, s3, s4} /\ D \in {s1, s2, s3, s4}
    <2>1. \A p \in {A, B, C, D} : \E j \in 1..4 : s[j] = p
      BY <1>2
    <2>2. \A j \in 1..4 : s[j] \in {s1, s2, s3, s4}
      BY <1>3
    <2> QED
      BY <2>1, <2>2
  <1>6. s1.y <= s2.y /\ s2.y <= s3.y /\ s3.y <= s4.y
    BY <1>2, <1>3
  <1>7. /\ A.x \in Int /\ A.y \in Int /\ B.x \in Int /\ B.y \in Int
        /\ C.x \in Int /\ C.y \in Int /\ D.x \in Int /\ D.y \in Int
    BY DEF Point
  <1>8. A # B /\ C # D
    BY <1>7
  <1>9. s1 \in {A, B}
    BY <1>4, <1>5, <1>6, <1>7
  <1>10. s2 \in {A, B}
    BY <1>4, <1>5, <1>6, <1>7, <1>8
  <1>11. s3 \in {C, D} /\ s4 \in {C, D}
    BY <1>4, <1>5, <1>7, <1>8, <1>9, <1>10
  <1>12. s1 # s2 /\ s3 # s4
    BY <1>5, <1>7, <1>8, <1>9, <1>10, <1>11
  <1>13. (IF s1.x < s2.x THEN <<s1, s2>> ELSE <<s2, s1>>) = <<A, B>>
    BY <1>7, <1>9, <1>10, <1>12
  <1>14. (IF s3.x < s4.x THEN <<s3, s4>> ELSE <<s4, s3>>) = <<D, C>>
    BY <1>7, <1>11, <1>12
  <1>15. PICK t, b : /\ t = (IF s[1].x < s[2].x THEN <<s[1], s[2]>> ELSE <<s[2], s[1]>>)
                     /\ b = (IF s[3].x < s[4].x THEN <<s[3], s[4]>> ELSE <<s[4], s[3]>>)
    OBVIOUS
  <1>16. t = <<A, B>> /\ b = <<D, C>>
    BY <1>3, <1>13, <1>14, <1>15
  <1>17. Corners(q) = [tl |-> t[1], tr |-> t[2], br |-> b[2], bl |-> b[1]]
    BY <1>1, <1>15 DEF Corners
  <1> QED
    BY <1>16, <1>17

\* A reading names every point of the contour once.
LEMMA ReadingFacts ==
    ASSUME NEW q \in Quad, NEW r \in Readings(q)
    PROVE  /\ r.tl \in Point /\ r.tr \in Point /\ r.br \in Point /\ r.bl \in Point
           /\ r = [tl |-> r.tl, tr |-> r.tr, br |-> r.br, bl |-> r.bl]
           /\ \A i \in 1..4 : q[i] \in {r.tl, r.tr, r.br, r.bl}
           /\ \A p \in {r.tl, r.tr, r.br, r.bl} : \E i \in 1..4 : q[i] = p
  <1>1. PICK i \in 1..4, s \in {1, -1} :
            r = [tl |-> q[i], tr |-> q[((i + s - 1) % 4) + 1], br |-> q[((i + 1) % 4) + 1],
                 bl |-> q[((i - s + 3) % 4) + 1]]
    BY DEF Readings
  <1>2. PICK b, c, d : /\ b = ((i + s - 1) % 4) + 1 /\ c = ((i + 1) % 4) + 1
                       /\ d = ((i - s + 3) % 4) + 1
    OBVIOUS
  <1>3. /\ b \in 1..4 /\ c \in 1..4 /\ d \in 1..4
        /\ i # b /\ i # c /\ i # d /\ b # c /\ b # d /\ c # d
    <2>1. CASE s = 1
      BY <1>2, <2>1
    <2>2. CASE s = -1
      BY <1>2, <2>2
    <2> QED
      BY <2>1, <2>2
  <1>4. \A k \in 1..4 : k = i \/ k = b \/ k = c \/ k = d
    BY <1>3
  <1>5. r = [tl |-> q[i], tr |-> q[b], br |-> q[c], bl |-> q[d]]
    BY <1>1, <1>2
  <1>6. r.tl = q[i] /\ r.tr = q[b] /\ r.br = q[c] /\ r.bl = q[d]
    BY <1>5
  <1>7. q[i] \in Point /\ q[b] \in Point /\ q[c] \in Point /\ q[d] \in Point
    BY <1>3 DEF Quad
  <1> QED
    BY <1>3, <1>4, <1>5, <1>6, <1>7

\* A card with two upper and two lower points, far enough apart, is not given up.
LEMMA CardIsKept ==
    ASSUME NEW z, FindLargestSquare(z) \in Quad, NEW r \in Readings(FindLargestSquare(z)),
           Most(r.tl.y, r.tr.y) < Least(r.bl.y, r.br.y), ~TooSmall(r)
    PROVE  DetectCardVisit(z) = r
  <1>1. PICK q : q = FindLargestSquare(z)
    OBVIOUS
  <1>2. PICK A, B, C, D : A = r.tl /\ B = r.tr /\ C = r.br /\ D = r.bl
    OBVIOUS
  <1>3. /\ A \in Point /\ B \in Point /\ C \in Point /\ D \in Point
        /\ r = [tl |-> A, tr |-> B, br |-> C, bl |-> D]
        /\ \A i \in 1..4 : q[i] \in {A, B, C, D}
        /\ \A p \in {A, B, C, D} : \E i \in 1..4 : q[i] = p
    BY <1>1, <1>2, ReadingFacts
  <1>4. /\ A.x \in Int /\ A.y \in Int /\ B.x \in Int /\ B.y \in Int
        /\ C.x \in Int /\ C.y \in Int /\ D.x \in Int /\ D.y \in Int
    BY <1>3 DEF Point
  <1>5. A.y < C.y /\ A.y < D.y /\ B.y < C.y /\ B.y < D.y
    BY <1>2, <1>4 DEF Most, Least
  <1>6. A.x < B.x /\ D.x < C.x
    <2>1. PICK w : w = Width \div 5
      OBVIOUS
    <2>2. w \in Nat
      BY <2>1, PhotoAssumption
    <2>3. B.x - A.x > w /\ C.x - D.x > w
      BY <1>2, <1>4, <2>1, <2>2 DEF TooSmall
    <2> QED
      BY <1>4, <2>2, <2>3
  <1>7. Corners(q) = r
    BY <1>1, <1>3, <1>5, <1>6, UprightCorners
  <1> QED
    BY <1>1, <1>7 DEF DetectCardVisit

LEMMA RectangleType ==
    ASSUME NEW a \in Int, NEW b \in Int, NEW c \in Int, NEW d \in Int
    PROVE  Rectangle(a, b, c, d) \in Frame
  <1>1. At(a, b) \in Point /\ At(c, b) \in Point /\ At(c, d) \in Point /\ At(a, d) \in Point
    BY DEF At, Point
  <1> QED
    BY <1>1, MakeFrame DEF Rectangle

LEMMA LargestIsFound ==
    ASSUME NEW s \in Seq(Quad), s # <<>>
    PROVE  \E i \in DOMAIN s : FindLargestSquare(s) = s[i]
  <1>1. PICK S : S = {1} \cup {i \in DOMAIN s : Area2(s[i]) > 0}
    OBVIOUS
  <1>2. Len(s) \in Nat /\ DOMAIN s = 1..Len(s) /\ Len(s) >= 1
    OBVIOUS
  <1>3. S \subseteq 0..Len(s) /\ S # {} /\ S \subseteq DOMAIN s
    BY <1>1, <1>2
  <1>4. Max(S) \in DOMAIN s
    BY <1>2, <1>3, Greatest
  <1> QED
    BY <1>1, <1>4 DEF FindLargestSquare

LEMMA LargestSquareType ==
    ASSUME NEW s \in Seq(Quad), s # <<>>
    PROVE  FindLargestSquare(s) \in Quad
  BY LargestIsFound

LEMMA DetectionType ==
    ASSUME NEW s \in Seq(Quad), s # <<>>
    PROVE  DetectCardVisit(s) \in Frame
  <1>1. FindLargestSquare(s) \in Quad
    BY LargestSquareType
  <1>2. Corners(FindLargestSquare(s)) \in Frame
    BY <1>1, CornersType
  <1>3. Rectangle(0, 0, Width, Height) \in Frame
    BY RectangleType, PhotoAssumption
  <1> QED
    BY <1>2, <1>3 DEF DetectCardVisit

LEMMA DefaultFrameType ==
    ASSUME squares \in Seq(Quad)
    PROVE  DefaultFrame \in Frame
  <1>1. PICK size, x, y : /\ size = (Least(Width, Height) * 4) \div 5
                          /\ x = (Width - size) \div 2 /\ y = (Height - size) \div 2
    OBVIOUS
  <1>2. Width \in Int /\ Height \in Int
    BY PhotoAssumption
  <1>3. size \in Int
    <2>1. PICK k : k = Least(Width, Height)
      OBVIOUS
    <2>2. k \in Int
      BY <1>2, <2>1, LeastMost
    <2>3. (k * 4) \div 5 \in Int
      BY <2>2
    <2> QED
      BY <1>1, <2>1, <2>3
  <1>4. x \in Int /\ y \in Int
    <2>1. \A u \in Int : u \div 2 \in Int
      OBVIOUS
    <2>2. Width - size \in Int /\ Height - size \in Int
      BY <1>2, <1>3
    <2> QED
      BY <1>1, <2>1, <2>2
  <1>5. Rectangle(x, y, x + size, y + size) \in Frame
    BY <1>2, <1>3, <1>4, RectangleType
  <1>6. PICK f : f = IF squares = <<>> THEN Rectangle(x, y, x + size, y + size)
                     ELSE DetectCardVisit(squares)
    OBVIOUS
  <1>7. f \in Frame
    BY <1>5, <1>6, DetectionType
  <1>8. DefaultFrame = Halves(f)
    BY <1>1, <1>6 DEF DefaultFrame
  <1> QED
    BY <1>7, <1>8, FrameFacts DEF Halves, Half, At, Frame, Point

-----------------------------------------------------------------------------
(* Four points that go round a figure, as the vectors from each to the     *)
(* next: p from P to Q, q to R, r to S, s back to P.                       *)

\* The turn from one vector to another, and how far one goes along the other.
Turn(a, b, c, d) == a * d - b * c
Along(a, b, c, d) == a * c + b * d

\* A cosine below 0.3 is a turn of more than three times the way along.
Near(a, b, c, d) == 3 * Along(a, b, c, d) < Turn(a, b, c, d) /\ -(3 * Along(a, b, c, d)) < Turn(a, b, c, d)

\* Products of integers.
LEMMA Positive ==
    ASSUME NEW a \in Int, NEW b \in Int, a > 0
    PROVE  /\ b > 0 => a * b > 0
           /\ b >= 0 => a * b >= 0
           /\ a * b > 0 => b > 0
           /\ b < 0 => a * b < 0
           /\ a * b < 0 => b < 0
  <1>1. b > 0 => a * b > 0
    OBVIOUS
  <1>2. b < 0 => a * b < 0
    OBVIOUS
  <1>3. b = 0 => a * b = 0
    OBVIOUS
  <1> QED
    BY <1>1, <1>2, <1>3

LEMMA TimesLess ==
    ASSUME NEW a \in Int, NEW b \in Int, NEW c \in Int, a > 0
    PROVE  (b < c) <=> (a * b < a * c)
  OBVIOUS

\* Four points that go clockwise round a figure (y grows downwards) of at most n in
\* width.  P and Q are no lower than R and S; from P to Q and from R to S it is more
\* than a fifth of n to one side; and at three of the corners at least the angle is
\* nearly right.
Figure(px, py, qx, qy, rx, ry, sx, sy, n) ==
    /\ px + qx + rx + sx = 0 /\ py + qy + ry + sy = 0
    /\ qy >= 0 /\ sy <= 0 /\ py + qy >= 0 /\ qy + ry >= 0
    /\ n >= 0 /\ qx <= n /\ -n <= qx /\ sx <= n /\ -n <= sx
    /\ n < 5 * px \/ n < -(5 * px)
    /\ n < 5 * rx \/ n < -(5 * rx)
    /\ Turn(sx, sy, px, py) > 0 /\ Turn(px, py, qx, qy) > 0
    /\ Turn(qx, qy, rx, ry) > 0 /\ Turn(rx, ry, sx, sy) > 0
    /\ \/ Near(sx, sy, px, py)
       \/ Near(px, py, qx, qy) /\ Near(qx, qy, rx, ry) /\ Near(rx, ry, sx, sy)
    /\ \/ Near(px, py, qx, qy)
       \/ Near(sx, sy, px, py) /\ Near(qx, qy, rx, ry) /\ Near(rx, ry, sx, sy)
    /\ \/ Near(qx, qy, rx, ry)
       \/ Near(sx, sy, px, py) /\ Near(px, py, qx, qy) /\ Near(rx, ry, sx, sy)
    /\ \/ Near(rx, ry, sx, sy)
       \/ Near(sx, sy, px, py) /\ Near(px, py, qx, qy) /\ Near(qx, qy, rx, ry)

\* Turned the other way, the angle at P cannot be nearly right, ...
LEMMA NotAtP ==
    ASSUME NEW d \in Int, NEW e \in Int, NEW s \in Int, NEW T \in Int,
           d > 0, e > 0, T >= e, s < 5 * d, Turn(s, -T, -d, e) > 0
    PROVE  ~Near(s, -T, -d, e)
  <1> SUFFICES ASSUME Near(s, -T, -d, e) PROVE FALSE
    OBVIOUS
  <1>1. PICK sd, te, se, td : sd = s * d /\ te = T * e /\ se = s * e /\ td = T * d
    OBVIOUS
  <1>2. sd \in Int /\ te \in Int /\ se \in Int /\ td \in Int
    BY <1>1
  <1>3. s * e - (-T) * (-d) = se - td /\ s * (-d) + (-T) * e = -sd - te
    BY <1>1
  <1>4. se - td > 0 /\ 3 * (sd + te) < se - td
    BY <1>2, <1>3 DEF Turn, Near, Along
  <1>5. te > 0 /\ td > 0 /\ se > 0
    BY <1>1, <1>2, <1>4, Positive
  <1>6. s > 0
    BY <1>1, <1>5, Positive
  <1>7. sd > 0
    BY <1>1, <1>6, Positive
  \* The height e is more than three times d, ...
  <1>8. s * (3 * d) < s * e
    BY <1>1, <1>2, <1>4, <1>5
  <1>9. 3 * d < e
    BY <1>6, <1>8, TimesLess
  \* ... and s more than three times T.
  <1>10. e * (3 * T) < e * s
    BY <1>1, <1>2, <1>4, <1>5, <1>7
  <1>11. 3 * T < s
    BY <1>10, TimesLess
  <1> QED
    BY <1>9, <1>11

\* ... and not those at the other three together.
Leaning(d, e, f, g, r, v, s, T, n) ==
    /\ d > 0 /\ e > 0 /\ T >= e /\ g >= 0 /\ g + v >= 0
    /\ n < 5 * d /\ (n < 5 * r \/ n < -(5 * r)) /\ s <= n
    /\ r + s = d + f /\ e + g + v = T
    /\ Turn(s, -T, -d, e) > 0 /\ Turn(-d, e, -f, g) > 0
    /\ Turn(-f, g, r, v) > 0 /\ Turn(r, v, s, -T) > 0
    /\ Near(-d, e, -f, g) /\ Near(-f, g, r, v) /\ Near(r, v, s, -T)

LEMMA NotAtQRS ==
    ASSUME NEW d \in Int, NEW e \in Int, NEW f \in Int, NEW g \in Int, NEW r \in Int, NEW v \in Int,
           NEW s \in Int, NEW T \in Int, NEW n \in Nat
    PROVE  ~Leaning(d, e, f, g, r, v, s, T, n)
  <1> SUFFICES ASSUME Leaning(d, e, f, g, r, v, s, T, n) PROVE FALSE
    OBVIOUS
  <1>0. /\ d > 0 /\ e > 0 /\ T >= e /\ g >= 0 /\ g + v >= 0
        /\ n < 5 * d /\ (n < 5 * r \/ n < -(5 * r)) /\ s <= n
        /\ r + s = d + f /\ e + g + v = T
        /\ Turn(s, -T, -d, e) > 0 /\ Turn(-d, e, -f, g) > 0
        /\ Turn(-f, g, r, v) > 0 /\ Turn(r, v, s, -T) > 0
        /\ Near(-d, e, -f, g) /\ Near(-f, g, r, v) /\ Near(r, v, s, -T)
    BY DEF Leaning
  <1> USE <1>0
  \* At Q: e is more than three times d, and f more than three times g.
  <1>1. PICK df, eg, ef, dg : df = d * f /\ eg = e * g /\ ef = e * f /\ dg = d * g
    OBVIOUS
  <1>2. df \in Int /\ eg \in Int /\ ef \in Int /\ dg \in Int
    BY <1>1
  <1>3. (-d) * g - e * (-f) = ef - dg /\ (-d) * (-f) + e * g = df + eg
    BY <1>1
  <1>4. ef - dg > 0 /\ 3 * (df + eg) < ef - dg
    BY <1>2, <1>3 DEF Turn, Near, Along
  <1>5. eg >= 0 /\ dg >= 0
    BY <1>1, Positive
  <1>6. ef > 0
    BY <1>2, <1>4, <1>5
  <1>7. f > 0
    BY <1>1, <1>6, Positive
  <1>8. df > 0
    BY <1>1, <1>7, Positive
  <1>9. 3 * d < e
    <2>1. f * (3 * d) < f * e
      BY <1>1, <1>2, <1>4, <1>5
    <2> QED
      BY <1>7, <2>1, TimesLess
  <1>10. 3 * g < f
    <2>1. e * (3 * g) < e * f
      BY <1>1, <1>2, <1>4, <1>5, <1>8
    <2> QED
      BY <2>1, TimesLess
  <1>11. s > 0
    <2>1. PICK se, td : se = s * e /\ td = T * d
      OBVIOUS
    <2>2. se \in Int /\ td \in Int /\ s * e - (-T) * (-d) = se - td
      BY <2>1
    <2>3. td > 0
      BY <2>1, Positive
    <2>4. e * s > 0
      BY <2>1, <2>2, <2>3 DEF Turn
    <2> QED
      BY <2>4, Positive
  \* S right of R: the turn at S makes s more than three times T.
  <1>12. CASE n < 5 * r
    <2>1. r > 0
      BY <1>12
    <2>2. PICK rs, vt, vs, rt : rs = r * s /\ vt = v * T /\ vs = v * s /\ rt = r * T
      OBVIOUS
    <2>3. rs \in Int /\ vt \in Int /\ vs \in Int /\ rt \in Int
      BY <2>2
    <2>4. r * (-T) - v * s = -rt - vs /\ r * s + v * (-T) = rs - vt
      BY <2>2
    <2>5. -rt - vs > 0 /\ 3 * (rs - vt) < -rt - vs
      BY <2>3, <2>4 DEF Turn, Near, Along
    <2>6. rt > 0
      BY <2>1, <2>2, Positive
    <2>7. s * v < 0
      BY <2>2, <2>3, <2>5, <2>6
    <2>8. v < 0
      BY <1>11, <2>7, Positive
    <2>9. rs > 0
      BY <1>11, <2>1, <2>2, Positive
    <2>10. -v > 0 /\ (-v) * (3 * T) < (-v) * s
      BY <2>2, <2>3, <2>5, <2>8, <2>6
    <2>11. 3 * T < s
      BY <2>10, TimesLess
    <2> QED
      BY <1>9, <2>11
  \* S left of R: the turn at R makes g more than three times f if S is no higher, ...
  <1>13. CASE n < -(5 * r)
    <2>1. PICK w : w = -r
      OBVIOUS
    <2>2. w \in Int /\ w > 0 /\ r = -w
      BY <1>13, <2>1
    <2>3. PICK fw, gv, gw, fv : fw = f * w /\ gv = g * v /\ gw = g * w /\ fv = f * v
      OBVIOUS
    <2>4. fw \in Int /\ gv \in Int /\ gw \in Int /\ fv \in Int
      BY <2>2, <2>3
    <2>5. (-f) * v - g * r = gw - fv /\ (-f) * r + g * v = fw + gv
      BY <2>2, <2>3
    <2>6. gw - fv > 0 /\ 3 * (fw + gv) < gw - fv
      BY <2>4, <2>5 DEF Turn, Near, Along
    \* ... and the width is too large for both otherwise.
    <2>7. 3 * w > f
      BY <1>13, <2>1
    <2>8. CASE v >= 0
      <3>1. gv >= 0 /\ fv >= 0
        <4>1. v > 0 \/ v = 0
          BY <2>8
        <4> QED
          BY <1>7, <2>3, <2>8, Positive
      <3>2. w * (3 * f) < w * g
        BY <2>2, <2>3, <2>4, <2>6, <3>1
      <3>3. 3 * f < g
        BY <2>2, <3>2, TimesLess
      <3> QED
        BY <1>7, <1>10, <3>3
    <2>9. CASE v < 0
      <3>1. 0 < -v /\ -v <= g /\ g > 0
        BY <2>9
      \* Both g and -v are less than a third of f, and f less than three times w.
      <3>2. PICK ff, fg : ff = f * f /\ fg = f * g
        OBVIOUS
      <3>3. ff \in Int /\ fg \in Int
        BY <3>2
      <3>4. -fv <= fg
        BY <1>7, <2>3, <3>1, <3>2
      <3>5. -gv <= g * g
        BY <2>3, <3>1
      <3>6. 3 * (g * g) < fg
        <4>1. g * (3 * g) < g * f
          BY <1>10, <3>1, TimesLess
        <4> QED
          BY <3>2, <4>1
      <3>7. 3 * fg < ff
        <4>1. f * (3 * g) < f * f
          BY <1>7, <1>10, TimesLess
        <4> QED
          BY <3>2, <4>1
      <3>8. ff < 3 * fw
        <4>1. f * f < f * (3 * w)
          BY <1>7, <2>2, <2>7, TimesLess
        <4> QED
          BY <2>2, <2>3, <3>2, <4>1
      <3>9. 3 * gw < fw
        <4>1. w * (3 * g) < w * f
          BY <1>10, <2>2, TimesLess
        <4> QED
          BY <2>2, <2>3, <4>1
      <3>10. PICK gg : gg = g * g
        OBVIOUS
      <3> QED
        BY <2>4, <2>6, <3>3, <3>4, <3>5, <3>6, <3>7, <3>8, <3>9, <3>10
    <2> QED
      BY <2>8, <2>9
  <1> QED
    BY <1>12, <1>13

\* Going the other way, P below Q, or round the corner: the same angles.
LEMMA TurnRules ==
    ASSUME NEW a \in Int, NEW b \in Int, NEW c \in Int, NEW d \in Int
    PROVE  /\ Turn(c, -d, a, -b) = Turn(a, b, c, d) /\ Turn(-a, -b, -c, -d) = Turn(a, b, c, d)
           /\ Along(c, -d, a, -b) = Along(a, b, c, d) /\ Along(-a, -b, -c, -d) = Along(a, b, c, d)
           /\ Near(c, -d, a, -b) <=> Near(a, b, c, d)
           /\ Near(-a, -b, -c, -d) <=> Near(a, b, c, d)
           /\ Turn(a, b, c, d) \in Int /\ Along(a, b, c, d) \in Int
  <1>1. PICK ac, bd, ad, bc : ac = a * c /\ bd = b * d /\ ad = a * d /\ bc = b * c
    OBVIOUS
  <1>2. ac \in Int /\ bd \in Int /\ ad \in Int /\ bc \in Int
    BY <1>1
  <1>3. Turn(a, b, c, d) = ad - bc /\ Along(a, b, c, d) = ac + bd
    BY <1>1 DEF Turn, Along
  <1>4. Turn(c, -d, a, -b) = ad - bc
    BY <1>1, <1>2 DEF Turn
  <1>5. Turn(-a, -b, -c, -d) = ad - bc
    BY <1>1, <1>2 DEF Turn
  <1>6. Along(c, -d, a, -b) = ac + bd
    BY <1>1, <1>2 DEF Along
  <1>7. Along(-a, -b, -c, -d) = ac + bd
    BY <1>1, <1>2 DEF Along
  <1> QED
    BY <1>2, <1>3, <1>4, <1>5, <1>6, <1>7 DEF Near

LEMMA Mirrored ==
    ASSUME NEW px \in Int, NEW py \in Int, NEW qx \in Int, NEW qy \in Int, NEW rx \in Int,
           NEW ry \in Int, NEW sx \in Int, NEW sy \in Int, NEW n \in Int,
           Figure(px, py, qx, qy, rx, ry, sx, sy, n)
    PROVE  /\ Figure(px, -py, sx, -sy, rx, -ry, qx, -qy, n)
           /\ Figure(-rx, -ry, -sx, -sy, -px, -py, -qx, -qy, n)
  <1>1. /\ Turn(px, -py, sx, -sy) = Turn(sx, sy, px, py)
        /\ Turn(-sx, -sy, -px, -py) = Turn(sx, sy, px, py)
        /\ Near(px, -py, sx, -sy) <=> Near(sx, sy, px, py)
        /\ Near(-sx, -sy, -px, -py) <=> Near(sx, sy, px, py)
    BY TurnRules
  <1>2. /\ Turn(qx, -qy, px, -py) = Turn(px, py, qx, qy)
        /\ Turn(-px, -py, -qx, -qy) = Turn(px, py, qx, qy)
        /\ Near(qx, -qy, px, -py) <=> Near(px, py, qx, qy)
        /\ Near(-px, -py, -qx, -qy) <=> Near(px, py, qx, qy)
    BY TurnRules
  <1>3. /\ Turn(rx, -ry, qx, -qy) = Turn(qx, qy, rx, ry)
        /\ Turn(-qx, -qy, -rx, -ry) = Turn(qx, qy, rx, ry)
        /\ Near(rx, -ry, qx, -qy) <=> Near(qx, qy, rx, ry)
        /\ Near(-qx, -qy, -rx, -ry) <=> Near(qx, qy, rx, ry)
    BY TurnRules
  <1>4. /\ Turn(sx, -sy, rx, -ry) = Turn(rx, ry, sx, sy)
        /\ Turn(-rx, -ry, -sx, -sy) = Turn(rx, ry, sx, sy)
        /\ Near(sx, -sy, rx, -ry) <=> Near(rx, ry, sx, sy)
        /\ Near(-rx, -ry, -sx, -sy) <=> Near(rx, ry, sx, sy)
    BY TurnRules
  <1>5. Figure(px, -py, sx, -sy, rx, -ry, qx, -qy, n)
    BY <1>1, <1>2, <1>3, <1>4 DEF Figure
  <1>6. Figure(-rx, -ry, -sx, -sy, -px, -py, -qx, -qy, n)
    BY <1>1, <1>2, <1>3, <1>4 DEF Figure
  <1> QED
    BY <1>5, <1>6

\* P above Q and right of it is impossible.
LEMMA NotLeftDown ==
    ASSUME NEW px \in Int, NEW py \in Int, NEW qx \in Int, NEW qy \in Int, NEW rx \in Int,
           NEW ry \in Int, NEW sx \in Int, NEW sy \in Int, NEW n \in Int,
           Figure(px, py, qx, qy, rx, ry, sx, sy, n)
    PROVE  ~(px < 0 /\ py > 0)
  <1> SUFFICES ASSUME px < 0, py > 0 PROVE FALSE
    OBVIOUS
  <1>1. PICK d, f, T : d = -px /\ f = -qx /\ T = -sy
    OBVIOUS
  <1>2. /\ d \in Int /\ f \in Int /\ T \in Int /\ d > 0
        /\ px = -d /\ qx = -f /\ sy = -T
    BY <1>1
  <1>3. /\ T >= py /\ n < 5 * d /\ sx < 5 * d /\ sx <= n /\ rx + sx = d + f /\ py + qy + ry = T
        /\ qy >= 0 /\ qy + ry >= 0 /\ n \in Nat
        /\ n < 5 * rx \/ n < -(5 * rx)
    BY <1>2 DEF Figure
  <1>4. /\ Turn(sx, -T, -d, py) > 0 /\ Turn(-d, py, -f, qy) > 0
        /\ Turn(-f, qy, rx, ry) > 0 /\ Turn(rx, ry, sx, -T) > 0
    BY <1>2 DEF Figure
  <1>5. ~Near(sx, -T, -d, py)
    BY <1>2, <1>3, <1>4, NotAtP
  <1>6. Near(-d, py, -f, qy) /\ Near(-f, qy, rx, ry) /\ Near(rx, ry, sx, -T)
    BY <1>2, <1>5 DEF Figure
  <1>7. Leaning(d, py, f, qy, rx, ry, sx, T, n)
    BY <1>2, <1>3, <1>4, <1>6 DEF Leaning
  <1> QED
    BY <1>2, <1>3, <1>7, NotAtQRS

\* So Q is right of P, and S left of R.
LEMMA Rightward ==
    ASSUME NEW px \in Int, NEW py \in Int, NEW qx \in Int, NEW qy \in Int, NEW rx \in Int,
           NEW ry \in Int, NEW sx \in Int, NEW sy \in Int, NEW n \in Int,
           Figure(px, py, qx, qy, rx, ry, sx, sy, n)
    PROVE  px > 0
  <1> SUFFICES ASSUME px < 0 PROVE FALSE
    BY DEF Figure
  <1>1. CASE py > 0
    BY <1>1, NotLeftDown
  <1>2. CASE py < 0
    <2>1. Figure(px, -py, sx, -sy, rx, -ry, qx, -qy, n)
      BY Mirrored
    <2>2. -py \in Int /\ -sy \in Int /\ -ry \in Int /\ -qy \in Int /\ -py > 0
      BY <1>2
    <2> QED
      BY <2>1, <2>2, NotLeftDown
  <1>3. CASE py = 0
    <2>1. Turn(sx, sy, px, py) > 0 /\ sy <= 0
      BY DEF Figure
    <2>2. sx * py - sy * px > 0
      BY <2>1 DEF Turn
    <2>3. PICK d, t : d = -px /\ t = -sy
      OBVIOUS
    <2>4. d \in Int /\ t \in Int /\ d > 0 /\ t >= 0 /\ px = -d /\ sy = -t
      BY <2>1, <2>3
    <2>5. sx * py = 0 /\ sy * px = d * t
      BY <1>3, <2>4
    <2>6. d * t >= 0
      BY <2>4, Positive
    <2> QED
      BY <2>2, <2>4, <2>5, <2>6
  <1> QED
    BY <1>1, <1>2, <1>3

LEMMA RoundAbout ==
    ASSUME NEW px \in Int, NEW py \in Int, NEW qx \in Int, NEW qy \in Int, NEW rx \in Int,
           NEW ry \in Int, NEW sx \in Int, NEW sy \in Int, NEW n \in Int,
           Figure(px, py, qx, qy, rx, ry, sx, sy, n)
    PROVE  px > 0 /\ rx < 0
  <1>1. px > 0
    BY Rightward
  <1>2. PICK a, b, c, d, e, f, g, h : /\ a = -rx /\ b = -ry /\ c = -sx /\ d = -sy
                                      /\ e = -px /\ f = -py /\ g = -qx /\ h = -qy
    OBVIOUS
  <1>3. /\ a \in Int /\ b \in Int /\ c \in Int /\ d \in Int
        /\ e \in Int /\ f \in Int /\ g \in Int /\ h \in Int
    BY <1>2
  <1>4. Figure(a, b, c, d, e, f, g, h, n)
    BY <1>2, Mirrored
  <1>5. a > 0
    BY <1>3, <1>4, Rightward
  <1> QED
    BY <1>1, <1>2, <1>5

\* The turn at O on the way from A to B, and whether it is nearly a right angle.
Bend(A, O, B) == Turn(O.x - A.x, O.y - A.y, B.x - O.x, B.y - O.y)
NearlyRight(A, O, B) == Near(O.x - A.x, O.y - A.y, B.x - O.x, B.y - O.y)

\* Four points go clockwise round a convex figure with right angles, three at least.
Round(P, Q, R, S) ==
    /\ Bend(S, P, Q) > 0 /\ Bend(P, Q, R) > 0 /\ Bend(Q, R, S) > 0 /\ Bend(R, S, P) > 0
    /\ \/ NearlyRight(S, P, Q)
       \/ NearlyRight(P, Q, R) /\ NearlyRight(Q, R, S) /\ NearlyRight(R, S, P)
    /\ \/ NearlyRight(P, Q, R)
       \/ NearlyRight(S, P, Q) /\ NearlyRight(Q, R, S) /\ NearlyRight(R, S, P)
    /\ \/ NearlyRight(Q, R, S)
       \/ NearlyRight(S, P, Q) /\ NearlyRight(P, Q, R) /\ NearlyRight(R, S, P)
    /\ \/ NearlyRight(R, S, P)
       \/ NearlyRight(S, P, Q) /\ NearlyRight(P, Q, R) /\ NearlyRight(Q, R, S)

LEMMA FromTheNext ==
    ASSUME NEW P, NEW Q, NEW R, NEW S, Round(P, Q, R, S)
    PROVE  Round(Q, R, S, P)
  BY DEF Round

\* The first two are the upper ones and far enough apart, like the last two.
LEMMA UpperLeftFirst ==
    ASSUME NEW P \in Point, NEW Q \in Point, NEW R \in Point, NEW S \in Point, NEW n \in Nat,
           Round(P, Q, R, S),
           P.x \in 0..n, Q.x \in 0..n, R.x \in 0..n, S.x \in 0..n,
           P.y <= R.y, P.y <= S.y, Q.y <= R.y, Q.y <= S.y,
           n < 5 * (Q.x - P.x) \/ n < 5 * (P.x - Q.x),
           n < 5 * (R.x - S.x) \/ n < 5 * (S.x - R.x)
    PROVE  P.x < Q.x /\ S.x < R.x
  <1>1. /\ P.x \in Int /\ P.y \in Int /\ Q.x \in Int /\ Q.y \in Int
        /\ R.x \in Int /\ R.y \in Int /\ S.x \in Int /\ S.y \in Int
    BY DEF Point
  <1>2. PICK px, py, qx, qy, rx, ry, sx, sy :
            /\ px = Q.x - P.x /\ py = Q.y - P.y /\ qx = R.x - Q.x /\ qy = R.y - Q.y
            /\ rx = S.x - R.x /\ ry = S.y - R.y /\ sx = P.x - S.x /\ sy = P.y - S.y
    OBVIOUS
  <1>3. /\ px \in Int /\ py \in Int /\ qx \in Int /\ qy \in Int
        /\ rx \in Int /\ ry \in Int /\ sx \in Int /\ sy \in Int
    BY <1>1, <1>2
  <1>4. /\ px + qx + rx + sx = 0 /\ py + qy + ry + sy = 0
        /\ qy >= 0 /\ sy <= 0 /\ py + qy >= 0 /\ qy + ry >= 0
        /\ qx <= n /\ -n <= qx /\ sx <= n /\ -n <= sx
        /\ n < 5 * px \/ n < -(5 * px)
        /\ n < 5 * rx \/ n < -(5 * rx)
    BY <1>1, <1>2
  <1>5. Figure(px, py, qx, qy, rx, ry, sx, sy, n)
    BY <1>2, <1>4 DEF Figure, Round, Bend, NearlyRight
  <1>6. n \in Int
    OBVIOUS
  <1>7. px > 0 /\ rx < 0
    BY <1>3, <1>5, <1>6, RoundAbout
  <1> QED
    BY <1>1, <1>2, <1>7

\* The upper points are not opposite each other: where the diagonals meet is no lower
\* than the one and no higher than the other.
LEMMA NotOpposite ==
    ASSUME NEW P \in Point, NEW Q \in Point, NEW R \in Point, NEW S \in Point,
           Round(P, Q, R, S),
           P.y <= Q.y, P.y <= S.y, R.y <= Q.y, R.y <= S.y, P.y < Q.y \/ P.y < S.y
    PROVE  FALSE
  <1>1. /\ P.x \in Int /\ P.y \in Int /\ Q.x \in Int /\ Q.y \in Int
        /\ R.x \in Int /\ R.y \in Int /\ S.x \in Int /\ S.y \in Int
    BY DEF Point
  <1>2. PICK a, b, c, d : /\ a = Bend(S, P, Q) /\ b = Bend(P, Q, R)
                          /\ c = Bend(Q, R, S) /\ d = Bend(R, S, P)
    OBVIOUS
  <1>3. a \in Int /\ b \in Int /\ c \in Int /\ d \in Int /\ a > 0 /\ b > 0 /\ c > 0 /\ d > 0
    BY <1>1, <1>2 DEF Round, Bend, Turn
  <1>4. PICK a1, a2, b1, b2, c1, c2 : /\ a1 = Q.x - P.x /\ a2 = Q.y - P.y /\ b1 = R.x - P.x
                                      /\ b2 = R.y - P.y /\ c1 = S.x - P.x /\ c2 = S.y - P.y
    OBVIOUS
  <1>5. a1 \in Int /\ a2 \in Int /\ b1 \in Int /\ b2 \in Int /\ c1 \in Int /\ c2 \in Int
    BY <1>1, <1>4
  <1>6. a2 >= 0 /\ c2 >= 0 /\ b2 <= a2 /\ b2 <= c2 /\ (a2 > 0 \/ c2 > 0)
    BY <1>1, <1>4
  <1>7. a = Turn(-c1, -c2, a1, a2) /\ b = Turn(a1, a2, b1 - a1, b2 - a2)
    BY <1>1, <1>2, <1>4 DEF Bend, Turn
  <1>8. c = Turn(b1 - a1, b2 - a2, c1 - b1, c2 - b2) /\ d = Turn(c1 - b1, c2 - b2, -c1, -c2)
    BY <1>1, <1>2, <1>4 DEF Bend, Turn
  <1>9. a = a1 * c2 - a2 * c1 /\ b = a1 * b2 - a2 * b1
    BY <1>5, <1>7 DEF Turn
  <1>10. d = b1 * c2 - b2 * c1 /\ a + c = b + d
    BY <1>5, <1>7, <1>8 DEF Turn
  <1>11. a * b2 = d * a2 + b * c2
    BY <1>5, <1>9, <1>10
  <1>12. CASE b2 <= 0
    <2>1. a * b2 <= 0
      BY <1>3, <1>5, <1>12
    <2>2. d * a2 >= 0 /\ b * c2 >= 0 /\ (d * a2 > 0 \/ b * c2 > 0)
      BY <1>3, <1>5, <1>6, Positive
    <2> QED
      BY <1>3, <1>5, <1>11, <2>1, <2>2
  <1>13. CASE b2 > 0
    <2>1. d * b2 <= d * a2 /\ b * b2 <= b * c2
      BY <1>3, <1>5, <1>6
    <2>2. c * b2 > 0
      BY <1>3, <1>5, <1>13, Positive
    <2>3. (a + c) * b2 = a * b2 + c * b2 /\ (b + d) * b2 = b * b2 + d * b2
      BY <1>3, <1>5
    <2> QED
      BY <1>3, <1>5, <1>10, <1>11, <2>1, <2>2, <2>3
  <1> QED
    BY <1>5, <1>12, <1>13

LEMMA AllDifferent ==
    ASSUME NEW P \in Point, NEW Q \in Point, NEW R \in Point, NEW S \in Point, Round(P, Q, R, S)
    PROVE  P # Q /\ P # R /\ P # S /\ Q # R /\ Q # S /\ R # S
  <1>1. \A X, Y, Z \in Point : Bend(X, Y, Z) > 0 => X # Y /\ Y # Z /\ X # Z
    <2> SUFFICES ASSUME NEW X \in Point, NEW Y \in Point, NEW Z \in Point, Bend(X, Y, Z) > 0
                 PROVE  X # Y /\ Y # Z /\ X # Z
      OBVIOUS
    <2>1. PICK a, b, c, d : a = Y.x - X.x /\ b = Y.y - X.y /\ c = Z.x - Y.x /\ d = Z.y - Y.y
      OBVIOUS
    <2>2. a \in Int /\ b \in Int /\ c \in Int /\ d \in Int
      BY <2>1 DEF Point
    <2>3. a * d - b * c > 0
      BY <2>1 DEF Bend, Turn
    <2>4. X # Y
      <3> SUFFICES ASSUME X = Y PROVE FALSE
        OBVIOUS
      <3>1. a = 0 /\ b = 0
        BY <2>1 DEF Point
      <3> QED
        BY <2>2, <2>3, <3>1
    <2>5. Y # Z
      <3> SUFFICES ASSUME Y = Z PROVE FALSE
        OBVIOUS
      <3>1. c = 0 /\ d = 0
        BY <2>1 DEF Point
      <3> QED
        BY <2>2, <2>3, <3>1
    <2>6. X # Z
      <3> SUFFICES ASSUME X = Z PROVE FALSE
        OBVIOUS
      <3>1. c = -a /\ d = -b
        BY <2>1 DEF Point
      <3> QED
        BY <2>2, <2>3, <3>1
    <2> QED
      BY <2>4, <2>5, <2>6
  <1> QED
    BY <1>1 DEF Round

\* What the sort and the two comparisons make of four points, and ~TooSmall.
Named(A, B, C, D, n) ==
    /\ A.y <= C.y /\ B.y <= D.y /\ A.y < D.y /\ B.y < C.y
    /\ A.x < B.x /\ D.x < C.x /\ n < 5 * (B.x - A.x) /\ n < 5 * (C.x - D.x)

\* Starting with the upper left corner, the others follow clockwise, ...
LEMMA ClockwiseFromFirst ==
    ASSUME NEW A \in Point, NEW B \in Point, NEW C \in Point, NEW D \in Point, NEW n \in Nat,
           A.x \in 0..n, B.x \in 0..n, C.x \in 0..n, D.x \in 0..n, Named(A, B, C, D, n),
           NEW Q \in {B, C, D}, NEW R \in {B, C, D}, NEW S \in {B, C, D}, Round(A, Q, R, S)
    PROVE  Round(A, B, C, D)
  <1>1. /\ A.x \in Int /\ A.y \in Int /\ B.x \in Int /\ B.y \in Int
        /\ C.x \in Int /\ C.y \in Int /\ D.x \in Int /\ D.y \in Int
        /\ Q \in Point /\ R \in Point /\ S \in Point
    BY DEF Point
  <1>2. Q # R /\ Q # S /\ R # S
    BY <1>1, AllDifferent
  <1>3. CASE Q = B /\ R = C
    BY <1>2, <1>3
  <1>4. CASE Q = B /\ R = D
    <2>1. S = C
      BY <1>2, <1>4
    <2>2. C.x < D.x
      BY <1>1, <1>4, <2>1, UpperLeftFirst DEF Named
    <2> QED
      BY <1>1, <2>2 DEF Named
  <1>5. CASE S = B
    <2>1. (Q = C /\ R = D) \/ (Q = D /\ R = C)
      BY <1>2, <1>5
    <2>2. Round(B, A, Q, R)
      BY <1>5, FromTheNext
    <2>3. /\ B.y <= Q.y /\ B.y <= R.y /\ A.y <= Q.y /\ A.y <= R.y /\ n < 5 * (B.x - A.x)
          /\ n < 5 * (Q.x - R.x) \/ n < 5 * (R.x - Q.x)
      BY <1>1, <2>1 DEF Named
    <2>4. Q.x \in 0..n /\ R.x \in 0..n
      BY <2>1
    <2>5. B.x < A.x
      BY <1>1, <2>2, <2>3, <2>4, UpperLeftFirst
    <2> QED
      BY <1>1, <2>5 DEF Named
  <1>6. CASE R = B
    <2>1. (Q = C /\ S = D) \/ (Q = D /\ S = C)
      BY <1>2, <1>6
    <2> QED
      BY <1>1, <1>6, <2>1, NotOpposite DEF Named
  <1> QED
    BY <1>2, <1>3, <1>4, <1>5, <1>6

\* The points of the contour and the corners are the same.
Among(A, B, C, D, P, Q, R, S) ==
    /\ P \in {A, B, C, D} /\ Q \in {A, B, C, D} /\ R \in {A, B, C, D} /\ S \in {A, B, C, D}
    /\ A \in {P, Q, R, S}

\* ... and so they do wherever the contour starts.
LEMMA Clockwise ==
    ASSUME NEW A \in Point, NEW B \in Point, NEW C \in Point, NEW D \in Point, NEW n \in Nat,
           A.x \in 0..n, B.x \in 0..n, C.x \in 0..n, D.x \in 0..n, Named(A, B, C, D, n),
           NEW P, NEW Q, NEW R, NEW S, Among(A, B, C, D, P, Q, R, S), Round(P, Q, R, S)
    PROVE  Round(A, B, C, D)
  <1> USE DEF Among
  <1>1. P \in Point /\ Q \in Point /\ R \in Point /\ S \in Point
    OBVIOUS
  <1>2. P # Q /\ P # R /\ P # S /\ Q # R /\ Q # S /\ R # S
    BY <1>1, AllDifferent
  <1>3. Round(Q, R, S, P) /\ Round(R, S, P, Q) /\ Round(S, P, Q, R)
    BY FromTheNext
  <1>4. CASE P = A
    <2>1. Q \in {B, C, D} /\ R \in {B, C, D} /\ S \in {B, C, D} /\ Round(A, Q, R, S)
      BY <1>2, <1>4
    <2> QED
      BY <2>1, ClockwiseFromFirst
  <1>5. CASE Q = A
    <2>1. R \in {B, C, D} /\ S \in {B, C, D} /\ P \in {B, C, D} /\ Round(A, R, S, P)
      BY <1>2, <1>3, <1>5
    <2> QED
      BY <2>1, ClockwiseFromFirst
  <1>6. CASE R = A
    <2>1. S \in {B, C, D} /\ P \in {B, C, D} /\ Q \in {B, C, D} /\ Round(A, S, P, Q)
      BY <1>2, <1>3, <1>6
    <2> QED
      BY <2>1, ClockwiseFromFirst
  <1>7. CASE S = A
    <2>1. P \in {B, C, D} /\ Q \in {B, C, D} /\ R \in {B, C, D} /\ Round(A, P, Q, R)
      BY <1>2, <1>3, <1>7
    <2> QED
      BY <2>1, ClockwiseFromFirst
  <1> QED
    BY <1>4, <1>5, <1>6, <1>7

\* A corner of the photo's grid, p, is so many grains to the right and down.
OnGrid(p, P) == p.x = Grain * P.x /\ p.y = Grain * P.y

\* What the scalar and the cross product lose by the division: nothing.
LEMMA ProductsOnGrid ==
    ASSUME NEW a \in Point, NEW b \in Point, NEW o \in Point,
           NEW A \in Point, NEW B \in Point, NEW O \in Point, OnGrid(a, A), OnGrid(b, B), OnGrid(o, O)
    PROVE  /\ Cross(a, b, o) = Turn(A.x - O.x, A.y - O.y, B.x - O.x, B.y - O.y)
           /\ Dot(a, b, o) = Along(A.x - O.x, A.y - O.y, B.x - O.x, B.y - O.y)
  <1>1. Grain \in Nat /\ Grain > 0
    BY PhotoAssumption
  <1>2. PICK g, k, l, m, n : /\ g = Grain * Grain /\ k = A.x - O.x /\ l = A.y - O.y
                             /\ m = B.x - O.x /\ n = B.y - O.y
    OBVIOUS
  <1>3. k \in Int /\ l \in Int /\ m \in Int /\ n \in Int
    BY <1>2 DEF Point
  <1>4. g \in Nat /\ g > 0
    BY <1>1, <1>2
  <1>5. \A i \in Int : (g * i) \div g = i
    BY <1>4
  <1>6. /\ a.x - o.x = Grain * k /\ a.y - o.y = Grain * l
        /\ b.x - o.x = Grain * m /\ b.y - o.y = Grain * n
    BY <1>1, <1>2 DEF OnGrid, Point
  <1>7. /\ (Grain * k) * (Grain * n) - (Grain * l) * (Grain * m) = g * (k * n - l * m)
        /\ (Grain * k) * (Grain * m) + (Grain * l) * (Grain * n) = g * (k * m + l * n)
    BY <1>1, <1>2, <1>3
  <1>8. k * n - l * m \in Int /\ k * m + l * n \in Int
    BY <1>3
  <1>9. Cross(a, b, o) = k * n - l * m
    BY <1>2, <1>5, <1>6, <1>7, <1>8 DEF Cross
  <1>10. Dot(a, b, o) = k * m + l * n
    BY <1>2, <1>5, <1>6, <1>7, <1>8 DEF Dot
  <1> QED
    BY <1>2, <1>9, <1>10 DEF Turn, Along

\* What NearlySquare says of the vectors to and from a corner.
LEMMA CosineBelow ==
    ASSUME NEW a \in Int, NEW b \in Int, NEW c \in Int, NEW d \in Int,
           100 * Along(a, b, c, d) * Along(a, b, c, d) < 9 * Along(a, b, a, b) * Along(c, d, c, d),
           Turn(a, b, c, d) > 0
    PROVE  Near(a, b, c, d)
  <1>1. PICK t, s, v, w : /\ t = Turn(a, b, c, d) /\ s = Along(a, b, c, d)
                          /\ v = Along(a, b, a, b) /\ w = Along(c, d, c, d)
    OBVIOUS
  <1>2. t \in Int /\ s \in Int /\ v \in Int /\ w \in Int /\ t > 0
    BY <1>1 DEF Turn, Along
  <1>3. v * w = s * s + t * t
    BY <1>1 DEF Turn, Along
  <1>4. PICK ss, tt : ss = s * s /\ tt = t * t
    OBVIOUS
  <1>5. ss \in Int /\ tt \in Int
    BY <1>2, <1>4
  <1>6. 91 * ss < 9 * tt
    <2>1. 100 * s * s = 100 * ss /\ 9 * v * w = 9 * (v * w)
      BY <1>2, <1>4
    <2> QED
      BY <1>1, <1>3, <1>4, <1>5, <2>1
  <1>7. ss >= 0
    BY <1>2, <1>4
  <1>8. \A z \in Int : z >= 0 /\ z * z = ss => 3 * z < t
    <2> SUFFICES ASSUME NEW z \in Int, z >= 0, z * z = ss, t <= 3 * z PROVE FALSE
      BY <1>2
    <2>1. t * t <= t * (3 * z)
      BY <1>2
    <2>2. z * t <= z * (3 * z)
      BY <1>2
    <2>3. tt <= 9 * ss
      BY <1>2, <1>4, <2>1, <2>2
    <2> QED
      BY <1>5, <1>6, <1>7, <2>3
  <1>9. 3 * s < t /\ -(3 * s) < t
    <2>1. CASE s >= 0
      BY <1>2, <1>4, <1>8, <2>1
    <2>2. CASE s < 0
      <3>1. PICK z \in Int : z = -s
        BY <1>2
      <3>2. z >= 0 /\ z * z = ss
        BY <1>2, <1>4, <2>2, <3>1
      <3>3. 3 * z < t
        BY <1>8, <3>2
      <3> QED
        BY <1>2, <2>2, <3>1, <3>3
    <2> QED
      BY <1>2, <2>1, <2>2
  <1> QED
    BY <1>1, <1>9 DEF Near

\* What is known of a corner O between A and B, in either direction.
Angle(a, o, b, A, O, B) ==
    /\ Cross(o, b, a) = Bend(A, O, B) /\ Bend(B, O, A) = -Bend(A, O, B)
    /\ Bend(A, O, B) \in Int
    /\ NearlySquare(b, a, o) /\ Bend(A, O, B) > 0 => NearlyRight(A, O, B)
    /\ NearlySquare(b, a, o) /\ Bend(B, O, A) > 0 => NearlyRight(B, O, A)

LEMMA AngleOnGrid ==
    ASSUME NEW a \in Point, NEW b \in Point, NEW o \in Point,
           NEW A \in Point, NEW B \in Point, NEW O \in Point, OnGrid(a, A), OnGrid(b, B), OnGrid(o, O)
    PROVE  Angle(a, o, b, A, O, B)
  <1>1. PICK k, l, m, n : /\ k = O.x - A.x /\ l = O.y - A.y /\ m = B.x - O.x /\ n = B.y - O.y
    OBVIOUS
  <1>2. k \in Int /\ l \in Int /\ m \in Int /\ n \in Int
    BY <1>1 DEF Point
  <1>3. A.x - O.x = -k /\ A.y - O.y = -l /\ O.x - B.x = -m /\ O.y - B.y = -n
        /\ B.x - A.x = k + m /\ B.y - A.y = l + n
    BY <1>1 DEF Point
  <1>4. Cross(o, b, a) = Bend(A, O, B)
    <2>1. Cross(o, b, a) = Turn(k, l, k + m, l + n)
      BY <1>1, <1>3, ProductsOnGrid
    <2> QED
      BY <1>1, <1>2, <2>1 DEF Bend, Turn
  <1>5. Bend(A, O, B) = Turn(k, l, m, n) /\ Bend(B, O, A) = Turn(-m, -n, -k, -l)
    BY <1>1, <1>3 DEF Bend
  <1>6. Bend(A, O, B) \in Int /\ Bend(B, O, A) = -Bend(A, O, B)
    BY <1>2, <1>5 DEF Turn
  <1>7. /\ Dot(b, a, o) = Along(m, n, -k, -l) /\ Dot(b, b, o) = Along(m, n, m, n)
        /\ Dot(a, a, o) = Along(-k, -l, -k, -l)
    BY <1>1, <1>3, ProductsOnGrid
  <1>8. PICK s, v, w : s = Along(k, l, m, n) /\ v = Along(k, l, k, l) /\ w = Along(m, n, m, n)
    OBVIOUS
  <1>9. s \in Int /\ v \in Int /\ w \in Int
    BY <1>2, <1>8 DEF Along
  <1>10. Dot(b, a, o) = -s /\ Dot(b, b, o) = w /\ Dot(a, a, o) = v
    BY <1>2, <1>7, <1>8 DEF Along
  <1>11. Along(-m, -n, -k, -l) = s /\ Along(-m, -n, -m, -n) = w /\ Along(-k, -l, -k, -l) = v
    BY <1>2, <1>8 DEF Along
  <1>12. NearlySquare(b, a, o) <=> 100 * s * s < 9 * v * w
    <2>1. 100 * (-s) * (-s) = 100 * s * s /\ 9 * w * v = 9 * v * w
      BY <1>9
    <2> QED
      BY <1>10, <2>1 DEF NearlySquare
  <1>13. ASSUME NearlySquare(b, a, o), Bend(A, O, B) > 0 PROVE NearlyRight(A, O, B)
    <2>1. Near(k, l, m, n)
      BY <1>2, <1>5, <1>8, <1>12, <1>13, CosineBelow
    <2> QED
      BY <1>1, <2>1 DEF NearlyRight
  <1>14. ASSUME NearlySquare(b, a, o), Bend(B, O, A) > 0 PROVE NearlyRight(B, O, A)
    <2>1. -k \in Int /\ -l \in Int /\ -m \in Int /\ -n \in Int
      BY <1>2
    <2>2. 100 * s * s < 9 * w * v
      <3>1. 9 * v * w = 9 * w * v
        BY <1>9
      <3> QED
        BY <1>12, <1>14, <3>1
    <2>3. Near(-m, -n, -k, -l)
      BY <1>5, <1>11, <1>14, <2>1, <2>2, CosineBelow
    <2> QED
      BY <1>3, <2>3 DEF NearlyRight
  <1> QED
    BY <1>4, <1>6, <1>13, <1>14 DEF Angle

\* Every second turn of a sequence of four, by IsContourConvex and IsSquare.
LEMMA ContourGoesRound ==
    ASSUME NEW q \in Quad, NEW u \in Quad, \A i \in 1..4 : OnGrid(q[i], u[i]), IsSquare(q)
    PROVE  Round(u[1], u[2], u[3], u[4]) \/ Round(u[4], u[3], u[2], u[1])
  <1>1. PICK p1, p2, p3, p4, u1, u2, u3, u4 :
            /\ p1 = q[1] /\ p2 = q[2] /\ p3 = q[3] /\ p4 = q[4]
            /\ u1 = u[1] /\ u2 = u[2] /\ u3 = u[3] /\ u4 = u[4]
    OBVIOUS
  <1>2. /\ p1 \in Point /\ p2 \in Point /\ p3 \in Point /\ p4 \in Point
        /\ u1 \in Point /\ u2 \in Point /\ u3 \in Point /\ u4 \in Point
        /\ OnGrid(p1, u1) /\ OnGrid(p2, u2) /\ OnGrid(p3, u3) /\ OnGrid(p4, u4)
    BY <1>1 DEF Quad
  <1>3. /\ NearlySquare(p3, p1, p2) /\ NearlySquare(p4, p2, p3) /\ NearlySquare(p1, p3, p4)
    BY <1>1 DEF IsSquare
  <1>4. PICK turn : turn = [i \in 1..4 |-> Cross(q[(i % 4) + 1], q[((i + 1) % 4) + 1], q[i])]
    OBVIOUS
  <1>5. (\A i \in 1..4 : turn[i] > 0) \/ (\A i \in 1..4 : turn[i] < 0)
    BY <1>4 DEF IsSquare, IsContourConvex
  <1>6. /\ turn[1] = Cross(p2, p3, p1) /\ turn[2] = Cross(p3, p4, p2)
        /\ turn[3] = Cross(p4, p1, p3) /\ turn[4] = Cross(p1, p2, p4)
    BY <1>1, <1>4
  <1>7. PICK b1, b2, b3, b4 : /\ b1 = Bend(u4, u1, u2) /\ b2 = Bend(u1, u2, u3)
                              /\ b3 = Bend(u2, u3, u4) /\ b4 = Bend(u3, u4, u1)
    OBVIOUS
  <1>8. /\ Angle(p4, p1, p2, u4, u1, u2) /\ Angle(p1, p2, p3, u1, u2, u3)
        /\ Angle(p2, p3, p4, u2, u3, u4) /\ Angle(p3, p4, p1, u3, u4, u1)
    BY <1>2, AngleOnGrid
  <1>9. /\ turn[1] = b2 /\ turn[2] = b3 /\ turn[3] = b4 /\ turn[4] = b1
        /\ b1 \in Int /\ b2 \in Int /\ b3 \in Int /\ b4 \in Int
        /\ Bend(u2, u1, u4) = -b1 /\ Bend(u3, u2, u1) = -b2
        /\ Bend(u4, u3, u2) = -b3 /\ Bend(u1, u4, u3) = -b4
    BY <1>6, <1>7, <1>8 DEF Angle
  <1>10. CASE \A i \in 1..4 : turn[i] > 0
    <2>1. b1 > 0 /\ b2 > 0 /\ b3 > 0 /\ b4 > 0
      BY <1>9, <1>10
    <2>2. NearlyRight(u1, u2, u3) /\ NearlyRight(u2, u3, u4) /\ NearlyRight(u3, u4, u1)
      BY <1>3, <1>7, <1>8, <2>1 DEF Angle
    <2>3. Round(u1, u2, u3, u4)
      BY <1>7, <2>1, <2>2 DEF Round
    <2> QED
      BY <1>1, <2>3
  <1>11. CASE \A i \in 1..4 : turn[i] < 0
    <2>1. Bend(u2, u1, u4) > 0 /\ Bend(u3, u2, u1) > 0 /\ Bend(u4, u3, u2) > 0 /\ Bend(u1, u4, u3) > 0
      BY <1>9, <1>11
    <2>2. NearlyRight(u3, u2, u1) /\ NearlyRight(u4, u3, u2) /\ NearlyRight(u1, u4, u3)
      BY <1>3, <1>8, <2>1 DEF Angle
    <2>3. Round(u4, u3, u2, u1)
      BY <2>1, <2>2 DEF Round
    <2> QED
      BY <1>1, <2>3
  <1> QED
    BY <1>5, <1>10, <1>11

\* The grain that a point of the photo's grid is in.
Cell(p) == At(p.x \div Grain, p.y \div Grain)

OnPaper(p) == /\ p.x \in 0..Width /\ p.x % Grain = 0
              /\ p.y \in 0..Height /\ p.y % Grain = 0

LEMMA CellFacts ==
    ASSUME NEW p \in Point, OnPaper(p)
    PROVE  Cell(p) \in Point /\ OnGrid(p, Cell(p)) /\ Cell(p).x \in 0..(Width \div Grain)
  <1>1. PICK g, x, y : g = Grain /\ x = p.x /\ y = p.y
    OBVIOUS
  <1>2. /\ g \in Nat /\ g > 0 /\ Width \in Nat
        /\ x \in Nat /\ y \in Nat /\ x <= Width /\ x % g = 0 /\ y % g = 0
    BY <1>1, PhotoAssumption DEF OnPaper
  <1>3. x = g * (x \div g) /\ x \div g \in Nat
    BY <1>2
  <1>4. y = g * (y \div g) /\ y \div g \in Nat
    BY <1>2
  <1>5. x \div g <= Width \div g /\ Width \div g \in Nat
    BY <1>2
  <1>6. Cell(p).x = x \div g /\ Cell(p).y = y \div g
    BY <1>1 DEF Cell, At
  <1>7. Cell(p) \in Point
    BY <1>1, <1>3, <1>4 DEF Cell, At, Point
  <1> QED
    BY <1>1, <1>3, <1>4, <1>5, <1>6, <1>7 DEF OnGrid

\* What the sort leaves of the points, ...
LEMMA CornersFromContour ==
    ASSUME NEW q \in Quad, NEW c, c = Corners(q)
    PROVE  /\ c.tl \in Point /\ c.tr \in Point /\ c.br \in Point /\ c.bl \in Point
           /\ c.tl.y <= c.bl.y /\ c.tl.y <= c.br.y /\ c.tr.y <= c.bl.y /\ c.tr.y <= c.br.y
           /\ \A i \in 1..4 : q[i] \in {c.tl, c.tr, c.br, c.bl}
           /\ \A p \in {c.tl, c.tr, c.br, c.bl} : \E i \in 1..4 : p = q[i]
  <1>1. PICK s : s = SortByHeight(q)
    OBVIOUS
  <1>2. /\ s \in Quad
        /\ s[1].y <= s[2].y /\ s[2].y <= s[3].y /\ s[3].y <= s[4].y
        /\ \A i \in 1..4 : \E j \in 1..4 : s[j] = q[i]
        /\ \A j \in 1..4 : \E i \in 1..4 : s[j] = q[i]
    BY <1>1, SortFacts
  <1>3. PICK t, b : /\ t = (IF s[1].x < s[2].x THEN <<s[1], s[2]>> ELSE <<s[2], s[1]>>)
                    /\ b = (IF s[3].x < s[4].x THEN <<s[3], s[4]>> ELSE <<s[4], s[3]>>)
    OBVIOUS
  <1>4. c = [tl |-> t[1], tr |-> t[2], br |-> b[2], bl |-> b[1]]
    BY <1>1, <1>3 DEF Corners
  <1>5. /\ s[1] \in Point /\ s[2] \in Point /\ s[3] \in Point /\ s[4] \in Point
        /\ s[1].y \in Int /\ s[2].y \in Int /\ s[3].y \in Int /\ s[4].y \in Int
    BY <1>2 DEF Quad, Point
  <1>6. (c.tl = s[1] /\ c.tr = s[2]) \/ (c.tl = s[2] /\ c.tr = s[1])
    BY <1>3, <1>4
  <1>7. (c.bl = s[3] /\ c.br = s[4]) \/ (c.bl = s[4] /\ c.br = s[3])
    BY <1>3, <1>4
  <1>8. \A j \in 1..4 : s[j] \in {c.tl, c.tr, c.br, c.bl}
    <2>1. \A j \in 1..4 : j = 1 \/ j = 2 \/ j = 3 \/ j = 4
      OBVIOUS
    <2> QED
      BY <1>6, <1>7, <2>1
  <1>9. \A p \in {c.tl, c.tr, c.br, c.bl} : \E j \in 1..4 : p = s[j]
    <2>1. 1 \in 1..4 /\ 2 \in 1..4 /\ 3 \in 1..4 /\ 4 \in 1..4
      OBVIOUS
    <2> QED
      BY <1>6, <1>7, <2>1
  <1> QED
    BY <1>2, <1>5, <1>6, <1>7, <1>8, <1>9

\* ... if it is not too small.
LEMMA FarApart ==
    ASSUME NEW a \in Int, NEW b \in Int, NEW A \in Int, NEW B \in Int, NEW size \in Nat,
           size % Grain = 0, a = Grain * A, b = Grain * B, b - a > size \div 5
    PROVE  size \div Grain < 5 * (B - A) /\ A < B
  <1>1. PICK g, n, k, f : g = Grain /\ n = size \div Grain /\ k = B - A /\ f = size \div 5
    OBVIOUS
  <1>2. g \in Nat /\ g > 0 /\ k \in Int
    BY <1>1, PhotoAssumption
  <1>3. size = g * n /\ n \in Nat
    BY <1>1, <1>2
  <1>4. f \in Nat /\ size < 5 * f + 5
    BY <1>1
  <1>5. b - a = g * k
    BY <1>1, <1>2
  <1>6. g * k >= f + 1
    BY <1>1, <1>2, <1>4, <1>5
  <1>7. g * n < g * (5 * k)
    BY <1>2, <1>3, <1>4, <1>6
  <1>8. n < 5 * k
    BY <1>2, <1>3, <1>7, TimesLess
  <1> QED
    BY <1>1, <1>2, <1>3, <1>8

\* What find_squares returns.
Found(s) ==
    /\ s \in Seq(Quad)
    /\ \A i \in DOMAIN s : IsSquare(s[i]) /\ \A k \in 1..4 : OnPaper(s[i][k])

\* The turns of a frame all go clockwise.
ClockwiseFrame(c) ==
    LET q == <<c.tl, c.tr, c.br, c.bl>>
    IN  \A i \in 1..4 : Cross(q[(i % 4) + 1], q[((i + 1) % 4) + 1], q[i]) > 0

\* They do if those of the cells do.
LEMMA CellsGoClockwise ==
    ASSUME NEW c, c.tl \in Point, c.tr \in Point, c.br \in Point, c.bl \in Point,
           NEW A \in Point, NEW B \in Point, NEW C \in Point, NEW D \in Point,
           OnGrid(c.tl, A), OnGrid(c.tr, B), OnGrid(c.br, C), OnGrid(c.bl, D),
           Bend(D, A, B) > 0, Bend(A, B, C) > 0, Bend(B, C, D) > 0, Bend(C, D, A) > 0
    PROVE  ClockwiseFrame(c)
  <1>1. /\ Angle(c.bl, c.tl, c.tr, D, A, B) /\ Angle(c.tl, c.tr, c.br, A, B, C)
        /\ Angle(c.tr, c.br, c.bl, B, C, D) /\ Angle(c.br, c.bl, c.tl, C, D, A)
    BY AngleOnGrid
  <1>2. /\ Cross(c.tl, c.tr, c.bl) > 0 /\ Cross(c.tr, c.br, c.tl) > 0
        /\ Cross(c.br, c.bl, c.tr) > 0 /\ Cross(c.bl, c.tl, c.br) > 0
    BY <1>1 DEF Angle
  <1>3. PICK q : q = <<c.tl, c.tr, c.br, c.bl>>
    OBVIOUS
  <1>4. \A i \in 1..4 : Cross(q[(i % 4) + 1], q[((i + 1) % 4) + 1], q[i]) > 0
    <2>1. \A i \in 1..4 : i = 1 \/ i = 2 \/ i = 3 \/ i = 4
      OBVIOUS
    <2>2. /\ Cross(q[2], q[3], q[1]) > 0 /\ Cross(q[3], q[4], q[2]) > 0
          /\ Cross(q[4], q[1], q[3]) > 0 /\ Cross(q[1], q[2], q[4]) > 0
      BY <1>2, <1>3
    <2> QED
      BY <2>1, <2>2
  <1> QED
    BY <1>3, <1>4 DEF ClockwiseFrame

\* The whole photo.
LEMMA PhotoGoesClockwise == ClockwiseFrame(Rectangle(0, 0, Width, Height))
  <1>1. PICK g, m, n : g = Grain /\ m = Width \div Grain /\ n = Height \div Grain
    OBVIOUS
  <1>2. /\ g \in Nat /\ g > 0 /\ Width = g * m /\ Height = g * n
        /\ m \in Nat /\ n \in Nat /\ m > 0 /\ n > 0
    <2>1. g \in Nat /\ g > 0 /\ Width \in Nat /\ Height \in Nat /\ Width > 0 /\ Height > 0
          /\ Width % g = 0 /\ Height % g = 0
      BY <1>1, PhotoAssumption
    <2>2. Width = g * m /\ m \in Nat
      BY <1>1, <2>1
    <2>3. Height = g * n /\ n \in Nat
      BY <1>1, <2>1
    <2> QED
      BY <2>1, <2>2, <2>3
  <1>3. PICK c : c = Rectangle(0, 0, Width, Height)
    OBVIOUS
  <1>4. c.tl = At(0, 0) /\ c.tr = At(Width, 0) /\ c.br = At(Width, Height) /\ c.bl = At(0, Height)
    BY <1>3 DEF Rectangle
  <1>5. PICK A, B, C, D : A = At(0, 0) /\ B = At(m, 0) /\ C = At(m, n) /\ D = At(0, n)
    OBVIOUS
  <1>6. /\ A \in Point /\ B \in Point /\ C \in Point /\ D \in Point
        /\ c.tl \in Point /\ c.tr \in Point /\ c.br \in Point /\ c.bl \in Point
    BY <1>2, <1>4, <1>5, PhotoAssumption DEF At, Point
  <1>7. OnGrid(c.tl, A) /\ OnGrid(c.tr, B) /\ OnGrid(c.br, C) /\ OnGrid(c.bl, D)
    BY <1>1, <1>2, <1>4, <1>5 DEF OnGrid, At
  <1>8. m * n > 0
    BY <1>2, Positive
  <1>9. Bend(D, A, B) > 0 /\ Bend(A, B, C) > 0 /\ Bend(B, C, D) > 0 /\ Bend(C, D, A) > 0
    BY <1>2, <1>5, <1>8 DEF Bend, Turn, At
  <1> QED
    BY <1>3, <1>6, <1>7, <1>9, CellsGoClockwise

\* The corners of any contour that find_squares keeps, and wherever it starts.
LEMMA ContourGoesClockwise ==
    ASSUME NEW q \in Quad, IsSquare(q), \A k \in 1..4 : OnPaper(q[k]), ~TooSmall(Corners(q))
    PROVE  ClockwiseFrame(Corners(q))
  <1>1. PICK c : c = Corners(q)
    OBVIOUS
  <1>2. PICK u : u = [k \in 1..4 |-> Cell(q[k])]
    OBVIOUS
  <1>3. /\ u \in Quad /\ \A k \in 1..4 : OnGrid(q[k], u[k])
    BY <1>2, CellFacts DEF Quad
  <1>4. Round(u[1], u[2], u[3], u[4]) \/ Round(u[4], u[3], u[2], u[1])
    BY <1>3, ContourGoesRound
  <1>5. PICK A, B, C, D : A = Cell(c.tl) /\ B = Cell(c.tr) /\ C = Cell(c.br) /\ D = Cell(c.bl)
    OBVIOUS
  <1>6. /\ c.tl \in Point /\ c.tr \in Point /\ c.br \in Point /\ c.bl \in Point
        /\ c.tl.y <= c.bl.y /\ c.tl.y <= c.br.y /\ c.tr.y <= c.bl.y /\ c.tr.y <= c.br.y
        /\ \A i \in 1..4 : q[i] \in {c.tl, c.tr, c.br, c.bl}
        /\ \A p \in {c.tl, c.tr, c.br, c.bl} : \E i \in 1..4 : p = q[i]
    BY <1>1, CornersFromContour
  <1>7. OnPaper(c.tl) /\ OnPaper(c.tr) /\ OnPaper(c.br) /\ OnPaper(c.bl)
    BY <1>6
  <1>8. PICK n : n = Width \div Grain
    OBVIOUS
  <1>9. /\ A \in Point /\ B \in Point /\ C \in Point /\ D \in Point
        /\ OnGrid(c.tl, A) /\ OnGrid(c.tr, B) /\ OnGrid(c.br, C) /\ OnGrid(c.bl, D)
        /\ A.x \in 0..n /\ B.x \in 0..n /\ C.x \in 0..n /\ D.x \in 0..n
    BY <1>5, <1>6, <1>7, <1>8, CellFacts
  <1>10. n \in Nat
    BY <1>8, PhotoAssumption
  <1>11. Named(A, B, C, D, n)
    <2>1. /\ A.x \in Int /\ A.y \in Int /\ B.x \in Int /\ B.y \in Int
          /\ C.x \in Int /\ C.y \in Int /\ D.x \in Int /\ D.y \in Int
          /\ c.tl.x \in Int /\ c.tl.y \in Int /\ c.tr.x \in Int /\ c.tr.y \in Int
          /\ c.br.x \in Int /\ c.br.y \in Int /\ c.bl.x \in Int /\ c.bl.y \in Int
      BY <1>6, <1>9 DEF Point
    <2>2. /\ c.tr.x - c.tl.x > Width \div 5 /\ c.br.x - c.bl.x > Width \div 5
          /\ c.bl.y - c.tl.y > Height \div 5 /\ c.br.y - c.tr.y > Height \div 5
      <3>1. Width \div 5 \in Int /\ Height \div 5 \in Int
        BY PhotoAssumption
      <3> QED
        BY <1>1, <2>1, <3>1 DEF TooSmall
    <2>3. Width \in Nat /\ Height \in Nat /\ Width % Grain = 0 /\ Height % Grain = 0
      BY PhotoAssumption
    <2>4. n < 5 * (B.x - A.x) /\ A.x < B.x
      BY <1>8, <1>9, <2>1, <2>2, <2>3, FarApart DEF OnGrid
    <2>5. n < 5 * (C.x - D.x) /\ D.x < C.x
      BY <1>8, <1>9, <2>1, <2>2, <2>3, FarApart DEF OnGrid
    <2>6. A.y < D.y
      BY <1>9, <2>1, <2>2, <2>3, FarApart DEF OnGrid
    <2>7. B.y < C.y
      BY <1>9, <2>1, <2>2, <2>3, FarApart DEF OnGrid
    <2>8. A.y <= C.y /\ B.y <= D.y
      <3>1. \A i, j \in Int : Grain * i <= Grain * j => i <= j
        BY PhotoAssumption
      <3>2. Grain * A.y <= Grain * C.y /\ Grain * B.y <= Grain * D.y
        BY <1>6, <1>9 DEF OnGrid
      <3> QED
        BY <2>1, <3>1, <3>2
    <2> QED
      BY <2>4, <2>5, <2>6, <2>7, <2>8 DEF Named
  <1>12. /\ \A k \in 1..4 : u[k] \in {A, B, C, D}
         /\ \E k \in 1..4 : A = u[k]
    BY <1>2, <1>5, <1>6
  <1>13. /\ u[1] \in {A, B, C, D} /\ u[2] \in {A, B, C, D}
         /\ u[3] \in {A, B, C, D} /\ u[4] \in {A, B, C, D}
         /\ A \in {u[1], u[2], u[3], u[4]} /\ A \in {u[4], u[3], u[2], u[1]}
    BY <1>12
  <1>14. PICK u1, u2, u3, u4 : u1 = u[1] /\ u2 = u[2] /\ u3 = u[3] /\ u4 = u[4]
    OBVIOUS
  <1>15. CASE Round(u1, u2, u3, u4)
    <2>1. Among(A, B, C, D, u1, u2, u3, u4)
      BY <1>13, <1>14 DEF Among
    <2>2. Round(A, B, C, D)
      BY <1>9, <1>10, <1>11, <1>15, <2>1, Clockwise
    <2> QED
      BY <1>1, <1>6, <1>9, <2>2, CellsGoClockwise DEF Round
  <1>16. CASE Round(u4, u3, u2, u1)
    <2>1. Among(A, B, C, D, u4, u3, u2, u1)
      BY <1>13, <1>14 DEF Among
    <2>2. Round(A, B, C, D)
      BY <1>9, <1>10, <1>11, <1>16, <2>1, Clockwise
    <2> QED
      BY <1>1, <1>6, <1>9, <2>2, CellsGoClockwise DEF Round
  <1> QED
    BY <1>4, <1>14, <1>15, <1>16

\* The frame that detectCardVisit makes of all that find_squares returns.
LEMMA DetectionGoesClockwise ==
    ASSUME NEW s, Found(s), s # <<>>
    PROVE  ClockwiseFrame(DetectCardVisit(s))
  <1>1. s \in Seq(Quad)
    BY DEF Found
  <1>2. PICK i \in DOMAIN s : FindLargestSquare(s) = s[i]
    BY <1>1, LargestIsFound
  <1>3. PICK q : q = s[i]
    OBVIOUS
  <1>4. q \in Quad
    BY <1>1, <1>3
  <1>5. IsSquare(q) /\ \A k \in 1..4 : OnPaper(q[k])
    BY <1>3 DEF Found
  <1>6. DetectCardVisit(s) = IF TooSmall(Corners(q)) THEN Rectangle(0, 0, Width, Height) ELSE Corners(q)
    BY <1>2, <1>3 DEF DetectCardVisit
  <1> QED
    BY <1>4, <1>5, <1>6, PhotoGoesClockwise, ContourGoesClockwise

-----------------------------------------------------------------------------
(* The invariant.                                                          *)

\* What the frame looks like is known as long as it is sound.
Upright == sound => Settled(frame, shifts)

IInv == TypeOK /\ Found(squares) /\ Upright

LEMMA SpreadType ==
    ASSUME NEW f, NEW lost
    PROVE  Spread(f, lost) \in BOOLEAN
  BY DEF Spread

LEMMA TypeFacts ==
    ASSUME TypeOK
    PROVE  /\ frame \in Frame /\ edge \in (SUBSET Edges) \cup {{"move"}}
           /\ left \in Nat /\ shifts \in Nat /\ sound \in BOOLEAN
  BY DEF TypeOK, Frame, FourCorners, Point

LEMMA InitIInv == Init => IInv
  <1> SUFFICES ASSUME Init PROVE IInv
    OBVIOUS
  <1>1. PICK photo \in Photos : squares = photo.squares /\ left = photo.moves
    BY DEF Init
  <1>2. squares \in Seq(Quad) /\ left \in Nat
    BY <1>1, InputAssumption DEF Quad, Point
  <1>6. Found(squares)
    <2>1. \A i \in DOMAIN squares : IsSquare(squares[i]) /\ \A k \in 1..4 : OnPaper(squares[i][k])
      BY <1>1, SquaresAssumption DEF OnPaper
    <2> QED
      BY <1>2, <2>1 DEF Found
  <1>3. frame \in Frame
    BY <1>2, DefaultFrameType DEF Init
  <1>4. TypeOK
    BY <1>2, <1>3, SpreadType DEF Init, TypeOK, Frame, FourCorners, Point
  <1>5. Upright
    BY <1>3, SpreadSettles DEF Init, Upright
  <1> QED
    BY <1>2, <1>3, <1>4, <1>5, <1>6 DEF Init, IInv

\* A rotation, and every step that leaves the frame alone.
LEMMA FrameStays ==
    ASSUME IInv, UNCHANGED <<frame, sound, shifts>>
    PROVE  Upright'
  BY DEF IInv, Upright, Settled, Ordered

LEMMA PressStep ==
    ASSUME IInv, NEW e \in ((SUBSET Edges) \ {{}}) \cup {{"move"}}, Press(e)
    PROVE  IInv'
  <1>1. TypeOK'
    <2>1. edge' \in (SUBSET Edges) \cup {{"move"}}
      BY DEF Press
    <2> QED
      BY <2>1 DEF IInv, TypeOK, Press
  <1>2. Upright'
    BY FrameStays DEF Press
  <1> QED
    BY <1>1, <1>2 DEF IInv, Press

LEMMA DragStep ==
    ASSUME IInv, NEW d \in Distances, Drag(d)
    PROVE  IInv'
  <1>1. d \in Int \X Int
    BY InputAssumption
  <1>2. PICK f, n, e : f = frame /\ n = shifts /\ e = edge
    OBVIOUS
  <1>3. f \in Frame /\ n \in Nat /\ e \in (SUBSET Edges) \cup {{"move"}}
    BY <1>2, TypeFacts DEF IInv
  <1>4. left' \in Nat
    BY TypeFacts DEF IInv, Drag
  <1>5. sound' \in BOOLEAN /\ UNCHANGED <<squares, edge>>
    BY DEF Drag
  <1>6. ASSUME frame' \in Frame, shifts' \in Nat, Upright' PROVE IInv'
    <2>1. TypeOK'
      BY <1>4, <1>5, <1>6 DEF IInv, TypeOK, Frame, FourCorners, Point
    <2> QED
      BY <1>5, <1>6, <2>1 DEF IInv
  <1>7. CASE e = {"move"}
    <2>1. frame' = MoveBy(f, d) /\ shifts' = n + 1
      BY <1>2, <1>7 DEF Drag
    <2>2. frame' \in Frame /\ (Settled(f, n) => Settled(MoveBy(f, d), n + 1))
      BY <1>1, <1>3, <2>1, MoveSettled
    <2>3. Upright'
      BY <1>2, <2>1, <2>2 DEF IInv, Upright, Drag
    <2> QED
      BY <1>3, <1>6, <2>1, <2>2, <2>3
  <1>8. CASE e # {"move"}
    <2>1. frame' = GrowBy(f, e, d) /\ shifts' = n /\ e \in SUBSET Edges
      <3>1. e \in SUBSET Edges
        BY <1>3, <1>8
      <3>2. edge # {"move"}
        BY <1>2, <1>8
      <3> QED
        BY <1>2, <3>1, <3>2 DEF Drag
    <2>2. /\ frame' \in Frame
          /\ Settled(f, n) /\ ~Slides(e, d) => Settled(GrowBy(f, e, d), n)
      BY <1>1, <1>3, <2>1, GrowSettled
    <2>3. Upright'
      BY <1>2, <2>1, <2>2 DEF IInv, Upright, Drag
    <2> QED
      BY <1>3, <1>6, <2>1, <2>2, <2>3
  <1> QED
    BY <1>7, <1>8

LEMMA RotateStep ==
    ASSUME TypeOK, Found(squares), Rotate
    PROVE  IInv'
  <1>1. PICK f : f = DefaultFrame
    OBVIOUS
  <1>2. frame' = f /\ UNCHANGED <<squares, edge, left>>
    BY <1>1 DEF Rotate
  <1>3. f \in Frame
    BY <1>1, DefaultFrameType DEF Found
  <1>4. sound' = Spread(f, 0) /\ shifts' = 0
    BY <1>2 DEF Rotate
  <1>5. TypeOK'
    BY <1>2, <1>3, <1>4, SpreadType DEF TypeOK, Frame, FourCorners, Point
  <1>6. Upright'
    BY <1>2, <1>3, <1>4, SpreadSettles DEF Upright
  <1> QED
    BY <1>2, <1>5, <1>6 DEF IInv

LEMMA ReleaseStep ==
    ASSUME IInv, Release
    PROVE  IInv'
  <1>1. Upright'
    BY FrameStays DEF Release
  <1> QED
    BY <1>1 DEF IInv, TypeOK, Release

LEMMA StillStep ==
    ASSUME IInv, UNCHANGED vars
    PROVE  IInv'
  BY FrameStays DEF vars, IInv, TypeOK

-----------------------------------------------------------------------------
(* The task.                                                               *)

\* What the task has read and computed, as long as nothing came in between.
Computed ==
    spoilt = {} =>
      /\ pc = "copy" => points = frame
      /\ pc \in {"sides", "pull"} => scratch = points
      /\ pc = "pull" => sides = SidesOf(points)
      /\ pc = "bound" => /\ scratch = PulledOut(points, SidesOf(points).w, SidesOf(points).h)
                         /\ unit = UnitOf(SidesOf(points).w, SidesOf(points).h)
      /\ pc = "cut" => box = BoxAround(points)

Lengths == [w : Int \X Int, h : Int \X Int]
BoxTypes ==
    /\ pc \in TaskPoints /\ points \in Frame /\ scratch \in Frame
    /\ unit \in [x : Nat, y : Nat] /\ sides \in Lengths
    /\ box \in [left : Int, right : Int, top : Int, bottom : Int]
    /\ shown \subseteq {"points", "box"} /\ spoilt \subseteq {"rotated", "drawn"}

BInv == IInv /\ BoxTypes /\ Computed

LEMMA SidesType ==
    ASSUME NEW f \in Frame
    PROVE  SidesOf(f) \in Lengths
  BY FrameFacts DEF SidesOf, Lengths

LEMMA ScaleTypes ==
    ASSUME NEW w \in Int \X Int, NEW h \in Int \X Int
    PROVE  HeightScale(w) \in [s : Int, d : Int] /\ WidthScale(w, h) \in [s : Int, d : Int]
  <1>1. PICK w1, w2, h1, h2 : w1 = w[1] /\ w2 = w[2] /\ h1 = h[1] /\ h2 = h[2]
    OBVIOUS
  <1>2. w1 \in Int /\ w2 \in Int /\ h1 \in Int /\ h2 \in Int
    BY <1>1
  <1>3. PICK dv, sv, hm, k : /\ dv = Most(w1, w2) /\ sv = Stretched(w1, w2)
                             /\ hm = Most(h1, h2) /\ k = Abs(h1 - h2)
    OBVIOUS
  <1>4. dv \in Int /\ sv \in Int /\ hm \in Int /\ k \in Int
    BY <1>2, <1>3 DEF Most, Stretched, Abs
  <1>5. hm * sv \in Int /\ k * dv \in Int
    BY <1>4
  <1>6. HeightScale(w) = [s |-> sv, d |-> dv]
    BY <1>1, <1>3 DEF HeightScale
  <1>7. WidthScale(w, h) = [s |-> hm * sv + k * dv, d |-> hm * sv]
    BY <1>1, <1>3, <1>6 DEF WidthScale
  <1> QED
    BY <1>4, <1>5, <1>6, <1>7

\* Pulling the sides leaves a frame.
LEMMA PulledType ==
    ASSUME NEW f \in Frame, NEW w \in Int \X Int, NEW h \in Int \X Int
    PROVE  PulledOut(f, w, h) \in Frame /\ UnitOf(w, h) \in [x : Nat, y : Nat]
  <1>1. PICK x, y : x = WidthScale(w, h) /\ y = HeightScale(w)
    OBVIOUS
  <1>2. x \in [s : Int, d : Int] /\ y \in [s : Int, d : Int]
    BY <1>1, ScaleTypes
  <1>3. PICK w1, w2, h1, h2 : w1 = w[1] /\ w2 = w[2] /\ h1 = h[1] /\ h2 = h[2]
    OBVIOUS
  <1>4. w1 \in Int /\ w2 \in Int /\ h1 \in Int /\ h2 \in Int
    BY <1>3
  <1>5. PICK a1, a2, b1, b2, c1, c2, d1, d2 :
           /\ a1 = NearEnd(h1 < h2, f.tl.x, f.tr.x, w1, x) /\ a2 = NearEnd(w1 < w2, f.tl.y, f.bl.y, h1, y)
           /\ b1 = FarEnd(h1 < h2, f.tl.x, f.tr.x, w1, x) /\ b2 = NearEnd(w1 < w2, f.tr.y, f.br.y, h2, y)
           /\ c1 = FarEnd(h1 < h2, f.bl.x, f.br.x, w2, x) /\ c2 = FarEnd(w1 < w2, f.tr.y, f.br.y, h2, y)
           /\ d1 = NearEnd(h1 < h2, f.bl.x, f.br.x, w2, x) /\ d2 = FarEnd(w1 < w2, f.tl.y, f.bl.y, h1, y)
    OBVIOUS
  <1>6. a1 \in Int /\ b1 \in Int /\ c1 \in Int /\ d1 \in Int
    BY <1>2, <1>4, <1>5, FrameFacts, EndTypes
  <1>7. a2 \in Int /\ b2 \in Int /\ c2 \in Int /\ d2 \in Int
    BY <1>2, <1>4, <1>5, FrameFacts, EndTypes
  <1>8. PulledOut(f, w, h) = [tl |-> At(a1, a2), tr |-> At(b1, b2), br |-> At(c1, c2), bl |-> At(d1, d2)]
    BY <1>1, <1>3, <1>5 DEF PulledOut
  <1>9. PulledOut(f, w, h) \in Frame
    <2>1. At(a1, a2) \in Point /\ At(b1, b2) \in Point /\ At(c1, c2) \in Point /\ At(d1, d2) \in Point
      BY <1>6, <1>7 DEF At, Point
    <2> QED
      BY <1>8, <2>1, MakeFrame
  <1>10. Abs(x.d) \in Nat /\ Abs(y.d) \in Nat
    BY <1>2 DEF Abs
  <1> QED
    BY <1>1, <1>9, <1>10 DEF UnitOf, At

\* The cast gives an integer, the bounds are casts.
LEMMA CastType ==
    ASSUME NEW n \in Int, NEW d \in Nat, d # 0
    PROVE  TruncTo(n, d) \in Int
  <1>1. PICK k, e, h : k = Abs(n) /\ e = 2 * d /\ h = k \div e
    OBVIOUS
  <1>2. k \in Nat /\ e \in Nat /\ e > 0
    BY <1>1 DEF Abs
  <1>3. h \in Nat
    BY <1>1, <1>2, DivFacts
  <1>4. TruncTo(n, d) = IF n >= 0 THEN 2 * h ELSE -(2 * h)
    BY <1>1, CastFacts
  <1> QED
    BY <1>3, <1>4

LEMMA BoundsType ==
    ASSUME NEW f \in Frame, NEW u \in [x : Nat, y : Nat]
    PROVE  BoundingBox(f, u) \in [left : Int, right : Int, top : Int, bottom : Int]
  <1>1. PICK west, east, top, bottom, ux, uy :
           /\ west = Least(f.tl.x, f.bl.x) /\ east = Most(f.tr.x, f.br.x)
           /\ top = Least(f.tl.y, f.tr.y) /\ bottom = Most(f.br.y, f.bl.y)
           /\ ux = u.x /\ uy = u.y
    OBVIOUS
  <1>2. west \in Int /\ east \in Int /\ top \in Int /\ bottom \in Int /\ ux \in Nat /\ uy \in Nat
    BY <1>1, FrameFacts, LeastMost
  <1>3. CASE ux = 0 \/ uy = 0
    BY <1>1, <1>3 DEF BoundingBox, ZeroRect
  <1>4. CASE ux # 0 /\ uy # 0
    <2>1. /\ TruncTo(west, ux) \in Int /\ TruncTo(east, ux) \in Int
          /\ TruncTo(top, uy) \in Int /\ TruncTo(bottom, uy) \in Int
      BY <1>2, <1>4, CastType
    <2> QED
      BY <1>1, <1>4, <2>1 DEF BoundingBox
  <1> QED
    BY <1>3, <1>4

LEMMA InitBInv == BoxInit => BInv
  <1> SUFFICES ASSUME BoxInit PROVE BInv
    OBVIOUS
  <1>1. IInv
    BY InitIInv DEF BoxInit
  <1>2. frame \in Frame
    BY <1>1, TypeFacts DEF IInv
  <1>3. sides \in Lengths
    BY <1>2, SidesType DEF BoxInit
  <1>4. BoxTypes
    BY <1>2, <1>3 DEF BoxInit, BoxTypes, TaskPoints, Unscaled, At, ZeroRect
  <1>5. Computed
    BY DEF BoxInit, Computed
  <1> QED
    BY <1>1, <1>4, <1>5 DEF BInv

\* What the main thread does: a gesture before the task, a new window, a drawing.
LEMMA TouchKeeps ==
    ASSUME BInv, Touch
    PROVE  BInv'
  <1>1. IInv /\ Gesture /\ pc = "drag" /\ UNCHANGED <<pc, taskVars, shown, spoilt>>
    BY DEF BInv, Touch
  <1>2. IInv'
    BY <1>1, PressStep, DragStep, ReleaseStep DEF Gesture
  <1>3. BoxTypes' /\ Computed'
    BY <1>1 DEF BInv, BoxTypes, Computed, taskVars
  <1> QED
    BY <1>2, <1>3 DEF BInv

LEMMA NewWindowKeeps ==
    ASSUME BInv, NewWindow
    PROVE  BInv'
  <1>1. IInv'
    BY RotateStep DEF BInv, IInv, NewWindow
  <1>2. BoxTypes'
    BY DEF BInv, BoxTypes, NewWindow, taskVars
  <1>3. Computed'
    BY DEF BInv, Computed, NewWindow, taskVars
  <1> QED
    BY <1>1, <1>2, <1>3 DEF BInv

LEMMA DrawKeeps ==
    ASSUME BInv, Draw
    PROVE  BInv'
  <1>1. PICK c \in DOMAIN frame, v \in Views :
           scratch' = [scratch EXCEPT ![c] = At((v.zoom * frame[c].x + v.dx) * unit.x,
                                                (v.zoom * frame[c].y + v.dy) * unit.y)]
    BY DEF Draw
  <1>2. frame \in Frame /\ scratch \in Frame /\ unit \in [x : Nat, y : Nat] /\ c \in FourCorners
    BY <1>1, TypeFacts DEF BInv, IInv, BoxTypes, Frame
  <1>3. PICK z, a, b, x, y, m, n : /\ z = v.zoom /\ a = v.dx /\ b = v.dy /\ x = frame[c].x /\ y = frame[c].y
                                   /\ m = unit.x /\ n = unit.y
    OBVIOUS
  <1>4. /\ z \in Int /\ a \in Int /\ b \in Int /\ x \in Int /\ y \in Int /\ m \in Int /\ n \in Int
    BY <1>2, <1>3, FrameFacts, ViewsAssumption
  <1>5. PICK p, q : p = (z * x + a) * m /\ q = (z * y + b) * n
    OBVIOUS
  <1>6. p \in Int /\ q \in Int
    <2>1. z * x + a \in Int /\ z * y + b \in Int
      BY <1>4
    <2> QED
      BY <1>4, <1>5, <2>1
  <1>7. scratch' = [scratch EXCEPT ![c] = At(p, q)] /\ At(p, q) \in Point
    BY <1>1, <1>3, <1>5, <1>6 DEF At, Point
  <1>8. scratch' \in Frame
    BY <1>2, <1>7 DEF Frame
  <1>9. BoxTypes'
    BY <1>8 DEF BInv, BoxTypes, Draw
  <1>10. IInv
    BY DEF BInv
  <1>11. IInv'
    BY <1>10, StillStep DEF Draw
  <1>12. Computed'
    BY DEF Computed, Draw
  <1> QED
    BY <1>9, <1>11, <1>12 DEF BInv

\* The corners in the box are a frame still.
LEMMA MappedType ==
    ASSUME BInv, MapPoints
    PROVE  points' \in Frame /\ frame' \in Frame
  <1>1. PICK a, b, z : a = box.left /\ b = box.top /\ z = Zoom
    OBVIOUS
  <1>2. a \in Int /\ b \in Int /\ z \in Int /\ points \in Frame /\ frame \in Frame
    BY <1>1, TypeFacts, ViewsAssumption DEF BInv, IInv, BoxTypes
  <1>3. points' = [c \in FourCorners |-> At(z * (points[c].x - a), z * (points[c].y - b))]
    BY <1>1, <1>2 DEF MapPoints, Frame
  <1>4. ASSUME NEW c \in FourCorners
        PROVE  At(z * (points[c].x - a), z * (points[c].y - b)) \in Point
    <2>1. PICK x, y : x = points[c].x /\ y = points[c].y
      OBVIOUS
    <2>2. x \in Int /\ y \in Int
      BY <1>2, <2>1, FrameFacts
    <2>3. z * (x - a) \in Int /\ z * (y - b) \in Int
      BY <1>2, <2>2
    <2> QED
      BY <2>1, <2>3 DEF At, Point
  <1>5. points' \in Frame
    BY <1>3, <1>4 DEF Frame
  <1> QED
    BY <1>2, <1>5 DEF MapPoints

\* The task goes on; but for the last step it leaves the frame alone.
LEMMA TaskTypes ==
    ASSUME BInv, Crop \/ CropTask
    PROVE  BoxTypes'
  <1> USE DEF BoxTypes
  <1>0. BoxTypes /\ frame \in Frame
    BY TypeFacts DEF BInv, IInv
  <1>1. CASE Crop \/ ReadPoints
    BY <1>0, <1>1 DEF Crop, ReadPoints, TaskAt, taskVars, TaskPoints
  <1>a. CASE CopyFrame
    <2>1. Unscaled \in [x : Nat, y : Nat]
      BY DEF Unscaled, At
    <2> QED
      BY <1>0, <1>a, <2>1 DEF CopyFrame, TaskAt, TaskPoints
  <1>2. CASE ReadSides
    <2>1. sides' \in Lengths
      BY <1>0, <1>2, SidesType DEF ReadSides
    <2> QED
      BY <1>0, <1>2, <2>1 DEF ReadSides, TaskAt, TaskPoints
  <1>3. CASE PullSides
    <2>1. PICK w, h : w = sides.w /\ h = sides.h
      OBVIOUS
    <2>2. w \in Int \X Int /\ h \in Int \X Int
      BY <1>0, <2>1 DEF Lengths
    <2>3. scratch' \in Frame /\ unit' \in [x : Nat, y : Nat]
      BY <1>0, <1>3, <2>1, <2>2, PulledType DEF PullSides
    <2> QED
      BY <1>0, <1>3, <2>3 DEF PullSides, TaskAt, TaskPoints
  <1>4. CASE ReadBox
    <2>1. box' \in [left : Int, right : Int, top : Int, bottom : Int]
      BY <1>0, <1>4, BoundsType DEF ReadBox
    <2> QED
      BY <1>0, <1>4, <2>1 DEF ReadBox, TaskAt, TaskPoints
  <1>5. CASE MapPoints
    BY <1>0, <1>5, MappedType DEF MapPoints, TaskAt, TaskPoints
  <1> QED
    BY <1>1, <1>2, <1>3, <1>4, <1>5, <1>a DEF CropTask

LEMMA TaskKeeps ==
    ASSUME BInv, Crop \/ CropTask
    PROVE  BInv'
  <1>1. CASE ~MapPoints
    <2>1. UNCHANGED vars
      BY <1>1 DEF Crop, CropTask, ReadPoints, CopyFrame, ReadSides, PullSides, ReadBox, TaskAt
    <2>2. IInv'
      BY <2>1, StillStep DEF BInv
    <2>3. Computed'
      BY <1>1, <2>1 DEF BInv, Computed, vars, taskVars, BoxAround, Crop, CropTask, ReadPoints, CopyFrame,
         ReadSides, PullSides, ReadBox, TaskAt
    <2> QED
      BY <2>2, <2>3, TaskTypes DEF BInv
  <1>2. CASE MapPoints
    <2>1. pc' = "mapped" /\ frame' \in Frame /\ UNCHANGED <<squares, edge, left, shifts>>
      BY <1>2, MappedType DEF MapPoints, TaskAt
    <2>2. sound' = (sound /\ "points" \notin shown) /\ ("points" \notin shown => frame' = frame)
      BY <1>2 DEF MapPoints
    <2>3. TypeOK'
      BY <2>1, <2>2 DEF BInv, IInv, TypeOK, Frame, FourCorners, Point
    <2>4. Upright'
      <3>1. CASE "points" \in shown
        BY <2>2, <3>1 DEF Upright
      <3>2. CASE "points" \notin shown
        <4>1. sound' = sound
          BY <2>2, <3>2, TypeFacts DEF BInv, IInv
        <4> QED
          BY <2>1, <2>2, <3>2, <4>1, FrameStays DEF BInv
      <3> QED
        BY <3>1, <3>2
    <2>5. Computed'
      BY <2>1 DEF Computed
    <2> QED
      BY <1>2, <2>1, <2>3, <2>4, <2>5, TaskTypes DEF BInv, IInv, CropTask
  <1> QED
    BY <1>1, <1>2

THEOREM BoxInvariance == BoxSpec => []BInv
  <1>1. BInv /\ [BoxNext]_boxVars => BInv'
    <2> SUFFICES ASSUME BInv, [BoxNext]_boxVars PROVE BInv'
      OBVIOUS
    <2>1. CASE Touch
      BY <2>1, TouchKeeps
    <2>2. CASE NewWindow \/ Draw
      BY <2>2, NewWindowKeeps, DrawKeeps
    <2>3. CASE Crop \/ CropTask
      BY <2>3, TaskKeeps
    <2>4. CASE UNCHANGED boxVars
      <3>1. UNCHANGED <<pc, points, scratch, unit, sides, box, shown, spoilt>> /\ UNCHANGED vars
        BY <2>4 DEF boxVars, taskVars
      <3>2. IInv'
        BY <3>1, StillStep DEF BInv
      <3>3. BoxTypes' /\ Computed'
        BY <3>1 DEF BInv, BoxTypes, Computed, vars
      <3> QED
        BY <3>2, <3>3 DEF BInv
    <2> QED
      BY <2>1, <2>2, <2>3, <2>4 DEF BoxNext
  <1> QED
    BY InitBInv, <1>1, PTL DEF BoxSpec

\* However often the corners, the edges and the frame are dragged in whichever order
\* (growBy, moveBy, capPoints), an upright frame stays upright and on the photo, but
\* for half a pixel for each time the whole frame was moved.
THEOREM FrameStaysUpright == BoxSpec => []UprightUnlessSlid
  <1>1. BInv => UprightUnlessSlid
    BY TypeFacts, SettledSpreads DEF BInv, IInv, Upright, UprightUnlessSlid
  <1> QED
    BY <1>1, BoxInvariance, PTL

\* A corner that growBy drags never takes another along, and moveBy keeps the shape.
THEOREM GesturesAreLocal == BoxSpec => DragIsLocal
  <1>1. BInv /\ [BoxNext]_boxVars =>
          [ \A d \in Distances : Drag(d) =>
            /\ \A c \in DOMAIN frame :
                  Spread(frame, 0) /\ edge = Corner[c]
                      => \A other \in DOMAIN frame \ {c} : frame'[other] = frame[other]
            /\ edge = {"move"} /\ OnPhoto(frame, 0) =>
                  \A c1, c2 \in DOMAIN frame :
                      /\ Abs((frame'[c1].x - frame'[c2].x) - (frame[c1].x - frame[c2].x)) < Half(1)
                      /\ Abs((frame'[c1].y - frame'[c2].y) - (frame[c1].y - frame[c2].y)) < Half(1) ]_vars
    <2> SUFFICES ASSUME BInv, NEW d \in Distances, Drag(d)
                 PROVE  /\ \A c \in DOMAIN frame :
                              Spread(frame, 0) /\ edge = Corner[c]
                                  => \A other \in DOMAIN frame \ {c} : frame'[other] = frame[other]
                        /\ edge = {"move"} /\ OnPhoto(frame, 0) =>
                              \A c1, c2 \in DOMAIN frame :
                                  /\ Abs((frame'[c1].x - frame'[c2].x) - (frame[c1].x - frame[c2].x)) < Half(1)
                                  /\ Abs((frame'[c1].y - frame'[c2].y) - (frame[c1].y - frame[c2].y)) < Half(1)
      OBVIOUS
    <2>1. d \in Int \X Int
      BY InputAssumption
    <2>2. frame \in Frame /\ DOMAIN frame = FourCorners
      BY TypeFacts, FrameFacts DEF BInv, IInv
    <2>3. ASSUME NEW c \in FourCorners, Spread(frame, 0), edge = Corner[c],
                 NEW other \in FourCorners \ {c}
          PROVE  frame'[other] = frame[other]
      <3>1. edge # {"move"}
        BY <2>3 DEF FourCorners, Corner
      <3>2. frame' = GrowBy(frame, Corner[c], d)
        BY <2>3, <3>1 DEF Drag
      <3> QED
        BY <2>1, <2>2, <2>3, <3>2, CornerAlone
    <2>4. ASSUME edge = {"move"}, OnPhoto(frame, 0), NEW c1 \in FourCorners, NEW c2 \in FourCorners
          PROVE  /\ Abs((frame'[c1].x - frame'[c2].x) - (frame[c1].x - frame[c2].x)) < Half(1)
                 /\ Abs((frame'[c1].y - frame'[c2].y) - (frame[c1].y - frame[c2].y)) < Half(1)
      <3>1. frame' = MoveBy(frame, d)
        BY <2>4 DEF Drag
      <3> QED
        BY <2>1, <2>2, <2>4, <3>1, ShapeKept
    <2> QED
      BY <2>2, <2>3, <2>4
  <1> QED
    BY <1>1, BoxInvariance, PTL DEF BoxSpec, DragIsLocal

\* However detectCardVisit reads the contour that find_squares names, a card with two
\* upper and two lower points, far enough apart, becomes the frame and is not given up
\* for the whole photo: the sort loses no point.
THEOREM CardIsNotGivenUp == BoxSpec => []UprightCardIsKept
  <1>1. BInv => UprightCardIsKept
    <2> SUFFICES ASSUME BInv, squares # <<>>, NEW r \in Readings(FindLargestSquare(squares)),
                        Most(r.tl.y, r.tr.y) < Least(r.bl.y, r.br.y), ~TooSmall(r)
                 PROVE  DetectCardVisit(squares) = r
      BY DEF UprightCardIsKept
    <2>1. squares \in Seq(Quad)
      BY DEF BInv, IInv, Found
    <2>2. FindLargestSquare(squares) \in Quad
      BY <2>1, LargestSquareType
    <2> QED
      BY <2>2, CardIsKept
  <1> QED
    BY <1>1, BoxInvariance, PTL

\* Whatever contour find_squares keeps, in whichever direction it goes round and wherever
\* it starts: the corners that detectCardVisit gives back go clockwise round one convex
\* figure, which the projection needs, although the sort only looks at heights and the
\* angle at the first point is never looked at.
THEOREM CornersGoRound == BoxSpec => []CornersInOrder
  <1>1. BInv => (squares # <<>> => ClockwiseFrame(DetectCardVisit(squares)))
    BY DetectionGoesClockwise DEF BInv, IInv
  <1>2. UprightCardIsKept /\ (squares # <<>> => ClockwiseFrame(DetectCardVisit(squares)))
            => CornersInOrder
    BY DEF CornersInOrder, ClockwiseFrame
  <1> QED
    BY <1>1, <1>2, BoxInvariance, CardIsNotGivenUp, PTL

\* For every frame that gestures and rotations can lead to, and every view: the box of
\* getPerspectiveCorrectedBoundingRect holds the corners that are mapped onto it, unless
\* the photo was rotated between the two reads or the frame drawn while it was computed.
THEOREM BoxHoldsCorners == BoxSpec => []BoxHoldsFrame
  <1>1. BInv => BoxHoldsFrame
    <2> SUFFICES ASSUME BInv PROVE BoxHoldsFrame
      OBVIOUS
    <2>1. BoxTypeOK
      BY TypeFacts DEF BInv, IInv, BoxTypes, BoxTypeOK, Frame, FourCorners, Point
    <2>2. ASSUME pc = "cut", spoilt = {}, points.tl.x < points.tr.x, points.bl.x < points.br.x,
                 points.tl.y < points.bl.y, points.tr.y < points.br.y,
                 NEW c \in DOMAIN points
          PROVE  /\ box.left <= Most(points[c].x, 0) /\ points[c].x < box.right + Half(1)
                 /\ box.top <= Most(points[c].y, 0) /\ points[c].y < box.bottom + Half(1)
      <3>1. box = BoxAround(points)
        BY <2>2 DEF BInv, Computed
      <3>2. points \in Frame /\ DOMAIN points = FourCorners
        BY FrameFacts DEF BInv, BoxTypes
      <3> QED
        BY <2>2, <3>1, <3>2, BoxOf
    <2> QED
      BY <2>1, <2>2 DEF BoxHoldsFrame
  <1> QED
    BY <1>1, BoxInvariance, PTL
=============================================================================
