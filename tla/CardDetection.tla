---------------------------- MODULE CardDetection ----------------------------
(***************************************************************************)
(* How detectCardVisit in com_ldz_..._OpenCVNative.cpp makes the four      *)
(* corners of the card from the contours that OpenCV finds in the photo:   *)
(* operators only.  A contour is the sequence of points approxPolyDP       *)
(* leaves of it.  Lengths are compared in units of Grain pixels, which     *)
(* keeps their products small; corners lie on that grid.                   *)
(***************************************************************************)
EXTENDS Integers, Sequences, SequencesExt, FiniteSetsExt

CONSTANTS
    Width, Height,  \* the size of the photo on the screen, in pixels
    Grain

ASSUME PhotoAssumption ==
    /\ {Width, Height, Grain} \subseteq Nat \ {0}
    /\ Width % Grain = 0 /\ Height % Grain = 0

At(x, y) == [x |-> x, y |-> y]
Abs(n) == IF n < 0 THEN -n ELSE n

\* Of the vectors from o to a and to b.
Dot(a, b, o) == ((a.x - o.x) * (b.x - o.x) + (a.y - o.y) * (b.y - o.y)) \div (Grain * Grain)
Cross(a, b, o) == ((a.x - o.x) * (b.y - o.y) - (a.y - o.y) * (b.x - o.x)) \div (Grain * Grain)

\* angle(a, b, o), a cosine, is below 0.3 without its sign.
NearlySquare(a, b, o) == 100 * Dot(a, b, o) * Dot(a, b, o) < 9 * Dot(a, a, o) * Dot(b, b, o)

\* contourArea of a quadrilateral, doubled.
Area2(q) == Abs(Cross(q[2], q[3], q[1]) + Cross(q[3], q[4], q[1])) * Grain * Grain

\* isContourConvex: all turns in one direction.
IsContourConvex(q) ==
    LET turn == [i \in 1..4 |-> Cross(q[(i % 4) + 1], q[((i + 1) % 4) + 1], q[i])]
    IN  (\A i \in 1..4 : turn[i] > 0) \/ (\A i \in 1..4 : turn[i] < 0)

\* What find_squares keeps; the angle at the first point is not looked at.
IsSquare(q) ==
    /\ Len(q) = 4
    /\ Area2(q) > 2 * 1000
    /\ IsContourConvex(q)
    /\ \A j \in 2..4 : NearlySquare(q[(j % 4) + 1], q[j - 1], q[j])

\* find_largest_square never raises the area it compares with.
FindLargestSquare(squares) == squares[Max({1} \cup {i \in DOMAIN squares : Area2(squares[i]) > 0})]

\* Two points change places if the first is the lower one.
Exchange(q, i, j) ==
    IF q[i].y > q[j].y THEN [q EXCEPT ![i] = q[j], ![j] = q[i]] ELSE q

\* Mutated form of SortByHeight: the last two points are not compared.
SortHalf(q) == Exchange(Exchange(Exchange(q, 1, 2), 1, 3), 1, 4)

\* The exchange sort of the points, from the top of the photo downwards.
SortByHeight(q) ==
    LET first == Exchange(Exchange(Exchange(q, 1, 2), 1, 3), 1, 4)
        second == Exchange(Exchange(first, 2, 3), 2, 4)
    IN  Exchange(second, 3, 4)

\* The upper two points and the lower two, each from left to right.
Corners(q) ==
    LET s == SortByHeight(q)
        Pair(a, b) == IF a.x < b.x THEN <<a, b>> ELSE <<b, a>>
        top == Pair(s[1], s[2])
        bottom == Pair(s[3], s[4])
    IN  [tl |-> top[1], tr |-> top[2], br |-> bottom[2], bl |-> bottom[1]]

TooSmall(c) ==
    \/ c.bl.y - c.tl.y <= Height \div 5 \/ c.br.y - c.tr.y <= Height \div 5
    \/ c.tr.x - c.tl.x <= Width \div 5 \/ c.br.x - c.bl.x <= Width \div 5

\* The frame of a rectangle.
Rectangle(left, top, right, bottom) ==
    [tl |-> At(left, top), tr |-> At(right, top), br |-> At(right, bottom), bl |-> At(left, bottom)]

\* The corners that go back to Java for a photo with at least one square.
DetectCardVisit(squares) ==
    LET c == Corners(FindLargestSquare(squares))
    IN  IF TooSmall(c) THEN Rectangle(0, 0, Width, Height) ELSE c
=============================================================================
