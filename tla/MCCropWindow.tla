---------------------------- MODULE MCCropWindow ----------------------------
(* Photos for CropBox: every square on the grid without a movement, and some  *)
(* frames with movements.                                                     *)
EXTENDS CropBox

Grid == {At(x * Grain, y * Grain) : x \in 0 .. Width \div Grain, y \in 0 .. Height \div Grain}

\* All squares, built up from those three points that have a right angle.
Hooks == {t \in Grid \X Grid \X Grid : NearlySquare(t[1], t[3], t[2])}
Squares == UNION {{q \in {<<t[1], t[2], t[3], p>> : p \in Grid} : IsSquare(q)} : t \in Hooks}

Whole == <<At(0, 0), At(0, Height), At(Width, Height), At(Width, 0)>>
Slanted == <<At(40, 40), At(80, 160), At(200, 120), At(160, 0)>>

\* The frames that are dragged: the default one, a whole photo, a slanted card.
MCPhotos ==
    {[squares |-> <<q>>, moves |-> 0] : q \in Squares}
    \cup {[squares |-> <<Whole, q>>, moves |-> 0] : q \in {q \in Squares : q[1] = At(Grain, Grain)}}
    \cup {[squares |-> <<>>, moves |-> 4]}
    \cup {[squares |-> s, moves |-> 2] : s \in {<<Whole>>, <<Slanted>>}}
    \cup {[squares |-> <<Whole, Slanted>>, moves |-> 1]}

\* Of these are cut: the squares with one of two diagonals, whose sides have every order
\* of lengths, and a frame that is dragged.
MCCut(s) ==
    \/ s = <<Whole, Slanted>>
    \/ /\ Len(s) = 1
       /\ <<s[1][1], s[1][3]>> \in {<<At(40, 0), At(200, 160)>>, <<At(160, 0), At(0, 160)>>}

\* In half pixels: an odd number along each axis, and beyond the border and down.
MCDistances == {<<-71, 0>>, <<301, 33>>, <<0, -91>>}

\* The photo is shown larger, its left border cut off.
MCViews == {[zoom |-> 2, dx |-> -60, dy |-> 20]}
=============================================================================
