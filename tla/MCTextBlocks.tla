--------------------------- MODULE MCTextBlocks ---------------------------
(* Cards with up to three contours for TextBlocks. *)
EXTENDS TextBlocks

\* Columns, rows and sizes: at every border, in the middle, near each other when
\* padded or not, in one line or in two; the highest is text at the lower border
\* only.  All are long enough around for a contour of more than 100 points.
Boxes == {b \in {[x |-> x, y |-> y, w |-> s[1], h |-> s[2]] :
                    x \in {0, 14, 80, 178}, y \in {0, 40, 78, 108},
                    s \in {<<45, 10>>, <<60, 9>>, <<28, 40>>}} :
             Right(b) <= Width /\ Bottom(b) <= Height}

\* One order of three boxes is enough: detectLetters sorts them.
Before(a, b) == a.x * 100000 + a.y * 100 + a.w < b.x * 100000 + b.y * 100 + b.w

MCCardContours ==
    {<<>>} \union {<<a>> : a \in Boxes}
           \union {p \in Boxes \X Boxes : Before(p[1], p[2])}
           \union {t \in Boxes \X Boxes \X Boxes : Before(t[1], t[2]) /\ Before(t[2], t[3])}
=============================================================================
