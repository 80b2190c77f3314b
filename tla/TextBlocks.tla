----------------------------- MODULE TextBlocks -----------------------------
(***************************************************************************)
(* How the text blocks of a card are found: detectTextBlock with           *)
(* detectLetters in com_ldz_..._OpenCVNative.cpp, on the background thread *)
(* of CropImageActivity.ImageProcessing, which then rescales them from the *)
(* pixels of the preview to those of the card.                             *)
(*                                                                         *)
(* A contour is given by its bounding box; which contours OpenCV finds is  *)
(* an input.  Contours of 100 points or fewer are ignored by the code and  *)
(* are not among the inputs.  Ratios, floats in the code, are exact.       *)
(***************************************************************************)
EXTENDS Integers, Sequences, SequencesExt

CONSTANTS
    CardWidth, CardHeight,  \* the card in pixels
    ViewWidth,              \* the width of the view the preview is made for
    CardContours            \* sequences of boxes that findContours may return

ASSUME SizesAssumption ==
    /\ {CardWidth, CardHeight, ViewWidth} \subseteq Nat \ {0}
    /\ ViewWidth * CardHeight >= CardWidth

VARIABLES
    contours,   \* what findContours returned for this card
    blocks,     \* boundRect, the blocks as they are merged
    index,      \* index1, counted from one
    pc,         \* the next piece of code
    points      \* listPointsTextBlock, once it is rescaled

vars == <<contours, blocks, index, pc, points>>

Box == [x : Int, y : Int, w : Int, h : Int]

Right(b) == b.x + b.w
Bottom(b) == b.y + b.h
Area(b) == b.w * b.h
Lesser(a, b) == IF a < b THEN a ELSE b
Greater(a, b) == IF a > b THEN a ELSE b

-----------------------------------------------------------------------------
(* The preview that the blocks are looked for in. *)

\* mHeight, and the size of the bitmap that scaleToSize(FIT) makes of it.
ViewHeight == (ViewWidth * CardHeight) \div CardWidth
Height == ViewHeight
Width == (2 * CardWidth * ViewHeight + CardHeight) \div (2 * CardHeight)

\* A bounding box of findContours is on the preview.
OnPreview(b) ==
    /\ b.x >= 0 /\ b.y >= 0 /\ b.w >= 1 /\ b.h >= 1
    /\ Right(b) <= Width /\ Bottom(b) <= Height

ASSUME ContoursAssumption ==
    \A found \in CardContours :
        found \in Seq(Box) /\ \A i \in DOMAIN found : OnPreview(found[i])

\* Mutated form of Padded: the width is not cut at the right border.
PaddedBeyond(r) ==
    LET x == IF r.x >= 15 THEN r.x - 15 ELSE 0
        y == IF r.y >= 10 THEN r.y - 10 ELSE 0
    IN  [x |-> x, y |-> y, w |-> r.w + 30,
         h |-> IF y + r.h <= Height - 20 THEN r.h + 20 ELSE Height - y]

\* The box of a contour with a margin of 15 and 10 pixels, cut at the border.
Padded(r) ==
    LET x == IF r.x >= 15 THEN r.x - 15 ELSE 0
        y == IF r.y >= 10 THEN r.y - 10 ELSE 0
    IN  [x |-> x,
         y |-> y,
         w |-> IF x + r.w <= Width - 30 THEN r.w + 30 ELSE Width - x,
         h |-> IF y + r.h <= Height - 20 THEN r.h + 20 ELSE Height - y]

\* What is wider than high, and large enough, is taken for text.
IsText(b) == b.w > b.h /\ b.w >= 30 /\ b.h >= 20

Letters == [i \in {k \in DOMAIN contours : IsText(Padded(contours[k]))} |-> Padded(contours[i])]

-----------------------------------------------------------------------------
(* Merging. *)

\* a lies inside b, the borders included.
Inside(a, b) ==
    a.y >= b.y /\ Bottom(a) <= Bottom(b) /\ a.x >= b.x /\ Right(a) <= Right(b)

\* b meets a, or is at most 15 pixels left or right of it.
Near(a, b) ==
    /\ Bottom(b) >= a.y /\ b.y <= Bottom(a)
    /\ Right(b) >= a.x - 15 /\ b.x <= Right(a) + 15

\* Mutated form of Union: the size of the first block stays.
UnionKeepsSize(a, b) == [a EXCEPT !.x = Lesser(a.x, b.x), !.y = Lesser(a.y, b.y)]

Union(a, b) ==
    LET x == Lesser(a.x, b.x)
        y == Lesser(a.y, b.y)
    IN  [x |-> x, y |-> y,
         w |-> Greater(Right(a), Right(b)) - x,
         h |-> Greater(Bottom(a), Bottom(b)) - y]

\* The inner loop over the blocks after the current one stops at the first of these.
Partners(i) == {j \in i + 1 .. Len(blocks) :
                    \/ Inside(blocks[j], blocks[i])
                    \/ Inside(blocks[i], blocks[j])
                    \/ Near(blocks[i], blocks[j])}

\* Mutated form of Absorbed: the break without the erase.
InnerStays(i, j) ==
    IF Inside(blocks[j], blocks[i]) THEN blocks
    ELSE RemoveAt([blocks EXCEPT ![i] = Union(blocks[i], blocks[j])], j)

\* What the pass does with it: the inner one of two goes, or the two become one.
Absorbed(i, j) ==
    IF Inside(blocks[j], blocks[i]) THEN RemoveAt(blocks, j)
    ELSE IF Inside(blocks[i], blocks[j]) THEN RemoveAt(blocks, i)
    ELSE RemoveAt([blocks EXCEPT ![i] = Union(blocks[i], blocks[j])], j)

-----------------------------------------------------------------------------
Init ==
    /\ contours \in CardContours
    /\ blocks = <<>>
    /\ index = 1
    /\ pc = "contours"
    /\ points = <<>>

\* The loop over the contours and the sort by area; sort leaves the order of
\* equal areas open.
Collect ==
    /\ pc = "contours"
    /\ \E order \in SetToSeqs(DOMAIN Letters) :
          /\ \A i, j \in DOMAIN order :
                i < j => Area(Letters[order[i]]) >= Area(Letters[order[j]])
          /\ blocks' = [i \in DOMAIN order |-> Letters[order[i]]]
    /\ pc' = "merge"
    /\ UNCHANGED <<contours, index, points>>

\* With no block at all, size() - 1 wraps round and boundRect[0] does not exist.
NoBlock ==
    /\ pc = "merge"
    /\ blocks = <<>>
    /\ pc' = "fault"
    /\ UNCHANGED <<contours, blocks, index, points>>

AbsorbAndAdvance ==  \* mutated form of Absorb: the loop goes on with the next block
    /\ pc = "merge"
    /\ index < Len(blocks)
    /\ \E j \in Partners(index) :
          /\ \A k \in Partners(index) : j <= k
          /\ blocks' = Absorbed(index, j)
    /\ index' = Lesser(index + 1, Len(blocks'))
    /\ UNCHANGED <<contours, pc, points>>

\* The inner loop finds a partner of the current block and starts again.
Absorb ==
    /\ pc = "merge"
    /\ index < Len(blocks)
    /\ \E j \in Partners(index) :
          /\ \A k \in Partners(index) : j <= k
          /\ blocks' = Absorbed(index, j)
    /\ UNCHANGED <<contours, index, pc, points>>

\* It finds none: the next block is current.
Advance ==
    /\ pc = "merge"
    /\ index < Len(blocks)
    /\ Partners(index) = {}
    /\ index' = index + 1
    /\ UNCHANGED <<contours, blocks, pc, points>>

\* The outer loop ends and the blocks go back to Java.
Return ==
    /\ pc = "merge"
    /\ blocks # <<>>
    /\ index >= Len(blocks)
    /\ pc' = "rescale"
    /\ UNCHANGED <<contours, blocks, index, points>>

\* The coordinates at even places are multiplied with ratioX, the others with
\* ratioY, and cut to whole pixels of the card.
InCard(b) == [x |-> (b.x * CardWidth) \div ViewWidth,
              y |-> (b.y * CardHeight) \div ViewHeight,
              w |-> (b.w * CardWidth) \div ViewWidth,
              h |-> (b.h * CardHeight) \div ViewHeight]

Rescale ==
    /\ pc = "rescale"
    /\ points' = [i \in DOMAIN blocks |-> InCard(blocks[i])]
    /\ pc' = "done"
    /\ UNCHANGED <<contours, blocks, index>>

\* The blocks are handed to the OCR screen, or the process is gone.
Rest == pc \in {"done", "fault"} /\ UNCHANGED vars

Next == Collect \/ NoBlock \/ Absorb \/ Advance \/ Return \/ Rescale \/ Rest

Spec == Init /\ [][Next]_vars /\ WF_vars(Next)

-----------------------------------------------------------------------------
(* Properties. *)

TypeOK ==
    /\ contours \in CardContours
    /\ blocks \in Seq(Box)
    /\ index \in 1 .. Greater(1, Len(blocks))
    /\ pc \in {"contours", "merge", "rescale", "done", "fault"}
    /\ points \in Seq(Box)

\* Merging loses no text: whatever is dropped or united, every contour that was
\* taken for text lies, in full, in one of the blocks at every moment.
LettersCovered ==
    /\ TypeOK
    /\ pc \in {"merge", "rescale", "done"} =>
          \A i \in DOMAIN contours :
             IsText(Padded(contours[i])) => \E j \in DOMAIN blocks : Inside(contours[i], blocks[j])

\* The rectangles that tesseract gets are on the card, although they were padded
\* and united on a preview of another size.
PointsOnCard ==
    \A i \in DOMAIN points :
        /\ points[i].x >= 0 /\ Right(points[i]) <= CardWidth
        /\ points[i].y >= 0 /\ Bottom(points[i]) <= CardHeight

\* The one pass is enough for the letters as they were found: if a block that is
\* done still meets a later one, then the later one has grown since.
OverlapOnlyGrown ==
    \A i, j \in DOMAIN blocks :
        i < index /\ i < j /\ Near(blocks[i], blocks[j])
            => \A k \in DOMAIN Letters : blocks[j] # Letters[k]

\* Every call ends with at least one block, or fails because there is no text.
CallEnds == <>((pc = "done" /\ points # <<>>) \/ (pc = "fault" /\ DOMAIN Letters = {}))
=============================================================================
