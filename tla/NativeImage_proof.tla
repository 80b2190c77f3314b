--------------------------- MODULE NativeImage_proof ---------------------------
(***************************************************************************)
(* The native code around the images. What TextBlocks keeps for every size *)
(* of the card and of the view and for any number of contours: no text is  *)
(* lost when blocks are merged, the rectangles that go to tesseract lie on *)
(* the card, and the one pass misses an overlap only where a block has     *)
(* grown. And BookCallbacks for every number of screens and callbacks: one *)
(* worker at a time in nativeOCRBook is safe.                              *)
(***************************************************************************)
EXTENDS TextBlocks, BookCallbacks, SequenceTheorems, FiniteSetTheorems, TLAPS

-----------------------------------------------------------------------------
(* The invariant.  s are the blocks, l the letters, n is the current block. *)

\* Every letter lies in a block.
Covered(l, s) == \A k \in DOMAIN l : \E m \in DOMAIN s : Inside(l[k], s[m])

\* What the pass has not come to is as it was found.
Fresh(l, s, n) == \A m \in DOMAIN s : m > n => \E k \in DOMAIN l : s[m] = l[k]

\* No later block lies inside one that is done ...
Apart(s, n) == \A i, m \in DOMAIN s : i < n /\ i < m => ~Inside(s[m], s[i])

\* ... or meets it, unless it has grown.
Grown(l, s, n) ==
    \A i, m \in DOMAIN s : i < n /\ i < m /\ Near(s[i], s[m]) => \A k \in DOMAIN l : s[m] # l[k]

IInv ==
    /\ TypeOK
    /\ pc = "contours" => blocks = <<>> /\ index = 1
    /\ \A m \in DOMAIN blocks : OnPreview(blocks[m])
    /\ pc # "contours" => Covered(Letters, blocks)
    /\ Fresh(Letters, blocks, index)
    /\ Apart(blocks, index)
    /\ Grown(Letters, blocks, index)
    /\ PointsOnCard

-----------------------------------------------------------------------------
(* Numbers and sizes. *)

LEMMA DivFacts ==
    ASSUME NEW k \in Nat, NEW d \in Nat, d > 0, NEW h, h = k \div d
    PROVE  h \in Nat /\ h * d <= k /\ k < h * d + d
  OBVIOUS

LEMMA ProductOrder ==
    ASSUME NEW a \in Int, NEW b \in Int, NEW d \in Nat, d > 0
    PROVE  /\ a * d <= b * d => a <= b
           /\ a * d < b * d => a < b
           /\ a <= b => a * d <= b * d
  OBVIOUS

\* The preview is not empty, and no wider than the view it is made for.
LEMMA PreviewFitsView ==
    /\ CardWidth \in Nat /\ CardHeight \in Nat /\ ViewWidth \in Nat
    /\ CardWidth > 0 /\ CardHeight > 0 /\ ViewWidth > 0
    /\ ViewHeight \in Nat /\ ViewHeight > 0
    /\ Width \in Nat /\ Width <= ViewWidth
    /\ Height = ViewHeight
  <1>1. /\ CardWidth \in Nat /\ CardHeight \in Nat /\ ViewWidth \in Nat
        /\ CardWidth > 0 /\ CardHeight > 0 /\ ViewWidth > 0
        /\ ViewWidth * CardHeight >= CardWidth
    BY SizesAssumption
  <1>2. PICK a : a = ViewWidth * CardHeight
    OBVIOUS
  <1>3. a \in Nat /\ a >= CardWidth
    BY <1>1, <1>2
  <1>4. PICK h : h = a \div CardWidth
    OBVIOUS
  <1>5. h \in Nat /\ h * CardWidth <= a /\ a < h * CardWidth + CardWidth
    BY <1>1, <1>3, <1>4, DivFacts
  <1>6. h = ViewHeight
    BY <1>2, <1>4 DEF ViewHeight
  <1>7. h > 0
    BY <1>1, <1>3, <1>5
  <1>8. PICK b, d : b = 2 * CardWidth * h + CardHeight /\ d = 2 * CardHeight
    OBVIOUS
  <1>9. d \in Nat /\ d > 0
    BY <1>1, <1>8
  <1>10. PICK p : p = h * CardWidth
    OBVIOUS
  <1>11. p \in Nat /\ p <= a
    BY <1>1, <1>5, <1>10
  <1>12. 2 * CardWidth * h = 2 * p
    BY <1>1, <1>5, <1>10
  <1>13. b \in Nat /\ b <= 2 * a + CardHeight
    BY <1>1, <1>3, <1>8, <1>11, <1>12
  <1>14. (ViewWidth + 1) * d = 2 * a + 2 * CardHeight
    BY <1>1, <1>2, <1>8
  <1>15. PICK w : w = b \div d
    OBVIOUS
  <1>16. w \in Nat /\ w * d <= b
    BY <1>9, <1>13, <1>15, DivFacts
  <1>17. w * d < (ViewWidth + 1) * d
    <2>1. PICK u : u = w * d
      OBVIOUS
    <2>2. u \in Int /\ u <= b
      BY <1>9, <1>16, <2>1
    <2> QED
      BY <1>1, <1>3, <1>13, <1>14, <2>1, <2>2
  <1>18. w < ViewWidth + 1
    BY <1>1, <1>9, <1>16, <1>17, ProductOrder
  <1>19. w = Width
    BY <1>6, <1>8, <1>15 DEF Width
  <1> QED
    BY <1>1, <1>5, <1>6, <1>7, <1>16, <1>18, <1>19 DEF Height

\* A stretch inside 0 .. view comes to lie inside 0 .. card.
LEMMA RescaledStretch ==
    ASSUME NEW view \in Nat, view > 0, NEW card \in Nat,
           NEW a \in Nat, NEW c \in Nat, a + c <= view
    PROVE  /\ (a * card) \div view \in Nat /\ (c * card) \div view \in Nat
           /\ (a * card) \div view + (c * card) \div view <= card
  <1>1. PICK p, q : p = a * card /\ q = c * card
    OBVIOUS
  <1>2. PICK s, t : s = p \div view /\ t = q \div view
    OBVIOUS
  <1>3. p \in Nat /\ q \in Nat
    BY <1>1
  <1>4. s \in Nat /\ s * view <= p
    BY <1>2, <1>3, DivFacts
  <1>5. t \in Nat /\ t * view <= q
    BY <1>2, <1>3, DivFacts
  <1>6. p + q <= view * card
    <2>1. p + q = (a + c) * card
      BY <1>1
    <2>2. CASE card = 0
      BY <2>1, <2>2
    <2>3. CASE card > 0
      <3>1. PICK u : u = a + c
        OBVIOUS
      <3>2. u \in Nat /\ u <= view
        BY <3>1
      <3> QED
        BY <2>1, <2>3, <3>1, <3>2, ProductOrder
    <2> QED
      BY <2>2, <2>3
  <1>7. (s + t) * view <= card * view
    <2>1. (s + t) * view = s * view + t * view
      BY <1>4, <1>5
    <2>2. PICK u, v : u = s * view /\ v = t * view
      OBVIOUS
    <2>3. u \in Nat /\ v \in Nat
      BY <1>4, <1>5, <2>2
    <2>4. u + v <= p + q
      BY <1>3, <1>4, <1>5, <2>2, <2>3
    <2>5. PICK z : z = view * card
      OBVIOUS
    <2>6. z \in Nat /\ z = card * view
      BY <2>5
    <2> QED
      BY <1>3, <1>6, <2>1, <2>2, <2>3, <2>4, <2>5, <2>6
  <1>8. s + t <= card
    BY <1>4, <1>5, <1>7, ProductOrder
  <1> QED
    BY <1>1, <1>2, <1>4, <1>5, <1>8

\* A block on the preview becomes a rectangle on the card.
LEMMA InCardFacts ==
    ASSUME NEW b \in Box, OnPreview(b), NEW c, c = InCard(b)
    PROVE  /\ c \in Box
           /\ c.x >= 0 /\ Right(c) <= CardWidth /\ c.y >= 0 /\ Bottom(c) <= CardHeight
  <1>1. PICK x, y, w, h : x = b.x /\ y = b.y /\ w = b.w /\ h = b.h
    OBVIOUS
  <1>2. x \in Nat /\ y \in Nat /\ w \in Nat /\ h \in Nat /\ x + w <= ViewWidth /\ y + h <= ViewHeight
    BY <1>1, PreviewFitsView DEF Box, OnPreview, Right, Bottom
  <1>3. /\ (x * CardWidth) \div ViewWidth \in Nat /\ (w * CardWidth) \div ViewWidth \in Nat
        /\ (x * CardWidth) \div ViewWidth + (w * CardWidth) \div ViewWidth <= CardWidth
    BY <1>2, PreviewFitsView, RescaledStretch
  <1>4. /\ (y * CardHeight) \div ViewHeight \in Nat /\ (h * CardHeight) \div ViewHeight \in Nat
        /\ (y * CardHeight) \div ViewHeight + (h * CardHeight) \div ViewHeight <= CardHeight
    BY <1>2, PreviewFitsView, RescaledStretch
  <1>5. PICK p, q, r, s : /\ p = (x * CardWidth) \div ViewWidth /\ q = (y * CardHeight) \div ViewHeight
                          /\ r = (w * CardWidth) \div ViewWidth /\ s = (h * CardHeight) \div ViewHeight
    OBVIOUS
  <1>6. c = [x |-> p, y |-> q, w |-> r, h |-> s]
    BY <1>1, <1>5 DEF InCard
  <1>7. /\ p \in Nat /\ q \in Nat /\ r \in Nat /\ s \in Nat
        /\ p + r <= CardWidth /\ q + s <= CardHeight
    BY <1>3, <1>4, <1>5
  <1> QED
    BY <1>6, <1>7 DEF Box, Right, Bottom

-----------------------------------------------------------------------------
(* Boxes. *)

\* A contour with its margin holds the contour, and is on the preview.
LEMMA PaddedFacts ==
    ASSUME NEW r \in Box, OnPreview(r), NEW p, p = Padded(r)
    PROVE  p \in Box /\ OnPreview(p) /\ Inside(r, p)
  <1>1. Width \in Nat /\ Height \in Nat
    BY PreviewFitsView
  <1>2. PICK x, y : /\ x = IF r.x >= 15 THEN r.x - 15 ELSE 0
                    /\ y = IF r.y >= 10 THEN r.y - 10 ELSE 0
    OBVIOUS
  <1>3. PICK w, h : /\ w = IF x + r.w <= Width - 30 THEN r.w + 30 ELSE Width - x
                    /\ h = IF y + r.h <= Height - 20 THEN r.h + 20 ELSE Height - y
    OBVIOUS
  <1>4. p = [x |-> x, y |-> y, w |-> w, h |-> h]
    BY <1>2, <1>3 DEF Padded
  <1>5. /\ r.x \in Int /\ r.y \in Int /\ r.w \in Int /\ r.h \in Int
        /\ r.x >= 0 /\ r.y >= 0 /\ r.w >= 1 /\ r.h >= 1
        /\ r.x + r.w <= Width /\ r.y + r.h <= Height
    BY DEF Box, OnPreview, Right, Bottom
  <1>6. x \in Int /\ x >= 0 /\ x <= r.x /\ r.x <= x + 15
    BY <1>2, <1>5
  <1>7. y \in Int /\ y >= 0 /\ y <= r.y /\ r.y <= y + 10
    BY <1>2, <1>5
  <1>8. w \in Int /\ w >= 1 /\ x + w <= Width /\ r.x + r.w <= x + w
    BY <1>1, <1>3, <1>5, <1>6
  <1>9. h \in Int /\ h >= 1 /\ y + h <= Height /\ r.y + r.h <= y + h
    BY <1>1, <1>3, <1>5, <1>7
  <1> QED
    BY <1>4, <1>5, <1>6, <1>7, <1>8, <1>9 DEF Box, OnPreview, Inside, Right, Bottom

LEMMA InsideTransitive ==
    ASSUME NEW a \in Box, NEW b \in Box, NEW c \in Box, Inside(a, b), Inside(b, c)
    PROVE  Inside(a, c)
  BY DEF Box, Inside, Right, Bottom

LEMMA InsideItself ==
    ASSUME NEW a \in Box
    PROVE  Inside(a, a)
  BY DEF Box, Inside, Right, Bottom

\* What meets a box meets whatever holds it.
LEMMA NearOuter ==
    ASSUME NEW a \in Box, NEW b \in Box, NEW c \in Box, Near(a, b), Inside(b, c)
    PROVE  Near(a, c)
  BY DEF Box, Near, Inside, Right, Bottom

\* The union of two blocks holds both, and no more than the preview.
LEMMA UnionFacts ==
    ASSUME NEW a \in Box, NEW b \in Box, NEW u, u = Union(a, b)
    PROVE  /\ u \in Box /\ Inside(a, u) /\ Inside(b, u)
           /\ OnPreview(a) /\ OnPreview(b) => OnPreview(u)
  <1>1. PICK x, y : x = Lesser(a.x, b.x) /\ y = Lesser(a.y, b.y)
    OBVIOUS
  <1>2. PICK w, h : w = Greater(Right(a), Right(b)) - x /\ h = Greater(Bottom(a), Bottom(b)) - y
    OBVIOUS
  <1>3. u = [x |-> x, y |-> y, w |-> w, h |-> h]
    BY <1>1, <1>2 DEF Union
  <1>4. /\ a.x \in Int /\ a.y \in Int /\ a.w \in Int /\ a.h \in Int
        /\ b.x \in Int /\ b.y \in Int /\ b.w \in Int /\ b.h \in Int
    BY DEF Box
  <1>5. x \in Int /\ x <= a.x /\ x <= b.x /\ (x = a.x \/ x = b.x)
    BY <1>1, <1>4 DEF Lesser
  <1>6. y \in Int /\ y <= a.y /\ y <= b.y /\ (y = a.y \/ y = b.y)
    BY <1>1, <1>4 DEF Lesser
  <1>7. /\ w \in Int /\ a.x + a.w <= x + w /\ b.x + b.w <= x + w
        /\ (x + w = a.x + a.w \/ x + w = b.x + b.w)
    BY <1>2, <1>4, <1>5 DEF Greater, Right
  <1>8. /\ h \in Int /\ a.y + a.h <= y + h /\ b.y + b.h <= y + h
        /\ (y + h = a.y + a.h \/ y + h = b.y + b.h)
    BY <1>2, <1>4, <1>6 DEF Greater, Bottom
  <1>9. u \in Box
    BY <1>3, <1>5, <1>6, <1>7, <1>8 DEF Box
  <1>10. Inside(a, u) /\ Inside(b, u)
    BY <1>3, <1>4, <1>5, <1>6, <1>7, <1>8 DEF Inside, Right, Bottom
  <1>11. ASSUME OnPreview(a), OnPreview(b)
         PROVE  OnPreview(u)
    <2>1. Width \in Int /\ Height \in Int
      BY PreviewFitsView
    <2>2. /\ a.x >= 0 /\ a.y >= 0 /\ a.w >= 1 /\ a.h >= 1
          /\ a.x + a.w <= Width /\ a.y + a.h <= Height
          /\ b.x >= 0 /\ b.y >= 0 /\ b.w >= 1 /\ b.h >= 1
          /\ b.x + b.w <= Width /\ b.y + b.h <= Height
      BY <1>11 DEF OnPreview, Right, Bottom
    <2>3. x >= 0 /\ w >= 1 /\ x + w <= Width
      BY <1>4, <1>5, <1>7, <2>1, <2>2
    <2>4. y >= 0 /\ h >= 1 /\ y + h <= Height
      BY <1>4, <1>6, <1>8, <2>1, <2>2
    <2> QED
      BY <1>3, <2>3, <2>4 DEF OnPreview, Right, Bottom
  <1> QED
    BY <1>9, <1>10, <1>11

\* The contours are boxes on the preview, the letters those of them that are text.
LEMMA LetterFacts ==
    ASSUME TypeOK
    PROVE  /\ contours \in Seq(Box) /\ \A i \in DOMAIN contours : OnPreview(contours[i])
           /\ \A k \in DOMAIN Letters :
                 /\ k \in DOMAIN contours /\ IsText(Padded(contours[k]))
                 /\ Letters[k] = Padded(contours[k])
                 /\ Letters[k] \in Box /\ OnPreview(Letters[k]) /\ Inside(contours[k], Letters[k])
           /\ \A i \in DOMAIN contours : IsText(Padded(contours[i])) => i \in DOMAIN Letters
  <1>1. contours \in Seq(Box) /\ \A i \in DOMAIN contours : OnPreview(contours[i])
    BY ContoursAssumption DEF TypeOK
  <1>2. \A k \in DOMAIN Letters : /\ k \in DOMAIN contours /\ IsText(Padded(contours[k]))
                                  /\ Letters[k] = Padded(contours[k])
    BY DEF Letters
  <1>3. ASSUME NEW k \in DOMAIN Letters
        PROVE  Letters[k] \in Box /\ OnPreview(Letters[k]) /\ Inside(contours[k], Letters[k])
    <2>1. contours[k] \in Box /\ OnPreview(contours[k])
      BY <1>1, <1>2
    <2> QED
      BY <1>2, <2>1, PaddedFacts
  <1>4. \A i \in DOMAIN contours : IsText(Padded(contours[i])) => i \in DOMAIN Letters
    BY DEF Letters
  <1> QED
    BY <1>1, <1>2, <1>3, <1>4

-----------------------------------------------------------------------------
(* Merging two blocks. *)

LEMMA RemoveFacts ==
    ASSUME NEW s \in Seq(Box), NEW r \in 1..Len(s), NEW t, t = RemoveAt(s, r)
    PROVE  /\ t \in Seq(Box) /\ Len(t) = Len(s) - 1 /\ DOMAIN t = 1 .. Len(s) - 1
           /\ \A k \in 1 .. Len(s) - 1 : t[k] = IF k < r THEN s[k] ELSE s[k + 1]
  <1>1. PICK n, p, q : n = Len(s) /\ p = SubSeq(s, 1, r - 1) /\ q = SubSeq(s, r + 1, Len(s))
    OBVIOUS
  <1>2. n \in Nat /\ r \in Int /\ 1 <= r /\ r <= n /\ \A k \in 1..n : s[k] \in Box
    BY <1>1
  <1>3. /\ p \in Seq(Box) /\ Len(p) = r - 1
        /\ \A k \in 1 .. r - 1 : p[k] = s[k]
    <2>1. \A k \in 1 .. r - 1 : s[k] \in Box
      BY <1>2
    <2>2. /\ SubSeq(s, 1, r - 1) \in Seq(Box)
          /\ Len(SubSeq(s, 1, r - 1)) = IF 1 <= r - 1 THEN r - 1 - 1 + 1 ELSE 0
          /\ \A k \in 1 .. r - 1 - 1 + 1 : SubSeq(s, 1, r - 1)[k] = s[1 + k - 1]
      BY <1>2, <2>1, SubSeqProperties
    <2> QED
      BY <1>1, <1>2, <2>2
  <1>4. /\ q \in Seq(Box) /\ Len(q) = n - r
        /\ \A k \in 1 .. n - r : q[k] = s[k + r]
    <2>1. \A k \in r + 1 .. n : s[k] \in Box
      BY <1>2
    <2>2. /\ SubSeq(s, r + 1, n) \in Seq(Box)
          /\ Len(SubSeq(s, r + 1, n)) = IF r + 1 <= n THEN n - (r + 1) + 1 ELSE 0
          /\ \A k \in 1 .. n - (r + 1) + 1 : SubSeq(s, r + 1, n)[k] = s[r + 1 + k - 1]
      BY <1>2, <2>1, SubSeqProperties
    <2> QED
      BY <1>1, <1>2, <2>2, SMTT(30)
  <1>5. t = p \o q
    BY <1>1 DEF RemoveAt
  <1>6. /\ t \in Seq(Box) /\ Len(t) = Len(p) + Len(q)
        /\ \A k \in 1 .. Len(p) + Len(q) : t[k] = IF k <= Len(p) THEN p[k] ELSE q[k - Len(p)]
    BY <1>3, <1>4, <1>5, ConcatProperties
  <1>7. Len(t) = n - 1 /\ DOMAIN t = 1 .. n - 1
    <2>1. Len(t) = n - 1
      BY <1>2, <1>3, <1>4, <1>6
    <2> QED
      BY <1>6, <2>1, LenProperties
  <1>8. ASSUME NEW k \in 1 .. n - 1
        PROVE  t[k] = IF k < r THEN s[k] ELSE s[k + 1]
    <2>1. t[k] = IF k <= r - 1 THEN p[k] ELSE q[k - (r - 1)]
      <3>1. Len(p) + Len(q) = n - 1
        BY <1>2, <1>3, <1>4
      <3>2. k \in 1 .. Len(p) + Len(q)
        BY <1>8, <3>1
      <3>3. t[k] = IF k <= Len(p) THEN p[k] ELSE q[k - Len(p)]
        BY <1>6, <3>2
      <3> QED
        BY <1>3, <3>3
    <2>2. CASE k < r
      BY <1>2, <1>3, <1>8, <2>1, <2>2
    <2>3. CASE ~(k < r)
      <3>1. k - (r - 1) \in 1 .. n - r /\ (k - (r - 1)) + r = k + 1
        BY <1>2, <1>8, <2>3
      <3> QED
        BY <1>2, <1>4, <1>8, <2>1, <2>3, <3>1
    <2> QED
      BY <2>2, <2>3
  <1> QED
    BY <1>1, <1>6, <1>7, <1>8

\* A block that lies in another one, neither of them done, can go.
LEMMA InnerGoes ==
    ASSUME NEW s \in Seq(Box), NEW l, \A k \in DOMAIN l : l[k] \in Box,
           NEW n \in Nat, NEW r \in 1..Len(s), NEW q \in 1..Len(s), n <= r, n <= q, q # r,
           Inside(s[r], s[q]), Covered(l, s), Fresh(l, s, n), Apart(s, n), Grown(l, s, n),
           NEW t, t = RemoveAt(s, r)
    PROVE  Covered(l, t) /\ Fresh(l, t, n) /\ Apart(t, n) /\ Grown(l, t, n)
  <1>1. PICK z : z = Len(s)
    OBVIOUS
  <1>2. /\ z \in Nat /\ r \in Int /\ 1 <= r /\ r <= z /\ q \in Int /\ 1 <= q /\ q <= z
        /\ DOMAIN s = 1..z /\ \A k \in 1..z : s[k] \in Box
    BY <1>1
  <1>3. /\ DOMAIN t = 1 .. z - 1
        /\ \A k \in 1 .. z - 1 : t[k] = IF k < r THEN s[k] ELSE s[k + 1]
    BY <1>1, RemoveFacts
  <1>4. ASSUME NEW k \in DOMAIN t
        PROVE  \E m \in DOMAIN s : t[k] = s[m] /\ m >= k /\ (k < n => m = k)
    <2>1. CASE k < r
      BY <1>2, <1>3, <1>4, <2>1
    <2>2. CASE ~(k < r)
      BY <1>2, <1>3, <1>4, <2>2
    <2> QED
      BY <2>1, <2>2
  <1>5. ASSUME NEW m \in DOMAIN s, m # r
        PROVE  \E k \in DOMAIN t : t[k] = s[m]
    <2>1. CASE m < r
      BY <1>2, <1>3, <1>5, <2>1
    <2>2. CASE ~(m < r)
      <3>1. m - 1 \in 1 .. z - 1 /\ ~(m - 1 < r) /\ (m - 1) + 1 = m
        BY <1>2, <1>5, <2>2
      <3> QED
        BY <1>3, <3>1
    <2> QED
      BY <2>1, <2>2
  <1>6. Covered(l, t)
    <2> SUFFICES ASSUME NEW k \in DOMAIN l
                 PROVE  \E m \in DOMAIN t : Inside(l[k], t[m])
      BY DEF Covered
    <2>1. PICK m \in DOMAIN s : Inside(l[k], s[m])
      BY DEF Covered
    <2>2. CASE m # r
      BY <1>5, <2>1, <2>2
    <2>3. CASE m = r
      <3>1. Inside(l[k], s[q])
        BY <1>2, <2>1, <2>3, InsideTransitive
      <3>2. PICK o \in DOMAIN t : t[o] = s[q]
        BY <1>2, <1>5
      <3> QED
        BY <3>1, <3>2
    <2> QED
      BY <2>2, <2>3
  <1>7. Fresh(l, t, n)
    <2> SUFFICES ASSUME NEW k \in DOMAIN t, k > n
                 PROVE  \E j \in DOMAIN l : t[k] = l[j]
      BY DEF Fresh
    <2>1. PICK m \in DOMAIN s : t[k] = s[m] /\ m >= k
      BY <1>4
    <2>2. m > n
      BY <1>2, <1>3, <2>1
    <2> QED
      BY <2>1, <2>2 DEF Fresh
  <1>8. ASSUME NEW i \in DOMAIN t, NEW k \in DOMAIN t, i < n, i < k
        PROVE  /\ i \in DOMAIN s /\ t[i] = s[i]
               /\ \E m \in DOMAIN s : t[k] = s[m] /\ i < m
    <2>1. PICK m \in DOMAIN s : t[k] = s[m] /\ m >= k
      BY <1>4
    <2>2. i < m
      BY <1>2, <1>3, <1>8, <2>1
    <2> QED
      BY <1>4, <1>8, <2>1, <2>2
  <1>9. Apart(t, n)
    <2> SUFFICES ASSUME NEW i \in DOMAIN t, NEW k \in DOMAIN t, i < n, i < k
                 PROVE  ~Inside(t[k], t[i])
      BY DEF Apart
    <2> QED
      BY <1>8 DEF Apart
  <1>10. Grown(l, t, n)
    <2> SUFFICES ASSUME NEW i \in DOMAIN t, NEW k \in DOMAIN t, i < n, i < k, Near(t[i], t[k])
                 PROVE  \A j \in DOMAIN l : t[k] # l[j]
      BY DEF Grown
    <2> QED
      BY <1>8 DEF Grown
  <1> QED
    BY <1>6, <1>7, <1>9, <1>10

\* The current block is united with a later one, neither of them inside the other.  A
\* letter as large as the union would have met whatever the union meets.
LEMMA TwoBecomeOne ==
    ASSUME NEW s \in Seq(Box), NEW l, \A k \in DOMAIN l : l[k] \in Box,
           NEW n \in 1..Len(s), NEW j \in 1..Len(s), n < j,
           ~Inside(s[j], s[n]), ~Inside(s[n], s[j]),
           Covered(l, s), Fresh(l, s, n), Apart(s, n), Grown(l, s, n),
           NEW u \in Box, Inside(s[n], u), Inside(s[j], u),
           NEW e \in Seq(Box), Len(e) = Len(s),
           e[n] = u, \A k \in 1..Len(s) : k # n => e[k] = s[k],
           NEW t, t = RemoveAt(e, j)
    PROVE  /\ t \in Seq(Box) /\ Len(t) = Len(s) - 1
           /\ Covered(l, t) /\ Fresh(l, t, n) /\ Apart(t, n) /\ Grown(l, t, n)
           /\ \A k \in DOMAIN t : t[k] = u \/ \E m \in DOMAIN s : t[k] = s[m]
  <1>1. PICK z : z = Len(s)
    OBVIOUS
  <1>2. /\ z \in Nat /\ n \in Int /\ 1 <= n /\ j \in Int /\ j <= z /\ n < z
        /\ DOMAIN s = 1..z /\ \A k \in 1..z : s[k] \in Box
    BY <1>1
  <1>3. u \in Box /\ Inside(s[n], u) /\ Inside(s[j], u)
    OBVIOUS
  <1>4. e \in Seq(Box) /\ Len(e) = z /\ \A k \in 1..z : e[k] = IF k = n THEN u ELSE s[k]
    BY <1>1
  <1>5. j \in 1..Len(e) /\ t = RemoveAt(e, j)
    BY <1>1, <1>4
  <1>6. /\ t \in Seq(Box) /\ Len(t) = z - 1 /\ DOMAIN t = 1 .. z - 1
        /\ \A k \in 1 .. z - 1 : t[k] = IF k < j THEN e[k] ELSE e[k + 1]
    BY <1>4, <1>5, RemoveFacts
  <1>7. n \in DOMAIN t /\ t[n] = u
    <2>1. n \in 1 .. z - 1 /\ n \in 1..z /\ n < j
      BY <1>2
    <2>2. t[n] = e[n]
      BY <1>6, <2>1
    <2>3. e[n] = u
      BY <1>4, <2>1
    <2> QED
      BY <1>6, <2>1, <2>2, <2>3
  <1>8. ASSUME NEW k \in DOMAIN t, k # n
        PROVE  \E m \in DOMAIN s : /\ t[k] = s[m] /\ m >= k /\ m # n /\ m # j
                                   /\ (k < n => m = k)
    <2>1. CASE k < j
      <3>1. k \in 1 .. z - 1 /\ k \in 1..z /\ k \in Int
        BY <1>2, <1>6
      <3>2. t[k] = e[k]
        BY <1>6, <2>1, <3>1
      <3>3. e[k] = s[k]
        BY <1>4, <1>8, <3>1
      <3>4. k # j /\ k >= k
        BY <1>2, <2>1, <3>1
      <3> QED
        BY <1>2, <1>8, <3>1, <3>2, <3>3, <3>4
    <2>2. CASE ~(k < j)
      <3>1. k \in 1 .. z - 1 /\ k \in Int
        BY <1>2, <1>6
      <3>2. PICK m : m = k + 1
        OBVIOUS
      <3>3. m \in 1..z /\ m # n /\ m # j /\ m >= k /\ ~(k < n)
        BY <1>2, <2>2, <3>1, <3>2
      <3>4. t[k] = e[m]
        BY <1>6, <2>2, <3>1, <3>2
      <3>5. e[m] = s[m]
        BY <1>4, <3>3
      <3> QED
        BY <1>2, <3>3, <3>4, <3>5
    <2> QED
      BY <2>1, <2>2
  <1>9. ASSUME NEW m \in DOMAIN s, m # n, m # j
        PROVE  \E k \in DOMAIN t : t[k] = s[m]
    <2>1. CASE m < j
      <3>1. m \in 1 .. z - 1 /\ m \in 1..z
        BY <1>2, <2>1
      <3>2. t[m] = e[m] /\ e[m] = s[m]
        BY <1>4, <1>6, <1>9, <2>1, <3>1
      <3> QED
        BY <1>6, <3>1, <3>2
    <2>2. CASE ~(m < j)
      <3>1. m - 1 \in 1 .. z - 1 /\ ~(m - 1 < j) /\ (m - 1) + 1 = m
        BY <1>2, <1>9, <2>2
      <3>2. t[m - 1] = e[m]
        BY <1>6, <3>1
      <3>3. e[m] = s[m]
        BY <1>2, <1>4, <1>9
      <3> QED
        BY <1>6, <3>1, <3>2, <3>3
    <2> QED
      BY <2>1, <2>2
  <1>10. Covered(l, t)
    <2> SUFFICES ASSUME NEW k \in DOMAIN l
                 PROVE  \E m \in DOMAIN t : Inside(l[k], t[m])
      BY DEF Covered
    <2>1. PICK m \in DOMAIN s : Inside(l[k], s[m])
      BY DEF Covered
    <2>2. CASE m # n /\ m # j
      BY <1>9, <2>1, <2>2
    <2>3. CASE m = n \/ m = j
      <3>1. Inside(l[k], u)
        BY <1>2, <1>3, <2>1, <2>3, InsideTransitive
      <3> QED
        BY <1>7, <3>1
    <2> QED
      BY <2>2, <2>3
  <1>11. Fresh(l, t, n)
    <2> SUFFICES ASSUME NEW k \in DOMAIN t, k > n
                 PROVE  \E o \in DOMAIN l : t[k] = l[o]
      BY DEF Fresh
    <2>1. k # n
      BY <1>2, <1>6
    <2>2. PICK m \in DOMAIN s : t[k] = s[m] /\ m >= k
      BY <1>8, <2>1
    <2>3. m > n
      BY <1>2, <1>6, <2>2
    <2> QED
      BY <2>2, <2>3 DEF Fresh
  <1>12. ASSUME NEW i \in DOMAIN t, NEW k \in DOMAIN t, i < n, i < k
         PROVE  /\ i \in DOMAIN s /\ i \in Int /\ t[i] = s[i]
                /\ k # n => \E m \in DOMAIN s : t[k] = s[m] /\ i < m
    <2>1. i \in DOMAIN s /\ i \in Int /\ t[i] = s[i]
      <3>1. i \in 1 .. z - 1 /\ i \in Int
        BY <1>2, <1>6
      <3>2. i # n
        BY <1>2, <1>12, <3>1
      <3>3. i \in DOMAIN t /\ i # n
        BY <3>2
      <3>4. \E m \in DOMAIN s : /\ t[i] = s[m] /\ m >= i /\ m # n /\ m # j
                                /\ (i < n => m = i)
        BY <1>8, <3>3
      <3> QED
        BY <1>12, <3>1, <3>4
    <2>2. ASSUME k # n
          PROVE  \E m \in DOMAIN s : t[k] = s[m] /\ i < m
      <3>1. PICK m \in DOMAIN s : t[k] = s[m] /\ m >= k
        BY <1>8, <2>2
      <3>2. i < m
        BY <1>2, <1>6, <1>12, <3>1
      <3> QED
        BY <3>1, <3>2
    <2> QED
      BY <2>1, <2>2
  <1>13. Apart(t, n)
    <2> SUFFICES ASSUME NEW i \in DOMAIN t, NEW k \in DOMAIN t, i < n, i < k
                 PROVE  ~Inside(t[k], t[i])
      BY DEF Apart
    <2>1. CASE k # n
      <3>1. i \in DOMAIN s /\ t[i] = s[i]
        BY <1>12
      <3>2. PICK m \in DOMAIN s : t[k] = s[m] /\ i < m
        BY <1>12, <2>1
      <3> QED
        BY <3>1, <3>2 DEF Apart
    <2>2. CASE k = n
      <3>1. i \in DOMAIN s /\ t[i] = s[i]
        BY <1>12
      <3>2. ~Inside(s[n], s[i])
        BY <1>2, <3>1 DEF Apart
      <3>3. s[n] \in Box /\ s[i] \in Box
        BY <1>2, <3>1
      <3>4. ~Inside(u, s[i])
        BY <1>3, <3>2, <3>3, InsideTransitive
      <3> QED
        BY <1>7, <2>2, <3>1, <3>4
    <2> QED
      BY <2>1, <2>2
  <1>14. Grown(l, t, n)
    <2> SUFFICES ASSUME NEW i \in DOMAIN t, NEW k \in DOMAIN t, i < n, i < k, Near(t[i], t[k]),
                        NEW o \in DOMAIN l, t[k] = l[o]
                 PROVE  FALSE
      BY DEF Grown
    <2>1. i \in DOMAIN s /\ i \in Int /\ t[i] = s[i]
      BY <1>12
    <2>2. CASE k # n
      <3>1. PICK m \in DOMAIN s : t[k] = s[m] /\ i < m
        BY <1>12, <2>2
      <3>2. Near(s[i], s[m])
        BY <2>1, <3>1
      <3> QED
        BY <2>1, <3>1, <3>2 DEF Grown
    <2>3. CASE k = n
      <3>1. l[o] = u /\ Near(s[i], u)
        BY <1>7, <2>1, <2>3
      <3>2. PICK m \in DOMAIN s : Inside(u, s[m])
        BY <3>1 DEF Covered
      <3>3. Inside(s[n], s[m]) /\ Inside(s[j], s[m])
        BY <1>2, <1>3, <3>2, InsideTransitive
      <3>4. CASE m < n
        BY <1>2, <3>3, <3>4 DEF Apart
      <3>5. CASE m = n
        BY <3>3, <3>5
      <3>6. CASE m = j
        BY <3>3, <3>6
      <3>7. CASE m > n
        <4>1. \E p \in DOMAIN l : s[m] = l[p]
          BY <3>7 DEF Fresh
        <4>2. Near(s[i], s[m])
          BY <1>2, <1>3, <2>1, <3>1, <3>2, NearOuter
        <4>3. i < m
          BY <1>2, <2>1, <3>7
        <4> QED
          BY <2>1, <4>1, <4>2, <4>3 DEF Grown
      <3> QED
        BY <1>2, <3>4, <3>5, <3>6, <3>7
    <2> QED
      BY <2>2, <2>3
  <1>15. \A k \in DOMAIN t : t[k] = u \/ \E m \in DOMAIN s : t[k] = s[m]
    BY <1>7, <1>8
  <1> QED
    BY <1>1, <1>6, <1>10, <1>11, <1>13, <1>14, <1>15

-----------------------------------------------------------------------------
(* The sort. *)

\* A sequence of all elements of a finite set, each of them once, leaves none out.
LEMMA OrderIsOnto ==
    ASSUME NEW S, IsFiniteSet(S), NEW f \in SetToSeqs(S), NEW c, c = Cardinality(S)
    PROVE  /\ c \in Nat /\ f \in [1..c -> S]
           /\ \A k \in S : \E i \in 1..c : f[i] = k
  <1>1. c \in Nat
    BY FS_CardinalityType
  <1>2. f \in [1..c -> S] /\ \A i, j \in 1..c : i # j => f[i] # f[j]
    BY DEF SetToSeqs
  <1>3. ASSUME NEW k \in S, \A i \in 1..c : f[i] # k
        PROVE  FALSE
    <2>1. PICK T, D : T = S \ {k} /\ D = 1..c
      OBVIOUS
    <2>2. IsFiniteSet(T) /\ Cardinality(T) = c - 1
      BY <2>1, FS_RemoveElement
    <2>3. IsFiniteSet(D) /\ Cardinality(D) = c
      BY <1>1, <2>1, FS_Interval
    <2>4. Cardinality(T) < Cardinality(D)
      BY <1>1, <2>2, <2>3
    <2>5. f \in [D -> T]
      BY <1>2, <1>3, <2>1
    <2>6. \E x, y \in D : x # y /\ f[x] = f[y]
      BY <2>2, <2>3, <2>4, <2>5, FS_PigeonHole
    <2> QED
      BY <1>2, <2>1, <2>6
  <1> QED
    BY <1>1, <1>2, <1>3

\* After the sort the blocks are the letters.
LEMMA CollectFacts ==
    ASSUME TypeOK, NEW f \in SetToSeqs(DOMAIN Letters),
           NEW t \in [DOMAIN f -> Box], \A i \in DOMAIN f : t[i] = Letters[f[i]]
    PROVE  /\ t \in Seq(Box)
           /\ \A m \in DOMAIN t : \E k \in DOMAIN Letters : t[m] = Letters[k]
           /\ \A k \in DOMAIN Letters : \E m \in DOMAIN t : t[m] = Letters[k]
  <1>1. IsFiniteSet(DOMAIN Letters)
    <2>1. contours \in Seq(Box)
      BY LetterFacts
    <2>2. PICK D : D = 1..Len(contours)
      OBVIOUS
    <2>3. IsFiniteSet(D)
      BY <2>1, <2>2, FS_Interval
    <2>4. DOMAIN Letters \subseteq D
      BY <2>1, <2>2, LetterFacts
    <2> QED
      BY <2>3, <2>4, FS_Subset
  <1>2. PICK c : c = Cardinality(DOMAIN Letters)
    OBVIOUS
  <1>3. /\ c \in Nat /\ f \in [1..c -> DOMAIN Letters]
        /\ \A k \in DOMAIN Letters : \E i \in 1..c : f[i] = k
    BY <1>1, <1>2, OrderIsOnto
  <1>4. DOMAIN t = 1..c /\ \A i \in 1..c : f[i] \in DOMAIN Letters /\ t[i] = Letters[f[i]]
    BY <1>3
  <1>5. \A i \in 1..c : t[i] \in Box
    BY <1>4, LetterFacts
  <1>6. t \in Seq(Box)
    <2>1. t \in [1..c -> Box]
      BY <1>3, <1>5
    <2> QED
      BY <1>3, <2>1
  <1> QED
    BY <1>3, <1>4, <1>6

-----------------------------------------------------------------------------
(* The steps. *)

LEMMA InitOK == Init => IInv
  <1> SUFFICES ASSUME Init
               PROVE  IInv
    OBVIOUS
  <1>1. blocks \in Seq(Box) /\ points \in Seq(Box) /\ Len(blocks) = 0
    BY EmptySeq DEF Init
  <1>2. DOMAIN blocks = {} /\ DOMAIN points = {}
    BY <1>1 DEF Init
  <1>3. TypeOK
    BY <1>1 DEF Init, TypeOK, Greater
  <1> QED
    BY <1>2, <1>3 DEF Init, IInv, Covered, Fresh, Apart, Grown, PointsOnCard

LEMMA CollectOK ==
    ASSUME IInv, Collect
    PROVE  IInv'
  <1>1. TypeOK /\ pc = "contours" /\ index = 1 /\ PointsOnCard
    BY DEF IInv, Collect
  <1>2. PICK f \in SetToSeqs(DOMAIN Letters) : blocks' = [i \in DOMAIN f |-> Letters[f[i]]]
    BY DEF Collect
  <1>3. /\ blocks' \in Seq(Box)
        /\ \A m \in DOMAIN blocks' : \E k \in DOMAIN Letters : blocks'[m] = Letters[k]
        /\ \A k \in DOMAIN Letters : \E m \in DOMAIN blocks' : blocks'[m] = Letters[k]
    <2>1. PICK t : t = [i \in DOMAIN f |-> Letters[f[i]]]
      OBVIOUS
    <2>2. t \in [DOMAIN f -> Box] /\ \A i \in DOMAIN f : t[i] = Letters[f[i]]
      <3>1. \A i \in DOMAIN f : f[i] \in DOMAIN Letters
        BY DEF SetToSeqs
      <3>2. \A i \in DOMAIN f : Letters[f[i]] \in Box
        BY <1>1, <3>1, LetterFacts
      <3> QED
        BY <2>1, <3>2
    <2>3. /\ t \in Seq(Box)
          /\ \A m \in DOMAIN t : \E k \in DOMAIN Letters : t[m] = Letters[k]
          /\ \A k \in DOMAIN Letters : \E m \in DOMAIN t : t[m] = Letters[k]
      BY <1>1, <2>2, CollectFacts
    <2> QED
      BY <1>2, <2>1, <2>3
  <1>4. /\ contours' = contours /\ index' = 1 /\ points' = points /\ pc' = "merge"
        /\ Letters' = Letters
    BY <1>1 DEF Collect, Letters
  <1>5. TypeOK'
    <2>1. Len(blocks') \in Nat
      BY <1>3
    <2>2. 1 \in 1 .. Greater(1, Len(blocks'))
      BY <2>1 DEF Greater
    <2> QED
      BY <1>1, <1>3, <1>4, <2>2 DEF TypeOK, Greater
  <1>6. \A m \in DOMAIN blocks' : OnPreview(blocks'[m])
    BY <1>1, <1>3, LetterFacts
  <1>7. Covered(Letters, blocks')
    <2>1. ASSUME NEW k \in DOMAIN Letters
          PROVE  \E m \in DOMAIN blocks' : Inside(Letters[k], blocks'[m])
      BY <1>1, <1>3, LetterFacts, InsideItself
    <2> QED
      BY <2>1 DEF Covered
  <1>8. Fresh(Letters, blocks', index')
    BY <1>3 DEF Fresh
  <1>9. Apart(blocks', index') /\ Grown(Letters, blocks', index')
    <2>1. \A i \in DOMAIN blocks' : ~(i < 1)
      BY <1>3
    <2> QED
      BY <1>4, <2>1 DEF Apart, Grown
  <1>10. PointsOnCard'
    BY <1>1, <1>4 DEF PointsOnCard
  <1> QED
    BY <1>4, <1>5, <1>6, <1>7, <1>8, <1>9, <1>10 DEF IInv

LEMMA AbsorbOK ==
    ASSUME IInv, Absorb
    PROVE  IInv'
  <1>1. /\ TypeOK /\ pc = "merge" /\ index < Len(blocks) /\ PointsOnCard
        /\ \A m \in DOMAIN blocks : OnPreview(blocks[m])
        /\ Covered(Letters, blocks) /\ Fresh(Letters, blocks, index)
        /\ Apart(blocks, index) /\ Grown(Letters, blocks, index)
    BY DEF IInv, Absorb
  <1>2. blocks \in Seq(Box) /\ Len(blocks) \in Nat /\ index \in Nat /\ index \in 1..Len(blocks)
    BY <1>1 DEF TypeOK, Greater
  <1>3. DOMAIN blocks = 1..Len(blocks)
    BY <1>2
  <1>4. PICK j \in Partners(index) : blocks' = Absorbed(index, j)
    BY DEF Absorb
  <1>5. j \in 1..Len(blocks) /\ j \in Nat /\ index < j
    BY <1>2, <1>4 DEF Partners
  <1>6. \A k \in DOMAIN Letters : Letters[k] \in Box
    BY <1>1, LetterFacts
  <1>7. PICK l : l = Letters
    OBVIOUS
  <1>8. PICK t : t = blocks'
    OBVIOUS
  <1>9. /\ t \in Seq(Box) /\ Len(t) = Len(blocks) - 1
        /\ Covered(l, t) /\ Fresh(l, t, index) /\ Apart(t, index) /\ Grown(l, t, index)
        /\ \A m \in DOMAIN t : OnPreview(t[m])
    <2>1. CASE Inside(blocks[j], blocks[index])
      <3>1. t = RemoveAt(blocks, j)
        BY <1>4, <1>8, <2>1 DEF Absorbed
      <3>2. /\ t \in Seq(Box) /\ Len(t) = Len(blocks) - 1 /\ DOMAIN t = 1 .. Len(blocks) - 1
            /\ \A k \in 1 .. Len(blocks) - 1 : t[k] = IF k < j THEN blocks[k] ELSE blocks[k + 1]
        BY <1>2, <1>5, <3>1, RemoveFacts
      <3>3. Covered(l, t) /\ Fresh(l, t, index) /\ Apart(t, index) /\ Grown(l, t, index)
        <4>1. index <= j /\ index <= index /\ index # j
          BY <1>2, <1>5
        <4> QED
          BY <1>1, <1>2, <1>5, <1>6, <1>7, <2>1, <3>1, <4>1, InnerGoes
      <3> QED
        BY <1>1, <1>2, <1>3, <3>2, <3>3
    <2>2. CASE ~Inside(blocks[j], blocks[index]) /\ Inside(blocks[index], blocks[j])
      <3>1. t = RemoveAt(blocks, index)
        BY <1>4, <1>8, <2>2 DEF Absorbed
      <3>2. /\ t \in Seq(Box) /\ Len(t) = Len(blocks) - 1 /\ DOMAIN t = 1 .. Len(blocks) - 1
            /\ \A k \in 1 .. Len(blocks) - 1 : t[k] = IF k < index THEN blocks[k] ELSE blocks[k + 1]
        BY <1>2, <3>1, RemoveFacts
      <3>3. Covered(l, t) /\ Fresh(l, t, index) /\ Apart(t, index) /\ Grown(l, t, index)
        <4>1. index <= j /\ index <= index /\ index # j
          BY <1>2, <1>5
        <4> QED
          BY <1>1, <1>2, <1>5, <1>6, <1>7, <2>2, <3>1, <4>1, InnerGoes
      <3> QED
        BY <1>1, <1>2, <1>3, <3>2, <3>3, SMTT(30)
    <2>3. CASE ~Inside(blocks[j], blocks[index]) /\ ~Inside(blocks[index], blocks[j])
      <3>1. PICK u : u = Union(blocks[index], blocks[j])
        OBVIOUS
      <3>2. t = RemoveAt([blocks EXCEPT ![index] = u], j)
        BY <1>4, <1>8, <2>3, <3>1 DEF Absorbed
      <3>3. /\ t \in Seq(Box) /\ Len(t) = Len(blocks) - 1
            /\ Covered(l, t) /\ Fresh(l, t, index) /\ Apart(t, index) /\ Grown(l, t, index)
            /\ \A k \in DOMAIN t : t[k] = u \/ \E m \in DOMAIN blocks : t[k] = blocks[m]
        <4>1. /\ \A k \in DOMAIN l : l[k] \in Box
              /\ Covered(l, blocks) /\ Fresh(l, blocks, index)
              /\ Apart(blocks, index) /\ Grown(l, blocks, index)
          BY <1>1, <1>6, <1>7
        <4>2. index \in 1..Len(blocks) /\ j \in 1..Len(blocks) /\ index < j
          BY <1>2, <1>5
        <4>3. PICK e : e = [blocks EXCEPT ![index] = u]
          OBVIOUS
        <4>4. t = RemoveAt(e, j)
          BY <3>2, <4>3
        <4>5. u \in Box /\ Inside(blocks[index], u) /\ Inside(blocks[j], u)
          BY <1>2, <3>1, <4>2, UnionFacts
        <4>6. e \in Seq(Box) /\ Len(e) = Len(blocks)
              /\ \A k \in 1..Len(blocks) : e[k] = IF k = index THEN u ELSE blocks[k]
          BY <1>2, <4>3, <4>5, ExceptSeq
        <4>7. PICK s, n : s = blocks /\ n = index
          OBVIOUS
        <4>8. /\ s \in Seq(Box) /\ n \in 1..Len(s) /\ j \in 1..Len(s) /\ n < j
              /\ ~Inside(s[j], s[n]) /\ ~Inside(s[n], s[j])
              /\ Covered(l, s) /\ Fresh(l, s, n) /\ Apart(s, n) /\ Grown(l, s, n)
              /\ Inside(s[n], u) /\ Inside(s[j], u)
              /\ e \in Seq(Box) /\ Len(e) = Len(s)
              /\ e[n] = u /\ \A k \in 1..Len(s) : k # n => e[k] = s[k]
          BY <1>2, <2>3, <4>1, <4>2, <4>5, <4>6, <4>7
        <4>9. /\ t \in Seq(Box) /\ Len(t) = Len(s) - 1
              /\ Covered(l, t) /\ Fresh(l, t, n) /\ Apart(t, n) /\ Grown(l, t, n)
              /\ \A k \in DOMAIN t : t[k] = u \/ \E m \in DOMAIN s : t[k] = s[m]
          BY <4>1, <4>4, <4>5, <4>8, TwoBecomeOne, Z3T(60)
        <4> QED
          BY <4>7, <4>9
      <3>4. OnPreview(u)
        <4>1. blocks[index] \in Box /\ blocks[j] \in Box
          BY <1>2, <1>5
        <4>2. OnPreview(blocks[index]) /\ OnPreview(blocks[j])
          BY <1>1, <1>2, <1>3, <1>5
        <4> QED
          BY <3>1, <4>1, <4>2, UnionFacts
      <3> QED
        BY <1>1, <3>3, <3>4
    <2> QED
      BY <2>1, <2>2, <2>3
  <1>10. /\ contours' = contours /\ index' = index /\ points' = points /\ pc' = "merge"
         /\ Letters' = l
    BY <1>1, <1>7 DEF Absorb, Letters
  <1>11. TypeOK'
    <2>1. Len(t) \in Nat /\ index \in 1..Len(t)
      BY <1>1, <1>2, <1>9
    <2>2. index \in 1 .. Greater(1, Len(t))
      BY <2>1 DEF Greater
    <2> QED
      BY <1>1, <1>8, <1>9, <1>10, <2>2 DEF TypeOK, Greater
  <1>12. PointsOnCard'
    BY <1>1, <1>10 DEF PointsOnCard
  <1> QED
    BY <1>8, <1>9, <1>10, <1>11, <1>12 DEF IInv

LEMMA AdvanceOK ==
    ASSUME IInv, Advance
    PROVE  IInv'
  <1>1. /\ TypeOK /\ pc = "merge" /\ index < Len(blocks) /\ PointsOnCard
        /\ \A m \in DOMAIN blocks : OnPreview(blocks[m])
        /\ Covered(Letters, blocks) /\ Fresh(Letters, blocks, index)
        /\ Apart(blocks, index) /\ Grown(Letters, blocks, index)
    BY DEF IInv, Advance
  <1>2. blocks \in Seq(Box) /\ Len(blocks) \in Nat /\ index \in Nat /\ index \in 1..Len(blocks)
    BY <1>1 DEF TypeOK, Greater
  <1>3. DOMAIN blocks = 1..Len(blocks)
    BY <1>2
  <1>4. /\ contours' = contours /\ blocks' = blocks /\ index' = index + 1 /\ points' = points
        /\ pc' = "merge" /\ Letters' = Letters
    BY <1>1 DEF Advance, Letters
  <1>5. \A m \in DOMAIN blocks : index < m =>
            ~Inside(blocks[m], blocks[index]) /\ ~Near(blocks[index], blocks[m])
    <2>1. ASSUME NEW m \in DOMAIN blocks, index < m
          PROVE  ~Inside(blocks[m], blocks[index]) /\ ~Near(blocks[index], blocks[m])
      <3>1. m \in index + 1 .. Len(blocks)
        BY <1>2, <1>3, <2>1
      <3>2. m \notin Partners(index)
        BY DEF Advance
      <3> QED
        BY <3>1, <3>2 DEF Partners
    <2> QED
      BY <2>1
  <1>6. \A i \in DOMAIN blocks : i < index + 1 => i < index \/ i = index
    BY <1>2, <1>3
  <1>7. Fresh(Letters, blocks, index + 1)
    <2>1. \A m \in DOMAIN blocks : m > index + 1 => m > index
      BY <1>2, <1>3
    <2> QED
      BY <1>1, <2>1 DEF Fresh
  <1>8. Apart(blocks, index + 1)
    BY <1>1, <1>5, <1>6 DEF Apart
  <1>9. Grown(Letters, blocks, index + 1)
    BY <1>1, <1>5, <1>6 DEF Grown
  <1>10. TypeOK'
    <2>1. index + 1 \in 1 .. Greater(1, Len(blocks))
      BY <1>1, <1>2 DEF Greater
    <2> QED
      BY <1>1, <1>4, <2>1 DEF TypeOK, Greater
  <1>11. PointsOnCard'
    BY <1>1, <1>4 DEF PointsOnCard
  <1> QED
    BY <1>1, <1>4, <1>7, <1>8, <1>9, <1>10, <1>11 DEF IInv

LEMMA RescaleOK ==
    ASSUME IInv, Rescale
    PROVE  IInv'
  <1>1. TypeOK /\ pc = "rescale" /\ \A m \in DOMAIN blocks : OnPreview(blocks[m])
    BY DEF IInv, Rescale
  <1>2. blocks \in Seq(Box) /\ Len(blocks) \in Nat /\ DOMAIN blocks = 1..Len(blocks)
    BY <1>1 DEF TypeOK
  <1>3. /\ contours' = contours /\ blocks' = blocks /\ index' = index /\ pc' = "done"
        /\ Letters' = Letters
    BY DEF Rescale, Letters
  <1>4. PICK t : t = [i \in DOMAIN blocks |-> InCard(blocks[i])]
    OBVIOUS
  <1>5. points' = t
    BY <1>4 DEF Rescale
  <1>6. \A i \in DOMAIN t :
            /\ t[i] \in Box
            /\ t[i].x >= 0 /\ Right(t[i]) <= CardWidth /\ t[i].y >= 0 /\ Bottom(t[i]) <= CardHeight
    <2>1. ASSUME NEW i \in DOMAIN t
          PROVE  /\ t[i] \in Box
                 /\ t[i].x >= 0 /\ Right(t[i]) <= CardWidth
                 /\ t[i].y >= 0 /\ Bottom(t[i]) <= CardHeight
      <3>1. blocks[i] \in Box /\ OnPreview(blocks[i]) /\ t[i] = InCard(blocks[i])
        BY <1>1, <1>2, <1>4, <2>1
      <3> QED
        BY <3>1, InCardFacts
    <2> QED
      BY <2>1
  <1>7. t \in Seq(Box)
    <2>1. PICK c : c = Len(blocks)
      OBVIOUS
    <2>2. t \in [1..c -> Box]
      BY <1>2, <1>4, <1>6, <2>1
    <2> QED
      BY <1>2, <2>1, <2>2
  <1>8. TypeOK'
    BY <1>1, <1>3, <1>5, <1>7 DEF TypeOK
  <1>9. PointsOnCard'
    BY <1>5, <1>6 DEF PointsOnCard
  <1> QED
    BY <1>1, <1>3, <1>8, <1>9 DEF IInv, Rescale

\* NoBlock and Return only move pc on.
LEMMA MovesOn ==
    ASSUME IInv, pc = "merge", pc' \in {"fault", "rescale"},
           UNCHANGED <<contours, blocks, index, points>>
    PROVE  IInv'
  <1>1. Letters' = Letters
    BY DEF Letters
  <1>2. TypeOK'
    BY DEF IInv, TypeOK
  <1>3. PointsOnCard'
    BY DEF IInv, PointsOnCard
  <1> QED
    BY <1>1, <1>2, <1>3 DEF IInv

LEMMA Stutter ==
    ASSUME IInv, UNCHANGED vars
    PROVE  IInv'
  <1>1. Letters' = Letters
    BY DEF Letters, vars
  <1>2. TypeOK'
    BY DEF IInv, TypeOK, vars
  <1>3. PointsOnCard'
    BY DEF IInv, PointsOnCard, vars
  <1> QED
    BY <1>1, <1>2, <1>3 DEF IInv, vars

LEMMA StepOK == IInv /\ [Next]_vars => IInv'
  <1> SUFFICES ASSUME IInv, [Next]_vars
               PROVE  IInv'
    OBVIOUS
  <1>1. CASE Collect
    BY <1>1, CollectOK
  <1>2. CASE NoBlock
    BY <1>2, MovesOn DEF NoBlock
  <1>3. CASE Absorb
    BY <1>3, AbsorbOK
  <1>4. CASE Advance
    BY <1>4, AdvanceOK
  <1>5. CASE Return
    BY <1>5, MovesOn DEF Return
  <1>6. CASE Rescale
    BY <1>6, RescaleOK
  <1>7. CASE Rest
    BY <1>7, Stutter DEF Rest
  <1>8. CASE UNCHANGED vars
    BY <1>8, Stutter
  <1> QED
    BY <1>1, <1>2, <1>3, <1>4, <1>5, <1>6, <1>7, <1>8 DEF Next

\* The blocks are as IInv says at every moment.
THEOREM Invariance == Spec => []IInv
  BY InitOK, StepOK, PTL DEF Spec

-----------------------------------------------------------------------------
(* What follows. *)

\* Merging loses no text: every contour that detectLetters took for text lies in one of
\* the blocks from the sort to the end, however many there are and whatever is united.
THEOREM NoTextIsLost == Spec => []LettersCovered
  <1>1. IInv => LettersCovered
    <2> SUFFICES ASSUME IInv
                 PROVE  LettersCovered
      OBVIOUS
    <2>1. TypeOK /\ blocks \in Seq(Box)
      BY DEF IInv, TypeOK
    <2>2. ASSUME pc \in {"merge", "rescale", "done"}, NEW i \in DOMAIN contours,
                 IsText(Padded(contours[i]))
          PROVE  \E j \in DOMAIN blocks : Inside(contours[i], blocks[j])
      <3>1. /\ i \in DOMAIN Letters /\ Letters[i] \in Box /\ Inside(contours[i], Letters[i])
            /\ contours[i] \in Box
        BY <2>1, <2>2, LetterFacts
      <3>2. Covered(Letters, blocks)
        BY <2>2 DEF IInv
      <3>3. PICK j \in DOMAIN blocks : Inside(Letters[i], blocks[j])
        BY <3>1, <3>2 DEF Covered
      <3>4. blocks[j] \in Box
        BY <2>1, <3>3
      <3> QED
        BY <3>1, <3>3, <3>4, InsideTransitive
    <2> QED
      BY <2>1, <2>2 DEF LettersCovered
  <1> QED
    BY <1>1, Invariance, PTL

\* The rectangles handed to tesseract lie on the card, however the preview was rounded.
THEOREM RectanglesAreOnCard == Spec => []PointsOnCard
  <1>1. IInv => PointsOnCard
    BY DEF IInv
  <1> QED
    BY <1>1, Invariance, PTL

\* The one pass is enough for the letters as they were found.
THEOREM OnePassIsEnough == Spec => []OverlapOnlyGrown
  <1>1. IInv => OverlapOnlyGrown
    BY DEF IInv, Grown, OverlapOnlyGrown
  <1> QED
    BY <1>1, Invariance, PTL

-----------------------------------------------------------------------------
(* The inductive invariant, one named part per idea.  All but the first    *)
(* part speak of the time before two workers have overlapped.              *)

\* A callback that has tested cachedEnv is one of the Calls.
CallsLeft == \A j \in Jobs : place[j] \in {"load", "call"} => calls[j] < Calls

\* No worker is between the assignments while another one is.
Alone == \A j, k \in Jobs : place[j] \in Between /\ place[k] \in Between => j = k

\* Whoever is between the assignments owns cachedEnv; nobody else does.
EnvOwner ==
    /\ \A j \in Jobs : place[j] \in Between => cachedEnv = j
    /\ cachedEnv # None => place[cachedEnv] \in Between

\* cachedObject and the only global reference are the owner's, from the second
\* assignment to the deletion.
ObjectOwner ==
    /\ \A j \in Jobs : place[j] \in Between \ {"object", "clear"} => cachedObject = j
    /\ \A j \in Jobs : j \in refs <=> place[j] \in Between \ {"object", "clear"}

\* The env loaded for a call is the caller's own.
EnvLoaded == \A j \in Jobs : place[j] \in {"call", "delete"} => env[j] = j

NoHarm == fault = "none" /\ strays = {}

Exclusive == Alone /\ EnvOwner /\ ObjectOwner /\ EnvLoaded /\ NoHarm

BookIInv == BookTypeOK /\ CallsLeft /\ (~overlapped => Exclusive)

-----------------------------------------------------------------------------
(* Facts about the helpers of the model.                                   *)

\* What a worker's step does to the place it is at and to the record of overlaps.
Went(j, from, to) ==
    /\ place' \in [Jobs -> Points] /\ overlapped' \in BOOLEAN /\ screen' = screen
    /\ place[j] = from /\ place' = [place EXCEPT ![j] = to]
    /\ ~overlapped' => ~overlapped
    /\ ~overlapped' => (to \in Between => \A k \in Jobs \ {j} : place[k] \notin Between)
    /\ ~overlapped' => Alone'

\* Goes records the overlap that its own step makes, and only such a step
\* can end the time in which no two workers have overlapped.
LEMMA GoesFacts ==
    ASSUME BookIInv, NEW j \in Jobs,
           NEW from \in Points, NEW to \in Points, Goes(j, from, to)
    PROVE  Went(j, from, to)
  <1> USE DEF Goes, BookIInv
  <1>1. /\ place' \in [Jobs -> Points] /\ screen' = screen
        /\ place[j] = from /\ place' = [place EXCEPT ![j] = to]
    BY DEF BookTypeOK
  <1>2. overlapped' \in BOOLEAN
    BY DEF BookTypeOK
  <1>3. ~overlapped' => ~overlapped
    OBVIOUS
  <1>4. ~overlapped' => (to \in Between => \A k \in Jobs \ {j} : place[k] \notin Between)
    OBVIOUS
  <1>5. ~overlapped' => Alone'
    BY <1>1, <1>3, <1>4 DEF Exclusive, Alone, BookTypeOK
  <1> QED
    BY <1>1, <1>2, <1>3, <1>4, <1>5 DEF Went

\* An owner's id is a job's, and no job's id is None.
LEMMA JobsFacts == Jobs \subseteq Nat /\ None \notin Jobs
  BY CountsAssumption DEF Jobs, None

-----------------------------------------------------------------------------
(* Every action keeps the inductive invariant.                             *)

\* Nothing has happened before the first screen.
LEMMA BookInitIInv == ASSUME BookInit PROVE BookIInv
  <1> USE CountsAssumption, JobsFacts DEF BookInit
  <1>1. BookTypeOK
    <2>1. "new" \in {"new", "opened", "destroyed"} /\ "idle" \in Points /\ 0 \in 0..Calls
      BY DEF Points
    <2>2. /\ screen \in [Jobs -> {"new", "opened", "destroyed"}] /\ place \in [Jobs -> Points]
          /\ calls \in [Jobs -> 0..Calls] /\ env \in [Jobs -> Jobs \cup {None}]
      BY <2>1
    <2>3. /\ cachedEnv \in Jobs \cup {None} /\ cachedObject \in Jobs \cup {None}
          /\ refs \subseteq Jobs /\ strays \subseteq Jobs
          /\ fault \in {"none", "null_env", "wrong_env", "stale_ref"}
          /\ overlapped \in BOOLEAN
      OBVIOUS
    <2> QED
      BY <2>2, <2>3 DEF BookTypeOK
  <1>2. CallsLeft
    BY DEF CallsLeft
  <1>3. Exclusive
    BY DEF Exclusive, Alone, EnvOwner, ObjectOwner, EnvLoaded, NoHarm, Between
  <1> QED
    BY <1>1, <1>2, <1>3 DEF BookIInv

\* The user's steps concern no worker that is between the assignments: they open
\* and destroy screens, and start a worker that has not assigned anything yet.
LEMMA BookUserIInv ==
    ASSUME BookIInv, NEW j \in Jobs, User(j)
    PROVE  BookIInv'
  <1> USE CountsAssumption, JobsFacts DEF BookIInv, SetScreen
  <1>1. CASE Open(j)
    BY <1>1 DEF Open, BookTypeOK, CallsLeft, Exclusive, Alone,
       EnvOwner, ObjectOwner, EnvLoaded, NoHarm
  <1>2. CASE Destroy(j)
    BY <1>2 DEF Destroy, BookTypeOK, CallsLeft, Exclusive, Alone,
       EnvOwner, ObjectOwner, EnvLoaded, NoHarm
  <1>3. CASE Start(j)
    <2> USE <1>3 DEF Start
    <2>1. BookTypeOK'
      BY DEF BookTypeOK, Points
    <2>2. CallsLeft'
      BY DEF BookTypeOK, CallsLeft
    <2>3. ~overlapped' => Exclusive'
      <3> SUFFICES ASSUME ~overlapped' PROVE Exclusive'
        OBVIOUS
      <3> USE DEF Exclusive, BookTypeOK, Between
      <3>1. Alone'
        BY DEF Alone
      <3>2. EnvOwner'
        BY DEF EnvOwner
      <3>3. ObjectOwner'
        BY DEF ObjectOwner
      <3>4. EnvLoaded' /\ NoHarm'
        BY DEF EnvLoaded, NoHarm
      <3> QED
        BY <3>1, <3>2, <3>3, <3>4
    <2> QED
      BY <2>1, <2>2, <2>3
  <1> QED
    BY <1>1, <1>2, <1>3 DEF User

\* The worker becomes the owner of cachedEnv.
LEMMA BookSetBookIInv ==
    ASSUME BookIInv, NEW j \in Jobs, SetEnv(j)
    PROVE  BookIInv'
  <1> USE CountsAssumption, JobsFacts DEF SetEnv
  <1>1. Went(j, "env", "object")
    <2>1. {"env", "object"} \subseteq Points /\ Goes(j, "env", "object")
      BY DEF Points
    <2> QED
      BY <2>1, GoesFacts
  <1> USE DEF BookIInv, Went
  <1>2. BookTypeOK'
    BY <1>1 DEF BookTypeOK, CallsLeft
  <1>3. CallsLeft'
    BY <1>1 DEF BookTypeOK, CallsLeft
  <1>4. ~overlapped' => Exclusive'
    <2> SUFFICES ASSUME ~overlapped' PROVE Exclusive'
      OBVIOUS
    <2> USE <1>1 DEF Exclusive, BookTypeOK, Between
    <2>1. EnvOwner'
      BY DEF EnvOwner, Alone
    <2>2. ObjectOwner'
      BY DEF ObjectOwner, EnvOwner, Alone
    <2>3. EnvLoaded'
      BY DEF EnvLoaded, EnvOwner
    <2>4. NoHarm'
      BY DEF NoHarm, EnvLoaded, EnvOwner, ObjectOwner
    <2> QED
      BY <2>1, <2>2, <2>3, <2>4
  <1> QED
    BY <1>2, <1>3, <1>4

\* The owner of cachedEnv becomes that of cachedObject and of the reference.
LEMMA BookSetObjectIInv ==
    ASSUME BookIInv, NEW j \in Jobs, SetObject(j)
    PROVE  BookIInv'
  <1> USE CountsAssumption, JobsFacts DEF SetObject
  <1>1. Went(j, "object", "work")
    <2>1. {"object", "work"} \subseteq Points /\ Goes(j, "object", "work")
      BY DEF Points
    <2> QED
      BY <2>1, GoesFacts
  <1> USE DEF BookIInv, Went
  <1>2. BookTypeOK'
    BY <1>1 DEF BookTypeOK, CallsLeft
  <1>3. CallsLeft'
    BY <1>1 DEF BookTypeOK, CallsLeft
  <1>4. ~overlapped' => Exclusive'
    <2> SUFFICES ASSUME ~overlapped' PROVE Exclusive'
      OBVIOUS
    <2> USE <1>1 DEF Exclusive, BookTypeOK, Between
    <2>1. EnvOwner'
      BY DEF EnvOwner, Alone
    <2>2. ObjectOwner'
      BY DEF ObjectOwner, EnvOwner, Alone
    <2>3. EnvLoaded'
      BY DEF EnvLoaded, EnvOwner
    <2>4. NoHarm'
      BY DEF NoHarm, EnvLoaded, EnvOwner, ObjectOwner
    <2> QED
      BY <2>1, <2>2, <2>3, <2>4
  <1> QED
    BY <1>2, <1>3, <1>4

\* The owner loads its own env.
LEMMA BookLoadBookIInv ==
    ASSUME BookIInv, NEW j \in Jobs, LoadEnv(j)
    PROVE  BookIInv'
  <1> USE CountsAssumption, JobsFacts DEF LoadEnv, LoadCachedEnv
  <1>1. Went(j, "load", "call")
    <2>1. {"load", "call"} \subseteq Points /\ Goes(j, "load", "call")
      BY DEF Points
    <2> QED
      BY <2>1, GoesFacts
  <1> USE DEF BookIInv, Went
  <1>2. BookTypeOK'
    BY <1>1 DEF BookTypeOK, CallsLeft
  <1>3. CallsLeft'
    BY <1>1 DEF BookTypeOK, CallsLeft
  <1>4. ~overlapped' => Exclusive'
    <2> SUFFICES ASSUME ~overlapped' PROVE Exclusive'
      OBVIOUS
    <2> USE <1>1 DEF Exclusive, BookTypeOK, Between
    <2>1. EnvOwner'
      BY DEF EnvOwner, Alone
    <2>2. ObjectOwner'
      BY DEF ObjectOwner, EnvOwner, Alone
    <2>3. EnvLoaded'
      BY DEF EnvLoaded, EnvOwner
    <2>4. NoHarm'
      BY DEF NoHarm, EnvLoaded, EnvOwner, ObjectOwner
    <2> QED
      BY <2>1, <2>2, <2>3, <2>4
  <1> QED
    BY <1>2, <1>3, <1>4

\* The owner calls through its own env and object.
LEMMA BookCallIInv ==
    ASSUME BookIInv, NEW j \in Jobs, Call(j)
    PROVE  BookIInv'
  <1> USE CountsAssumption, JobsFacts DEF Call, UseEnv
  <1>1. Went(j, "call", "work")
    <2>1. {"call", "work"} \subseteq Points /\ Goes(j, "call", "work")
      BY DEF Points
    <2> QED
      BY <2>1, GoesFacts
  <1> USE DEF BookIInv, Went
  <1>2. BookTypeOK'
    BY <1>1 DEF BookTypeOK, CallsLeft
  <1>3. CallsLeft'
    BY <1>1 DEF BookTypeOK, CallsLeft
  <1>4. ~overlapped' => Exclusive'
    <2> SUFFICES ASSUME ~overlapped' PROVE Exclusive'
      OBVIOUS
    <2> USE <1>1 DEF Exclusive, BookTypeOK, Between
    <2>1. EnvOwner'
      BY DEF EnvOwner, Alone
    <2>2. ObjectOwner'
      BY DEF ObjectOwner, EnvOwner, Alone
    <2>3. EnvLoaded'
      BY DEF EnvLoaded, EnvOwner
    <2>4. NoHarm'
      BY DEF NoHarm, EnvLoaded, EnvOwner, ObjectOwner
    <2> QED
      BY <2>1, <2>2, <2>3, <2>4
  <1> QED
    BY <1>2, <1>3, <1>4

\* bookpage returns to the owner.
LEMMA BookFinishIInv ==
    ASSUME BookIInv, NEW j \in Jobs, Finish(j)
    PROVE  BookIInv'
  <1> USE CountsAssumption, JobsFacts DEF Finish
  <1>1. Went(j, "work", "reset")
    <2>1. {"work", "reset"} \subseteq Points /\ Goes(j, "work", "reset")
      BY DEF Points
    <2> QED
      BY <2>1, GoesFacts
  <1> USE DEF BookIInv, Went
  <1>2. BookTypeOK'
    BY <1>1 DEF BookTypeOK, CallsLeft
  <1>3. CallsLeft'
    BY <1>1 DEF BookTypeOK, CallsLeft
  <1>4. ~overlapped' => Exclusive'
    <2> SUFFICES ASSUME ~overlapped' PROVE Exclusive'
      OBVIOUS
    <2> USE <1>1 DEF Exclusive, BookTypeOK, Between
    <2>1. EnvOwner'
      BY DEF EnvOwner, Alone
    <2>2. ObjectOwner'
      BY DEF ObjectOwner, EnvOwner, Alone
    <2>3. EnvLoaded'
      BY DEF EnvLoaded, EnvOwner
    <2>4. NoHarm'
      BY DEF NoHarm, EnvLoaded, EnvOwner, ObjectOwner
    <2> QED
      BY <2>1, <2>2, <2>3, <2>4
  <1> QED
    BY <1>2, <1>3, <1>4

\* The owner loads its own env for the deletion.
LEMMA BookResetIInv ==
    ASSUME BookIInv, NEW j \in Jobs, Reset(j)
    PROVE  BookIInv'
  <1> USE CountsAssumption, JobsFacts DEF Reset, LoadCachedEnv
  <1>1. Went(j, "reset", "delete")
    <2>1. {"reset", "delete"} \subseteq Points /\ Goes(j, "reset", "delete")
      BY DEF Points
    <2> QED
      BY <2>1, GoesFacts
  <1> USE DEF BookIInv, Went
  <1>2. BookTypeOK'
    BY <1>1 DEF BookTypeOK, CallsLeft
  <1>3. CallsLeft'
    BY <1>1 DEF BookTypeOK, CallsLeft
  <1>4. ~overlapped' => Exclusive'
    <2> SUFFICES ASSUME ~overlapped' PROVE Exclusive'
      OBVIOUS
    <2> USE <1>1 DEF Exclusive, BookTypeOK, Between
    <2>1. EnvOwner'
      BY DEF EnvOwner, Alone
    <2>2. ObjectOwner'
      BY DEF ObjectOwner, EnvOwner, Alone
    <2>3. EnvLoaded'
      BY DEF EnvLoaded, EnvOwner
    <2>4. NoHarm'
      BY DEF NoHarm, EnvLoaded, EnvOwner, ObjectOwner
    <2> QED
      BY <2>1, <2>2, <2>3, <2>4
  <1> QED
    BY <1>2, <1>3, <1>4

\* The owner deletes its own reference, which is the only one.
LEMMA BookDeleteRefIInv ==
    ASSUME BookIInv, NEW j \in Jobs, DeleteRef(j)
    PROVE  BookIInv'
  <1> USE CountsAssumption, JobsFacts DEF DeleteRef, UseEnv
  <1>1. Went(j, "delete", "clear")
    <2>1. {"delete", "clear"} \subseteq Points /\ Goes(j, "delete", "clear")
      BY DEF Points
    <2> QED
      BY <2>1, GoesFacts
  <1> USE DEF BookIInv, Went
  <1>2. BookTypeOK'
    BY <1>1 DEF BookTypeOK, CallsLeft
  <1>3. CallsLeft'
    BY <1>1 DEF BookTypeOK, CallsLeft
  <1>4. ~overlapped' => Exclusive'
    <2> SUFFICES ASSUME ~overlapped' PROVE Exclusive'
      OBVIOUS
    <2> USE <1>1 DEF Exclusive, BookTypeOK, Between
    <2>1. EnvOwner'
      BY DEF EnvOwner, Alone
    <2>2. ObjectOwner'
      BY DEF ObjectOwner, EnvOwner, Alone
    <2>3. EnvLoaded'
      BY DEF EnvLoaded, EnvOwner
    <2>4. NoHarm'
      BY DEF NoHarm, EnvLoaded, EnvOwner, ObjectOwner
    <2> QED
      BY <2>1, <2>2, <2>3, <2>4
  <1> QED
    BY <1>2, <1>3, <1>4

\* The owner leaves, and nobody owns anything.
LEMMA BookClearBookIInv ==
    ASSUME BookIInv, NEW j \in Jobs, ClearEnv(j)
    PROVE  BookIInv'
  <1> USE CountsAssumption, JobsFacts DEF ClearEnv
  <1>1. Went(j, "clear", "over")
    <2>1. {"clear", "over"} \subseteq Points /\ Goes(j, "clear", "over")
      BY DEF Points
    <2> QED
      BY <2>1, GoesFacts
  <1> USE DEF BookIInv, Went
  <1>2. BookTypeOK'
    BY <1>1 DEF BookTypeOK, CallsLeft
  <1>3. CallsLeft'
    BY <1>1 DEF BookTypeOK, CallsLeft
  <1>4. ~overlapped' => Exclusive'
    <2> SUFFICES ASSUME ~overlapped' PROVE Exclusive'
      OBVIOUS
    <2> USE <1>1 DEF Exclusive, BookTypeOK, Between
    <2>1. EnvOwner'
      BY DEF EnvOwner, Alone
    <2>2. ObjectOwner'
      BY DEF ObjectOwner, EnvOwner, Alone
    <2>3. EnvLoaded'
      BY DEF EnvLoaded, EnvOwner
    <2>4. NoHarm'
      BY DEF NoHarm, EnvLoaded, EnvOwner, ObjectOwner
    <2> QED
      BY <2>1, <2>2, <2>3, <2>4
  <1> QED
    BY <1>2, <1>3, <1>4

\* A callback finds the owner's env there; only after an overlap can it be missing.
LEMMA BookTestBookIInv ==
    ASSUME BookIInv, NEW j \in Jobs, TestEnv(j)
    PROVE  BookIInv'
  <1> USE CountsAssumption, JobsFacts DEF TestEnv
  <1> DEFINE to == IF cachedEnv # None THEN "load" ELSE "work"
  <1>0. Goes(j, "work", to)
    OBVIOUS
  <1>1. Went(j, "work", to)
    <2>1. "work" \in Points /\ to \in Points
      BY DEF Points
    <2> QED
      BY <1>0, <2>1, GoesFacts
  <1> USE DEF BookIInv, Went
  <1>2. BookTypeOK' /\ CallsLeft'
    <2>1. CASE cachedEnv # None
      BY <1>1, <2>1 DEF BookTypeOK, CallsLeft
    <2>2. CASE cachedEnv = None
      <3>1. calls' = [calls EXCEPT ![j] = calls[j] + 1] /\ calls[j] + 1 \in 0..Calls
        BY <2>2 DEF BookTypeOK
      <3>2. calls' \in [Jobs -> 0..Calls]
        BY <3>1 DEF BookTypeOK
      <3> QED
        BY <1>1, <2>2, <3>1, <3>2 DEF BookTypeOK, CallsLeft
    <2> QED
      BY <2>1, <2>2
  <1>3. ~overlapped' => Exclusive'
    <2> SUFFICES ASSUME ~overlapped' PROVE Exclusive'
      OBVIOUS
    <2> USE <1>1 DEF Exclusive, BookTypeOK, Between
    <2>1. cachedEnv = j /\ to = "load"
      BY DEF EnvOwner
    <2>2. EnvOwner' /\ ObjectOwner'
      BY <2>1 DEF EnvOwner, ObjectOwner, Alone
    <2>3. EnvLoaded' /\ NoHarm'
      BY <2>1 DEF EnvLoaded, NoHarm
    <2> QED
      BY <2>2, <2>3
  <1> QED
    BY <1>2, <1>3

-----------------------------------------------------------------------------
(* The theorems.                                                           *)

\* The inductive invariant holds of every reachable state.
THEOREM ExclusiveOwner == BookSpec => []BookIInv
  <1>1. BookInit => BookIInv
    BY BookInitIInv
  <1>2. BookIInv /\ [BookNext]_bookVars => BookIInv'
    <2> SUFFICES ASSUME BookIInv, [BookNext]_bookVars PROVE BookIInv'
      OBVIOUS
    <2>1. CASE UNCHANGED bookVars
      BY <2>1 DEF bookVars, BookIInv, BookTypeOK, CallsLeft, Exclusive, Alone, EnvOwner,
         ObjectOwner, EnvLoaded, NoHarm
    <2>2. CASE BookNext
      <3>1. PICK j \in Jobs : User(j) \/ Worker(j)
        BY <2>2 DEF BookNext
      <3>2. CASE User(j)
        BY <3>2, BookUserIInv
      <3>3. CASE Worker(j)
        BY <3>3, BookSetBookIInv, BookSetObjectIInv, BookLoadBookIInv, BookCallIInv,
           BookFinishIInv, BookResetIInv, BookDeleteRefIInv, BookClearBookIInv,
           BookTestBookIInv DEF Worker
      <3> QED
        BY <3>1, <3>2, <3>3
    <2> QED
      BY <2>1, <2>2
  <1> QED
    BY <1>1, <1>2, PTL DEF BookSpec

\* nativeOCRBook and its two static variables: however many screens are opened, left
\* and destroyed, and however many callbacks bookpage makes, no worker calls through a
\* NULL or foreign JNIEnv or a deleted reference, leaks its OCR object, or shows its
\* preview on another card's screen, unless two workers were in there at once.
THEOREM OneWorkerIsSafe == BookSpec => []HarmNeedsOverlap
  <1>1. BookIInv => HarmNeedsOverlap
    BY DEF BookIInv, Exclusive, ObjectOwner, NoHarm, HarmNeedsOverlap, Leaked,
       Between, BookTypeOK
  <1> QED
    BY <1>1, ExclusiveOwner, PTL
=============================================================================
