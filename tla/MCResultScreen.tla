---------------------------- MODULE MCResultScreen ----------------------------
(***************************************************************************)
(* Cards for ResultScreen: every line of at most two short words, and      *)
(* cards of two or three typical lines in different sizes.                 *)
(***************************************************************************)
EXTENDS ResultScreen, TLC

Line(font, words) == [font |-> font, words |-> words]

ShortWords == SeqOf({"three", "four", "hyphen", "plus", "colon", "o", "z", "x"}, 2) \ {<<>>}
ShortLines == {Line(12, words) : words \in SeqOf(ShortWords, 2) \ {<<>>}}

Phone == <<<<"four">>, <<"three", "hyphen", "two">>>>
Foreign == <<<<"plus", "two">>, <<"four">>, <<"three">>>>
Half == <<<<"z", "z">>, <<"four">>>>
Label == <<<<"x", "x", "x", "colon">>, <<"four", "o", "four">>>>
Shouted == <<<<"NGUYEN">>, <<"x", "z">>>>
Capitals == <<<<"NGUYEN">>, <<"NGUYEN">>>>
Doctor == <<<<"TS">>, <<"Nguyen">>>>
Great == <<<<"TS">>, <<"NGUYEN">>>>
Many == [i \in 1..8 |-> <<"Nguyen">>]
Titled == <<<<"Nguyen", "colon">>, <<"Nguyen">>>>

TypicalLines ==
    {Line(font, words) : font \in {10, 11, 14},
                         words \in {Phone, Foreign, Half, Label, Shouted, Capitals, Doctor, Great, Many, Titled}}

CardPages ==
    {<<line>> : line \in ShortLines} \cup SeqOf(TypicalLines, 2)
        \cup {<<Line(12, a), Line(12, b), Line(11, c)>> :
                   a \in {Phone, Foreign, Great}, b \in {Label, Doctor, Great}, c \in {Half, Doctor, Great}}

\* The views are alike.
Alike == Permutations(Views)
=============================================================================
