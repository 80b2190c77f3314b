------------------------------ MODULE CardFields ------------------------------
(***************************************************************************)
(* From the recognised lines of a card to its phone numbers and its name:  *)
(* GetXMLText writes the lines down, XMLParser reads and filters them,     *)
(* ResultActivity sorts and prints them, StringUtil picks the fields out.  *)
(*                                                                         *)
(* A text is a sequence of symbols. A symbol stands for the characters     *)
(* that the code treats alike, or for a group of them: "four" is a group   *)
(* of four digits, "o" one of the letters that are often misread digits,   *)
(* "z" a character that trimString drops, "x" any other small letter. The  *)
(* characters that XML escapes, accents and e-mail addresses are left out. *)
(***************************************************************************)
EXTENDS Integers, Sequences, SequencesExt, FiniteSetsExt

Digits == {"two", "three", "four"}
Surnames == {"NGUYEN", "Nguyen"}

Width(sym) ==
    CASE sym \in {"two", "TS"} -> 2
      [] sym = "three" -> 3
      [] sym = "four" -> 4
      [] sym \in Surnames -> 6
      [] OTHER -> 1

\* (Recursive functions in this module stand for folds and SelectSeq, which the provers
\* cannot look into.)
Chars(text) ==
    LET chars[n \in 0..Len(text)] ==
            IF n = 0 THEN 0 ELSE chars[n - 1] + (IF text[n] = "space" THEN 0 ELSE Width(text[n]))
    IN  chars[Len(text)]

\* The elements of s that are in T, in their order.
Kept(s, T) ==
    LET kept[n \in 0..Len(s)] ==
            IF n = 0 THEN <<>> ELSE IF s[n] \in T THEN Append(kept[n - 1], s[n]) ELSE kept[n - 1]
    IN  kept[Len(s)]

-----------------------------------------------------------------------------
(* The recogniser's lines and the text that is read back. A line is        *)
(* [font, words], a word a sequence of symbols; a line that was read back  *)
(* is [font, text].                                                        *)

\* A hyphen is held back until the next symbol of its word; one that ends a word is
\* dropped, and so is the blank after the word.
Spell(word) ==
    IF word # <<>> /\ Last(word) = "hyphen" THEN Front(word) ELSE Append(word, "space")

GetXMLText(page) ==
    [i \in DOMAIN page |->
        [font |-> page[i].font,
         text |-> FlattenSeq([j \in DOMAIN page[i].words |-> Spell(page[i].words[j])])]]

GetListLineFromXml(xml) ==
    Kept(xml, {line \in Range(xml) : line.font > 10 /\ Chars(line.text) > 5})

FontSizeFirst(lines) ==  \* Collections.sort is stable
    LET Before(i, j) == lines[i].font > lines[j].font \/ (lines[i].font = lines[j].font /\ i < j)
        place(i) == Cardinality({j \in DOMAIN lines : Before(j, i)}) + 1
    IN [k \in DOMAIN lines |-> lines[CHOOSE i \in DOMAIN lines : place(i) = k]]

CardLines(page) == FontSizeFirst(GetListLineFromXml(GetXMLText(page)))

\* LineModel.toString, "FontSize: 12: ...\n", and the newline that bindData adds.
Printed(line) ==
    <<"x", "colon", "space", "two", "colon", "space">> \o line.text \o <<"newline", "newline">>

Utf8Result(lines) == FlattenSeq([i \in DOMAIN lines |-> Printed(lines[i])])

-----------------------------------------------------------------------------
(* Phone numbers.                                                          *)

PhoneCharOrColon(sym) ==  \* mutated form: the colon after "Tel" is let through
    sym \in Digits \cup {"hyphen", "space", "o", "colon"}

IsPhoneChar(sym) == sym \in Digits \cup {"hyphen", "space", "o"}

TrimString(text) ==
    LET slashed == [i \in DOMAIN text |-> IF text[i] = "newline" THEN "slash" ELSE text[i]]
    IN Kept(slashed, Range(slashed) \ {"space", "z"})

SevenDigits(run, hasPlus) ==  \* mutated form of TryConvertToPhone: seven digits are enough
    LET digits == Kept(run, Digits)
    IN IF Chars(digits) >= 7 THEN <<(IF hasPlus THEN <<"plus">> ELSE <<>>) \o digits>> ELSE <<>>

\* The phone number in a run of phone characters, as a sequence of at most one.
TryConvertToPhone(run, hasPlus) ==
    LET digits == Kept(run, Digits)
    IN IF Chars(digits) > 7 THEN <<(IF hasPlus THEN <<"plus">> ELSE <<>>) \o digits>> ELSE <<>>

ExtractPhone(input) ==
    LET text == TrimString(input)
        scan[n \in 0..Len(text)] ==
            IF n = 0 THEN [phones |-> <<>>, current |-> <<>>, hasPlus |-> FALSE]
            ELSE LET acc == scan[n - 1]
                 IN IF IsPhoneChar(text[n]) THEN [acc EXCEPT !.current = Append(@, text[n])]
                    ELSE [phones |-> acc.phones \o TryConvertToPhone(acc.current, acc.hasPlus),
                          current |-> <<>>,
                          hasPlus |-> acc.hasPlus \/ text[n] = "plus"]
        end == scan[Len(text)]
    IN end.phones \o TryConvertToPhone(end.current, end.hasPlus)

-----------------------------------------------------------------------------
(* The name.                                                               *)

Trim(text) == IF text # <<>> /\ Last(text) = "space" THEN Front(text) ELSE text

\* What text.split(" ") is asked for.
Blanks(text) == {i \in DOMAIN text : text[i] = "space"}
FewWords(text) == Cardinality(Blanks(text)) < 7
HasSurname(text) ==
    \E i \in DOMAIN text :
        text[i] \in Surnames /\ i - 1 \in Blanks(text) \cup {0} /\ i + 1 \in Blanks(text) \cup {Len(text) + 1}
LongFirstWord(text) ==
    \E i \in 1..(Len(text) + 1) :
        i \in Blanks(text) \cup {Len(text) + 1} /\ (1..(i - 1)) \cap Blanks(text) = {}
            /\ Chars(SubSeq(text, 1, i - 1)) >= 5

AllUpper(text) == \A i \in DOMAIN text : text[i] \notin {"Nguyen", "o", "x", "z"}

\* Of the texts at these places the first; one with a degree ("TS") goes before the others.
PreferDegree(texts, places) ==
    LET degrees == {i \in places : Contains(texts[i], "TS")}
    IN texts[Min(IF degrees # {} THEN degrees ELSE places)]

Named(texts) ==
    {i \in DOMAIN texts : ~Contains(texts[i], "colon") /\ FewWords(texts[i]) /\ HasSurname(texts[i])}

FirstSurname(lines) ==  \* mutated form: without the preference for capitals
    LET texts == [i \in DOMAIN lines |-> Trim(lines[i].text)]
    IN IF Named(texts) # {} THEN <<PreferDegree(texts, Named(texts))>> ELSE <<>>

\* The name as a sequence of at most one text; the empty one stands for null.
GetNameFromRawOutput(lines) ==
    LET texts == [i \in DOMAIN lines |-> Trim(lines[i].text)]
        expect == {i \in Named(texts) : AllUpper(texts[i])}
        available == Named(texts) \ expect
        fallback == {i \in DOMAIN lines : FewWords(texts[i]) \/ LongFirstWord(texts[i])}
    IN CASE expect # {} -> <<PreferDegree(texts, expect)>>
         [] expect = {} /\ available # {} -> <<PreferDegree(texts, available)>>
         [] Named(texts) = {} /\ fallback # {} -> <<lines[Min(fallback)].text>>
         [] OTHER -> <<>>
=============================================================================
