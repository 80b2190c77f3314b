----------------------------- MODULE ResultScreen -----------------------------
(***************************************************************************)
(* ResultActivity: it fills its lists from the text of the card when it    *)
(* first comes up, and the user edits them. The list of phone numbers      *)
(* stands for the four lists, which have adapters of the same class; the   *)
(* list of names begins with what GetNameFromRawOutput returns. The        *)
(* views of a RecyclerView are kept in a pool: a change of the list        *)
(* announces a layout, and the layout hands any view to any item. A view   *)
(* remembers more than what onBindViewHolder writes.                       *)
(***************************************************************************)
EXTENDS CardFields, Functions

CONSTANTS
    Pages,   \* texts that the recogniser may have seen, as CardFields reads them
    Views,   \* the views of the list, enough for every item
    MaxAdds  \* bound: items the user adds

ASSUME BoundsAssumption == MaxAdds \in Nat /\ Views # {}
\* A page is its lines, a line has words.
ASSUME PagesAssumption == Pages \subseteq Seq([font : Int, words : Seq(Seq(STRING))])

VARIABLES
    htmlResult, \* <<what the recogniser saw>>, or <<>>: OCRActivity had no text to hand over
    isFirst,
    listPhone,
    views,      \* the views: item (0: in the pool), its text, edit mode, text in the edit box,
                \* which edit mode shows instead; history: that text is a stray one
    pending,    \* notifyDataSetChanged was called, the layout is still to come
    adds,
    fault       \* the first exception; it ends the process

fields == <<htmlResult, isFirst>>
vars == <<fields, listPhone, views, pending, adds, fault>>

Typed == <<"x">>  \* what the user types
\* A text in the list: a phone number, or what the user made of it.
IsItem(text) ==
    \/ text \in {<<>>, Typed}
    \/ text \in Seq(Digits \cup {"plus"}) /\ Chars(Kept(text, Digits)) > 7

TypeOK ==
    /\ htmlResult = <<>> \/ (Len(htmlResult) = 1 /\ Head(htmlResult) \in Pages)
    /\ isFirst \in BOOLEAN /\ pending \in BOOLEAN
    /\ \A i \in DOMAIN listPhone : IsItem(listPhone[i])
    /\ adds \in 0..MaxAdds
    /\ \A v \in Views :
          /\ views[v].item \in Nat /\ views[v].editing \in BOOLEAN /\ views[v].stray \in BOOLEAN
          /\ IsItem(views[v].text) /\ IsItem(views[v].draft)
    /\ fault \in {"none", "no_document", "no_such_item"}

Init ==
    /\ htmlResult \in {<<page>> : page \in Pages} \cup {<<>>} /\ isFirst = TRUE
    /\ listPhone = <<>>
    /\ views = [v \in Views |->
                   [item |-> 0, text |-> <<>>, editing |-> FALSE, draft |-> <<>>, stray |-> FALSE]]
    /\ pending = FALSE /\ adds = 0 /\ fault = "none"

-----------------------------------------------------------------------------
Live == fault = "none"

BindData ==  \* on the first resume; an empty text is no document, and that is not tested
    /\ Live /\ isFirst
    /\ IF htmlResult = <<>>
       THEN /\ fault' = "no_document"
            /\ UNCHANGED <<fields, listPhone, pending>>
       ELSE /\ listPhone' = ExtractPhone(Utf8Result(CardLines(Head(htmlResult))))
            /\ htmlResult' = <<>>  \* it is not read again
            /\ isFirst' = FALSE
            /\ pending' = TRUE
            /\ UNCHANGED fault
    /\ UNCHANGED <<views, adds>>

Resume ==  \* refreshData
    /\ Live /\ ~isFirst /\ pending' = TRUE
    /\ UNCHANGED <<fields, listPhone, views, adds, fault>>

AddPhone ==
    /\ Live /\ ~isFirst /\ adds < MaxAdds
    /\ listPhone' = Append(listPhone, <<>>)
    /\ adds' = adds + 1
    /\ pending' = TRUE
    /\ UNCHANGED <<fields, views, fault>>

\* What onBindViewHolder writes, the item and its text; edit mode and edit box stay, and
\* are strays when the item or the text is not the one they were opened for.
Bound(view, item, text) ==
    [view EXCEPT !.item = item, !.text = text,
                 !.stray = @ \/ (view.editing /\ (view.item # item \/ view.text # text))]

\* The frame after the notification: onBindViewHolder for every item, in any view.
Layout ==
    /\ Live /\ pending /\ pending' = FALSE
    /\ \E holder \in Injection(DOMAIN listPhone, Views) :
          views' = [v \in Views |->
                       IF v \in Range(holder)
                       THEN LET i == CHOOSE i \in DOMAIN listPhone : holder[i] = v
                            IN Bound(views[v], i, listPhone[i])
                       ELSE Bound(views[v], 0, <<>>)]
    /\ UNCHANGED <<fields, listPhone, adds, fault>>

Clicking(v, mode) == Live /\ ~isFirst /\ views[v].item # 0 /\ views[v].editing = mode

Edit(v) ==
    /\ Clicking(v, FALSE)
    /\ views' = [views EXCEPT ![v].draft = views[v].text, ![v].editing = TRUE]
    /\ UNCHANGED <<fields, listPhone, pending, adds, fault>>

Type(v) ==
    /\ Clicking(v, TRUE)
    /\ views' = [views EXCEPT ![v].draft = Typed]
    /\ UNCHANGED <<fields, listPhone, pending, adds, fault>>

NoSuchItem(v) ==  \* IndexOutOfBoundsException
    /\ Clicking(v, TRUE) /\ views[v].item > Len(listPhone)
    /\ fault' = "no_such_item"
    /\ UNCHANGED <<fields, listPhone, views, pending, adds>>

DeleteQuietly(v) ==  \* mutated form: without notifyDataSetChanged
    /\ Clicking(v, TRUE) /\ views[v].item <= Len(listPhone)
    /\ listPhone' = RemoveAt(listPhone, views[v].item)
    /\ UNCHANGED <<fields, views, pending, adds, fault>>

Delete(v) ==  \* the view stays in edit mode
    /\ Clicking(v, TRUE) /\ views[v].item <= Len(listPhone)
    /\ listPhone' = RemoveAt(listPhone, views[v].item)
    /\ pending' = TRUE
    /\ UNCHANGED <<fields, views, adds, fault>>

Done(v) ==  \* the next Edit fills the edit box anew
    /\ Clicking(v, TRUE) /\ views[v].item <= Len(listPhone)
    /\ listPhone' = [listPhone EXCEPT ![views[v].item] = views[v].draft]
    /\ views' = [views EXCEPT ![v].text = views[v].draft, ![v].editing = FALSE, ![v].draft = <<>>,
                              ![v].stray = FALSE]
    /\ UNCHANGED <<fields, pending, adds, fault>>

Rest == ~Live /\ UNCHANGED vars

Next ==
    \/ BindData \/ Resume \/ AddPhone \/ Layout \/ Rest
    \/ \E v \in Views : Edit(v) \/ Type(v) \/ NoSuchItem(v) \/ Delete(v) \/ Done(v)

Spec == Init /\ [][Next]_vars

-----------------------------------------------------------------------------
(* Properties.                                                             *)

\* The phone numbers of a text, without pluses: of its longest runs of digits and of the
\* characters that may stand between them, in the order of their ends, the digits of those
\* with more than seven.
PhonesOf(text) ==
    LET Glued(i) == i \in DOMAIN text /\ text[i] \in Digits \cup {"hyphen", "space", "o", "z"}
        first(e) == CHOOSE b \in 1..e : (\A i \in b..e : Glued(i)) /\ ~Glued(b - 1)
        digits(e) == Kept(SubSeq(text, first(e), e), Digits)
    IN FlattenSeq([e \in 1..Len(text) |->
           IF Glued(e) /\ ~Glued(e + 1) /\ Chars(digits(e)) > 7 THEN <<digits(e)>> ELSE <<>>])

\* Each phone number comes from one line of the card, whole and in the order of the
\* lines, although the lines are joined into one text with their font sizes in front and
\* scanned as such (ResultActivity.java:169-175, StringUtil.java:91-120).
PhonesOfLines ==
    isFirst /\ htmlResult # <<>> =>
        LET card == CardLines(Head(htmlResult))
            phones == ExtractPhone(Utf8Result(card))
        IN [i \in DOMAIN phones |-> Kept(phones[i], Digits)]
              = FlattenSeq([i \in DOMAIN card |-> PhonesOf(card[i].text)])

\* The name is the line with a surname that is printed in the largest letters; only
\* capitals and, among these or without any, a degree count for more than the size
\* (StringUtil.java:183-249, ResultActivity.java:162-167).
NameIsLargest ==
    isFirst /\ htmlResult # <<>> =>
        LET xml == GetListLineFromXml(GetXMLText(Head(htmlResult)))
            text(i) == Trim(xml[i].text)
            named == {i \in DOMAIN xml :
                         ~Contains(text(i), "colon") /\ FewWords(text(i)) /\ HasSurname(text(i))}
            Counts(i) == (IF AllUpper(text(i)) THEN 2 ELSE 0) + (IF Contains(text(i), "TS") THEN 1 ELSE 0)
        IN named # {} =>
              \E i \in named :
                 /\ GetNameFromRawOutput(CardLines(Head(htmlResult))) = <<text(i)>>
                 /\ \A j \in named :
                       Counts(i) > Counts(j) \/ (Counts(i) = Counts(j) /\ xml[i].font >= xml[j].font)

\* What the user sees of a view is the text, or a change of it by the user.
Shows(view, text) ==
    /\ view.text = text
    /\ view.editing => view.stray \/ view.draft \in {text, Typed}

\* Between two layouts the screen shows the list: each item in one view, with the place
\* it has and its own text or, in edit mode, its own draft, which is what Done writes.
\* The one exception is a view that a layout gave another item or text while it was in
\* edit mode: it still shows the draft of the former item, and Done writes that over
\* this one (ListItemInfoAdapter.java:39-44, 79-97).
ShownIsListed ==
    Live /\ ~isFirst /\ ~pending =>
        \A i \in DOMAIN listPhone :
            \E v \in Views :
                /\ views[v].item = i /\ Shows(views[v], listPhone[i])
                /\ \A w \in Views \ {v} : views[w].item # i
=============================================================================
