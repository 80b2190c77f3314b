---------------------------- MODULE OcrScreen_proof ----------------------------
(***************************************************************************)
(* The inductive invariant of OcrScreen, for any number of references that *)
(* the crop screen leaked, whether it still holds its own or not, and what *)
(* follows from it: the result screen opens once and with a text, but for  *)
(* what an error excuses, and what the leaked reference protects.          *)
(***************************************************************************)
EXTENDS OcrScreen, SequenceTheorems, TLAPS

-----------------------------------------------------------------------------
(* The inductive invariant, one named part per idea.                       *)

\* TypeOK, but for the range of the reference counts.
Queued == Job!Messages \cup {"LOADED", "SAVED", "DESTROY"}
Types ==
    /\ phase \in Job!Phases /\ cancelled \in BOOLEAN /\ outbox \in Seq(Job!Messages)
    /\ threw \in BOOLEAN
    /\ screen \in {"shown", "finishing", "destroyed"} /\ dialog \in BOOLEAN
    /\ html \in BOOLEAN /\ erred \in BOOLEAN /\ results \in Seq(BOOLEAN)
    /\ queue \in Seq(Queued)
    /\ mpc \in MainPoints /\ tpc \in TaskPoints
    /\ org \in Wrappers \cup {"null"} /\ recycled \subseteq Wrappers
    /\ refs \in [Wrappers -> Int] /\ cropHolds \in BOOLEAN
    /\ fault \in Faulty \cup {"none"}

Loading == {"ready", "wrapped", "copy"}
Scaled == {"save", "write", "saved"}
Saving == {"clone", "check", "recycle", "scale"} \cup Scaled
Told == html \/ erred \/ threw

\* A message is in the queue once at most.
Once(s, m) == \A i, j \in 1..Len(s) : s[i] = m /\ s[j] = m => i = j

\* The text or the error comes before the i-th message of the queue.
Behind(s, i) == \E k \in 1..(i - 1) : s[k] \in {"UTF8_TEXT", "ERROR"}

\* onDestroy runs once: it was ordered once, while the screen was finishing.
DestroyedOnce ==
    /\ mpc # "loop" => screen = "finishing" /\ ~Contains(queue, "DESTROY")
    /\ Contains(queue, "DESTROY") => screen = "finishing"
    /\ Once(queue, "DESTROY")
    /\ cancelled <=> mpc \notin {"loop", "cancel"} \/ screen = "destroyed"

\* The user cannot start before the card is loaded.
LoadedFirst == dialog \/ phase # "idle" \/ Contains(queue, "LOADED") => tpc \notin Loading

\* END comes once, behind the text or the error, unless it announces an exception.
EndIsLast ==
    /\ threw => phase \in {"closing", "over"}
    /\ phase = "closing" /\ ~cancelled =>
          Told \/ Contains(queue, "UTF8_TEXT") \/ Contains(queue, "ERROR")
    /\ Live /\ Contains(queue, "END") => phase = "over" /\ tpc \notin Saving
    /\ Live => \A i \in 1..Len(queue) : queue[i] = "END" => Told \/ Behind(queue, i)
    /\ Once(queue, "END")

\* SavePixTask runs once, after END, and opens the result screen.
SavedOnce ==
    /\ tpc \in Saving => phase = "over" /\ Told
    /\ Contains(queue, "SAVED") => tpc = "saved" /\ results = <<>>
    /\ Once(queue, "SAVED")
    /\ tpc # "saved" => results = <<>>
    /\ ResultHasText

\* The references to the card: the handed ones and the clone of SavePixTask until it is
\* scaled, less those that the task and onDestroy recycled, which may be one too many
\* when the task has recycled the wrapper that onDestroy is about to recycle.
CardRefs ==
    LET c == refs["card"]  gone == "card" \in recycled IN
      /\ c \in (Handed - 2)..(Handed + 1)
      /\ tpc \in Loading \cup {"loaded", "clone"} => c = (IF gone THEN Handed - 1 ELSE Handed)
      /\ tpc \in {"check", "recycle"} /\ Live => c = (IF gone THEN Handed ELSE Handed + 1)
      /\ tpc = "scale" => gone /\ c \in {Handed - 1, Handed}
      /\ tpc = "scale" /\ ~cancelled => c = Handed
      /\ tpc \in Scaled => gone /\ c \in {Handed - 2, Handed - 1}
      /\ mpc = "card" /\ tpc \notin {"scale"} \cup Scaled => ~gone
      /\ mpc = "card" /\ tpc = "scale" => c = Handed
      /\ mpc = "card" /\ tpc \in Scaled => c = Handed - 1

\* The reference to the small image: there from the scaling until onDestroy recycles it.
SmallRefs ==
    /\ refs["small"] = (IF tpc \in Scaled /\ "small" \notin recycled THEN 1 ELSE 0)
    /\ "small" \in recycled \/ mpc = "small" => tpc \in Scaled /\ cancelled
    /\ mpc = "small" => "small" \notin recycled /\ org = "small"

\* The field is set by the tasks, and only onDestroy clears it, after it has recycled.
FieldOrg ==
    /\ tpc = "ready" => org = "null"
    /\ org = "null" /\ tpc # "ready" => "card" \in recycled /\ cancelled /\ mpc \in {"end", "loop"}
    /\ org = "small" => tpc \in Scaled
    /\ mpc \in Wrappers \cup {"null"} => org # "null"
    /\ mpc = "null" /\ org = "card" => "card" \in recycled
    /\ "card" \in recycled => cancelled \/ tpc \in {"scale"} \cup Scaled

\* Who met a pix that was gone.
Faults ==
    /\ fault = "bad_token" => screen = "destroyed"
    /\ fault \in {"null_pix", "use_after_free", "double_free"} => screen # "shown" /\ cancelled
    /\ fault = "use_after_free" =>
          \/ tpc = "saved" /\ "small" \in recycled
          \/ Handed = 1 /\ "card" \in recycled
    /\ fault = "double_free" => Handed = 1 /\ "card" \in recycled /\ tpc \in Scaled
    /\ refs["card"] < 0 => Handed = 1 /\ fault \in {"use_after_free", "double_free"}
    /\ fault = "uncaught" => threw
    /\ fault = "no_text" => erred \/ threw

IInv ==
    /\ Types /\ DestroyedOnce /\ LoadedFirst /\ EndIsLast /\ SavedOnce
    /\ CardRefs /\ SmallRefs /\ FieldOrg /\ Faults

-----------------------------------------------------------------------------
(* The queue: what an Append and a Tail do to the messages in it.          *)

\* A message that is appended is the last.
LEMMA AppendFacts ==
    ASSUME NEW S, NEW s \in Seq(S), NEW e \in S, NEW t, t = Append(s, e)
    PROVE  /\ t \in Seq(S) /\ Len(t) = Len(s) + 1 /\ Len(s) \in Nat /\ t[Len(t)] = e
           /\ \A i \in 1..Len(s) : t[i] = s[i]
  OBVIOUS

\* It is what is new in the queue.
LEMMA ContainsAppend ==
    ASSUME NEW S, NEW s \in Seq(S), NEW e \in S, NEW t, t = Append(s, e), NEW x
    PROVE  /\ Contains(t, x) => Contains(s, x) \/ x = e
           /\ Contains(s, x) \/ x = e => Contains(t, x)
  BY AppendFacts DEF Contains

\* It is there once, if it was not there.
LEMMA OnceAppend ==
    ASSUME NEW S, NEW s \in Seq(S), NEW e \in S, NEW t, t = Append(s, e), NEW x,
           Once(s, x), x = e => ~Contains(s, x)
    PROVE  Once(t, x)
  <1>1. /\ Len(t) = Len(s) + 1 /\ Len(s) \in Nat /\ t[Len(t)] = e
        /\ \A i \in 1..Len(s) : t[i] = s[i]
    BY AppendFacts
  <1> SUFFICES ASSUME NEW i \in 1..Len(t), NEW j \in 1..Len(t), t[i] = x, t[j] = x
               PROVE  i = j
    BY DEF Once
  <1>2. CASE i \in 1..Len(s) /\ j \in 1..Len(s)
    BY <1>1, <1>2 DEF Once
  <1>3. CASE ~(i \in 1..Len(s) /\ j \in 1..Len(s))
    BY <1>1, <1>3 DEF Contains
  <1> QED
    BY <1>2, <1>3

\* What was behind a message still is, and the new message is behind all.
LEMMA BehindAppend ==
    ASSUME NEW S, NEW s \in Seq(S), NEW e \in S, NEW t, t = Append(s, e)
    PROVE  /\ \A i \in 1..Len(s) : Behind(s, i) => Behind(t, i)
           /\ Contains(s, "UTF8_TEXT") \/ Contains(s, "ERROR") => Behind(t, Len(t))
  BY AppendFacts DEF Behind, Contains

\* The message that is taken is the first; the others move up.
LEMMA TailFacts ==
    ASSUME NEW S, NEW s \in Seq(S), s # <<>>, NEW t, t = Tail(s)
    PROVE  /\ t \in Seq(S) /\ Len(t) = Len(s) - 1 /\ Len(s) \in Nat /\ Len(s) >= 1 /\ Head(s) = s[1]
           /\ \A i \in 1..Len(t) : t[i] = s[i + 1] /\ i + 1 \in 1..Len(s)
           /\ \A x : Contains(s, x) <=> Contains(t, x) \/ x = Head(s)
           /\ \A x : Once(s, x) => Once(t, x)
           /\ Once(s, Head(s)) => ~Contains(t, Head(s))
           /\ \A i \in 1..Len(t) : Behind(s, i + 1) => Behind(t, i) \/ Head(s) \in {"UTF8_TEXT", "ERROR"}
  <1>1. /\ t \in Seq(S) /\ Len(t) = Len(s) - 1 /\ Len(s) \in Nat /\ Len(s) >= 1 /\ Head(s) = s[1]
        /\ \A i \in 1..Len(t) : t[i] = s[i + 1] /\ i + 1 \in 1..Len(s)
    OBVIOUS
  <1>2. \A i \in 1..Len(s) : i # 1 => i - 1 \in 1..Len(t) /\ t[i - 1] = s[i]
    BY <1>1
  <1>3. \A x : Contains(s, x) <=> Contains(t, x) \/ x = Head(s)
    BY <1>1, <1>2 DEF Contains
  <1>4. \A x : Once(s, x) => Once(t, x)
    BY <1>1 DEF Once
  <1>5. Once(s, Head(s)) => ~Contains(t, Head(s))
    <2> SUFFICES ASSUME Once(s, Head(s)), NEW i \in 1..Len(t), t[i] = Head(s) PROVE FALSE
      BY DEF Contains
    <2>1. i + 1 \in 1..Len(s) /\ 1 \in 1..Len(s) /\ s[i + 1] = s[1]
      BY <1>1
    <2>2. i + 1 = 1
      BY <1>1, <2>1 DEF Once
    <2> QED
      BY <2>2
  <1>6. \A i \in 1..Len(t) : Behind(s, i + 1) => Behind(t, i) \/ Head(s) \in {"UTF8_TEXT", "ERROR"}
    <2> SUFFICES ASSUME NEW i \in 1..Len(t), NEW k \in 1..i, s[k] \in {"UTF8_TEXT", "ERROR"}, k # 1
                 PROVE  Behind(t, i)
      BY <1>1 DEF Behind
    <2>1. k - 1 \in 1..(i - 1) /\ t[k - 1] = s[k]
      BY <1>1, <1>2
    <2> QED
      BY <2>1 DEF Behind
  <1> QED
    BY <1>1, <1>3, <1>4, <1>5, <1>6

\* What JobWorks appends to the queue is what the job has posted in the step.
LEMMA NewMessages ==
    ASSUME NEW S, NEW box \in Seq(S), NEW msgs \in Seq(S)
    PROVE  SubSeq(box \o msgs, Len(box) + 1, Len(box \o msgs)) = msgs
  <1> DEFINE b == box \o msgs
             t == SubSeq(b, Len(box) + 1, Len(b))
  <1>1. /\ b \in Seq(S) /\ Len(b) = Len(box) + Len(msgs) /\ Len(box) \in Nat /\ Len(msgs) \in Nat
        /\ \A i \in 1..Len(msgs) : b[Len(box) + i] = msgs[i]
    <2>1. \A i \in 1..Len(msgs) : b[Len(box) + i] = msgs[i]
      BY ConcatProperties
    <2> QED
      BY <2>1, ConcatProperties, LenProperties
  <1> HIDE DEF b
  <1>2. /\ t \in Seq(S) /\ Len(t) = Len(msgs)
        /\ \A i \in 1..Len(msgs) : t[i] = b[Len(box) + i]
    BY <1>1
  <1> HIDE DEF t
  <1>3. t = msgs
    BY <1>1, <1>2, SeqEqual
  <1> QED
    BY <1>3 DEF t, b

\* Appending nothing, one message or two.
LEMMA ConcatFacts ==
    ASSUME NEW S, NEW s \in Seq(S)
    PROVE  /\ s \o <<>> = s
           /\ \A a \in S : s \o <<a>> = Append(s, a)
           /\ \A a, b \in S : s \o <<a, b>> = Append(Append(s, a), b)
  <1>1. s \o <<>> = s
    BY ConcatEmptySeq
  <1>2. ASSUME NEW a \in S PROVE s \o <<a>> = Append(s, a)
    <2>1. /\ s \o <<a>> \in Seq(S) /\ Append(s, a) \in Seq(S) /\ Len(s \o <<a>>) = Len(Append(s, a))
          /\ \A i \in 1..Len(s \o <<a>>) : (s \o <<a>>)[i] = Append(s, a)[i]
      OBVIOUS
    <2> QED
      BY <2>1, SeqEqual
  <1>3. ASSUME NEW a \in S, NEW b \in S PROVE s \o <<a, b>> = Append(Append(s, a), b)
    <2> DEFINE x == s \o <<a, b>>
               y == Append(Append(s, a), b)
    <2>1. /\ x \in Seq(S) /\ Len(x) = Len(s) + 2 /\ Len(s) \in Nat
          /\ \A i \in 1..Len(s) : x[i] = s[i]
          /\ x[Len(s) + 1] = a /\ x[Len(s) + 2] = b
      OBVIOUS
    <2>2. /\ y \in Seq(S) /\ Len(y) = Len(s) + 2
          /\ \A i \in 1..Len(s) : y[i] = s[i]
          /\ y[Len(s) + 1] = a /\ y[Len(s) + 2] = b
      OBVIOUS
    <2> HIDE DEF x, y
    <2>3. \A i \in 1..Len(x) : x[i] = y[i]
      BY <2>1, <2>2
    <2>4. x = y
      BY <2>1, <2>2, <2>3, SeqEqual
    <2> QED
      BY <2>4 DEF x, y
  <1> QED
    BY <1>1, <1>2, <1>3

\* What the steps that append to the queue leave in it.
LEMMA QueueAppend ==
    ASSUME NEW m \in Queued, queue \in Seq(Queued), queue' = Append(queue, m)
    PROVE  /\ queue' \in Seq(Queued) /\ Len(queue') = Len(queue) + 1 /\ queue'[Len(queue')] = m
           /\ Len(queue) \in Nat /\ \A i \in 1..Len(queue) : queue'[i] = queue[i]
           /\ \A x : Contains(queue', x) <=> Contains(queue, x) \/ x = m
           /\ \A x : Once(queue, x) /\ (x = m => ~Contains(queue, x)) => Once(queue', x)
           /\ \A i \in 1..Len(queue) : Behind(queue, i) => Behind(queue', i)
           /\ Contains(queue, "UTF8_TEXT") \/ Contains(queue, "ERROR") => Behind(queue', Len(queue'))
  <1>1. PICK S, s, t : S = Queued /\ s = queue /\ t = queue'
    OBVIOUS
  <1>2. s \in Seq(S) /\ m \in S /\ t = Append(s, m) /\ Len(s) \in Nat
    BY <1>1
  <1>3. t \in Seq(S) /\ Len(t) = Len(s) + 1 /\ t[Len(t)] = m /\ \A i \in 1..Len(s) : t[i] = s[i]
    BY <1>2, AppendFacts
  <1>4. ASSUME NEW x PROVE Contains(t, x) <=> Contains(s, x) \/ x = m
    BY <1>2, ContainsAppend, ZenonT(30)
  <1>5. ASSUME NEW x, Once(s, x), x = m => ~Contains(s, x) PROVE Once(t, x)
    BY <1>2, <1>5, OnceAppend
  <1>6. /\ \A i \in 1..Len(s) : Behind(s, i) => Behind(t, i)
        /\ Contains(s, "UTF8_TEXT") \/ Contains(s, "ERROR") => Behind(t, Len(t))
    BY <1>2, BehindAppend
  <1> QED
    BY <1>1, <1>2, <1>3, <1>4, <1>5, <1>6

-----------------------------------------------------------------------------
(* Every action keeps the inductive invariant.                             *)

\* Leaving the dialog or the screen.
LEMMA BackIInv == ASSUME IInv, Back PROVE IInv'
  <1> USE DEF Back, Clicking, Live, jobVars, actVars, pixVars, IInv
  <1>h. Handed' = Handed /\ Handed \in Nat \ {0}
    BY LeakedAssumption DEF Handed, Types
  <1>1. Types'
    BY ZenonT(30) DEF Types, MainPoints, TaskPoints, Wrappers, Faulty
  <1>2. DestroyedOnce'
    BY DEF DestroyedOnce, Types
  <1>3. LoadedFirst'
    BY DEF LoadedFirst, Loading, Types
  <1>4. EndIsLast'
    BY DEF EndIsLast, Saving, Scaled, Told, Types
  <1>5. SavedOnce'
    BY DEF SavedOnce, ResultHasText, Saving, Scaled, Told, Types
  <1>6. CardRefs'
    BY <1>h DEF CardRefs, FieldOrg, DestroyedOnce, Loading, Scaled, Wrappers, Types
  <1>7. SmallRefs'
    BY DEF SmallRefs, CardRefs, FieldOrg, DestroyedOnce, Scaled, Wrappers, Types
  <1>8. FieldOrg'
    BY DEF FieldOrg, CardRefs, SmallRefs, DestroyedOnce, Scaled, Wrappers, Types
  <1>9. Faults'
    BY <1>h DEF Faults, DestroyedOnce, FieldOrg, CardRefs, SmallRefs, Loading, Scaled, Wrappers, Types
  <1> QED
    BY <1>1, <1>2, <1>3, <1>4, <1>5, <1>6, <1>7, <1>8, <1>9

\* The crop screen gives its reference back: one less was handed over, one less is left.
LEMMA CropBackIInv == ASSUME IInv, CropBack PROVE IInv'
  <1> USE DEF CropBack, Clicking, Dropped, Live, jobVars, actVars, pixVars, IInv
  <1>h. Handed' = Handed - 1 /\ Handed' \in Nat \ {0} /\ Handed \in Nat
    BY LeakedAssumption DEF Handed, Types
  <1>a. /\ "card" \notin recycled /\ refs["card"] = Handed /\ tpc \in Loading \cup {"loaded"}
        /\ refs'["card"] = Handed' /\ refs'["small"] = refs["small"] /\ recycled' = recycled
    BY <1>h DEF FieldOrg, DestroyedOnce, CardRefs, SavedOnce, Saving, Loading, Scaled, Wrappers,
       TaskPoints, Types
  <1>1. Types'
    <2>1. refs' = [refs EXCEPT !["card"] = @ - 1] /\ refs \in [Wrappers -> Int]
      BY DEF Types
    <2>2. refs' \in [Wrappers -> Int]
      BY <2>1 DEF Wrappers
    <2>3. cropHolds' = FALSE
      OBVIOUS
    <2> QED
      BY <2>2, <2>3 DEF Types
  <1>2. DestroyedOnce'
    BY DEF DestroyedOnce, Types
  <1>3. LoadedFirst'
    BY DEF LoadedFirst, Loading, Types
  <1>4. EndIsLast'
    BY DEF EndIsLast, Saving, Scaled, Told, Types
  <1>5. SavedOnce'
    BY DEF SavedOnce, ResultHasText, Saving, Scaled, Told, Types
  <1>6. CardRefs'
    BY <1>h, <1>a DEF CardRefs, FieldOrg, DestroyedOnce, Loading, Scaled, Wrappers, Types
  <1>7. SmallRefs'
    BY DEF SmallRefs, CardRefs, FieldOrg, DestroyedOnce, Scaled, Wrappers, Types
  <1>8. FieldOrg'
    BY DEF FieldOrg, CardRefs, SmallRefs, DestroyedOnce, Scaled, Wrappers, Types
  <1>9. Faults'
    BY <1>h, <1>a DEF Faults, DestroyedOnce, FieldOrg, CardRefs, SmallRefs, Loading, Scaled, Wrappers, Types
  <1> QED
    BY <1>1, <1>2, <1>3, <1>4, <1>5, <1>6, <1>7, <1>8, <1>9

\* Cancelling the dialog.
LEMMA ClickCancelIInv == ASSUME IInv, ClickCancel PROVE IInv'
  <1> USE DEF ClickCancel, Clicking, Live, jobVars, actVars, pixVars, IInv
  <1>h. Handed' = Handed /\ Handed \in Nat \ {0}
    BY LeakedAssumption DEF Handed, Types
  <1>1. Types'
    BY ZenonT(30) DEF Types, MainPoints, TaskPoints, Wrappers, Faulty
  <1>2. DestroyedOnce'
    BY DEF DestroyedOnce, Types
  <1>3. LoadedFirst'
    BY DEF LoadedFirst, Loading, Types
  <1>4. EndIsLast'
    BY DEF EndIsLast, Saving, Scaled, Told, Types
  <1>5. SavedOnce'
    BY DEF SavedOnce, ResultHasText, Saving, Scaled, Told, Types
  <1>6. CardRefs'
    BY <1>h DEF CardRefs, FieldOrg, DestroyedOnce, Loading, Scaled, Wrappers, Types
  <1>7. SmallRefs'
    BY DEF SmallRefs, CardRefs, FieldOrg, DestroyedOnce, Scaled, Wrappers, Types
  <1>8. FieldOrg'
    BY DEF FieldOrg, CardRefs, SmallRefs, DestroyedOnce, Scaled, Wrappers, Types
  <1>9. Faults'
    BY <1>h DEF Faults, DestroyedOnce, FieldOrg, CardRefs, SmallRefs, Loading, Scaled, Wrappers, Types
  <1> QED
    BY <1>1, <1>2, <1>3, <1>4, <1>5, <1>6, <1>7, <1>8, <1>9

\* The job starts on the card that is loaded.
LEMMA ClickStartIInv == ASSUME IInv, ClickStart PROVE IInv'
  <1> USE DEF ClickStart, Clicking, Job!StartJob, Job!Advance, Job!Phases, Live, jobVars, actVars, pixVars, IInv
  <1>h. Handed' = Handed /\ Handed \in Nat \ {0}
    BY LeakedAssumption DEF Handed, Types
  <1>1. Types'
    BY ZenonT(30) DEF Types, MainPoints, TaskPoints, Wrappers, Faulty
  <1>2. DestroyedOnce'
    BY DEF DestroyedOnce, Types
  <1>3. LoadedFirst'
    BY DEF LoadedFirst, Loading, Types
  <1>4. EndIsLast'
    BY DEF EndIsLast, Saving, Scaled, Told, Types
  <1>5. SavedOnce'
    BY DEF SavedOnce, ResultHasText, Saving, Scaled, Told, Types
  <1>6. CardRefs'
    BY <1>h DEF CardRefs, FieldOrg, DestroyedOnce, Loading, Scaled, Wrappers, Types
  <1>7. SmallRefs'
    BY DEF SmallRefs, CardRefs, FieldOrg, DestroyedOnce, Scaled, Wrappers, Types
  <1>8. FieldOrg'
    BY DEF FieldOrg, CardRefs, SmallRefs, DestroyedOnce, Scaled, Wrappers, Types
  <1>9. Faults'
    BY <1>h DEF Faults, DestroyedOnce, FieldOrg, CardRefs, SmallRefs, Loading, Scaled, Wrappers, Types
  <1> QED
    BY <1>1, <1>2, <1>3, <1>4, <1>5, <1>6, <1>7, <1>8, <1>9

\* The worker dies behind its END.
LEMMA WorkerDiesIInv == ASSUME IInv, WorkerDies PROVE IInv'
  <1> USE DEF WorkerDies, Live, jobVars, actVars, pixVars, IInv
  <1>h. Handed' = Handed /\ Handed \in Nat \ {0}
    BY LeakedAssumption DEF Handed, Types
  <1>1. Types'
    BY DEF Types, MainPoints, TaskPoints, Wrappers, Faulty
  <1>2. DestroyedOnce'
    BY DEF DestroyedOnce, Types
  <1>3. LoadedFirst'
    BY DEF LoadedFirst, Loading, Types
  <1>4. EndIsLast'
    BY DEF EndIsLast, Saving, Scaled, Told, Types
  <1>5. SavedOnce'
    BY DEF SavedOnce, ResultHasText, Saving, Scaled, Told, Types
  <1>6. CardRefs'
    BY <1>h DEF CardRefs, FieldOrg, DestroyedOnce, Loading, Scaled, Wrappers, Types
  <1>7. SmallRefs'
    BY DEF SmallRefs, CardRefs, FieldOrg, DestroyedOnce, Scaled, Wrappers, Types
  <1>8. FieldOrg'
    BY DEF FieldOrg, CardRefs, SmallRefs, DestroyedOnce, Scaled, Wrappers, Types
  <1>9. Faults'
    BY <1>h DEF Faults, DestroyedOnce, FieldOrg, CardRefs, SmallRefs, Loading, Scaled, Wrappers, Types
  <1> QED
    BY <1>1, <1>2, <1>3, <1>4, <1>5, <1>6, <1>7, <1>8, <1>9

\* The field refers to the card.
LEMMA WrapCardIInv == ASSUME IInv, WrapCard PROVE IInv'
  <1> USE DEF WrapCard, TaskAt, Live, jobVars, actVars, pixVars, IInv
  <1>h. Handed' = Handed /\ Handed \in Nat \ {0}
    BY LeakedAssumption DEF Handed, Types
  <1>1. Types'
    BY DEF Types, MainPoints, TaskPoints, Wrappers, Faulty
  <1>2. DestroyedOnce'
    BY DEF DestroyedOnce, Types
  <1>3. LoadedFirst'
    BY DEF LoadedFirst, Loading, Types
  <1>4. EndIsLast'
    BY DEF EndIsLast, Saving, Scaled, Told, Types
  <1>5. SavedOnce'
    BY DEF SavedOnce, ResultHasText, Saving, Scaled, Told, Types
  <1>6. CardRefs'
    BY <1>h DEF CardRefs, FieldOrg, DestroyedOnce, Loading, Scaled, Wrappers, Types
  <1>7. SmallRefs'
    BY DEF SmallRefs, CardRefs, FieldOrg, DestroyedOnce, Scaled, Wrappers, Types
  <1>8. FieldOrg'
    BY DEF FieldOrg, CardRefs, SmallRefs, DestroyedOnce, Scaled, Wrappers, Types
  <1>9. Faults'
    BY <1>h DEF Faults, DestroyedOnce, FieldOrg, CardRefs, SmallRefs, Loading, Scaled, Wrappers, Types
  <1> QED
    BY <1>1, <1>2, <1>3, <1>4, <1>5, <1>6, <1>7, <1>8, <1>9

\* The field is read for the copy.
LEMMA CallCopyIInv == ASSUME IInv, CallCopy PROVE IInv'
  <1> USE DEF CallCopy, TaskAt, Live, jobVars, actVars, pixVars, IInv
  <1>h. Handed' = Handed /\ Handed \in Nat \ {0}
    BY LeakedAssumption DEF Handed, Types
  <1>1. Types'
    BY DEF Types, MainPoints, TaskPoints, Wrappers, Faulty
  <1>2. DestroyedOnce'
    BY DEF DestroyedOnce, Types
  <1>3. LoadedFirst'
    BY DEF LoadedFirst, Loading, Types
  <1>4. EndIsLast'
    BY DEF EndIsLast, Saving, Scaled, Told, Types
  <1>5. SavedOnce'
    BY DEF SavedOnce, ResultHasText, Saving, Scaled, Told, Types
  <1>6. CardRefs'
    BY <1>h DEF CardRefs, FieldOrg, DestroyedOnce, Loading, Scaled, Wrappers, Types
  <1>7. SmallRefs'
    BY DEF SmallRefs, CardRefs, FieldOrg, DestroyedOnce, Scaled, Wrappers, Types
  <1>8. FieldOrg'
    BY DEF FieldOrg, CardRefs, SmallRefs, DestroyedOnce, Scaled, Wrappers, Types
  <1>9. Faults'
    BY <1>h DEF Faults, DestroyedOnce, FieldOrg, CardRefs, SmallRefs, Loading, Scaled, Wrappers, Types
  <1> QED
    BY <1>1, <1>2, <1>3, <1>4, <1>5, <1>6, <1>7, <1>8, <1>9

\* The bitmap is there.
LEMMA CopyCardIInv == ASSUME IInv, CopyCard PROVE IInv'
  <1> USE DEF CopyCard, TaskAt, Live, jobVars, actVars, pixVars, IInv
  <1>h. Handed' = Handed /\ Handed \in Nat \ {0}
    BY LeakedAssumption DEF Handed, Types
  <1> DEFINE m == "LOADED"
  <1>0. /\ queue' \in Seq(Queued) /\ Len(queue') = Len(queue) + 1 /\ queue'[Len(queue')] = m
        /\ Len(queue) \in Nat /\ \A i \in 1..Len(queue) : queue'[i] = queue[i]
        /\ \A x : Contains(queue', x) <=> Contains(queue, x) \/ x = m
        /\ \A x : Once(queue, x) /\ (x = m => ~Contains(queue, x)) => Once(queue', x)
        /\ \A i \in 1..Len(queue) : Behind(queue, i) => Behind(queue', i)
    <2>1. queue \in Seq(Queued) /\ m \in Queued /\ queue' = Append(queue, m) /\ Len(queue) \in Nat
      BY DEF Types, Queued
    <2> HIDE DEF m
    <2> QED
      BY <2>1, QueueAppend
  <1>1. Types'
    BY <1>0 DEF Types, MainPoints, TaskPoints, Wrappers, Faulty
  <1>2. DestroyedOnce'
    BY <1>0 DEF DestroyedOnce, Types
  <1>3. LoadedFirst'
    BY <1>0 DEF LoadedFirst, Loading, Types
  <1>4. EndIsLast'
    BY <1>0 DEF EndIsLast, Saving, Scaled, Told, Types
  <1>5. SavedOnce'
    BY <1>0 DEF SavedOnce, ResultHasText, Saving, Scaled, Told, Types
  <1>6. CardRefs'
    BY <1>h DEF CardRefs, FieldOrg, DestroyedOnce, Loading, Scaled, Wrappers, Types
  <1>7. SmallRefs'
    BY DEF SmallRefs, CardRefs, FieldOrg, DestroyedOnce, Scaled, Wrappers, Types
  <1>8. FieldOrg'
    BY DEF FieldOrg, CardRefs, SmallRefs, DestroyedOnce, Scaled, Wrappers, Types
  <1>9. Faults'
    BY <1>h DEF Faults, DestroyedOnce, FieldOrg, CardRefs, SmallRefs, Loading, Scaled, Wrappers, Types
  <1> QED
    BY <1>1, <1>2, <1>3, <1>4, <1>5, <1>6, <1>7, <1>8, <1>9

\* SavePixTask takes a reference of its own.
LEMMA CloneOrgIInv == ASSUME IInv, CloneOrg PROVE IInv'
  <1> USE DEF CloneOrg, TaskAt, Live, jobVars, actVars, pixVars, IInv
  <1>h. Handed' = Handed /\ Handed \in Nat \ {0}
    BY LeakedAssumption DEF Handed, Types
  <1>1. Types'
    BY DEF Types, MainPoints, TaskPoints, Wrappers, Faulty
  <1>2. DestroyedOnce'
    BY DEF DestroyedOnce, Types
  <1>3. LoadedFirst'
    BY DEF LoadedFirst, Loading, Types
  <1>4. EndIsLast'
    BY DEF EndIsLast, Saving, Scaled, Told, Types
  <1>5. SavedOnce'
    BY DEF SavedOnce, ResultHasText, Saving, Scaled, Told, Types
  <1>6. CardRefs'
    BY <1>h DEF CardRefs, FieldOrg, DestroyedOnce, Loading, Scaled, Wrappers, Types
  <1>7. SmallRefs'
    BY DEF SmallRefs, CardRefs, FieldOrg, DestroyedOnce, Scaled, Wrappers, Types
  <1>8. FieldOrg'
    BY DEF FieldOrg, CardRefs, SmallRefs, DestroyedOnce, Scaled, Wrappers, Types
  <1>9. Faults'
    BY <1>h DEF Faults, DestroyedOnce, FieldOrg, CardRefs, SmallRefs, Loading, Scaled, Wrappers, Types
  <1> QED
    BY <1>1, <1>2, <1>3, <1>4, <1>5, <1>6, <1>7, <1>8, <1>9

\* The wrapper is tested: it has been recycled only by onDestroy.
LEMMA CheckOrgIInv == ASSUME IInv, CheckOrg PROVE IInv'
  <1> USE DEF CheckOrg, TaskAt, Live, jobVars, actVars, pixVars, IInv
  <1>h. Handed' = Handed /\ Handed \in Nat \ {0}
    BY LeakedAssumption DEF Handed, Types
  <1>1. Types'
    BY DEF Types, MainPoints, TaskPoints, Wrappers, Faulty
  <1>2. DestroyedOnce'
    BY DEF DestroyedOnce, Types
  <1>3. LoadedFirst'
    BY DEF LoadedFirst, Loading, Types
  <1>4. EndIsLast'
    BY DEF EndIsLast, Saving, Scaled, Told, Types
  <1>5. SavedOnce'
    BY DEF SavedOnce, ResultHasText, Saving, Scaled, Told, Types
  <1>6. CardRefs'
    BY <1>h DEF CardRefs, FieldOrg, DestroyedOnce, Loading, Scaled, Wrappers, Types
  <1>7. SmallRefs'
    BY DEF SmallRefs, CardRefs, FieldOrg, DestroyedOnce, Scaled, Wrappers, Types
  <1>8. FieldOrg'
    BY DEF FieldOrg, CardRefs, SmallRefs, DestroyedOnce, Scaled, Wrappers, Types
  <1>9. Faults'
    BY <1>h DEF Faults, DestroyedOnce, FieldOrg, CardRefs, SmallRefs, Loading, Scaled, Wrappers, Types
  <1> QED
    BY <1>1, <1>2, <1>3, <1>4, <1>5, <1>6, <1>7, <1>8, <1>9

\* The task recycles, and onDestroy may have done so since the test.
LEMMA RecycleOrgIInv == ASSUME IInv, RecycleOrg PROVE IInv'
  <1> USE DEF RecycleOrg, TaskAt, Recycled, Dropped, Live, jobVars, actVars, pixVars, IInv
  <1>h. Handed' = Handed /\ Handed \in Nat \ {0}
    BY LeakedAssumption DEF Handed, Types
  <1>1. Types'
    BY DEF Types, MainPoints, TaskPoints, Wrappers, Faulty
  <1>2. DestroyedOnce'
    BY DEF DestroyedOnce, Types
  <1>3. LoadedFirst'
    BY DEF LoadedFirst, Loading, Types
  <1>4. EndIsLast'
    BY DEF EndIsLast, Saving, Scaled, Told, Types
  <1>5. SavedOnce'
    BY DEF SavedOnce, ResultHasText, Saving, Scaled, Told, Types
  <1>6. CardRefs'
    BY <1>h DEF CardRefs, FieldOrg, DestroyedOnce, Loading, Scaled, Wrappers, Types
  <1>7. SmallRefs'
    BY DEF SmallRefs, CardRefs, FieldOrg, DestroyedOnce, Scaled, Wrappers, Types
  <1>8. FieldOrg'
    BY DEF FieldOrg, CardRefs, SmallRefs, DestroyedOnce, Scaled, Wrappers, Types
  <1>9. Faults'
    BY <1>h DEF Faults, DestroyedOnce, FieldOrg, CardRefs, SmallRefs, Loading, Scaled, Wrappers, Types
  <1> QED
    BY <1>1, <1>2, <1>3, <1>4, <1>5, <1>6, <1>7, <1>8, <1>9

\* The small image takes the place of the card.
LEMMA ScaleOrgIInv == ASSUME IInv, ScaleOrg PROVE IInv'
  <1> USE DEF ScaleOrg, TaskAt, Live, jobVars, actVars, pixVars, IInv
  <1>h. Handed' = Handed /\ Handed \in Nat \ {0}
    BY LeakedAssumption DEF Handed, Types
  <1>1. Types'
    BY DEF Types, MainPoints, TaskPoints, Wrappers, Faulty
  <1>2. DestroyedOnce'
    BY DEF DestroyedOnce, Types
  <1>3. LoadedFirst'
    BY DEF LoadedFirst, Loading, Types
  <1>4. EndIsLast'
    BY DEF EndIsLast, Saving, Scaled, Told, Types
  <1>5. SavedOnce'
    BY DEF SavedOnce, ResultHasText, Saving, Scaled, Told, Types
  <1>6. CardRefs'
    BY <1>h DEF CardRefs, FieldOrg, DestroyedOnce, Loading, Scaled, Wrappers, Types
  <1>7. SmallRefs'
    BY DEF SmallRefs, CardRefs, FieldOrg, DestroyedOnce, Scaled, Wrappers, Types
  <1>8. FieldOrg'
    BY DEF FieldOrg, CardRefs, SmallRefs, DestroyedOnce, Scaled, Wrappers, Types
  <1>9. Faults'
    BY <1>h DEF Faults, DestroyedOnce, FieldOrg, CardRefs, SmallRefs, Loading, Scaled, Wrappers, Types
  <1> QED
    BY <1>1, <1>2, <1>3, <1>4, <1>5, <1>6, <1>7, <1>8, <1>9

\* The field is read for the file.
LEMMA CallSaveIInv == ASSUME IInv, CallSave PROVE IInv'
  <1> USE DEF CallSave, TaskAt, Live, jobVars, actVars, pixVars, IInv
  <1>h. Handed' = Handed /\ Handed \in Nat \ {0}
    BY LeakedAssumption DEF Handed, Types
  <1>1. Types'
    BY DEF Types, MainPoints, TaskPoints, Wrappers, Faulty
  <1>2. DestroyedOnce'
    BY DEF DestroyedOnce, Types
  <1>3. LoadedFirst'
    BY DEF LoadedFirst, Loading, Types
  <1>4. EndIsLast'
    BY DEF EndIsLast, Saving, Scaled, Told, Types
  <1>5. SavedOnce'
    BY DEF SavedOnce, ResultHasText, Saving, Scaled, Told, Types
  <1>6. CardRefs'
    BY <1>h DEF CardRefs, FieldOrg, DestroyedOnce, Loading, Scaled, Wrappers, Types
  <1>7. SmallRefs'
    BY DEF SmallRefs, CardRefs, FieldOrg, DestroyedOnce, Scaled, Wrappers, Types
  <1>8. FieldOrg'
    BY DEF FieldOrg, CardRefs, SmallRefs, DestroyedOnce, Scaled, Wrappers, Types
  <1>9. Faults'
    BY <1>h DEF Faults, DestroyedOnce, FieldOrg, CardRefs, SmallRefs, Loading, Scaled, Wrappers, Types
  <1> QED
    BY <1>1, <1>2, <1>3, <1>4, <1>5, <1>6, <1>7, <1>8, <1>9

\* The image is in the file, or was freed meanwhile.
LEMMA WriteOrgIInv == ASSUME IInv, WriteOrg PROVE IInv'
  <1> USE DEF WriteOrg, TaskAt, Live, jobVars, actVars, pixVars, IInv
  <1>h. Handed' = Handed /\ Handed \in Nat \ {0}
    BY LeakedAssumption DEF Handed, Types
  <1> DEFINE m == "SAVED"
  <1>0. /\ queue' \in Seq(Queued) /\ Len(queue') = Len(queue) + 1 /\ queue'[Len(queue')] = m
        /\ Len(queue) \in Nat /\ \A i \in 1..Len(queue) : queue'[i] = queue[i]
        /\ \A x : Contains(queue', x) <=> Contains(queue, x) \/ x = m
        /\ \A x : Once(queue, x) /\ (x = m => ~Contains(queue, x)) => Once(queue', x)
        /\ \A i \in 1..Len(queue) : Behind(queue, i) => Behind(queue', i)
    <2>1. queue \in Seq(Queued) /\ m \in Queued /\ queue' = Append(queue, m) /\ Len(queue) \in Nat
      BY DEF Types, Queued
    <2> HIDE DEF m
    <2> QED
      BY <2>1, QueueAppend
  <1>1. Types'
    BY <1>0 DEF Types, MainPoints, TaskPoints, Wrappers, Faulty
  <1>2. DestroyedOnce'
    BY <1>0 DEF DestroyedOnce, Types
  <1>3. LoadedFirst'
    BY <1>0 DEF LoadedFirst, Loading, Types
  <1>4. EndIsLast'
    BY <1>0 DEF EndIsLast, Saving, Scaled, Told, Types
  <1>5. SavedOnce'
    BY <1>0 DEF SavedOnce, ResultHasText, Saving, Scaled, Told, Types
  <1>6. CardRefs'
    BY <1>h DEF CardRefs, FieldOrg, DestroyedOnce, Loading, Scaled, Wrappers, Types
  <1>7. SmallRefs'
    BY DEF SmallRefs, CardRefs, FieldOrg, DestroyedOnce, Scaled, Wrappers, Types
  <1>8. FieldOrg'
    BY DEF FieldOrg, CardRefs, SmallRefs, DestroyedOnce, Scaled, Wrappers, Types
  <1>9. Faults'
    BY <1>h DEF Faults, DestroyedOnce, FieldOrg, CardRefs, SmallRefs, Loading, Scaled, Wrappers, Types
  <1> QED
    BY <1>1, <1>2, <1>3, <1>4, <1>5, <1>6, <1>7, <1>8, <1>9

\* The dialog is shown.
LEMMA HandleLoadedIInv == ASSUME IInv, HandleLoaded PROVE IInv'
  <1> USE DEF HandleLoaded, Handle, Live, jobVars, actVars, pixVars, IInv
  <1>h. Handed' = Handed /\ Handed \in Nat \ {0}
    BY LeakedAssumption DEF Handed, Types
  <1> DEFINE m == "LOADED"
  <1>0. /\ queue' \in Seq(Queued) /\ Len(queue') = Len(queue) - 1 /\ Len(queue) >= 1 /\ Len(queue) \in Nat
        /\ queue[1] = m
        /\ \A i \in 1..Len(queue') : queue'[i] = queue[i + 1] /\ i + 1 \in 1..Len(queue)
        /\ \A x : Contains(queue, x) <=> Contains(queue', x) \/ x = m
        /\ \A x : Once(queue, x) => Once(queue', x)
        /\ Once(queue, m) => ~Contains(queue', m)
        /\ \A i \in 1..Len(queue') : Behind(queue, i + 1) => Behind(queue', i) \/ m \in {"UTF8_TEXT", "ERROR"}
    <2>1. queue \in Seq(Queued) /\ queue # <<>> /\ Head(queue) = m /\ queue' = Tail(queue)
      BY DEF Types
    <2> HIDE DEF m
    <2> QED
      BY <2>1, TailFacts
  <1>1. Types'
    BY <1>0 DEF Types, MainPoints, TaskPoints, Wrappers, Faulty
  <1>2. DestroyedOnce'
    BY <1>0 DEF DestroyedOnce, Types
  <1>3. LoadedFirst'
    BY <1>0 DEF LoadedFirst, Loading, Types
  <1>4. EndIsLast'
    BY <1>0 DEF EndIsLast, Saving, Scaled, Told, Types
  <1>5. SavedOnce'
    BY <1>0 DEF SavedOnce, ResultHasText, Saving, Scaled, Told, Types
  <1>6. CardRefs'
    BY <1>h DEF CardRefs, FieldOrg, DestroyedOnce, Loading, Scaled, Wrappers, Types
  <1>7. SmallRefs'
    BY DEF SmallRefs, CardRefs, FieldOrg, DestroyedOnce, Scaled, Wrappers, Types
  <1>8. FieldOrg'
    BY DEF FieldOrg, CardRefs, SmallRefs, DestroyedOnce, Scaled, Wrappers, Types
  <1>9. Faults'
    BY <1>h DEF Faults, DestroyedOnce, FieldOrg, CardRefs, SmallRefs, Loading, Scaled, Wrappers, Types
  <1> QED
    BY <1>1, <1>2, <1>3, <1>4, <1>5, <1>6, <1>7, <1>8, <1>9

\* An image or a layout is taken.
LEMMA HandleQuietIInv == ASSUME IInv, HandleQuiet PROVE IInv'
  <1> USE DEF HandleQuiet, Handle, Live, jobVars, actVars, pixVars, IInv
  <1>h. Handed' = Handed /\ Handed \in Nat \ {0}
    BY LeakedAssumption DEF Handed, Types
  <1>a. PICK m : m \in {"FINAL_IMAGE", "HOCR_TEXT"} /\ Handle(m)
    OBVIOUS
  <1>0. /\ queue' \in Seq(Queued) /\ Len(queue') = Len(queue) - 1 /\ Len(queue) >= 1 /\ Len(queue) \in Nat
        /\ queue[1] = m
        /\ \A i \in 1..Len(queue') : queue'[i] = queue[i + 1] /\ i + 1 \in 1..Len(queue)
        /\ \A x : Contains(queue, x) <=> Contains(queue', x) \/ x = m
        /\ \A x : Once(queue, x) => Once(queue', x)
        /\ Once(queue, m) => ~Contains(queue', m)
        /\ \A i \in 1..Len(queue') : Behind(queue, i + 1) => Behind(queue', i) \/ m \in {"UTF8_TEXT", "ERROR"}
    <2>1. queue \in Seq(Queued) /\ queue # <<>> /\ Head(queue) = m /\ queue' = Tail(queue)
      BY <1>a DEF Types
    <2> QED
      BY <2>1, TailFacts
  <1>1. Types'
    BY <1>a, <1>0 DEF Types, MainPoints, TaskPoints, Wrappers, Faulty
  <1>2. DestroyedOnce'
    BY <1>a, <1>0 DEF DestroyedOnce, Types
  <1>3. LoadedFirst'
    BY <1>a, <1>0 DEF LoadedFirst, Loading, Types
  <1>4. EndIsLast'
    BY <1>a, <1>0 DEF EndIsLast, Saving, Scaled, Told, Types
  <1>5. SavedOnce'
    BY <1>a, <1>0 DEF SavedOnce, ResultHasText, Saving, Scaled, Told, Types
  <1>6. CardRefs'
    BY <1>h DEF CardRefs, FieldOrg, DestroyedOnce, Loading, Scaled, Wrappers, Types
  <1>7. SmallRefs'
    BY DEF SmallRefs, CardRefs, FieldOrg, DestroyedOnce, Scaled, Wrappers, Types
  <1>8. FieldOrg'
    BY DEF FieldOrg, CardRefs, SmallRefs, DestroyedOnce, Scaled, Wrappers, Types
  <1>9. Faults'
    BY <1>h DEF Faults, DestroyedOnce, FieldOrg, CardRefs, SmallRefs, Loading, Scaled, Wrappers, Types
  <1> QED
    BY <1>1, <1>2, <1>3, <1>4, <1>5, <1>6, <1>7, <1>8, <1>9

\* The text is there.
LEMMA HandleTextIInv == ASSUME IInv, HandleText PROVE IInv'
  <1> USE DEF HandleText, Handle, Live, jobVars, actVars, pixVars, IInv
  <1>h. Handed' = Handed /\ Handed \in Nat \ {0}
    BY LeakedAssumption DEF Handed, Types
  <1> DEFINE m == "UTF8_TEXT"
  <1>0. /\ queue' \in Seq(Queued) /\ Len(queue') = Len(queue) - 1 /\ Len(queue) >= 1 /\ Len(queue) \in Nat
        /\ queue[1] = m
        /\ \A i \in 1..Len(queue') : queue'[i] = queue[i + 1] /\ i + 1 \in 1..Len(queue)
        /\ \A x : Contains(queue, x) <=> Contains(queue', x) \/ x = m
        /\ \A x : Once(queue, x) => Once(queue', x)
        /\ Once(queue, m) => ~Contains(queue', m)
        /\ \A i \in 1..Len(queue') : Behind(queue, i + 1) => Behind(queue', i) \/ m \in {"UTF8_TEXT", "ERROR"}
    <2>1. queue \in Seq(Queued) /\ queue # <<>> /\ Head(queue) = m /\ queue' = Tail(queue)
      BY DEF Types
    <2> HIDE DEF m
    <2> QED
      BY <2>1, TailFacts
  <1>1. Types'
    BY <1>0 DEF Types, MainPoints, TaskPoints, Wrappers, Faulty
  <1>2. DestroyedOnce'
    BY <1>0 DEF DestroyedOnce, Types
  <1>3. LoadedFirst'
    BY <1>0 DEF LoadedFirst, Loading, Types
  <1>4. EndIsLast'
    BY <1>0 DEF EndIsLast, Saving, Scaled, Told, Types
  <1>5. SavedOnce'
    BY <1>0 DEF SavedOnce, ResultHasText, Saving, Scaled, Told, Types
  <1>6. CardRefs'
    BY <1>h DEF CardRefs, FieldOrg, DestroyedOnce, Loading, Scaled, Wrappers, Types
  <1>7. SmallRefs'
    BY DEF SmallRefs, CardRefs, FieldOrg, DestroyedOnce, Scaled, Wrappers, Types
  <1>8. FieldOrg'
    BY DEF FieldOrg, CardRefs, SmallRefs, DestroyedOnce, Scaled, Wrappers, Types
  <1>9. Faults'
    BY <1>h DEF Faults, DestroyedOnce, FieldOrg, CardRefs, SmallRefs, Loading, Scaled, Wrappers, Types
  <1> QED
    BY <1>1, <1>2, <1>3, <1>4, <1>5, <1>6, <1>7, <1>8, <1>9

\* The error is shown.
LEMMA HandleErrorIInv == ASSUME IInv, HandleError PROVE IInv'
  <1> USE DEF HandleError, Handle, Live, jobVars, actVars, pixVars, IInv
  <1>h. Handed' = Handed /\ Handed \in Nat \ {0}
    BY LeakedAssumption DEF Handed, Types
  <1> DEFINE m == "ERROR"
  <1>0. /\ queue' \in Seq(Queued) /\ Len(queue') = Len(queue) - 1 /\ Len(queue) >= 1 /\ Len(queue) \in Nat
        /\ queue[1] = m
        /\ \A i \in 1..Len(queue') : queue'[i] = queue[i + 1] /\ i + 1 \in 1..Len(queue)
        /\ \A x : Contains(queue, x) <=> Contains(queue', x) \/ x = m
        /\ \A x : Once(queue, x) => Once(queue', x)
        /\ Once(queue, m) => ~Contains(queue', m)
        /\ \A i \in 1..Len(queue') : Behind(queue, i + 1) => Behind(queue', i) \/ m \in {"UTF8_TEXT", "ERROR"}
    <2>1. queue \in Seq(Queued) /\ queue # <<>> /\ Head(queue) = m /\ queue' = Tail(queue)
      BY DEF Types
    <2> HIDE DEF m
    <2> QED
      BY <2>1, TailFacts
  <1>1. Types'
    BY <1>0 DEF Types, MainPoints, TaskPoints, Wrappers, Faulty
  <1>2. DestroyedOnce'
    BY <1>0 DEF DestroyedOnce, Types
  <1>3. LoadedFirst'
    BY <1>0 DEF LoadedFirst, Loading, Types
  <1>4. EndIsLast'
    BY <1>0 DEF EndIsLast, Saving, Scaled, Told, Types
  <1>5. SavedOnce'
    BY <1>0 DEF SavedOnce, ResultHasText, Saving, Scaled, Told, Types
  <1>6. CardRefs'
    BY <1>h DEF CardRefs, FieldOrg, DestroyedOnce, Loading, Scaled, Wrappers, Types
  <1>7. SmallRefs'
    BY DEF SmallRefs, CardRefs, FieldOrg, DestroyedOnce, Scaled, Wrappers, Types
  <1>8. FieldOrg'
    BY DEF FieldOrg, CardRefs, SmallRefs, DestroyedOnce, Scaled, Wrappers, Types
  <1>9. Faults'
    BY <1>h DEF Faults, DestroyedOnce, FieldOrg, CardRefs, SmallRefs, Loading, Scaled, Wrappers, Types
  <1> QED
    BY <1>1, <1>2, <1>3, <1>4, <1>5, <1>6, <1>7, <1>8, <1>9

\* The head of the queue has nothing before it: the user was told.
LEMMA HandleEndIInv == ASSUME IInv, HandleEnd PROVE IInv'
  <1> USE DEF HandleEnd, Handle, Live, jobVars, actVars, pixVars, IInv
  <1>h. Handed' = Handed /\ Handed \in Nat \ {0}
    BY LeakedAssumption DEF Handed, Types
  <1> DEFINE m == "END"
  <1>0. /\ queue' \in Seq(Queued) /\ Len(queue') = Len(queue) - 1 /\ Len(queue) >= 1 /\ Len(queue) \in Nat
        /\ queue[1] = m
        /\ \A i \in 1..Len(queue') : queue'[i] = queue[i + 1] /\ i + 1 \in 1..Len(queue)
        /\ \A x : Contains(queue, x) <=> Contains(queue', x) \/ x = m
        /\ \A x : Once(queue, x) => Once(queue', x)
        /\ Once(queue, m) => ~Contains(queue', m)
        /\ \A i \in 1..Len(queue') : Behind(queue, i + 1) => Behind(queue', i) \/ m \in {"UTF8_TEXT", "ERROR"}
    <2>1. queue \in Seq(Queued) /\ queue # <<>> /\ Head(queue) = m /\ queue' = Tail(queue)
      BY DEF Types
    <2> HIDE DEF m
    <2> QED
      BY <2>1, TailFacts
  <1>a. Told /\ phase = "over"
    <2>1. 1 \in 1..Len(queue) /\ ~Behind(queue, 1) /\ Contains(queue, "END")
      BY <1>0 DEF Behind, Contains
    <2> QED
      BY <1>0, <2>1 DEF EndIsLast
  <1>1. Types'
    BY <1>a, <1>0 DEF Types, MainPoints, TaskPoints, Wrappers, Faulty
  <1>2. DestroyedOnce'
    BY <1>a, <1>0 DEF DestroyedOnce, Types
  <1>3. LoadedFirst'
    BY <1>a, <1>0 DEF LoadedFirst, Loading, Types
  <1>4. EndIsLast'
    BY <1>a, <1>0 DEF EndIsLast, Saving, Scaled, Told, Types
  <1>5. SavedOnce'
    BY <1>a, <1>0 DEF SavedOnce, ResultHasText, Saving, Scaled, Told, Types
  <1>6. CardRefs'
    BY <1>h DEF CardRefs, FieldOrg, DestroyedOnce, Loading, Scaled, Wrappers, Types
  <1>7. SmallRefs'
    BY DEF SmallRefs, CardRefs, FieldOrg, DestroyedOnce, Scaled, Wrappers, Types
  <1>8. FieldOrg'
    BY DEF FieldOrg, CardRefs, SmallRefs, DestroyedOnce, Scaled, Wrappers, Types
  <1>9. Faults'
    BY <1>h DEF Faults, DestroyedOnce, FieldOrg, CardRefs, SmallRefs, Loading, Scaled, Wrappers, Types
  <1> QED
    BY <1>1, <1>2, <1>3, <1>4, <1>5, <1>6, <1>7, <1>8, <1>9

\* The result screen opens for the first time, after the user was told.
LEMMA HandleSavedIInv == ASSUME IInv, HandleSaved PROVE IInv'
  <1> USE DEF HandleSaved, Handle, Live, jobVars, actVars, pixVars, IInv
  <1>h. Handed' = Handed /\ Handed \in Nat \ {0}
    BY LeakedAssumption DEF Handed, Types
  <1> DEFINE m == "SAVED"
  <1>0. /\ queue' \in Seq(Queued) /\ Len(queue') = Len(queue) - 1 /\ Len(queue) >= 1 /\ Len(queue) \in Nat
        /\ queue[1] = m
        /\ \A i \in 1..Len(queue') : queue'[i] = queue[i + 1] /\ i + 1 \in 1..Len(queue)
        /\ \A x : Contains(queue, x) <=> Contains(queue', x) \/ x = m
        /\ \A x : Once(queue, x) => Once(queue', x)
        /\ Once(queue, m) => ~Contains(queue', m)
        /\ \A i \in 1..Len(queue') : Behind(queue, i + 1) => Behind(queue', i) \/ m \in {"UTF8_TEXT", "ERROR"}
    <2>1. queue \in Seq(Queued) /\ queue # <<>> /\ Head(queue) = m /\ queue' = Tail(queue)
      BY DEF Types
    <2> HIDE DEF m
    <2> QED
      BY <2>1, TailFacts
  <1>a. results = <<>> /\ tpc = "saved" /\ Told /\ results' = Append(results, html)
    BY <1>0 DEF SavedOnce, Saving, Scaled
  <1>1. Types'
    BY <1>a, <1>0 DEF Types, MainPoints, TaskPoints, Wrappers, Faulty
  <1>2. DestroyedOnce'
    BY <1>a, <1>0 DEF DestroyedOnce, Types
  <1>3. LoadedFirst'
    BY <1>a, <1>0 DEF LoadedFirst, Loading, Types
  <1>4. EndIsLast'
    BY <1>a, <1>0 DEF EndIsLast, Saving, Scaled, Told, Types
  <1>5. SavedOnce'
    BY <1>a, <1>0 DEF SavedOnce, ResultHasText, Saving, Scaled, Told, Types
  <1>6. CardRefs'
    BY <1>h DEF CardRefs, FieldOrg, DestroyedOnce, Loading, Scaled, Wrappers, Types
  <1>7. SmallRefs'
    BY DEF SmallRefs, CardRefs, FieldOrg, DestroyedOnce, Scaled, Wrappers, Types
  <1>8. FieldOrg'
    BY DEF FieldOrg, CardRefs, SmallRefs, DestroyedOnce, Scaled, Wrappers, Types
  <1>9. Faults'
    BY <1>h DEF Faults, DestroyedOnce, FieldOrg, CardRefs, SmallRefs, Loading, Scaled, Wrappers, Types
  <1> QED
    BY <1>1, <1>2, <1>3, <1>4, <1>5, <1>6, <1>7, <1>8, <1>9

\* A result screen without a text: an error was shown, or the worker threw.
LEMMA OpenResultIInv == ASSUME IInv, OpenResult PROVE IInv'
  <1> USE DEF OpenResult, Last, Live, jobVars, actVars, pixVars, IInv
  <1>h. Handed' = Handed /\ Handed \in Nat \ {0}
    BY LeakedAssumption DEF Handed, Types
  <1>1. Types'
    BY DEF Types, MainPoints, TaskPoints, Wrappers, Faulty
  <1>2. DestroyedOnce'
    BY DEF DestroyedOnce, Types
  <1>3. LoadedFirst'
    BY DEF LoadedFirst, Loading, Types
  <1>4. EndIsLast'
    BY DEF EndIsLast, Saving, Scaled, Told, Types
  <1>5. SavedOnce'
    BY DEF SavedOnce, ResultHasText, Saving, Scaled, Told, Types
  <1>6. CardRefs'
    BY <1>h DEF CardRefs, FieldOrg, DestroyedOnce, Loading, Scaled, Wrappers, Types
  <1>7. SmallRefs'
    BY DEF SmallRefs, CardRefs, FieldOrg, DestroyedOnce, Scaled, Wrappers, Types
  <1>8. FieldOrg'
    BY DEF FieldOrg, CardRefs, SmallRefs, DestroyedOnce, Scaled, Wrappers, Types
  <1>a. erred \/ threw
    <2>1. results \in Seq(BOOLEAN) /\ results # <<>> /\ results[Len(results)] = FALSE
      BY DEF Types
    <2>2. Len(results) \in 1..Len(results)
      BY <2>1
    <2> QED
      BY <2>1, <2>2 DEF SavedOnce, ResultHasText
  <1>9. Faults'
    BY <1>h, <1>a DEF Faults, DestroyedOnce, FieldOrg, CardRefs, SmallRefs, Loading, Scaled, Wrappers, Types
  <1> QED
    BY <1>1, <1>2, <1>3, <1>4, <1>5, <1>6, <1>7, <1>8, <1>9

\* The order is given once.
LEMMA OrderDestroyIInv == ASSUME IInv, OrderDestroy PROVE IInv'
  <1> USE DEF OrderDestroy, Live, jobVars, actVars, pixVars, IInv
  <1>h. Handed' = Handed /\ Handed \in Nat \ {0}
    BY LeakedAssumption DEF Handed, Types
  <1> DEFINE m == "DESTROY"
  <1>0. /\ queue' \in Seq(Queued) /\ Len(queue') = Len(queue) + 1 /\ queue'[Len(queue')] = m
        /\ Len(queue) \in Nat /\ \A i \in 1..Len(queue) : queue'[i] = queue[i]
        /\ \A x : Contains(queue', x) <=> Contains(queue, x) \/ x = m
        /\ \A x : Once(queue, x) /\ (x = m => ~Contains(queue, x)) => Once(queue', x)
        /\ \A i \in 1..Len(queue) : Behind(queue, i) => Behind(queue', i)
    <2>1. queue \in Seq(Queued) /\ m \in Queued /\ queue' = Append(queue, m) /\ Len(queue) \in Nat
      BY DEF Types, Queued
    <2> HIDE DEF m
    <2> QED
      BY <2>1, QueueAppend
  <1>1. Types'
    BY <1>0 DEF Types, MainPoints, TaskPoints, Wrappers, Faulty
  <1>2. DestroyedOnce'
    BY <1>0 DEF DestroyedOnce, Types
  <1>3. LoadedFirst'
    BY <1>0 DEF LoadedFirst, Loading, Types
  <1>4. EndIsLast'
    BY <1>0 DEF EndIsLast, Saving, Scaled, Told, Types
  <1>5. SavedOnce'
    BY <1>0 DEF SavedOnce, ResultHasText, Saving, Scaled, Told, Types
  <1>6. CardRefs'
    BY <1>h DEF CardRefs, FieldOrg, DestroyedOnce, Loading, Scaled, Wrappers, Types
  <1>7. SmallRefs'
    BY DEF SmallRefs, CardRefs, FieldOrg, DestroyedOnce, Scaled, Wrappers, Types
  <1>8. FieldOrg'
    BY DEF FieldOrg, CardRefs, SmallRefs, DestroyedOnce, Scaled, Wrappers, Types
  <1>9. Faults'
    BY <1>h DEF Faults, DestroyedOnce, FieldOrg, CardRefs, SmallRefs, Loading, Scaled, Wrappers, Types
  <1> QED
    BY <1>1, <1>2, <1>3, <1>4, <1>5, <1>6, <1>7, <1>8, <1>9

\* onDestroy begins.
LEMMA BeginDestroyIInv == ASSUME IInv, BeginDestroy PROVE IInv'
  <1> USE DEF BeginDestroy, Handle, Live, jobVars, actVars, pixVars, IInv
  <1>h. Handed' = Handed /\ Handed \in Nat \ {0}
    BY LeakedAssumption DEF Handed, Types
  <1> DEFINE m == "DESTROY"
  <1>0. /\ queue' \in Seq(Queued) /\ Len(queue') = Len(queue) - 1 /\ Len(queue) >= 1 /\ Len(queue) \in Nat
        /\ queue[1] = m
        /\ \A i \in 1..Len(queue') : queue'[i] = queue[i + 1] /\ i + 1 \in 1..Len(queue)
        /\ \A x : Contains(queue, x) <=> Contains(queue', x) \/ x = m
        /\ \A x : Once(queue, x) => Once(queue', x)
        /\ Once(queue, m) => ~Contains(queue', m)
        /\ \A i \in 1..Len(queue') : Behind(queue, i + 1) => Behind(queue', i) \/ m \in {"UTF8_TEXT", "ERROR"}
    <2>1. queue \in Seq(Queued) /\ queue # <<>> /\ Head(queue) = m /\ queue' = Tail(queue)
      BY DEF Types
    <2> HIDE DEF m
    <2> QED
      BY <2>1, TailFacts
  <1>1. Types'
    BY <1>0 DEF Types, MainPoints, TaskPoints, Wrappers, Faulty
  <1>2. DestroyedOnce'
    BY <1>0 DEF DestroyedOnce, Types
  <1>3. LoadedFirst'
    BY <1>0 DEF LoadedFirst, Loading, Types
  <1>4. EndIsLast'
    BY <1>0 DEF EndIsLast, Saving, Scaled, Told, Types
  <1>5. SavedOnce'
    BY <1>0 DEF SavedOnce, ResultHasText, Saving, Scaled, Told, Types
  <1>6. CardRefs'
    BY <1>h DEF CardRefs, FieldOrg, DestroyedOnce, Loading, Scaled, Wrappers, Types
  <1>7. SmallRefs'
    BY DEF SmallRefs, CardRefs, FieldOrg, DestroyedOnce, Scaled, Wrappers, Types
  <1>8. FieldOrg'
    BY <1>0 DEF FieldOrg, DestroyedOnce, MainPoints, Wrappers, Types
  <1>9. Faults'
    BY <1>h DEF Faults, DestroyedOnce, FieldOrg, CardRefs, SmallRefs, Loading, Scaled, Wrappers, Types
  <1> QED
    BY <1>1, <1>2, <1>3, <1>4, <1>5, <1>6, <1>7, <1>8, <1>9

\* onDestroy cancels the job before it touches the pix.
LEMMA CancelFirstIInv == ASSUME IInv, CancelFirst PROVE IInv'
  <1> USE DEF CancelFirst, MainAt, Job!CancelJob, Live, jobVars, actVars, pixVars, IInv
  <1>h. Handed' = Handed /\ Handed \in Nat \ {0}
    BY LeakedAssumption DEF Handed, Types
  <1>1. Types'
    BY DEF Types, MainPoints, TaskPoints, Wrappers, Faulty
  <1>2. DestroyedOnce'
    BY DEF DestroyedOnce, Types
  <1>3. LoadedFirst'
    BY DEF LoadedFirst, Loading, Types
  <1>4. EndIsLast'
    BY DEF EndIsLast, Saving, Scaled, Told, Types
  <1>5. SavedOnce'
    BY DEF SavedOnce, ResultHasText, Saving, Scaled, Told, Types
  <1>6. CardRefs'
    BY <1>h DEF CardRefs, FieldOrg, DestroyedOnce, Loading, Scaled, Wrappers, Types
  <1>7. SmallRefs'
    BY DEF SmallRefs, CardRefs, FieldOrg, DestroyedOnce, Scaled, Wrappers, Types
  <1>8. FieldOrg'
    BY DEF FieldOrg, CardRefs, SmallRefs, DestroyedOnce, Scaled, Wrappers, Types
  <1>9. Faults'
    BY <1>h DEF Faults, DestroyedOnce, FieldOrg, CardRefs, SmallRefs, Loading, Scaled, Wrappers, Types
  <1> QED
    BY <1>1, <1>2, <1>3, <1>4, <1>5, <1>6, <1>7, <1>8, <1>9

\* onDestroy finds the wrapper that the tasks have left in the field.
LEMMA DestroyCheckIInv == ASSUME IInv, DestroyCheck PROVE IInv'
  <1> USE DEF DestroyCheck, MainAt, Live, jobVars, actVars, pixVars, IInv
  <1>h. Handed' = Handed /\ Handed \in Nat \ {0}
    BY LeakedAssumption DEF Handed, Types
  <1>0. mpc = "check" /\ mpc' \in {"end", "null"} \cup Wrappers
    BY DEF Types, Wrappers
  <1>1. Types'
    BY DEF Types, MainPoints, TaskPoints, Wrappers, Faulty
  <1>2. DestroyedOnce'
    BY <1>0 DEF DestroyedOnce, Types, Wrappers
  <1>3. LoadedFirst'
    BY DEF LoadedFirst, Loading, Types
  <1>4. EndIsLast'
    BY DEF EndIsLast, Saving, Scaled, Told, Types
  <1>5. SavedOnce'
    BY DEF SavedOnce, ResultHasText, Saving, Scaled, Told, Types
  <1>6. CardRefs'
    BY <1>h DEF CardRefs, FieldOrg, DestroyedOnce, Loading, Scaled, Wrappers, Types
  <1>7. SmallRefs'
    BY DEF SmallRefs, CardRefs, FieldOrg, DestroyedOnce, Scaled, Wrappers, Types
  <1>8. FieldOrg'
    BY DEF FieldOrg, CardRefs, SmallRefs, DestroyedOnce, Scaled, Wrappers, Types
  <1>9. Faults'
    BY <1>h DEF Faults, DestroyedOnce, FieldOrg, CardRefs, SmallRefs, Loading, Scaled, Wrappers, Types
  <1> QED
    BY <1>1, <1>2, <1>3, <1>4, <1>5, <1>6, <1>7, <1>8, <1>9

\* onDestroy recycles it, and the task may have done so since the test.
LEMMA DestroyRecycleIInv == ASSUME IInv, DestroyRecycle PROVE IInv'
  <1> USE DEF DestroyRecycle, MainAt, Recycled, Dropped, Live, jobVars, actVars, pixVars, IInv
  <1>h. Handed' = Handed /\ Handed \in Nat \ {0}
    BY LeakedAssumption DEF Handed, Types
  <1>0. PICK w \in {"card", "small"} : mpc = w /\ mpc' = "null" /\ refs' = [refs EXCEPT ![w] = @ - 1]
                                     /\ recycled' = recycled \cup {w}
                                     /\ fault' = (IF refs[w] <= 0 THEN "double_free" ELSE fault)
    BY DEF Wrappers
  <1>1. Types'
    BY DEF Types, MainPoints, TaskPoints, Wrappers, Faulty
  <1>2. DestroyedOnce'
    BY <1>0 DEF DestroyedOnce, Types, Wrappers
  <1>3. LoadedFirst'
    BY DEF LoadedFirst, Loading, Types
  <1>4. EndIsLast'
    BY DEF EndIsLast, Saving, Scaled, Told, Types
  <1>5. SavedOnce'
    BY DEF SavedOnce, ResultHasText, Saving, Scaled, Told, Types
  <1>6. CardRefs'
    <2>1. CASE w = "card"
      <3>1. /\ cancelled /\ mpc = "card" /\ "card" \in recycled' /\ mpc' # "card"
            /\ refs'["card"] = refs["card"] - 1 /\ refs["card"] \in Int
        BY <1>0, <2>1 DEF DestroyedOnce, Wrappers, Types
      <3>2. tpc \in Loading \cup {"loaded", "clone", "check", "recycle"} => "card" \notin recycled
        BY <3>1 DEF CardRefs, Scaled, Loading
      <3> QED
        BY <1>h, <3>1, <3>2 DEF CardRefs, Loading, Scaled, TaskPoints, Types
    <2>2. CASE w = "small"
      BY <1>h, <1>0, <2>2 DEF CardRefs, FieldOrg, SmallRefs, DestroyedOnce, Loading, Scaled, Wrappers, Types
    <2> QED
      BY <2>1, <2>2
  <1>7. SmallRefs'
    BY DEF SmallRefs, CardRefs, FieldOrg, DestroyedOnce, Scaled, Wrappers, Types
  <1>8. FieldOrg'
    BY DEF FieldOrg, CardRefs, SmallRefs, DestroyedOnce, Scaled, Wrappers, Types
  <1>9. Faults'
    <2>1. CASE w = "card"
      <3>1. /\ cancelled /\ screen # "shown" /\ "card" \in recycled' /\ refs["card"] >= 0 /\ fault = "none"
            /\ refs'["card"] = refs["card"] - 1 /\ refs["card"] \in Int
            /\ fault' = (IF refs["card"] <= 0 THEN "double_free" ELSE fault)
        BY <1>0, <2>1 DEF DestroyedOnce, Wrappers, Types, Faults
      <3>2. refs["card"] <= 0 => Handed = 1 /\ tpc \in Scaled
        BY <1>h, <1>0, <2>1 DEF CardRefs, Loading, Scaled, TaskPoints, Types
      <3> QED
        BY <1>h, <1>0, <3>1, <3>2 DEF Faults
    <2>2. CASE w = "small"
      <3>1. /\ refs["small"] = 1 /\ refs'["card"] = refs["card"] /\ fault' = fault /\ fault = "none"
        BY <1>0, <2>2 DEF SmallRefs, Wrappers, Types
      <3> QED
        BY <1>h, <1>0, <3>1 DEF Faults
    <2> QED
      BY <2>1, <2>2
  <1> QED
    BY <1>1, <1>2, <1>3, <1>4, <1>5, <1>6, <1>7, <1>8, <1>9

\* The field is cleared behind the recycling.
LEMMA DestroyNullIInv == ASSUME IInv, DestroyNull PROVE IInv'
  <1> USE DEF DestroyNull, MainAt, Live, jobVars, actVars, pixVars, IInv
  <1>h. Handed' = Handed /\ Handed \in Nat \ {0}
    BY LeakedAssumption DEF Handed, Types
  <1>1. Types'
    BY DEF Types, MainPoints, TaskPoints, Wrappers, Faulty
  <1>2. DestroyedOnce'
    BY DEF DestroyedOnce, Types
  <1>3. LoadedFirst'
    BY DEF LoadedFirst, Loading, Types
  <1>4. EndIsLast'
    BY DEF EndIsLast, Saving, Scaled, Told, Types
  <1>5. SavedOnce'
    BY DEF SavedOnce, ResultHasText, Saving, Scaled, Told, Types
  <1>6. CardRefs'
    BY <1>h DEF CardRefs, FieldOrg, DestroyedOnce, Loading, Scaled, Wrappers, Types
  <1>7. SmallRefs'
    BY DEF SmallRefs, CardRefs, FieldOrg, DestroyedOnce, Scaled, Wrappers, Types
  <1>8. FieldOrg'
    BY DEF FieldOrg, CardRefs, SmallRefs, DestroyedOnce, Scaled, Wrappers, Types
  <1>9. Faults'
    BY <1>h DEF Faults, DestroyedOnce, FieldOrg, CardRefs, SmallRefs, Loading, Scaled, Wrappers, Types
  <1> QED
    BY <1>1, <1>2, <1>3, <1>4, <1>5, <1>6, <1>7, <1>8, <1>9

\* onDestroy ends.
LEMMA DestroyEndsIInv == ASSUME IInv, DestroyEnds PROVE IInv'
  <1> USE DEF DestroyEnds, MainAt, Live, jobVars, actVars, pixVars, IInv
  <1>h. Handed' = Handed /\ Handed \in Nat \ {0}
    BY LeakedAssumption DEF Handed, Types
  <1>1. Types'
    BY ZenonT(30) DEF Types, MainPoints, TaskPoints, Wrappers, Faulty
  <1>2. DestroyedOnce'
    BY DEF DestroyedOnce, Types
  <1>3. LoadedFirst'
    BY DEF LoadedFirst, Loading, Types
  <1>4. EndIsLast'
    BY DEF EndIsLast, Saving, Scaled, Told, Types
  <1>5. SavedOnce'
    BY DEF SavedOnce, ResultHasText, Saving, Scaled, Told, Types
  <1>6. CardRefs'
    BY <1>h DEF CardRefs, FieldOrg, DestroyedOnce, Loading, Scaled, Wrappers, Types
  <1>7. SmallRefs'
    BY DEF SmallRefs, CardRefs, FieldOrg, DestroyedOnce, Scaled, Wrappers, Types
  <1>8. FieldOrg'
    BY DEF FieldOrg, CardRefs, SmallRefs, DestroyedOnce, Scaled, Wrappers, Types
  <1>9. Faults'
    BY <1>h DEF Faults, DestroyedOnce, FieldOrg, CardRefs, SmallRefs, Loading, Scaled, Wrappers, Types
  <1> QED
    BY <1>1, <1>2, <1>3, <1>4, <1>5, <1>6, <1>7, <1>8, <1>9

-----------------------------------------------------------------------------
(* The steps of the job.                                                   *)

\* Posting t after s: nothing is lost, and none of the messages is new that the screen counts.
Counted == {"LOADED", "SAVED", "DESTROY", "END"}
Keeps(s, t) ==
    /\ t \in Seq(Queued)
    /\ \A x : Contains(s, x) => Contains(t, x)
    /\ \A x \in Counted : (Contains(t, x) => Contains(s, x)) /\ (Once(s, x) => Once(t, x))
    /\ \A i \in 1..Len(t) :
          t[i] = "END" => i \in 1..Len(s) /\ s[i] = "END" /\ (Behind(s, i) => Behind(t, i))

\* What the job posts before its end is of that kind.
LEMMA KeepsAppend ==
    ASSUME NEW s \in Seq(Queued), NEW e \in Queued, e \notin Counted, NEW t, t = Append(s, e)
    PROVE  Keeps(s, t)
  <1>0. PICK S : S = Queued
    OBVIOUS
  <1>1. s \in Seq(S) /\ e \in S /\ t = Append(s, e) /\ Len(s) \in Nat
    BY <1>0
  <1>2. t \in Seq(S) /\ Len(t) = Len(s) + 1
    BY <1>1, AppendFacts
  <1>3. t[Len(t)] = e /\ \A i \in 1..Len(s) : t[i] = s[i]
    BY <1>1, AppendFacts
  <1>4. ASSUME NEW x
        PROVE  /\ Contains(t, x) => Contains(s, x) \/ x = e
               /\ Contains(s, x) \/ x = e => Contains(t, x)
    BY <1>1, <1>2, <1>3 DEF Contains
  <1>5. ASSUME NEW x, Once(s, x), x = e => ~Contains(s, x) PROVE Once(t, x)
    BY <1>1, <1>5, OnceAppend
  <1>6. \A i \in 1..Len(s) : Behind(s, i) => Behind(t, i)
    BY <1>1, BehindAppend
  <1>7. ASSUME NEW i \in 1..Len(t), t[i] = "END"
        PROVE  i \in 1..Len(s) /\ s[i] = "END" /\ (Behind(s, i) => Behind(t, i))
    <2>1. i \in 1..Len(s)
      BY <1>1, <1>2, <1>3, <1>7 DEF Counted
    <2> QED
      BY <1>3, <1>6, <1>7, <2>1
  <1> QED
    BY <1>0, <1>1, <1>2, <1>4, <1>5, <1>7 DEF Keeps

\* Posting nothing is, and posting twice.
LEMMA KeepsTwice ==
    /\ \A s \in Seq(Queued) : Keeps(s, s)
    /\ \A s, t, u : Keeps(s, t) /\ Keeps(t, u) => Keeps(s, u)
  BY DEF Keeps

\* A step of the job is one of five, and the queue gets what the outbox gets.
Shows     == phase = "imaging" /\ phase' = "reading" /\ Keeps(queue, queue') /\ threw' = threw
Publishes == /\ phase = "reading" /\ phase' = "closing" /\ Keeps(queue, queue') /\ threw' = threw
             /\ Contains(queue', "UTF8_TEXT") \/ Contains(queue', "ERROR")
Abandons  == /\ phase = "reading" /\ phase' = "closing" /\ queue' = queue
             /\ threw' \in BOOLEAN /\ (~cancelled => threw')
Finishes  == /\ phase = "closing" /\ phase' = "over" /\ threw' = threw
             /\ queue' = IF cancelled THEN queue ELSE Append(queue, "END")

\* What the job appends to its outbox goes to the queue.
LEMMA Posted ==
    ASSUME IInv, JobWorks, NEW msgs \in Seq(Job!Messages), Job!Emit(msgs)
    PROVE  /\ outbox' \in Seq(Job!Messages)
           /\ cancelled => queue' = queue /\ outbox' = outbox
           /\ ~cancelled => queue' = queue \o msgs /\ outbox' = outbox \o msgs
  <1>1. /\ outbox \in Seq(Job!Messages) /\ queue \in Seq(Queued)
        /\ queue' = queue \o SubSeq(outbox', Len(outbox) + 1, Len(outbox'))
    BY DEF IInv, Types, JobWorks
  <1>2. CASE cancelled
    <2>1. outbox' = outbox
      BY <1>2 DEF Job!Emit
    <2>2. SubSeq(outbox, Len(outbox) + 1, Len(outbox)) = <<>>
      BY <1>1
    <2>3. queue' = queue
      BY <1>1, <2>1, <2>2, ConcatFacts
    <2> QED
      BY <1>1, <1>2, <2>1, <2>3
  <1>3. CASE ~cancelled
    <2>1. outbox' = outbox \o msgs
      BY <1>3 DEF Job!Emit
    <2>2. SubSeq(outbox', Len(outbox) + 1, Len(outbox')) = msgs
      BY <1>1, <2>1, NewMessages
    <2>3. outbox' \in Seq(Job!Messages)
      BY <1>1, <2>1, ConcatProperties
    <2> QED
      BY <1>1, <1>3, <2>1, <2>2, <2>3
  <1> QED
    BY <1>2, <1>3

LEMMA JobPosts ==
    ASSUME IInv, JobWorks
    PROVE  /\ outbox' \in Seq(Job!Messages) /\ cancelled' = cancelled
           /\ Shows \/ Publishes \/ Abandons \/ Finishes
  <1>1. /\ queue \in Seq(Queued) /\ outbox \in Seq(Job!Messages) /\ cancelled \in BOOLEAN
        /\ threw \in BOOLEAN /\ phase # "idle" /\ Job!JobStep
        /\ threw' \in (IF phase = "reading" /\ outbox' = outbox THEN {TRUE, ~cancelled} ELSE {threw})
        /\ queue' = queue \o SubSeq(outbox', Len(outbox) + 1, Len(outbox'))
    BY DEF IInv, Types, JobWorks
  <1>2. CASE Job!ShowImage
    <2> DEFINE e == "FINAL_IMAGE"
    <2>1. e \in Job!Messages /\ e \in Queued \ Counted /\ <<e>> \in Seq(Job!Messages)
      BY DEF Job!Messages, Queued, Counted
    <2>2. phase = "imaging" /\ phase' = "reading" /\ cancelled' = cancelled /\ Job!Emit(<<e>>)
      BY <1>2 DEF Job!ShowImage, Job!Advance
    <2> HIDE DEF e
    <2>3. /\ outbox' \in Seq(Job!Messages) /\ (cancelled => queue' = queue)
          /\ ~cancelled => queue' = queue \o <<e>>
      BY <2>1, <2>2, Posted
    <2>4. ~cancelled => queue' = Append(queue, e)
      BY <1>1, <2>1, <2>3, ConcatFacts
    <2>5. Keeps(queue, queue')
      <3>1. CASE cancelled
        BY <1>1, <2>3, <3>1, KeepsTwice
      <3>2. CASE ~cancelled
        BY <1>1, <2>1, <2>4, <3>2, KeepsAppend
      <3> QED
        BY <3>1, <3>2
    <2>6. threw' = threw
      BY <1>1, <2>2
    <2> QED
      BY <2>2, <2>3, <2>5, <2>6 DEF Shows
  <1>3. CASE Job!Publish
    <2> DEFINE a == "HOCR_TEXT"
               b == "UTF8_TEXT"
    <2>1. /\ a \in Job!Messages /\ b \in Job!Messages /\ a \in Queued \ Counted
          /\ b \in Queued \ Counted /\ <<a, b>> \in Seq(Job!Messages) /\ Len(<<a, b>>) = 2
      BY DEF Job!Messages, Queued, Counted
    <2>2. /\ phase = "reading" /\ phase' = "closing" /\ cancelled' = cancelled
          /\ ~cancelled /\ Job!Emit(<<a, b>>)
      BY <1>3 DEF Job!Publish, Job!Advance
    <2>3. /\ outbox' \in Seq(Job!Messages) /\ queue' = queue \o <<a, b>>
          /\ outbox' = outbox \o <<a, b>>
      BY <2>1, <2>2, Posted
    <2>4. Len(outbox') # Len(outbox)
      BY <1>1, <2>1, <2>3
    <2>5. threw' = threw
      BY <1>1, <2>4
    <2>6. PICK q : q = Append(queue, a)
      OBVIOUS
    <2>7. a \in Queued /\ b \in Queued
      BY <2>1
    <2> HIDE DEF a, b
    <2>8. queue \o <<a, b>> = Append(Append(queue, a), b)
      BY <1>1, <2>7, ConcatFacts
    <2>9. PICK t : t = queue' /\ t = Append(q, b)
      BY <2>3, <2>6, <2>8
    <2>10. q \in Seq(Queued) /\ Keeps(queue, q)
      BY <1>1, <2>1, <2>6, KeepsAppend DEF Keeps
    <2>11. Keeps(q, t)
      BY <2>1, <2>9, <2>10, KeepsAppend DEF Keeps
    <2>13. Keeps(queue, t)
      BY <2>10, <2>11, KeepsTwice
    <2>12. Contains(t, b)
      BY <2>7, <2>9, <2>10 DEF Contains, Keeps
    <2> QED
      BY <2>2, <2>3, <2>5, <2>9, <2>12, <2>13 DEF Publishes, b
  <1>4. CASE Job!ReportError
    <2> DEFINE e == "ERROR"
    <2>1. /\ e \in Job!Messages /\ e \in Queued \ Counted /\ <<e>> \in Seq(Job!Messages)
          /\ Len(<<e>>) = 1 /\ e \in Queued
      BY DEF Job!Messages, Queued, Counted
    <2>2. /\ phase = "reading" /\ phase' = "closing" /\ cancelled' = cancelled
          /\ ~cancelled /\ Job!Emit(<<e>>)
      BY <1>4 DEF Job!ReportError, Job!Advance
    <2>3. /\ outbox' \in Seq(Job!Messages) /\ queue' = queue \o <<e>> /\ outbox' = outbox \o <<e>>
      BY <2>1, <2>2, Posted
    <2>4. Len(outbox') # Len(outbox)
      BY <1>1, <2>1, <2>3
    <2>5. threw' = threw
      BY <1>1, <2>4
    <2>6. queue' = Append(queue, e)
      BY <1>1, <2>1, <2>3, ConcatFacts
    <2>7. Contains(queue', e)
      BY <1>1, <2>1, <2>6 DEF Contains
    <2>8. Keeps(queue, queue')
      BY <1>1, <2>1, <2>6, KeepsAppend
    <2> QED
      BY <2>2, <2>3, <2>5, <2>7, <2>8 DEF Publishes
  <1>5. CASE Job!Abandon
    <2>1. phase = "reading" /\ phase' = "closing" /\ cancelled' = cancelled /\ outbox' = outbox
      BY <1>5 DEF Job!Abandon, Job!Advance
    <2>2. SubSeq(outbox, Len(outbox) + 1, Len(outbox)) = <<>>
      BY <1>1
    <2>3. queue' = queue
      BY <1>1, <2>1, <2>2, ConcatFacts
    <2> QED
      BY <1>1, <2>1, <2>3 DEF Abandons
  <1>6. CASE Job!FinishJob
    <2> DEFINE e == "END"
    <2>1. e \in Job!Messages /\ e \in Queued /\ <<e>> \in Seq(Job!Messages)
      BY DEF Job!Messages, Queued
    <2>2. phase = "closing" /\ phase' = "over" /\ cancelled' = cancelled /\ Job!Emit(<<e>>)
      BY <1>6 DEF Job!FinishJob, Job!Advance
    <2>3. /\ outbox' \in Seq(Job!Messages) /\ (cancelled => queue' = queue)
          /\ ~cancelled => queue' = queue \o <<e>>
      BY <2>1, <2>2, Posted
    <2>4. ~cancelled => queue' = Append(queue, e)
      BY <1>1, <2>1, <2>3, ConcatFacts
    <2> QED
      BY <1>1, <2>2, <2>3, <2>4 DEF Finishes
  <1>7. ~Job!StartJob
    BY <1>1 DEF Job!StartJob, Job!Advance
  <1> QED
    BY <1>1, <1>2, <1>3, <1>4, <1>5, <1>6, <1>7 DEF Job!JobStep

\* While the worker is in nativeOCRBook, the card has the references it was handed, less
\* that of this screen once onDestroy has recycled it.
LEMMA CardInBook ==
    ASSUME IInv, phase = "imaging"
    PROVE  refs["card"] >= 1 \/ (Handed = 1 /\ "card" \in recycled /\ refs["card"] >= 0)
  <1>1. Handed \in Nat \ {0}
    BY LeakedAssumption DEF IInv, Handed, Types
  <1>2. tpc = "loaded"
    BY DEF IInv, LoadedFirst, SavedOnce, Saving, Scaled, Loading, Types, TaskPoints
  <1> QED
    BY <1>1, <1>2 DEF IInv, CardRefs, Types, Wrappers

\* Only the end of the job, and the exception, say anything new to the invariant.
LEMMA JobWorksIInv == ASSUME IInv, JobWorks PROVE IInv'
  <1> USE DEF IInv, Live, actVars, pixVars
  <1>0. /\ outbox' \in Seq(Job!Messages) /\ cancelled' = cancelled /\ fault = "none"
        /\ fault' = (IF phase = "imaging" /\ refs["card"] <= 0 THEN "use_after_free" ELSE fault)
        /\ UNCHANGED <<screen, dialog, html, erred, results, mpc, tpc, org, recycled, refs, cropHolds>>
        /\ phase # "idle"
    BY JobPosts DEF JobWorks
  <1>h. Handed' = Handed /\ Handed \in Nat \ {0}
    BY <1>0, LeakedAssumption DEF Handed, Types
  <1>1. CardRefs'
    BY <1>0, <1>h DEF CardRefs, Loading, Scaled
  <1>2. SmallRefs' /\ FieldOrg'
    BY <1>0 DEF SmallRefs, FieldOrg, Scaled, Wrappers
  <1>t. threw => threw'
    BY JobPosts DEF Shows, Publishes, Abandons, Finishes, EndIsLast
  <1>a. phase = "imaging" => refs["card"] >= 1 \/ (Handed = 1 /\ "card" \in recycled /\ refs["card"] >= 0)
    BY CardInBook
  <1>b. "card" \in recycled /\ phase = "imaging" => cancelled /\ screen # "shown"
    BY <1>0 DEF FieldOrg, DestroyedOnce, SavedOnce, Saving, Scaled, Types
  <1>3. Faults'
    BY <1>0, <1>h, <1>t, <1>a, <1>b DEF Faults, CardRefs, Scaled, Wrappers, Types
  <1>4. CASE Shows \/ Publishes
    <2>1. /\ Keeps(queue, queue') /\ threw' = threw /\ phase \in {"imaging", "reading"}
          /\ phase' \in {"reading", "closing"} /\ fault' \in {fault, "use_after_free"}
          /\ phase' = "closing" => Contains(queue', "UTF8_TEXT") \/ Contains(queue', "ERROR")
      BY <1>0, <1>4 DEF Shows, Publishes
    <2>2. ~Contains(queue, "END")
      BY <1>0, <2>1 DEF EndIsLast
    <2>3. \A x \in Counted : (Contains(queue', x) <=> Contains(queue, x)) /\ (Once(queue, x) => Once(queue', x))
      BY <2>1 DEF Keeps
    <2>4. \A i \in 1..Len(queue') : queue'[i] # "END"
      BY <2>1, <2>2, <2>3 DEF Keeps, Counted, Contains
    <2>5. Types'
      BY <1>0, <2>1 DEF Types, Keeps, Job!Phases, Faulty
    <2>6. DestroyedOnce'
      BY <1>0, <2>3 DEF DestroyedOnce, Counted
    <2>7. LoadedFirst'
      BY <1>0, <2>1, <2>3 DEF LoadedFirst, Counted
    <2>8. EndIsLast'
      BY <1>0, <2>1, <2>2, <2>3, <2>4 DEF EndIsLast, Counted, Told
    <2>9. SavedOnce'
      BY <1>0, <2>1, <2>3 DEF SavedOnce, ResultHasText, Counted, Told
    <2> QED
      BY <1>1, <1>2, <1>3, <2>5, <2>6, <2>7, <2>8, <2>9
  <1>5. CASE Abandons
    <2>1. /\ queue' = queue /\ threw' \in BOOLEAN /\ (~cancelled => threw') /\ phase = "reading"
          /\ phase' = "closing" /\ fault' = fault
      BY <1>0, <1>5 DEF Abandons
    <2>2. Types'
      BY <1>0, <2>1 DEF Types, Job!Phases
    <2>3. DestroyedOnce' /\ LoadedFirst'
      BY <1>0, <2>1 DEF DestroyedOnce, LoadedFirst
    <2>4. EndIsLast'
      BY <1>0, <2>1 DEF EndIsLast, Told, Types
    <2>5. SavedOnce'
      BY <1>0, <1>t, <2>1 DEF SavedOnce, ResultHasText, Told
    <2> QED
      BY <1>1, <1>2, <1>3, <2>2, <2>3, <2>4, <2>5
  <1>6. CASE Finishes
    <2>1. phase = "closing" /\ phase' = "over" /\ threw' = threw /\ queue \in Seq(Queued)
      BY <1>6 DEF Finishes, Types
    <2>2. ~Contains(queue, "END") /\ tpc \notin Saving
      BY <1>0, <2>1 DEF EndIsLast, SavedOnce
    <2>3. CASE cancelled
      <3>1. queue' = queue
        BY <1>6, <2>3 DEF Finishes
      <3>2. Types'
        BY <1>0, <2>1, <3>1 DEF Types, Job!Phases
      <3>3. DestroyedOnce' /\ LoadedFirst'
        BY <1>0, <2>1, <3>1 DEF DestroyedOnce, LoadedFirst
      <3>4. EndIsLast'
        BY <1>0, <2>1, <2>2, <3>1 DEF EndIsLast, Told, Contains
      <3>5. SavedOnce'
        BY <1>0, <2>1, <3>1 DEF SavedOnce, ResultHasText, Told
      <3> QED
        BY <1>1, <1>2, <1>3, <3>2, <3>3, <3>4, <3>5
    <2>4. CASE ~cancelled
      <3>0. PICK m : m = "END"
        OBVIOUS
      <3>1. m \in Queued /\ queue' = Append(queue, m)
        BY <1>6, <2>4, <3>0 DEF Finishes, Queued, Job!Messages
      <3>2. /\ queue' \in Seq(Queued) /\ Len(queue') = Len(queue) + 1 /\ Len(queue) \in Nat
            /\ queue'[Len(queue')] = m /\ \A i \in 1..Len(queue) : queue'[i] = queue[i]
        BY <2>1, <3>1, QueueAppend
      <3>3. \A x : Contains(queue', x) <=> Contains(queue, x) \/ x = m
        BY <2>1, <3>1, QueueAppend
      <3>4. \A x : Once(queue, x) /\ (x = m => ~Contains(queue, x)) => Once(queue', x)
        BY <2>1, <3>1, QueueAppend
      <3>5. Contains(queue, "UTF8_TEXT") \/ Contains(queue, "ERROR") => Behind(queue', Len(queue'))
        BY <2>1, <3>1, QueueAppend
      <3>6. Types'
        BY <1>0, <2>1, <3>2 DEF Types, Job!Phases
      <3>7. DestroyedOnce' /\ LoadedFirst'
        BY <1>0, <2>1, <3>0, <3>3, <3>4 DEF DestroyedOnce, LoadedFirst
      <3>8. Once(queue', "END")
        BY <2>2, <3>0, <3>4 DEF EndIsLast
      <3>9. Live' => Told \/ Behind(queue', Len(queue'))
        BY <1>0, <2>1, <2>4, <3>5 DEF EndIsLast, Types
      <3>10. ASSUME Live', NEW i \in 1..Len(queue'), queue'[i] = "END" PROVE Told \/ Behind(queue', i)
        <4>1. i = Len(queue')
          BY <2>2, <3>2, <3>10 DEF Contains
        <4> QED
          BY <3>9, <3>10, <4>1
      <3>11. Told' = Told
        BY <1>0, <2>1 DEF Told
      <3>12. EndIsLast'
        BY <1>0, <2>1, <2>2, <3>8, <3>9, <3>10, <3>11 DEF EndIsLast, Types
      <3>13. SavedOnce'
        BY <1>0, <2>1, <3>0, <3>3, <3>4, <3>11 DEF SavedOnce, ResultHasText
      <3> QED
        BY <1>1, <1>2, <1>3, <3>6, <3>7, <3>12, <3>13
    <2> QED
      BY <2>3, <2>4 DEF Types
  <1> QED
    BY JobPosts, <1>4, <1>5, <1>6

-----------------------------------------------------------------------------
(* The invariant holds, and what it says.                                  *)

LEMMA InitIInv == Init => IInv
  <1> SUFFICES ASSUME Init PROVE IInv
    OBVIOUS
  <1> USE DEF Init, Job!JobInit
  <1>h. Handed \in Nat \ {0}
    BY LeakedAssumption DEF Handed
  <1>0. \A x : ~Contains(<<>>, x) /\ Once(<<>>, x)
    BY DEF Contains, Once
  <1>1. Types
    <2>1. refs \in [Wrappers -> Int]
      BY <1>h DEF Wrappers
    <2>2. \A S : <<>> \in Seq(S)
      OBVIOUS
    <2>3. outbox \in Seq(Job!Messages) /\ results \in Seq(BOOLEAN) /\ queue \in Seq(Queued)
      BY <2>2
    <2>4. recycled \subseteq Wrappers /\ mpc \in MainPoints /\ tpc \in TaskPoints /\ phase \in Job!Phases
      BY DEF Job!Phases, MainPoints, TaskPoints
    <2> QED
      BY <2>1, <2>3, <2>4 DEF Types, Faulty
  <1>2. DestroyedOnce /\ LoadedFirst /\ EndIsLast
    BY <1>0 DEF DestroyedOnce, LoadedFirst, EndIsLast
  <1>3. SavedOnce
    BY <1>0 DEF SavedOnce, ResultHasText, Saving, Scaled
  <1>4. CardRefs /\ SmallRefs
    BY <1>h DEF CardRefs, SmallRefs, Loading, Scaled
  <1>5. FieldOrg /\ Faults
    BY <1>h DEF FieldOrg, Faults, Wrappers
  <1> QED
    BY <1>1, <1>2, <1>3, <1>4, <1>5 DEF IInv

LEMMA StillIInv == ASSUME IInv, UNCHANGED vars PROVE IInv'
  <1> USE DEF vars, jobVars, actVars, pixVars
  <1>1. Types'
    BY DEF IInv, Types
  <1>2. DestroyedOnce' /\ LoadedFirst'
    BY DEF IInv, DestroyedOnce, LoadedFirst
  <1>3. EndIsLast' /\ SavedOnce'
    BY DEF IInv, EndIsLast, SavedOnce, ResultHasText, Live, Told
  <1>4. CardRefs' /\ SmallRefs'
    BY DEF IInv, CardRefs, SmallRefs, Live, Handed
  <1>5. FieldOrg' /\ Faults'
    BY DEF IInv, FieldOrg, Faults, Handed
  <1> QED
    BY <1>1, <1>2, <1>3, <1>4, <1>5 DEF IInv

LEMMA NextIInv == IInv /\ [Next]_vars => IInv'
  <1> SUFFICES ASSUME IInv, [Next]_vars PROVE IInv'
    OBVIOUS
  <1>1. CASE Back \/ CropBack \/ ClickCancel \/ ClickStart \/ Worker \/ OrderDestroy
    BY <1>1, BackIInv, CropBackIInv, ClickCancelIInv, ClickStartIInv, JobWorksIInv, WorkerDiesIInv,
       OrderDestroyIInv DEF Worker
  <1>2. CASE Task
    BY <1>2, WrapCardIInv, CallCopyIInv, CopyCardIInv, CloneOrgIInv, CheckOrgIInv,
       RecycleOrgIInv, ScaleOrgIInv, CallSaveIInv, WriteOrgIInv DEF Task
  <1>3. CASE Main
    BY <1>3, HandleLoadedIInv, HandleQuietIInv, HandleTextIInv, HandleErrorIInv, HandleEndIInv,
       HandleSavedIInv, OpenResultIInv, BeginDestroyIInv, CancelFirstIInv, DestroyCheckIInv,
       DestroyRecycleIInv, DestroyNullIInv, DestroyEndsIInv DEF Main
  <1>4. CASE Rest \/ UNCHANGED vars
    BY <1>4, StillIInv DEF Rest
  <1> QED
    BY <1>1, <1>2, <1>3, <1>4 DEF Next

\* The inductive invariant holds, however many references were leaked.
THEOREM Invariance == Spec => []IInv
  BY InitIInv, NextIInv, PTL DEF Spec

\* However the job's messages, the death of its worker and the two tasks interleave with
\* the destruction of the screen: one result screen at most, and without a text only
\* after an error was shown or in a process that the worker's exception is ending.
THEOREM ResultScreenOpensOnce == Spec => []ResultHasText
  <1>1. IInv => ResultHasText
    BY DEF IInv, SavedOnce
  <1> QED
    BY <1>1, Invariance, PTL

\* However many references were leaked: the worker reads a card that is there, unless
\* the one leaked reference was all that the crop screen left of it and onDestroy has
\* recycled this screen's wrapper.
THEOREM LeakKeepsCard == Spec => []BookReadsLiveCard
  <1>1. IInv => BookReadsLiveCard
    BY CardInBook DEF BookReadsLiveCard
  <1> QED
    BY <1>1, Invariance, PTL

\* A destroyed screen has given back the reference it was handed, and one that is not
\* there only when both owners recycle the last one.
THEOREM CardIsGivenBack == Spec => []GivesCardBack
  <1>1. ASSUME IInv PROVE GivesCardBack
    <2>h. Handed \in Nat \ {0}
      BY <1>1, LeakedAssumption DEF IInv, Handed, Types
    <2>1. refs["card"] < 0 => Handed = 1 /\ fault \in {"use_after_free", "double_free"}
      BY <1>1 DEF IInv, Faults
    <2>2. ASSUME screen = "destroyed", org = "null", tpc \in {"loaded", "saved"}
          PROVE  refs["card"] < Handed
      BY <1>1, <2>2, <2>h DEF IInv, CardRefs, FieldOrg, Loading, Scaled
    <2> QED
      BY <2>1, <2>2 DEF GivesCardBack
  <1> QED
    BY <1>1, Invariance, PTL

\* Only a screen that is being left meets a pix that is gone. A pix is freed under its
\* reader when it is the small image being written, or the card that the crop screen's
\* Back left with one reference, which is also the only one that is freed twice.
THEOREM EveryFaultHasReason == Spec => []FaultHasReason
  <1>1. ASSUME IInv PROVE FaultHasReason
    <2>h. Handed \in Nat \ {0} /\ Handed <= Leaked + 1 /\ Leaked \in Nat
      BY <1>1, LeakedAssumption DEF IInv, Handed, Types
    <2>1. refs["small"] \in {0, 1} /\ refs["card"] \in -1..(Leaked + 2)
      BY <1>1, <2>h DEF IInv, SmallRefs, CardRefs
    <2>2. refs \in [Wrappers -> -1..(Leaked + 2)]
      BY <1>1, <2>1, <2>h DEF IInv, Types, Wrappers
    <2>3. TypeOK
      BY <1>1, <2>2 DEF IInv, Types, TypeOK, Queued
    <2> QED
      BY <1>1, <2>3 DEF IInv, Faults, FaultHasReason, Scaled
  <1> QED
    BY <1>1, Invariance, PTL
=============================================================================
