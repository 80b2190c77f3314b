---------------------------- MODULE HomeScreen_proof ----------------------------
(***************************************************************************)
(* The inductive invariant of HomeScreen, for any number of photos and of  *)
(* deaths of the process, and what follows from it: each photo is cropped  *)
(* once and in order, a photo is lost for a reason only, and the data is   *)
(* there before the first crop.                                            *)
(***************************************************************************)
EXTENDS HomeScreen, SequenceTheorems, WellFoundedInduction, TLAPS

-----------------------------------------------------------------------------
(* The inductive invariant, one named part per idea.                       *)

\* The loads that wait, run, or whose end is posted.
Posted(i) == queue[i].what = "POST"
Running == tpc = "load"
Flying(l) ==
    \/ \E i \in 1..Len(executor) : executor[i] = l
    \/ Running /\ task = l
    \/ \E i \in 1..Len(queue) : Posted(i) /\ queue[i].load = l

\* Who is in the camera or the gallery has asked for a photo.
AskedFor == (\E i \in 1..Len(stack) : stack[i].what # "crop") => picks >= 1

\* A load waits, runs or is posted: one of them, and once.
OnePlace ==
    /\ \A i, j \in 1..Len(executor) : executor[i] = executor[j] /\ executor[i] # 0 => i = j
    /\ \A i, j \in 1..Len(queue) :
          Posted(i) /\ Posted(j) /\ queue[i].load = queue[j].load => i = j
    /\ \A i \in 1..Len(queue), j \in 1..Len(executor) : Posted(i) => queue[i].load # executor[j]
    /\ Running => /\ task # 0
                  /\ \A j \in 1..Len(executor) : executor[j] # task
                  /\ \A i \in 1..Len(queue) : Posted(i) => queue[i].load # task

\* Of the loads on their way only the latest is not cancelled.
OthersCancelled == \A l \in 1..Len(loads) : Flying(l) => loads[l].cancelled \/ l = loader

\* The broadcasts that are pending have their message in the queue, and no load ends
\* before it that is still wanted.
Announced ==
    casts # <<>> =>
        \E i \in 1..Len(queue) :
            /\ queue[i].what = "BROADCASTS"
            /\ \A j \in 1..(i - 1) : Posted(j) => loads[queue[j].load].cancelled

\* One loaded photo is on its way at most, and it is later than all that were cropped.
\* The load that is not through yet is later still.
Ascending ==
    /\ \A i, j \in 1..Len(opened) : i < j => opened[i] < opened[j]
    /\ \A i, j \in 1..Len(casts) : casts[i].what = "LOADED" /\ casts[j].what = "LOADED" => i = j
    /\ \A i \in 1..Len(casts) :
          casts[i].what = "LOADED" =>
              /\ \A j \in 1..Len(opened) : opened[j] < casts[i].load
              /\ loader # 0 /\ Flying(loader) => casts[i].load < loader
    /\ loader # 0 /\ Flying(loader) => \A j \in 1..Len(opened) : opened[j] < loader

\* The receiver is there for the load that is not through, unless the broadcast of an
\* earlier one was on its way when it began.
Heard ==
    /\ loader # 0 /\ Flying(loader) /\ (registered = 0 \/ LoadedOnItsWay) => loader \in overtaken
    /\ LostHasReason

\* Before the data is there, or has failed, the executor comes to it before any load.
DataReady == eng = "whole" \/ trouble
CheckedFirst ==
    /\ ~trouble => (eng = "partial" <=> tpc = "copy")
    /\ ~DataReady =>
          /\ ~Running /\ opened = <<>>
          /\ \A i \in 1..Len(queue) : ~Posted(i)
          /\ \A i \in 1..Len(casts) : casts[i].what # "LOADED"
          /\ tpc = "idle" /\ executor # <<>> => executor[1] = 0
          /\ tpc = "idle" /\ executor = <<>> => queue # <<>> /\ queue[1].what = "RESUME"

IInv ==
    /\ TypeOK /\ AskedFor /\ OnePlace /\ OthersCancelled /\ Announced /\ Ascending
    /\ Heard /\ CheckedFirst

-----------------------------------------------------------------------------
(* The one crop screen that a round of broadcasts starts.                  *)

\* A set of natural numbers has a least element.
LEMMA Least ==
    ASSUME NEW T, T \subseteq Nat, T # {}
    PROVE  \E m \in T : \A n \in T : m <= n
  <1>1. PICK m \in T : \A n \in T : <<n, m>> \notin OpToRel(<, Nat)
    BY NatLessThanWellFounded, WFMin
  <1>2. \A n \in T : ~(n < m)
    BY <1>1 DEF OpToRel
  <1> QED
    BY <1>2

\* Flattening sequences of which at most one is not empty gives that one.
LEMMA FlattenOne ==
    ASSUME NEW n \in Nat, n > 0, NEW s, DOMAIN s = 1..n, Len(s) = n, NEW k \in 1..n, NEW v,
           \A i \in 1..n : s[i] = IF i = k THEN v ELSE <<>>,
           <<>> \o v = v, v \o <<>> = v
    PROVE  FlattenSeq(s) = v
  <1> DEFINE Flat(f) == f = [i \in 1..n |-> IF i = 1 THEN s[i] ELSE f[i - 1] \o s[i]]
             g == [i \in 1..n |-> IF k <= i THEN v ELSE <<>>]
  <1>1. <<>> \o <<>> = <<>>
    OBVIOUS
  <1>2. Flat(g)
    <2>1. ASSUME NEW i \in 1..n PROVE g[i] = IF i = 1 THEN s[i] ELSE g[i - 1] \o s[i]
      <3>1. CASE i = 1
        BY <3>1
      <3>2. CASE i # 1
        <4>1. i - 1 \in 1..n /\ g[i - 1] = (IF k <= i - 1 THEN v ELSE <<>>)
          BY <3>2
        <4>2. CASE k <= i - 1
          <5>1. g[i] = v /\ g[i - 1] = v /\ s[i] = <<>>
            BY <3>2, <4>1, <4>2
          <5> QED
            BY <5>1, <3>2
        <4>3. CASE k = i
          <5>1. g[i] = v /\ g[i - 1] = <<>> /\ s[i] = v
            BY <3>2, <4>1, <4>3
          <5> QED
            BY <5>1, <3>2
        <4>4. CASE k > i
          BY <3>2, <4>1, <4>4, <1>1
        <4> QED
          BY <4>2, <4>3, <4>4
      <3> QED
        BY <3>1, <3>2
    <2> QED
      BY <2>1
  <1>3. PICK f : Flat(f) /\ FlattenSeq(s) = f[n]
    <2> DEFINE c == CHOOSE f : Flat(f)
    <2>1. Flat(c)
      BY <1>2
    <2>2. FlattenSeq(s) = c[n]
      BY DEF FlattenSeq
    <2> QED
      BY <2>1, <2>2
  <1>4. \A i \in 1..n : f[i] = IF i = 1 THEN s[i] ELSE f[i - 1] \o s[i]
    BY <1>3
  <1>5. \A i \in 1..n : f[i] = g[i]
    <2> DEFINE T == {i \in 1..n : f[i] # g[i]}
    <2> SUFFICES ASSUME T # {} PROVE FALSE
      OBVIOUS
    <2>1. T \subseteq Nat
      OBVIOUS
    <2> HIDE DEF T
    <2>2. PICK i \in T : \A j \in T : i <= j
      BY <2>1, Least
    <2>3. /\ i \in 1..n /\ f[i] # g[i] /\ g[i] = IF i = 1 THEN s[i] ELSE g[i - 1] \o s[i]
      BY <2>2, <1>2 DEF T
    <2>4. i # 1 => f[i - 1] = g[i - 1]
      BY <2>2, <2>3 DEF T
    <2> QED
      BY <2>3, <2>4, <1>4
  <1>6. g[n] = v /\ n \in 1..n
    OBVIOUS
  <1> QED
    BY <1>3, <1>5, <1>6

-----------------------------------------------------------------------------
(* Types.                                                                  *)

UserTypes ==
    /\ home \in {"shown", "left"} /\ stack \in Seq(Screens)
    /\ picks \in 0..MaxPicks /\ given \subseteq 1..picks /\ fileUri \in 0..picks
DataTypes == eng \in {"absent", "partial", "whole"} /\ dialog \in BOOLEAN /\ trouble \in BOOLEAN
Load == [uri : 1..picks, cancelled : BOOLEAN]
LoadTypes == loads \in Seq(Load) /\ loader \in 0..Len(loads)
MainTypes == registered \in 0..1 /\ queue \in Seq(Messages) /\ casts \in Seq(Casts)
TaskTypes ==
    /\ executor \in Seq(0..Len(loads)) /\ task \in 0..Len(loads)
    /\ tpc \in {"idle", "check", "copy", "load"}
BookTypes ==
    /\ opened \in Seq(1..Len(loads)) /\ lost \subseteq 1..Len(loads)
    /\ overtaken \subseteq 1..Len(loads)
    /\ deaths \in 0..MaxDeaths /\ fault \in {"none", "foreign_pointer", "bad_token"}

\* The type invariant, by the places where the state is kept.
LEMMA TypeParts ==
    TypeOK <=> UserTypes /\ DataTypes /\ LoadTypes /\ MainTypes /\ TaskTypes /\ BookTypes
  BY DEF TypeOK, UserTypes, DataTypes, Load, LoadTypes, MainTypes, TaskTypes, BookTypes

\* What the messages and the broadcasts carry.
LEMMA MessageFacts ==
    ASSUME TypeOK
    PROVE  /\ Len(loads) \in Nat /\ Len(queue) \in Nat /\ Len(casts) \in Nat
           /\ Len(executor) \in Nat /\ Len(opened) \in Nat
           /\ \A i \in 1..Len(queue) :
                 /\ queue[i] \in Messages
                 /\ queue[i].what \in {"RESUME", "BROADCASTS", "RETURN", "POST"}
                 /\ queue[i].what = "RETURN" => queue[i].answer \in Answers
                 /\ Posted(i) => queue[i].load \in 1..Len(loads) /\ queue[i].got \in BOOLEAN
           /\ \A i \in 1..Len(casts) :
                 /\ casts[i].what \in {"START", "LOADED"}
                 /\ casts[i].what = "LOADED" =>
                       /\ casts[i].load \in 1..Len(loads) /\ casts[i].got \in BOOLEAN
                       /\ casts[i].heard = 1
           /\ \A i \in 1..Len(executor) : executor[i] \in 0..Len(loads)
           /\ \A i \in 1..Len(opened) : opened[i] \in 1..Len(loads)
           /\ \A l \in 1..Len(loads) : loads[l].cancelled \in BOOLEAN /\ loads[l].uri \in 1..picks
  <1>1. \A i \in 1..Len(queue) : queue[i] \in Messages
    BY TypeParts DEF MainTypes
  <1>2. \A i \in 1..Len(casts) : casts[i] \in Casts
    BY TypeParts DEF MainTypes
  <1>3. /\ Len(loads) \in Nat /\ Len(queue) \in Nat /\ Len(casts) \in Nat
        /\ Len(executor) \in Nat /\ Len(opened) \in Nat
    BY TypeParts DEF MainTypes, LoadTypes, TaskTypes, BookTypes
  <1>4. /\ \A i \in 1..Len(executor) : executor[i] \in 0..Len(loads)
        /\ \A i \in 1..Len(opened) : opened[i] \in 1..Len(loads)
    BY TypeParts DEF TaskTypes, BookTypes
  <1>5. \A l \in 1..Len(loads) : loads[l] \in Load
    BY TypeParts DEF LoadTypes
  <1>6. ASSUME NEW m \in Messages
        PROVE  /\ m.what \in {"RESUME", "BROADCASTS", "RETURN", "POST"}
               /\ m.what = "RETURN" => m.answer \in Answers
               /\ m.what = "POST" => m.load \in 1..Len(loads) /\ m.got \in BOOLEAN
    BY DEF Messages
  <1>7. ASSUME NEW c \in Casts
        PROVE  /\ c.what \in {"START", "LOADED"}
               /\ c.what = "LOADED" => c.load \in 1..Len(loads) /\ c.got \in BOOLEAN /\ c.heard = 1
    BY DEF Casts
  <1> QED
    BY <1>1, <1>2, <1>3, <1>4, <1>5, <1>6, <1>7 DEF Posted, Load

-----------------------------------------------------------------------------
(* Steps that only append to the queue what the loads do not care about.   *)

Flights == OnePlace /\ OthersCancelled /\ Announced /\ Ascending /\ Heard /\ CheckedFirst
flightVars == <<executor, tpc, task, loads, loader, opened, casts, registered, overtaken, lost,
                trouble, eng>>

\* The user's steps do not touch the loads; an answer or a return to the screen is a
\* message behind the others.
LEMMA QuietStep ==
    ASSUME IInv, UNCHANGED flightVars, NEW m, m.what \in {"RESUME", "RETURN"},
           queue' = queue \/ queue' = Append(queue, m)
    PROVE  Flights'
  <1>1. /\ Len(queue) \in Nat /\ Len(queue') \in Nat /\ Len(queue') >= Len(queue)
        /\ \A i \in 1..Len(queue) : queue'[i] = queue[i]
        /\ \A i \in 1..Len(queue') : i \in 1..Len(queue) \/ queue'[i] = m
        /\ queue # <<>> => queue' # <<>> /\ 1 \in 1..Len(queue)
    <2>1. queue \in Seq(Messages)
      BY TypeParts DEF IInv, MainTypes
    <2>2. CASE queue' = queue
      BY <2>1, <2>2
    <2>3. CASE queue' = Append(queue, m)
      <3>1. PICK S : S = Messages \cup {m}
        OBVIOUS
      <3>2. queue \in Seq(S) /\ m \in S
        BY <2>1, <3>1, SeqMonotonic
      <3> QED
        BY <2>3, <3>2, AppendProperties
    <2> QED
      BY <2>2, <2>3
  <1>2. /\ UNCHANGED <<executor, tpc, task, loads, loader, opened, casts, registered, overtaken,
                       lost, trouble, eng>>
        /\ \A i \in 1..Len(queue') : Posted(i)' => i \in 1..Len(queue) /\ Posted(i)
    BY <1>1 DEF flightVars, Posted
  <1>3. /\ \A l : Flying(l)' => Flying(l)
        /\ Running' = Running
    BY <1>1, <1>2 DEF Flying, Running
  <1>4. OnePlace'
    BY <1>1, <1>2, <1>3, SMTT(30) DEF IInv, OnePlace
  <1>5. OthersCancelled'
    BY <1>2, <1>3 DEF IInv, OthersCancelled
  <1>6. Announced'
    BY <1>1, <1>2 DEF IInv, Announced, Posted
  <1>7. Ascending'
    BY <1>2, <1>3 DEF IInv, Ascending
  <1>8. Heard'
    BY <1>2, <1>3 DEF IInv, Heard, LoadedOnItsWay, LostHasReason
  <1>9. CheckedFirst'
    BY <1>1, <1>2, <1>3 DEF IInv, CheckedFirst, DataReady
  <1> QED
    BY <1>4, <1>5, <1>6, <1>7, <1>8, <1>9 DEF Flights

-----------------------------------------------------------------------------
(* The user's actions.                                                     *)

\* A message that the user's steps append is one of the messages, and loads do not matter.
LEMMA UserTypesKept ==
    ASSUME TypeOK, UNCHANGED flightVars, NEW m \in Messages,
           queue' = queue \/ queue' = Append(queue, m),
           stack' \in Seq(Screens), picks' \in picks..MaxPicks, given' \subseteq 1..picks',
           fileUri' \in 0..picks', home' \in {"shown", "left"}, dialog' \in BOOLEAN,
           deaths' = deaths, fault' \in {"none", "foreign_pointer", "bad_token"}
    PROVE  TypeOK'
  <1> USE DEF flightVars
  <1>1. picks \in 0..MaxPicks /\ picks' \in 0..MaxPicks
    BY TypeParts, BoundsAssumption DEF UserTypes
  <1>2. UserTypes' /\ DataTypes'
    BY <1>1, TypeParts DEF UserTypes, DataTypes
  <1>3. LoadTypes'
    <2>1. Load \subseteq Load'
      BY <1>1 DEF Load
    <2>2. loads \in Seq(Load)
      BY TypeParts DEF LoadTypes
    <2>3. loads \in Seq(Load')
      BY <2>1, <2>2, SeqMonotonic
    <2> QED
      BY <2>3, TypeParts DEF LoadTypes
  <1>4. MainTypes'
    BY TypeParts, SMTT(30) DEF MainTypes, Messages, Casts
  <1>5. TaskTypes' /\ BookTypes'
    BY TypeParts DEF TaskTypes, BookTypes
  <1>6. TypeOK' <=> UserTypes' /\ DataTypes' /\ LoadTypes' /\ MainTypes' /\ TaskTypes' /\ BookTypes'
    BY DEF TypeOK, UserTypes, DataTypes, Load, LoadTypes, MainTypes, TaskTypes, BookTypes
  <1> QED
    BY <1>2, <1>3, <1>4, <1>5, <1>6

\* Opening the camera or the gallery.
LEMMA OpenIInv == ASSUME IInv, OpenCamera \/ OpenGallery PROVE IInv'
  <1> DEFINE m == [what |-> "RESUME"]
  <1>1. m \in Messages /\ m.what \in {"RESUME", "RETURN"}
    BY DEF Messages
  <1> HIDE DEF m
  <1>2. /\ UNCHANGED <<flightVars, queue, home, given, dialog, deaths, fault>>
        /\ picks < MaxPicks /\ picks' = picks + 1 /\ fileUri' \in {fileUri, picks + 1}
        /\ stack' \in {<<[what |-> "camera", born |-> 0]>>, <<[what |-> "gallery", born |-> 0]>>}
    BY DEF OpenCamera, OpenGallery, flightVars, workVars, bookVars, viewVars
  <1>3. picks \in Nat /\ picks' \in picks..MaxPicks /\ picks' \in Nat /\ picks' >= 1
    BY <1>2, TypeParts, BoundsAssumption DEF IInv, UserTypes
  <1>4. stack' \in Seq(Screens)
    <2>1. PICK w \in {"camera", "gallery"} : stack' = <<[what |-> w, born |-> 0]>>
      BY <1>2
    <2>2. [what |-> w, born |-> 0] \in Screens
      BY DEF Screens
    <2> QED
      BY <2>1, <2>2
  <1>5. TypeOK'
    BY <1>1, <1>2, <1>3, <1>4, UserTypesKept, TypeParts, SMTT(30) DEF IInv, UserTypes, DataTypes, BookTypes
  <1>6. AskedFor'
    BY <1>3 DEF AskedFor
  <1>7. Flights'
    BY <1>1, <1>2, QuietStep
  <1> QED
    BY <1>5, <1>6, <1>7 DEF IInv, Flights

\* The screen on top goes.
LEMMA FrontFacts ==
    ASSUME TypeOK, stack # <<>>, stack' = Front(stack)
    PROVE  /\ stack' \in Seq(Screens) /\ Len(stack) \in 1..Len(stack)
           /\ \A i \in 1..Len(stack') : i \in 1..Len(stack) /\ stack'[i] = stack[i]
  <1>1. stack \in Seq(Screens) /\ Len(stack) \in Nat /\ Len(stack) > 0
    BY TypeParts DEF UserTypes
  <1> QED
    BY <1>1 DEF Front

\* The camera and the gallery answer, with a photo or without.
LEMMA AnswerIInv == ASSUME IInv, Answer PROVE IInv'
  <1>1. PICK answer \in Answers :
           /\ Over("camera") \/ Over("gallery")
           /\ given' = IF answer \in {"photo", "image"} THEN given \cup {picks} ELSE given
           /\ queue' = Append(queue, [what |-> "RETURN", answer |-> answer])
    <2>1. PICK answer \in Answers :
             /\ Over(IF answer = "photo" THEN "camera" ELSE "gallery") \/ (Over("camera") /\ answer = "no")
             /\ given' = IF answer \in {"photo", "image"} THEN given \cup {picks} ELSE given
             /\ queue' = Append(queue, [what |-> "RETURN", answer |-> answer])
      BY DEF Answer
    <2>2. Over("camera") \/ Over("gallery")
      BY <2>1
    <2> QED
      BY <2>1, <2>2
  <1> DEFINE m == [what |-> "RETURN", answer |-> answer]
  <1>2. m \in Messages /\ m.what \in {"RESUME", "RETURN"}
    BY DEF Messages
  <1>3. queue' = Append(queue, m)
    BY <1>1
  <1> HIDE DEF m
  <1>4. /\ UNCHANGED <<flightVars, home, picks, fileUri, dialog, deaths, fault>>
        /\ stack' = Front(stack) /\ stack # <<>>
    BY <1>1 DEF Answer, Over, flightVars, workVars, bookVars, viewVars
  <1>5. /\ stack' \in Seq(Screens) /\ Len(stack) \in 1..Len(stack)
        /\ \A i \in 1..Len(stack') : i \in 1..Len(stack) /\ stack'[i] = stack[i]
    BY <1>4, FrontFacts DEF IInv
  <1>6. picks \in 1..MaxPicks
    <2>1. stack[Len(stack)].what # "crop"
      BY <1>1 DEF Over, Last
    <2> QED
      BY <1>5, <2>1, TypeParts, BoundsAssumption DEF IInv, AskedFor, UserTypes
  <1>7. given' \subseteq 1..picks
    BY <1>1, <1>6, TypeParts DEF IInv, UserTypes
  <1>8. TypeOK'
    <2>1. /\ picks' \in picks..MaxPicks /\ given' \subseteq 1..picks' /\ fileUri' \in 0..picks'
          /\ home' \in {"shown", "left"} /\ dialog' \in BOOLEAN /\ deaths' = deaths
          /\ fault' \in {"none", "foreign_pointer", "bad_token"}
      BY <1>4, <1>6, <1>7, TypeParts DEF IInv, UserTypes, DataTypes, BookTypes
    <2> QED
      BY <1>2, <1>3, <1>4, <1>5, <2>1, UserTypesKept DEF IInv
  <1>9. AskedFor'
    BY <1>4, <1>6 DEF AskedFor
  <1>10. Flights'
    BY <1>2, <1>3, <1>4, QuietStep
  <1> QED
    BY <1>8, <1>9, <1>10 DEF IInv, Flights

\* Leaving a crop screen.
LEMMA LeaveCropIInv == ASSUME IInv, LeaveCrop PROVE IInv'
  <1> DEFINE m == [what |-> "RESUME"]
  <1>1. m \in Messages /\ m.what \in {"RESUME", "RETURN"}
    BY DEF Messages
  <1>2. /\ UNCHANGED <<flightVars, home, picks, given, fileUri, dialog, deaths, fault>>
        /\ stack' = Front(stack) /\ stack # <<>>
        /\ queue' = queue \/ queue' = Append(queue, m)
    BY DEF LeaveCrop, Over, flightVars, workVars, bookVars, viewVars
  <1> HIDE DEF m
  <1>3. /\ stack' \in Seq(Screens)
        /\ \A i \in 1..Len(stack') : i \in 1..Len(stack) /\ stack'[i] = stack[i]
    BY <1>2, FrontFacts DEF IInv
  <1>4. picks \in picks..MaxPicks
    BY TypeParts, BoundsAssumption DEF IInv, UserTypes
  <1>5. TypeOK'
    BY <1>1, <1>2, <1>3, <1>4, UserTypesKept, TypeParts DEF IInv, UserTypes, DataTypes, BookTypes
  <1>6. AskedFor'
    BY <1>2, <1>3 DEF IInv, AskedFor
  <1>7. Flights'
    BY <1>1, <1>2, QuietStep
  <1> QED
    BY <1>5, <1>6, <1>7 DEF IInv, Flights

\* What touches neither the queue nor the stack.
LEMMA StillIInv ==
    ASSUME IInv, RestoreCrop \/ DismissDialog \/ Leave \/ UNCHANGED vars
    PROVE  IInv'
  <1> DEFINE m == [what |-> "RESUME"]
  <1>1. m \in Messages /\ m.what \in {"RESUME", "RETURN"}
    BY DEF Messages
  <1> HIDE DEF m
  <1>2. /\ UNCHANGED <<flightVars, queue, stack, picks, given, fileUri, deaths>>
        /\ fault' \in {fault, "foreign_pointer"} /\ home' \in {home, "left"}
        /\ dialog' \in {dialog, FALSE}
    BY DEF RestoreCrop, DismissDialog, Leave, flightVars, taskVars, workVars, bookVars, viewVars, vars
  <1>3. picks \in picks..MaxPicks
    BY TypeParts, BoundsAssumption DEF IInv, UserTypes
  <1>4. TypeOK'
    BY <1>1, <1>2, <1>3, UserTypesKept, TypeParts DEF IInv, UserTypes, DataTypes, BookTypes
  <1>5. AskedFor'
    BY <1>2 DEF IInv, AskedFor
  <1>6. Flights'
    BY <1>1, <1>2, QuietStep
  <1> QED
    BY <1>4, <1>5, <1>6 DEF IInv, Flights

-----------------------------------------------------------------------------
(* The main thread's handlers.                                             *)

\* The first message is taken; the others move up.
LEMMA TailFacts ==
    ASSUME TypeOK, queue # <<>>
    PROVE  /\ Tail(queue) \in Seq(Messages) /\ Len(queue) \in Nat /\ Len(queue) >= 1
           /\ Len(Tail(queue)) = Len(queue) - 1 /\ Head(queue) = queue[1]
           /\ \A i \in 1..Len(Tail(queue)) : Tail(queue)[i] = queue[i + 1] /\ i + 1 \in 1..Len(queue)
  BY TypeParts DEF MainTypes

\* The announcement of a broadcast goes behind the messages that are there.
LEMMA SendFacts ==
    ASSUME TypeOK, queue # <<>>, NEW cast, SendBroadcast(cast)
    PROVE  /\ Len(casts') = Len(casts) + 1 /\ casts'[Len(casts) + 1] = cast
           /\ \A i \in 1..Len(casts) : casts'[i] = casts[i]
           /\ \A S : casts \in Seq(S) /\ cast \in S => casts' \in Seq(S)
           /\ \A S : Messages \subseteq S => queue' \in Seq(S)
           /\ Len(queue') \in Nat
           /\ casts # <<>> => Len(queue') = Len(queue) - 1
           /\ casts = <<>> => Len(queue') = Len(queue) /\ queue'[Len(queue)].what = "BROADCASTS"
           /\ \A i \in 1..(Len(queue) - 1) : queue'[i] = queue[i + 1] /\ i + 1 \in 1..Len(queue)
           /\ \A i \in 1..Len(queue') : i \in 1..(Len(queue) - 1) \/ queue'[i].what = "BROADCASTS"
  <1> DEFINE b == [what |-> "BROADCASTS"]
  <1>1. b \in Messages /\ b.what = "BROADCASTS"
    BY DEF Messages
  <1>2. /\ casts' = Append(casts, cast)
        /\ queue' = IF casts = <<>> THEN Append(Tail(queue), b) ELSE Tail(queue)
    BY DEF SendBroadcast
  <1> HIDE DEF b
  <1>3. casts \in Seq(Casts)
    BY TypeParts DEF MainTypes
  <1>4. /\ Len(casts') = Len(casts) + 1 /\ casts'[Len(casts) + 1] = cast
        /\ \A i \in 1..Len(casts) : casts'[i] = casts[i]
    <2>1. PICK S : S = Casts \cup {cast}
      OBVIOUS
    <2>2. casts \in Seq(S) /\ cast \in S
      BY <1>3, <2>1, SeqMonotonic
    <2> QED
      BY <1>2, <2>2, AppendProperties
  <1>5. ASSUME NEW S, casts \in Seq(S), cast \in S PROVE casts' \in Seq(S)
    BY <1>2, <1>5, AppendProperties
  <1>6. PICK t : t = Tail(queue)
    OBVIOUS
  <1>7. /\ t \in Seq(Messages) /\ Len(queue) \in Nat /\ Len(queue) >= 1 /\ Len(t) = Len(queue) - 1
        /\ \A i \in 1..Len(t) : t[i] = queue[i + 1] /\ i + 1 \in 1..Len(queue)
    BY <1>6, TailFacts
  <1>8. /\ Append(t, b) \in Seq(Messages) /\ Len(Append(t, b)) = Len(queue)
        /\ Append(t, b)[Len(queue)] = b
        /\ \A i \in 1..Len(t) : Append(t, b)[i] = t[i]
    BY <1>1, <1>7, AppendProperties
  <1>9. queue' \in Seq(Messages)
    BY <1>2, <1>6, <1>7, <1>8
  <1>10. ASSUME NEW S, Messages \subseteq S PROVE queue' \in Seq(S)
    BY <1>9, <1>10, SeqMonotonic
  <1>11. CASE casts = <<>>
    <2>1. queue' = Append(t, b)
      BY <1>2, <1>6, <1>11
    <2> QED
      BY <1>1, <1>4, <1>5, <1>7, <1>8, <1>10, <1>11, <2>1
  <1>12. CASE casts # <<>>
    <2>1. queue' = t
      BY <1>2, <1>6, <1>12
    <2> QED
      BY <1>4, <1>5, <1>7, <1>10, <1>12, <2>1
  <1> QED
    BY <1>11, <1>12

\* A handler takes the first message, and at most an announcement is new: what is posted
\* was posted, and is unique if it was.
LEMMA Popped ==
    ASSUME NEW q, NEW t, Len(q) \in Nat, Len(t) \in Nat, Len(t) >= Len(q) - 1,
           \A i \in 1..(Len(q) - 1) : t[i] = q[i + 1] /\ i + 1 \in 1..Len(q),
           \A i \in 1..Len(t) : i \in 1..(Len(q) - 1) \/ t[i].what = "BROADCASTS"
    PROVE  /\ \A i \in 1..Len(t) :
                 t[i].what = "POST" => i + 1 \in 1..Len(q) /\ t[i] = q[i + 1]
           /\ (\A i, j \in 1..Len(q) :
                  q[i].what = "POST" /\ q[j].what = "POST" /\ q[i].load = q[j].load => i = j)
              => \A i, j \in 1..Len(t) :
                    t[i].what = "POST" /\ t[j].what = "POST" /\ t[i].load = t[j].load => i = j
  <1>1. ASSUME NEW i \in 1..Len(t), t[i].what = "POST"
        PROVE  i + 1 \in 1..Len(q) /\ t[i] = q[i + 1]
    BY <1>1
  <1>2. ASSUME \A i, j \in 1..Len(q) :
                  q[i].what = "POST" /\ q[j].what = "POST" /\ q[i].load = q[j].load => i = j,
               NEW i \in 1..Len(t), NEW j \in 1..Len(t),
               t[i].what = "POST", t[j].what = "POST", t[i].load = t[j].load
        PROVE  i = j
    <2>1. i + 1 = j + 1
      BY <1>1, <1>2
    <2> QED
      BY <2>1
  <1> QED
    BY <1>1, <1>2

\* What the handlers but for the broadcasts leave in the queue.
Pops ==
    /\ Len(queue) \in Nat /\ Len(queue) >= 1 /\ Len(queue') \in Nat /\ Len(queue') >= Len(queue) - 1
    /\ \A i \in 1..(Len(queue) - 1) : queue'[i] = queue[i + 1] /\ i + 1 \in 1..Len(queue)
    /\ \A i \in 1..Len(queue') : i \in 1..(Len(queue) - 1) \/ queue'[i].what = "BROADCASTS"

LEMMA PopsPosted ==
    ASSUME IInv, Pops
    PROVE  /\ \A i, j \in 1..Len(queue') :
                 Posted(i)' /\ Posted(j)' /\ queue'[i].load = queue'[j].load => i = j
           /\ \A i \in 1..Len(queue') :
                 Posted(i)' =>
                     /\ queue'[i].load \in 1..Len(loads)
                     /\ Flying(queue'[i].load)
                     /\ \A j \in 1..Len(executor) : queue'[i].load # executor[j]
                     /\ Running => queue'[i].load # task
                     /\ Posted(1) => queue'[i].load # queue[1].load
  <1>1. \A i \in 1..Len(queue') : Posted(i)' => i + 1 \in 1..Len(queue) /\ queue'[i] = queue[i + 1]
    BY Popped DEF Posted, Pops
  <1>2. \A i, j \in 1..Len(queue') :
           Posted(i)' /\ Posted(j)' /\ queue'[i].load = queue'[j].load => i = j
    BY Popped DEF IInv, OnePlace, Posted, Pops
  <1>3. ASSUME NEW i \in 1..Len(queue'), Posted(i)'
        PROVE  /\ queue'[i].load \in 1..Len(loads)
               /\ Flying(queue'[i].load)
               /\ \A j \in 1..Len(executor) : queue'[i].load # executor[j]
               /\ Running => queue'[i].load # task
               /\ Posted(1) => queue'[i].load # queue[1].load
    <2>1. PICK k : k = i + 1
      OBVIOUS
    <2>2. k \in 1..Len(queue) /\ queue[k] = queue'[i] /\ Posted(k) /\ k # 1 /\ 1 \in 1..Len(queue)
      BY <1>1, <1>3, <2>1 DEF Posted, Pops
    <2>3. queue[k].load \in 1..Len(loads) /\ Flying(queue[k].load)
      BY <2>2, MessageFacts DEF IInv, Flying
    <2> QED
      BY <2>2, <2>3 DEF IInv, OnePlace
  <1> QED
    BY <1>2, <1>3

LEMMA PopsAnnounced ==
    ASSUME IInv, Pops, casts # <<>>, queue[1].what # "BROADCASTS",
           \A l \in 1..Len(loads) : loads[l].cancelled => loads'[l].cancelled
    PROVE  Announced'
  <1>1. PICK i \in 1..Len(queue) :
            /\ queue[i].what = "BROADCASTS"
            /\ \A j \in 1..(i - 1) : Posted(j) => loads[queue[j].load].cancelled
    BY DEF IInv, Announced
  <1>2. PICK k : k = i - 1
    OBVIOUS
  <1>3. k \in 1..Len(queue') /\ k \in 1..(Len(queue) - 1) /\ queue'[k].what = "BROADCASTS"
    <2>1. i # 1
      BY <1>1
    <2>2. k \in 1..(Len(queue) - 1) /\ k + 1 = i
      BY <1>2, <2>1 DEF Pops
    <2>3. queue'[k] = queue[i]
      BY <2>2 DEF Pops
    <2> QED
      BY <1>1, <2>2, <2>3 DEF Pops
  <1>4. ASSUME NEW j \in 1..(k - 1), Posted(j)' PROVE loads'[queue'[j].load].cancelled
    <2>1. PICK h : h = j + 1
      OBVIOUS
    <2>2. h \in 1..(i - 1) /\ h \in 1..Len(queue) /\ queue'[j] = queue[h]
      BY <1>2, <1>3, <2>1 DEF Pops
    <2>3. Posted(h) /\ queue[h].load \in 1..Len(loads)
      BY <1>4, <2>2, MessageFacts DEF IInv, Posted
    <2> QED
      BY <1>1, <2>2, <2>3
  <1> QED
    BY <1>3, <1>4 DEF Announced

\* onResume puts the data check behind the loads that wait, also when the user came back
\* without a photo.
LEMMA CheckQueuedIInv ==
    ASSUME IInv, queue # <<>>, queue' = Tail(queue), queue[1].what \in {"RESUME", "RETURN"},
           executor' = Append(executor, 0),
           UNCHANGED <<home, stack, picks, given, fileUri, loader, registered, dialog, casts, loads,
                       tpc, task, eng, trouble, opened, lost, overtaken, deaths, fault>>
    PROVE  IInv'
  <1>1. /\ queue # <<>> /\ queue' = Tail(queue) /\ queue[1].what \in {"RESUME", "RETURN"}
        /\ executor' = Append(executor, 0)
        /\ UNCHANGED <<home, stack, picks, given, fileUri, loader, registered, dialog, casts, loads,
                       tpc, task, eng, trouble, opened, lost, overtaken, deaths, fault>>
    OBVIOUS
  <1>2. queue' \in Seq(Messages) /\ Pops
    BY <1>1, TailFacts DEF IInv, Pops
  <1>3. /\ executor' \in Seq(0..Len(loads)) /\ Len(executor') = Len(executor) + 1
        /\ Len(executor) \in Nat /\ executor'[Len(executor) + 1] = 0
        /\ \A i \in 1..Len(executor) : executor'[i] = executor[i]
    <2>1. executor \in Seq(0..Len(loads)) /\ 0 \in 0..Len(loads)
      BY TypeParts DEF IInv, TaskTypes, LoadTypes
    <2> QED
      BY <1>1, <2>1, AppendProperties
  <1>4. \A i \in 1..Len(executor') : executor'[i] # 0 => i \in 1..Len(executor)
    BY <1>3
  <1>5. /\ \A l \in 1..Len(loads) : Flying(l)' => Flying(l)
        /\ Running' = Running
    <2>1. ASSUME NEW l \in 1..Len(loads), NEW i \in 1..Len(executor'), executor'[i] = l
          PROVE  Flying(l)
      BY <1>3, <1>4, <2>1 DEF Flying
    <2>2. Running' = Running /\ \A l : Running /\ task = l => Flying(l)
      BY <1>1 DEF Running, Flying
    <2>3. ASSUME NEW l, NEW i \in 1..Len(queue'), Posted(i)', queue'[i].load = l PROVE Flying(l)
      BY <1>2, <2>3, PopsPosted
    <2> QED
      BY <1>1, <2>1, <2>2, <2>3 DEF Flying
  <1>6. TypeOK'
    BY <1>1, <1>2, <1>3 DEF IInv, TypeOK, Messages, Casts
  <1>7. AskedFor'
    BY <1>1 DEF IInv, AskedFor
  <1>8. OnePlace'
    <2>1. \A i, j \in 1..Len(executor') : executor'[i] = executor'[j] /\ executor'[i] # 0 => i = j
      BY <1>3, <1>4 DEF IInv, OnePlace
    <2>2. ASSUME NEW i \in 1..Len(queue'), NEW j \in 1..Len(executor'), Posted(i)'
          PROVE  queue'[i].load # executor'[j]
      <3>1. CASE executor'[j] = 0
        BY <1>2, <2>2, <3>1, PopsPosted
      <3>2. CASE executor'[j] # 0
        BY <1>2, <1>3, <1>4, <2>2, <3>2, PopsPosted
      <3> QED
        BY <3>1, <3>2
    <2>3. Running => /\ task # 0
                     /\ \A j \in 1..Len(executor') : executor'[j] # task
                     /\ \A i \in 1..Len(queue') : Posted(i)' => queue'[i].load # task
      BY <1>2, <1>3, <1>4, PopsPosted DEF IInv, OnePlace
    <2> QED
      BY <1>1, <1>2, <1>5, <2>1, <2>2, <2>3, PopsPosted DEF OnePlace
  <1>9. OthersCancelled'
    BY <1>1, <1>5 DEF IInv, OthersCancelled
  <1>10. Announced'
    <2>1. CASE casts = <<>>
      BY <1>1, <2>1 DEF Announced
    <2>2. CASE casts # <<>>
      BY <1>1, <1>2, <2>2, PopsAnnounced
    <2> QED
      BY <2>1, <2>2
  <1>11. Ascending'
    BY <1>1, <1>5, TypeParts DEF IInv, Ascending, LoadTypes
  <1>12. Heard'
    BY <1>1, <1>5, TypeParts DEF IInv, Heard, LoadTypes, LoadedOnItsWay, LostHasReason
  <1>13. CheckedFirst'
    <2>1. ASSUME ~DataReady PROVE \A i \in 1..Len(queue') : ~Posted(i)'
      BY <1>2, <2>1 DEF IInv, CheckedFirst, Posted, Pops
    <2>2. ASSUME ~DataReady, tpc = "idle" PROVE executor' # <<>> /\ executor'[1] = 0
      <3>1. CASE executor = <<>>
        BY <1>3, <3>1
      <3>2. CASE executor # <<>>
        <4>1. 1 \in 1..Len(executor)
          BY <1>3, <3>2, TypeParts DEF IInv, TaskTypes
        <4> QED
          BY <1>3, <2>2, <3>2, <4>1 DEF IInv, CheckedFirst
      <3> QED
        BY <3>1, <3>2
    <2> QED
      BY <1>1, <1>5, <2>1, <2>2 DEF IInv, CheckedFirst, DataReady
  <1> QED
    BY <1>6, <1>7, <1>8, <1>9, <1>10, <1>11, <1>12, <1>13 DEF IInv

\* When the tasks are not touched, what flies after the handler flew before it, and the
\* load whose end was taken has landed.
LEMMA PopKeeps ==
    ASSUME IInv, Pops, UNCHANGED <<executor, tpc, task, loads, loader>>
    PROVE  /\ OnePlace' /\ OthersCancelled' /\ Running' = Running
           /\ \A l : Flying(l)' => Flying(l)
           /\ \A l : Posted(1) /\ l = queue[1].load => ~Flying(l)'
  <1>1. Running' = Running /\ \A l : Running /\ task = l => Flying(l)
    BY DEF Running, Flying
  <1>2. ASSUME NEW l, Flying(l)' PROVE Flying(l)
    <2>1. CASE \E i \in 1..Len(executor') : executor'[i] = l
      BY <2>1 DEF Flying
    <2>2. CASE Running' /\ task' = l
      BY <1>1, <2>2
    <2>3. ASSUME NEW i \in 1..Len(queue'), Posted(i)', queue'[i].load = l PROVE Flying(l)
      BY <2>3, PopsPosted
    <2> QED
      BY <1>2, <2>1, <2>2, <2>3 DEF Flying
  <1>3. OnePlace'
    BY <1>1, PopsPosted DEF IInv, OnePlace
  <1>4. OthersCancelled'
    BY <1>2 DEF IInv, OthersCancelled
  <1>5. ASSUME NEW l, Posted(1), l = queue[1].load PROVE ~Flying(l)'
    <2>1. 1 \in 1..Len(queue)
      BY DEF Pops
    <2>2. (\A j \in 1..Len(executor) : executor[j] # l) /\ (Running => task # l)
      BY <1>5, <2>1 DEF IInv, OnePlace
    <2>3. \A i \in 1..Len(queue') : Posted(i)' => queue'[i].load # l
      BY <1>5, PopsPosted
    <2> QED
      BY <1>1, <2>2, <2>3 DEF Flying
  <1> QED
    BY <1>1, <1>2, <1>3, <1>4, <1>5

\* The end of a load is taken: nothing is posted that was not, and no data check is due.
LEMMA EndTaken ==
    ASSUME IInv, Handles("POST")
    PROVE  /\ queue # <<>> /\ Head(queue) = queue[1] /\ Posted(1) /\ 1 \in 1..Len(queue)
           /\ queue[1].load \in 1..Len(loads) /\ Flying(queue[1].load)
           /\ queue[1].what = "POST" /\ DataReady
  <1>1. queue # <<>> /\ Head(queue) = queue[1] /\ queue[1].what = "POST" /\ 1 \in 1..Len(queue)
    BY TailFacts DEF Handles, IInv
  <1>2. Posted(1) /\ queue[1].load \in 1..Len(loads)
    BY <1>1, MessageFacts DEF Posted, IInv
  <1>3. DataReady
    BY <1>1, <1>2 DEF IInv, CheckedFirst
  <1> QED
    BY <1>1, <1>2, <1>3 DEF Flying

\* A load that was cancelled ends, or one that nobody listens to.
LEMMA LostIInv ==
    ASSUME IInv, Handles("POST"), queue' = Tail(queue), lost' \subseteq lost \cup {queue[1].load},
           loads[queue[1].load].cancelled \/ registered = 0,
           UNCHANGED <<taskVars, viewVars, casts, workVars, opened, overtaken, deaths, fault>>
    PROVE  IInv'
  <1> USE DEF taskVars, viewVars, workVars
  <1>1. /\ queue # <<>> /\ Posted(1) /\ queue[1].load \in 1..Len(loads) /\ Flying(queue[1].load)
        /\ queue[1].what = "POST" /\ DataReady
    BY EndTaken
  <1>2. queue' \in Seq(Messages) /\ Pops
    BY <1>1, TailFacts DEF IInv, Pops
  <1>3. TypeOK'
    BY <1>1, <1>2 DEF IInv, TypeOK, Messages, Casts
  <1>4. AskedFor'
    BY DEF IInv, AskedFor
  <1>5. /\ OnePlace' /\ OthersCancelled' /\ Running' = Running
        /\ \A l : Flying(l)' => Flying(l)
    BY <1>1, <1>2, PopKeeps
  <1>6. Announced'
    <2>1. CASE casts = <<>>
      BY <2>1 DEF Announced
    <2>2. CASE casts # <<>>
      BY <1>1, <1>2, <2>2, PopsAnnounced
    <2> QED
      BY <2>1, <2>2
  <1>7. Ascending'
    BY <1>5 DEF IInv, Ascending
  <1>8. Heard'
    <2>1. loads[queue[1].load].cancelled \/ queue[1].load \in overtaken
      BY <1>1 DEF IInv, OthersCancelled, Heard
    <2> QED
      BY <1>5, <2>1 DEF IInv, Heard, LoadedOnItsWay, LostHasReason
  <1>9. CheckedFirst'
    BY <1>1 DEF IInv, CheckedFirst, DataReady
  <1> QED
    BY <1>3, <1>4, <1>5, <1>6, <1>7, <1>8, <1>9 DEF IInv

LEMMA HandleCancelledIInv == ASSUME IInv, HandleCancelled PROVE IInv'
  BY EndTaken, LostIInv DEF HandleCancelled

\* The photo is announced: nothing else is pending, and the load has landed.
LEMMA HandleLoadedIInv == ASSUME IInv, HandleLoaded PROVE IInv'
  <1> USE DEF taskVars, viewVars, workVars
  <1>0. PICK k : k = queue[1].load
    OBVIOUS
  <1> DEFINE cast == [what |-> "LOADED", load |-> k, got |-> queue[1].got, heard |-> registered]
  <1>1. /\ queue # <<>> /\ Head(queue) = queue[1] /\ Posted(1) /\ 1 \in 1..Len(queue)
        /\ k \in 1..Len(loads) /\ Flying(k) /\ queue[1].what = "POST" /\ DataReady
        /\ ~loads[k].cancelled /\ k = loader
    <2>1. /\ queue # <<>> /\ Head(queue) = queue[1] /\ Posted(1) /\ 1 \in 1..Len(queue)
          /\ k \in 1..Len(loads) /\ Flying(k) /\ queue[1].what = "POST" /\ DataReady
      BY <1>0, EndTaken DEF HandleLoaded
    <2>2. ~loads[k].cancelled
      BY <1>0, <2>1 DEF HandleLoaded
    <2> QED
      BY <2>1, <2>2 DEF IInv, OthersCancelled
  <1>2. CASE registered = 0
    <2>1. lost' \subseteq lost \cup {queue[1].load} /\ queue' = Tail(queue) /\ UNCHANGED casts
      <3>1. ~(registered > 0)
        BY <1>2
      <3>2. /\ queue' = Tail(queue) /\ UNCHANGED casts
            /\ lost' = IF queue[1].got THEN lost \cup {queue[1].load} ELSE lost
        BY <1>1, <3>1, Zenon DEF HandleLoaded
      <3> QED
        BY <3>2
    <2> QED
      BY <1>2, <2>1, LostIInv DEF HandleLoaded
  <1>3. CASE registered # 0
    <2>1. /\ registered = 1 /\ SendBroadcast(cast)
          /\ UNCHANGED <<taskVars, viewVars, workVars, opened, lost, overtaken, deaths, fault>>
      <3>1. registered = 1 /\ registered > 0
        BY <1>3, TypeParts DEF IInv, MainTypes
      <3>2. /\ SendBroadcast([what |-> "LOADED", load |-> Head(queue).load,
                             got |-> Head(queue).got, heard |-> registered])
            /\ UNCHANGED lost
        BY <3>1 DEF HandleLoaded
      <3> QED
        BY <1>0, <1>1, <3>1, <3>2, Zenon DEF HandleLoaded
    <2>2. casts = <<>>
      <3> SUFFICES ASSUME casts # <<>> PROVE FALSE
        OBVIOUS
      <3>1. PICK i \in 1..Len(queue) :
                /\ queue[i].what = "BROADCASTS"
                /\ \A j \in 1..(i - 1) : Posted(j) => loads[queue[j].load].cancelled
        BY DEF IInv, Announced
      <3>2. i # 1 /\ 1 \in 1..(i - 1)
        BY <1>1, <3>1
      <3> QED
        BY <1>0, <1>1, <3>1, <3>2
    <2>3. cast \in Casts
      BY <1>1, <2>1, MessageFacts DEF IInv, Casts
    <2>4. cast.what = "LOADED" /\ cast.load = k
      OBVIOUS
    <2> HIDE DEF cast
    <2>5. /\ Len(casts') = Len(casts) + 1 /\ casts'[Len(casts) + 1] = cast
          /\ \A i \in 1..Len(casts) : casts'[i] = casts[i]
          /\ \A S : casts \in Seq(S) /\ cast \in S => casts' \in Seq(S)
      BY <1>1, <2>1, SendFacts DEF IInv
    <2>6. /\ \A S : Messages \subseteq S => queue' \in Seq(S)
          /\ Len(queue') \in Nat
          /\ casts = <<>> => Len(queue') = Len(queue) /\ queue'[Len(queue)].what = "BROADCASTS"
          /\ \A i \in 1..(Len(queue) - 1) : queue'[i] = queue[i + 1] /\ i + 1 \in 1..Len(queue)
          /\ \A i \in 1..Len(queue') : i \in 1..(Len(queue) - 1) \/ queue'[i].what = "BROADCASTS"
      BY <1>1, <2>1, SendFacts DEF IInv
    <2>7. Len(casts') = 1 /\ casts'[1] = cast /\ casts' \in Seq(Casts) /\ queue' \in Seq(Messages)
      <3>1. casts \in Seq(Casts) /\ Len(casts) = 0
        BY <2>2, TypeParts DEF IInv, MainTypes
      <3> QED
        BY <2>3, <2>5, <2>6, <3>1
    <2>8. Pops
      BY <1>1, <2>2, <2>6, MessageFacts DEF Pops, IInv
    <2>9. /\ OnePlace' /\ OthersCancelled' /\ Running' = Running
          /\ \A l : Flying(l)' => Flying(l)
          /\ ~Flying(k)'
      BY <1>0, <1>1, <2>1, <2>8, PopKeeps
    <2>10. TypeOK'
      BY <2>1, <2>7 DEF IInv, TypeOK, Messages, Casts
    <2>11. AskedFor'
      BY <2>1 DEF IInv, AskedFor
    <2>12. Announced'
      <3>1. ASSUME NEW j \in 1..(Len(queue) - 1), Posted(j)' PROVE loads'[queue'[j].load].cancelled
        <4>1. j \in 1..Len(queue')
          BY <2>2, <2>6, MessageFacts DEF IInv
        <4>2. /\ queue'[j].load \in 1..Len(loads) /\ Flying(queue'[j].load)
              /\ queue'[j].load # k
          BY <1>0, <1>1, <2>8, <3>1, <4>1, PopsPosted
        <4> QED
          BY <1>1, <2>1, <4>2 DEF IInv, OthersCancelled
      <3>2. Len(queue) \in 1..Len(queue') /\ queue'[Len(queue)].what = "BROADCASTS"
        BY <1>1, <2>2, <2>6
      <3>3. PICK n : n = Len(queue)
        OBVIOUS
      <3> QED
        BY <3>1, <3>2, <3>3 DEF Announced
    <2>13. Ascending'
      BY <1>1, <2>1, <2>4, <2>7, <2>9 DEF IInv, Ascending
    <2>14. Heard'
      BY <1>1, <2>1, <2>9 DEF IInv, Heard, LostHasReason
    <2>15. CheckedFirst'
      BY <1>1, <2>1 DEF IInv, CheckedFirst, DataReady
    <2> QED
      BY <2>9, <2>10, <2>11, <2>12, <2>13, <2>14, <2>15 DEF IInv
  <1> QED
    BY <1>2, <1>3

LEMMA HandleResumeIInv == ASSUME IInv, HandleResume PROVE IInv'
  <1>1. /\ queue # <<>> /\ queue' = Tail(queue) /\ queue[1].what = "RESUME"
        /\ executor' = Append(executor, 0)
        /\ UNCHANGED <<home, stack, picks, given, fileUri, loader, registered, dialog, casts, loads,
                       tpc, task, eng, trouble, opened, lost, overtaken, deaths, fault>>
    BY TailFacts DEF HandleResume, Handles, IInv, taskVars, viewVars, bookVars
  <1> QED
    BY <1>1, CheckQueuedIInv

\* The messages and the broadcasts stay what they are when there are more loads.
LEMMA MoreLoads ==
    ASSUME TypeOK, Len(loads') \in Nat, Len(loads') >= Len(loads)
    PROVE  /\ Messages \subseteq Messages' /\ Casts \subseteq Casts'
           /\ queue \in Seq(Messages') /\ casts \in Seq(Casts')
           /\ executor \in Seq(0..Len(loads')) /\ opened \in Seq(1..Len(loads'))
  <1>1. 1..Len(loads) \subseteq 1..Len(loads') /\ 0..Len(loads) \subseteq 0..Len(loads')
    BY MessageFacts
  <1>2. Messages \subseteq Messages' /\ Casts \subseteq Casts'
    BY <1>1 DEF Messages, Casts
  <1>3. /\ queue \in Seq(Messages) /\ casts \in Seq(Casts)
        /\ executor \in Seq(0..Len(loads)) /\ opened \in Seq(1..Len(loads))
    BY TypeParts DEF MainTypes, TaskTypes, BookTypes
  <1>4. queue \in Seq(Messages') /\ casts \in Seq(Casts')
    BY <1>2, <1>3, SeqMonotonic
  <1>5. executor \in Seq(0..Len(loads')) /\ opened \in Seq(1..Len(loads'))
    BY <1>1, <1>3, SeqMonotonic
  <1> QED
    BY <1>2, <1>4, <1>5

\* The new load is the last of the loads, and only the one before it is cancelled.
LEMMA NewLoad ==
    ASSUME TypeOK, NEW uri \in 1..picks,
           loads' = Append([i \in DOMAIN loads |->
                               IF i = loader THEN [loads[i] EXCEPT !.cancelled = TRUE] ELSE loads[i]],
                           [uri |-> uri, cancelled |-> FALSE])
    PROVE  /\ loads' \in Seq(Load) /\ Len(loads') = Len(loads) + 1
           /\ \A i \in 1..Len(loads) : loads'[i].cancelled <=> loads[i].cancelled \/ i = loader
  <1> DEFINE new == [uri |-> uri, cancelled |-> FALSE]
             b == [i \in DOMAIN loads |->
                      IF i = loader THEN [loads[i] EXCEPT !.cancelled = TRUE] ELSE loads[i]]
  <1>1. loads \in Seq(Load) /\ Len(loads) \in Nat /\ DOMAIN loads = 1..Len(loads)
    BY TypeParts DEF LoadTypes
  <1>2. new \in Load
    BY DEF Load
  <1>3. ASSUME NEW i \in 1..Len(loads)
        PROVE  b[i] \in Load /\ (b[i].cancelled <=> loads[i].cancelled \/ i = loader)
    <2>1. loads[i] \in Load
      BY <1>1
    <2> QED
      BY <1>1, <2>1 DEF Load
  <1>4. DOMAIN b = 1..Len(loads)
    BY <1>1
  <1>5. loads' = Append(b, new)
    OBVIOUS
  <1> HIDE DEF b, new
  <1>6. b \in Seq(Load) /\ Len(b) = Len(loads)
    <2>1. b \in [1..Len(loads) -> Load]
      <3>1. b = [i \in 1..Len(loads) |-> b[i]]
        BY <1>1 DEF b
      <3> QED
        BY <1>3, <3>1
    <2>2. b \in Seq(Load)
      BY <1>1, <2>1, SeqDef
    <2> QED
      BY <1>1, <1>4, <2>2, LenProperties
  <1>7. PICK c, S, t : c = b /\ S = Load /\ t = Append(b, new)
    OBVIOUS
  <1>8. c \in Seq(S) /\ new \in S /\ t = Append(c, new)
    BY <1>2, <1>6, <1>7
  <1>9. /\ t \in Seq(S) /\ Len(t) = Len(c) + 1
        /\ \A i \in 1..Len(c) : t[i] = c[i]
    BY <1>8, AppendProperties
  <1>10. loads' = t
    BY <1>5, <1>7
  <1> QED
    BY <1>3, <1>6, <1>7, <1>9, <1>10

\* A new load: the one before it is cancelled, the receiver is there, and the new one
\* waits behind the other tasks with a data check behind it.
LEMMA LoadStartsIInv ==
    ASSUME IInv, Handles("RETURN"), NEW uri \in 1..picks,
           loads' = Append([i \in DOMAIN loads |->
                               IF i = loader THEN [loads[i] EXCEPT !.cancelled = TRUE] ELSE loads[i]],
                           [uri |-> uri, cancelled |-> FALSE]),
           fileUri' = uri, loader' = Len(loads) + 1, RegisterReceiver,
           SendBroadcast([what |-> "START"]), executor' = executor \o <<Len(loads) + 1, 0>>,
           overtaken' = IF LoadedOnItsWay THEN overtaken \cup {Len(loads) + 1} ELSE overtaken,
           UNCHANGED <<dialog, taskVars, tpc, task, eng, trouble, opened, lost, deaths, fault>>
    PROVE  IInv'
  <1> USE DEF taskVars
  <1>1. PICK new, n : new = Len(loads) + 1 /\ n = Len(executor)
    OBVIOUS
  <1>2. /\ queue # <<>> /\ queue[1].what = "RETURN" /\ 1 \in 1..Len(queue)
        /\ Len(loads) \in Nat /\ new \in Nat /\ n \in Nat
    BY <1>1, TailFacts, MessageFacts DEF IInv, Handles
  <1>3. /\ loads' \in Seq(Load) /\ Len(loads') = new
        /\ \A l \in 1..Len(loads) : loads'[l].cancelled <=> loads[l].cancelled \/ l = loader
    BY <1>1, NewLoad DEF IInv
  <1>4. /\ \A l \in 1..Len(loads) : loads[l].cancelled => loads'[l].cancelled
        /\ \A l \in 1..Len(loads) : l = loader => loads'[l].cancelled
    BY <1>3
  <1>5. /\ Messages \subseteq Messages' /\ Casts \subseteq Casts'
        /\ casts \in Seq(Casts')
        /\ executor \in Seq(0..new) /\ opened \in Seq(1..new)
    <2>1. Len(loads') \in Nat /\ Len(loads') >= Len(loads)
      BY <1>1, <1>2, <1>3
    <2> QED
      BY <1>3, <2>1, MoreLoads DEF IInv
  <1> DEFINE cast == [what |-> "START"]
  <1>6. cast.what = "START" /\ cast \in Casts'
    BY DEF Casts
  <1>7. SendBroadcast(cast)
    OBVIOUS
  <1> HIDE DEF cast
  <1>8. /\ Len(casts') = Len(casts) + 1 /\ casts'[Len(casts) + 1] = cast
        /\ \A i \in 1..Len(casts) : casts'[i] = casts[i]
        /\ \A S : casts \in Seq(S) /\ cast \in S => casts' \in Seq(S)
    BY <1>2, <1>7, SendFacts DEF IInv
  <1>9. /\ \A S : Messages \subseteq S => queue' \in Seq(S)
        /\ Len(queue') \in Nat
        /\ casts # <<>> => Len(queue') = Len(queue) - 1
        /\ casts = <<>> => Len(queue') = Len(queue) /\ queue'[Len(queue)].what = "BROADCASTS"
        /\ \A i \in 1..(Len(queue) - 1) : queue'[i] = queue[i + 1] /\ i + 1 \in 1..Len(queue)
        /\ \A i \in 1..Len(queue') : i \in 1..(Len(queue) - 1) \/ queue'[i].what = "BROADCASTS"
    BY <1>2, <1>7, SendFacts DEF IInv
  <1>10. /\ casts' \in Seq(Casts') /\ queue' \in Seq(Messages')
         /\ Len(casts) \in Nat /\ Len(queue) \in Nat /\ Len(queue) >= 1
         /\ DOMAIN casts = 1..Len(casts) /\ DOMAIN casts' = 1..(Len(casts) + 1)
         /\ \A i \in 1..Len(casts') :
               casts'[i].what = "LOADED" => i \in 1..Len(casts) /\ casts'[i] = casts[i]
    <2>1. casts' \in Seq(Casts') /\ queue' \in Seq(Messages')
      BY <1>5, <1>6, <1>8, <1>9
    <2>2. /\ Len(casts) \in Nat /\ Len(queue) \in Nat /\ Len(queue) >= 1
          /\ DOMAIN casts = 1..Len(casts)
      BY <1>2, TailFacts, TypeParts DEF IInv, MainTypes
    <2>3. DOMAIN casts' = 1..(Len(casts) + 1)
      BY <1>8, <2>1, LenProperties
    <2> QED
      BY <1>6, <1>8, <2>1, <2>2, <2>3
  <1>11. Pops
    BY <1>9, <1>10 DEF Pops
  <1>12. /\ executor' \in Seq(0..new) /\ Len(executor') = n + 2
         /\ \A i \in 1..n : executor'[i] = executor[i] /\ executor[i] \in 0..Len(loads)
         /\ executor'[n + 1] = new /\ executor'[n + 2] = 0
    <2>1. PICK S, t : S = 0..new /\ t = <<new, 0>>
      OBVIOUS
    <2>2. t \in Seq(S) /\ Len(t) = 2 /\ t[1] = new /\ t[2] = 0 /\ executor \in Seq(S)
      BY <1>2, <1>5, <2>1
    <2>3. executor' = executor \o t
      BY <1>1, <2>1
    <2>4. PICK e : e = executor
      OBVIOUS
    <2>5. e \in Seq(S) /\ Len(e) = n
      BY <1>1, <2>2, <2>4
    <2>6. /\ e \o t \in Seq(S) /\ Len(e \o t) = Len(e) + Len(t)
          /\ \A i \in 1..(Len(e) + Len(t)) :
                (e \o t)[i] = IF i <= Len(e) THEN e[i] ELSE t[i - Len(e)]
      BY <2>2, <2>5, ConcatProperties
    <2>7. /\ \A i \in 1..n : (e \o t)[i] = e[i]
          /\ (e \o t)[n + 1] = t[1] /\ (e \o t)[n + 2] = t[2]
      <3>1. PICK a : a = e \o t
        OBVIOUS
      <3>2. \A i \in 1..(n + 2) : a[i] = IF i <= n THEN e[i] ELSE t[i - n]
        BY <2>2, <2>5, <2>6, <3>1
      <3>3. /\ n + 1 \in 1..(n + 2) /\ n + 2 \in 1..(n + 2) /\ ~(n + 1 <= n) /\ ~(n + 2 <= n)
            /\ n + 1 - n = 1 /\ n + 2 - n = 2
            /\ \A i \in 1..n : i \in 1..(n + 2) /\ i <= n
        BY <1>2
      <3>4. a[n + 1] = t[1] /\ a[n + 2] = t[2] /\ \A i \in 1..n : a[i] = e[i]
        <4>1. PICK x, y : x = n + 1 /\ y = n + 2
          OBVIOUS
        <4>2. x \in 1..(n + 2) /\ ~(x <= n) /\ x - n = 1 /\ y \in 1..(n + 2) /\ ~(y <= n) /\ y - n = 2
          BY <1>2, <4>1
        <4>3. a[x] = t[1]
          BY <3>2, <4>2
        <4>4. a[y] = t[2]
          BY <3>2, <4>2
        <4> QED
          BY <3>2, <3>3, <4>1, <4>3, <4>4
      <3> QED
        BY <3>1, <3>4
    <2>8. executor' = e \o t
      BY <2>3, <2>4
    <2>9. \A i \in 1..n : executor[i] \in 0..Len(loads)
      BY <1>1, MessageFacts DEF IInv
    <2> QED
      BY <2>1, <2>2, <2>4, <2>5, <2>6, <2>7, <2>8, <2>9
  <1>13. \A i \in 1..Len(executor') : executor'[i] # 0 => i \in 1..n \/ (i = n + 1 /\ executor'[i] = new)
    <2>1. \A i \in 1..Len(executor') : i \in 1..n \/ i = n + 1 \/ i = n + 2
      BY <1>2, <1>12
    <2> QED
      BY <1>12, <2>1
  <1>14. /\ \A l \in 1..Len(loads) : Flying(l)' => Flying(l)
         /\ Running' = Running
    <2>1. ASSUME NEW l \in 1..Len(loads), NEW i \in 1..Len(executor'), executor'[i] = l
          PROVE  Flying(l)
      BY <1>1, <1>2, <1>12, <1>13, <2>1, SMTT(30) DEF Flying
    <2>2. Running' = Running /\ \A l : Running /\ task = l => Flying(l)
      BY DEF Running, Flying
    <2>3. ASSUME NEW l, NEW i \in 1..Len(queue'), Posted(i)', queue'[i].load = l PROVE Flying(l)
      BY <1>11, <2>3, PopsPosted
    <2> QED
      BY <2>1, <2>2, <2>3 DEF Flying
  <1>15. \A l \in 1..new : l # new => l \in 1..Len(loads)
    BY <1>1, <1>2
  <1>16. /\ new \notin 1..Len(loads) /\ new # 0 /\ new \notin 0..Len(loads)
         /\ \A l \in 1..Len(loads) : l < new
    BY <1>1, <1>2
  <1>17. TypeOK'
    <2>1. UserTypes' /\ DataTypes'
      BY TypeParts DEF IInv, UserTypes, DataTypes
    <2>2. LoadTypes'
      BY <1>1, <1>2, <1>3 DEF LoadTypes, Load
    <2>3. MainTypes'
      BY <1>10, TypeParts DEF IInv, MainTypes, RegisterReceiver
    <2>4. TaskTypes'
      BY <1>1, <1>2, <1>3, <1>12, TypeParts DEF IInv, TaskTypes
    <2>5. BookTypes'
      BY <1>1, <1>2, <1>3, <1>5, TypeParts DEF IInv, BookTypes
    <2>6. TypeOK' <=> UserTypes' /\ DataTypes' /\ LoadTypes' /\ MainTypes' /\ TaskTypes' /\ BookTypes'
      BY DEF TypeOK, UserTypes, DataTypes, Load, LoadTypes, MainTypes, TaskTypes, BookTypes
    <2> QED
      BY <2>1, <2>2, <2>3, <2>4, <2>5, <2>6
  <1>18. AskedFor'
    BY DEF IInv, AskedFor
  <1>19. OnePlace'
    <2>1. ASSUME NEW i \in 1..Len(executor'), NEW j \in 1..Len(executor'),
                 executor'[i] = executor'[j], executor'[i] # 0
          PROVE  i = j
      <3>1. /\ i \in 1..n \/ (i = n + 1 /\ executor'[i] = new)
            /\ j \in 1..n \/ (j = n + 1 /\ executor'[j] = new)
        BY <1>13, <2>1
      <3>2. \A k \in 1..n : executor'[k] = executor[k] /\ executor'[k] # new
        BY <1>12, <1>16
      <3>3. \A k, h \in 1..n : executor[k] = executor[h] /\ executor[k] # 0 => k = h
        BY <1>1 DEF IInv, OnePlace
      <3> QED
        BY <2>1, <3>1, <3>2, <3>3
    <2>2. ASSUME NEW i \in 1..Len(queue'), NEW j \in 1..Len(executor'), Posted(i)'
          PROVE  queue'[i].load # executor'[j]
      <3>1. /\ queue'[i].load \in 1..Len(loads)
            /\ \A k \in 1..n : queue'[i].load # executor[k]
        BY <1>1, <1>11, <2>2, PopsPosted
      <3> QED
        BY <1>12, <1>13, <1>16, <3>1, SMTT(30)
    <2>3. ASSUME Running
          PROVE  /\ task # 0
                 /\ \A j \in 1..Len(executor') : executor'[j] # task
                 /\ \A i \in 1..Len(queue') : Posted(i)' => queue'[i].load # task
      <3>1. /\ task # 0 /\ task \in 0..Len(loads)
            /\ \A j \in 1..n : executor[j] # task
        BY <1>1, <2>3, TypeParts DEF IInv, OnePlace, TaskTypes
      <3> QED
        BY <1>11, <1>12, <1>13, <1>16, <2>3, <3>1, PopsPosted
    <2> QED
      BY <1>11, <1>14, <2>1, <2>2, <2>3, PopsPosted DEF OnePlace
  <1>20. OthersCancelled'
    BY <1>1, <1>3, <1>4, <1>14, <1>15 DEF IInv, OthersCancelled
  <1>21. Announced'
    <2>1. CASE casts # <<>>
      BY <1>2, <1>4, <1>11, <2>1, PopsAnnounced
    <2>2. CASE casts = <<>>
      <3>1. ASSUME NEW j \in 1..(Len(queue) - 1), Posted(j)' PROVE loads'[queue'[j].load].cancelled
        <4>1. j \in 1..Len(queue')
          BY <1>9, <1>10, <2>2
        <4>2. queue'[j].load \in 1..Len(loads) /\ Flying(queue'[j].load)
          BY <1>11, <3>1, <4>1, PopsPosted
        <4> QED
          BY <1>4, <4>2 DEF IInv, OthersCancelled
      <3>2. Len(queue) \in 1..Len(queue') /\ queue'[Len(queue)].what = "BROADCASTS"
        BY <1>9, <1>10, <2>2
      <3>3. PICK k : k = Len(queue)
        OBVIOUS
      <3> QED
        BY <3>1, <3>2, <3>3 DEF Announced
    <2> QED
      BY <2>1, <2>2
  <1>22. Ascending'
    <2>1. \A i \in 1..Len(opened) : opened[i] < new
      BY <1>16, MessageFacts DEF IInv
    <2>2. \A i \in 1..Len(casts) : casts[i].what = "LOADED" => casts[i].load < new
      BY <1>16, MessageFacts DEF IInv
    <2> QED
      BY <1>1, <1>10, <2>1, <2>2 DEF IInv, Ascending
  <1>23. Heard'
    <2>1. registered' # 0
      BY TypeParts DEF IInv, MainTypes, RegisterReceiver
    <2>2. LoadedOnItsWay' => LoadedOnItsWay
      BY <1>8, <1>10 DEF LoadedOnItsWay
    <2>3. overtaken \subseteq overtaken' /\ (LoadedOnItsWay => new \in overtaken')
      BY <1>1
    <2>4. LostHasReason'
      BY <1>4, <2>3, TypeParts DEF IInv, Heard, LostHasReason, BookTypes
    <2> QED
      BY <1>1, <2>1, <2>2, <2>3, <2>4 DEF Heard
  <1>24. CheckedFirst'
    <2>1. ASSUME ~DataReady
          PROVE  /\ \A i \in 1..Len(queue') : ~Posted(i)'
                 /\ \A i \in 1..Len(casts') : casts'[i].what # "LOADED"
      BY <1>10, <1>11, <2>1 DEF IInv, CheckedFirst, Posted, Pops
    <2>2. ASSUME ~DataReady, tpc = "idle" PROVE executor' # <<>> /\ executor'[1] = 0
      <3>1. executor # <<>> /\ executor[1] = 0
        BY <1>2, <2>2 DEF IInv, CheckedFirst
      <3>2. 1 \in 1..n
        BY <1>1, <3>1, TypeParts DEF IInv, TaskTypes
      <3> QED
        BY <1>12, <3>1, <3>2
    <2> QED
      BY <1>14, <2>1, <2>2 DEF IInv, CheckedFirst, DataReady
  <1> QED
    BY <1>17, <1>18, <1>19, <1>20, <1>21, <1>22, <1>23, <1>24 DEF IInv

\* The answer of the camera or the gallery.
LEMMA HandleReturnIInv == ASSUME IInv, HandleReturn PROVE IInv'
  <1>1. PICK uri : uri = Uri(Head(queue).answer)
    OBVIOUS
  <1>2. /\ queue # <<>> /\ Head(queue) = queue[1] /\ queue[1].what = "RETURN"
        /\ queue[1].answer \in Answers
    BY TailFacts, MessageFacts DEF IInv, HandleReturn, Handles
  <1>3. uri \in 0..picks
    BY <1>1, <1>2, TypeParts, BoundsAssumption DEF IInv, UserTypes, Uri, Answers
  <1>4. CASE uri = 0
    <2>1. /\ queue' = Tail(queue)
          /\ executor' = Append(executor, 0)
          /\ UNCHANGED <<viewVars, casts, loads, overtaken>>
          /\ UNCHANGED <<taskVars, tpc, task, eng, trouble, opened, lost, deaths, fault>>
      BY <1>1, <1>4 DEF HandleReturn
    <2> QED
      BY <1>2, <2>1, CheckQueuedIInv DEF taskVars, viewVars
  <1>5. CASE uri # 0
    <2>1. /\ fileUri' = uri
          /\ loads' = Append([i \in DOMAIN loads |->
                                 IF i = loader THEN [loads[i] EXCEPT !.cancelled = TRUE] ELSE loads[i]],
                             [uri |-> uri, cancelled |-> FALSE])
          /\ loader' = Len(loads) + 1
          /\ RegisterReceiver
          /\ SendBroadcast([what |-> "START"])
          /\ executor' = executor \o <<Len(loads) + 1, 0>>
          /\ overtaken' = IF LoadedOnItsWay THEN overtaken \cup {Len(loads) + 1} ELSE overtaken
          /\ UNCHANGED dialog
          /\ UNCHANGED <<taskVars, tpc, task, eng, trouble, opened, lost, deaths, fault>>
      BY <1>1, <1>5, Zenon DEF HandleReturn
    <2>2. uri \in 1..picks /\ Handles("RETURN")
      BY <1>3, <1>5, TypeParts, BoundsAssumption DEF IInv, UserTypes, HandleReturn
    <2> QED
      BY <2>1, <2>2, LoadStartsIInv
  <1> QED
    BY <1>4, <1>5

-----------------------------------------------------------------------------
(* The broadcasts.                                                         *)

\* Of the pending broadcasts at most one starts a crop screen.
LEMMA NewOpened ==
    ASSUME IInv, NEW new, new = FlattenSeq([i \in DOMAIN casts |-> Starts(casts[i])])
    PROVE  \/ new = <<>>
           \/ \E i \in 1..Len(casts) : casts[i].what = "LOADED" /\ new = <<casts[i].load>>
  <1>1. PICK n, s : n = Len(casts) /\ s = [i \in 1..n |-> Starts(casts[i])]
    OBVIOUS
  <1>2. casts \in Seq(Casts) /\ n \in Nat /\ DOMAIN casts = 1..n
    BY <1>1, TypeParts, MessageFacts DEF IInv, MainTypes
  <1>9. PICK S : S = {s[i] : i \in 1..n}
    OBVIOUS
  <1>3. DOMAIN s = 1..n /\ Len(s) = n /\ s \in Seq(S)
    <2>1. S = {s[i] : i \in 1..n}
      BY <1>9
    <2>2. s \in [1..n -> S]
      BY <1>1, <2>1
    <2>3. s \in Seq(S)
      BY <1>2, <2>2, SeqDef
    <2>4. DOMAIN s = 1..n
      BY <1>1
    <2> QED
      BY <1>2, <2>3, <2>4, LenProperties
  <1>4. new = FlattenSeq(s)
    BY <1>1, <1>2
  <1>5. ASSUME NEW i \in 1..n
        PROVE  \/ s[i] = <<>>
               \/ casts[i].what = "LOADED" /\ s[i] = <<casts[i].load>>
    <2>1. s[i] = Starts(casts[i])
      BY <1>1
    <2>2. CASE casts[i].what = "LOADED" /\ casts[i].got
      <3>1. casts[i].heard = 1
        BY <1>1, <2>2, MessageFacts DEF IInv
      <3>2. s[i] = [j \in 1..casts[i].heard |-> casts[i].load]
        BY <2>1, <2>2 DEF Starts
      <3>3. s[i] = [j \in 1..1 |-> casts[i].load]
        BY <3>1, <3>2
      <3>4. \A x : [j \in 1..1 |-> x] = <<x>>
        OBVIOUS
      <3> QED
        BY <2>2, <3>3, <3>4
    <2>3. CASE ~(casts[i].what = "LOADED" /\ casts[i].got)
      BY <2>1, <2>3 DEF Starts
    <2> QED
      BY <2>2, <2>3
  <1>6. CASE n = 0
    <2>1. s = <<>>
      BY <1>3, <1>6, EmptySeq
    <2>2. FlattenSeq(s) = s
      BY <1>3, <1>6, Zenon DEF FlattenSeq
    <2> QED
      BY <1>4, <2>1, <2>2
  <1>7. CASE n # 0 /\ \E k \in 1..n : s[k] # <<>>
    <2>1. PICK k \in 1..n : s[k] # <<>>
      BY <1>7
    <2>2. PICK x : x = casts[k].load
      OBVIOUS
    <2>3. casts[k].what = "LOADED" /\ s[k] = <<x>>
      BY <1>5, <2>1, <2>2
    <2>4. PICK v : v = <<x>>
      OBVIOUS
    <2>5. <<>> \o v = v /\ v \o <<>> = v
      BY <2>4
    <2>6. \A i \in 1..n : s[i] = IF i = k THEN v ELSE <<>>
      BY <1>1, <1>5, <2>3, <2>4 DEF IInv, Ascending
    <2>7. FlattenSeq(s) = v
      <3>1. n \in Nat /\ n > 0 /\ DOMAIN s = 1..n /\ Len(s) = n /\ k \in 1..n
        BY <1>2, <1>3, <1>7
      <3> QED
        BY <3>1, <2>5, <2>6, FlattenOne, Zenon
    <2> QED
      BY <1>1, <1>4, <2>2, <2>3, <2>4, <2>7
  <1>8. CASE n # 0 /\ \A k \in 1..n : s[k] = <<>>
    <2>1. PICK v, k : v = <<>> /\ k = 1
      OBVIOUS
    <2>2. <<>> \o v = v /\ v \o <<>> = v
      BY <2>1
    <2>3. \A i \in 1..n : s[i] = IF i = k THEN v ELSE <<>>
      BY <1>8, <2>1
    <2>4. n \in Nat /\ n > 0 /\ DOMAIN s = 1..n /\ Len(s) = n /\ k \in 1..n
      BY <1>2, <1>3, <1>8, <2>1
    <2>5. FlattenSeq(s) = v
      BY <2>2, <2>3, <2>4, FlattenOne, Zenon
    <2> QED
      BY <1>4, <2>1, <2>5
  <1> QED
    BY <1>6, <1>7, <1>8

\* What is in a sequence with another one behind it.
LEMMA ConcatFacts ==
    ASSUME NEW S, NEW s \in Seq(S), NEW x \in S, NEW t, t = <<>> \/ t = <<x>>
    PROVE  /\ s \o t \in Seq(S)
           /\ t = <<>> => s \o t = s
           /\ t # <<>> => /\ Len(s \o t) = Len(s) + 1 /\ (s \o t)[Len(s) + 1] = x
                          /\ \A i \in 1..Len(s) : (s \o t)[i] = s[i]
  <1>1. CASE t = <<>>
    <2>1. s \o t = s
      BY <1>1
    <2> QED
      BY <1>1, <2>1
  <1>2. CASE t = <<x>>
    <2>1. s \o t = Append(s, x)
      BY <1>2
    <2>2. t # <<>>
      BY <1>2
    <2> QED
      BY <2>1, <2>2, AppendProperties
  <1> QED
    BY <1>1, <1>2

\* All pending broadcasts are received: the photo that was loaded is cropped.
LEMMA ReceiveAllIInv == ASSUME IInv, ReceiveAll PROVE IInv'
  <1>1. PICK new : new = FlattenSeq([i \in DOMAIN casts |-> Starts(casts[i])])
    OBVIOUS
  <1>2. /\ queue # <<>> /\ queue[1].what = "BROADCASTS" /\ queue' = Tail(queue) /\ casts' = <<>>
        /\ opened' = opened \o new
        /\ stack' = stack \o [i \in DOMAIN new |-> [what |-> "crop", born |-> deaths]]
        /\ registered' = IF LoadedOnItsWay THEN 0 ELSE registered
        /\ dialog' \in BOOLEAN /\ fault' \in {fault, "bad_token"}
        /\ UNCHANGED <<home, picks, given, fileUri, loader, lost, overtaken, deaths>>
        /\ UNCHANGED <<loads, executor, tpc, task, eng, trouble>>
    BY <1>1, TailFacts DEF ReceiveAll, Handles, IInv, workVars
  <1>3. \/ new = <<>>
        \/ \E i \in 1..Len(casts) : casts[i].what = "LOADED" /\ new = <<casts[i].load>>
    BY <1>1, NewOpened
  <1>4. \/ new = <<>>
        \/ \E l \in 1..Len(loads) :
              /\ new = <<l>> /\ LoadedOnItsWay /\ DataReady
              /\ \A j \in 1..Len(opened) : opened[j] < l
              /\ loader # 0 /\ Flying(loader) => l < loader
    <2>1. ASSUME NEW i \in 1..Len(casts), casts[i].what = "LOADED", new = <<casts[i].load>>
          PROVE  \E l \in 1..Len(loads) :
                    /\ new = <<l>> /\ LoadedOnItsWay /\ DataReady
                    /\ \A j \in 1..Len(opened) : opened[j] < l
                    /\ loader # 0 /\ Flying(loader) => l < loader
      <3>1. casts[i].load \in 1..Len(loads)
        BY <2>1, MessageFacts DEF IInv
      <3>2. i \in DOMAIN casts
        BY TypeParts DEF IInv, MainTypes
      <3> QED
        BY <2>1, <3>1, <3>2 DEF IInv, Ascending, LoadedOnItsWay, CheckedFirst
    <2> QED
      BY <1>3, <2>1
  <1>5. opened \in Seq(1..Len(loads)) /\ Len(loads) \in Nat /\ Len(opened) \in Nat
    BY TypeParts, MessageFacts DEF IInv, BookTypes
  <1>6. /\ opened' \in Seq(1..Len(loads))
        /\ \/ opened' = opened
           \/ \E l \in 1..Len(loads) :
                 /\ Len(opened') = Len(opened) + 1 /\ opened'[Len(opened) + 1] = l
                 /\ \A i \in 1..Len(opened) : opened'[i] = opened[i]
                 /\ LoadedOnItsWay /\ DataReady
                 /\ \A j \in 1..Len(opened) : opened[j] < l
                 /\ loader # 0 /\ Flying(loader) => l < loader
    <2>1. CASE new = <<>>
      <3>1. opened \o new = opened
        BY <1>5, <2>1
      <3> QED
        BY <1>2, <1>5, <3>1
    <2>2. ASSUME NEW l \in 1..Len(loads), new = <<l>>, LoadedOnItsWay, DataReady,
                 \A j \in 1..Len(opened) : opened[j] < l,
                 loader # 0 /\ Flying(loader) => l < loader
          PROVE  <1>6!1 /\ <1>6!2
      <3>1. PICK S, s : S = 1..Len(loads) /\ s = opened
        OBVIOUS
      <3>2. s \in Seq(S) /\ l \in S /\ new # <<>>
        BY <1>5, <2>2, <3>1
      <3>3. /\ s \o new \in Seq(S) /\ Len(s \o new) = Len(s) + 1 /\ (s \o new)[Len(s) + 1] = l
            /\ \A i \in 1..Len(s) : (s \o new)[i] = s[i]
        BY <2>2, <3>2, ConcatFacts
      <3>4. opened' = s \o new
        BY <1>2, <3>1
      <3> QED
        BY <2>2, <3>1, <3>3, <3>4
    <2> QED
      BY <1>4, <2>1, <2>2
  <1>7. /\ stack' \in Seq(Screens)
        /\ \A i \in 1..Len(stack') :
              stack'[i].what = "crop" \/ (i \in 1..Len(stack) /\ stack'[i] = stack[i])
    <2>1. PICK t, x : t = [i \in DOMAIN new |-> [what |-> "crop", born |-> deaths]]
                      /\ x = [what |-> "crop", born |-> deaths]
      OBVIOUS
    <2>2. x \in Screens /\ x.what = "crop" /\ stack \in Seq(Screens)
      BY <2>1, TypeParts DEF IInv, Screens, UserTypes, BookTypes
    <2>3. t = <<>> \/ t = <<x>>
      <3>1. CASE new = <<>>
        <4>1. DOMAIN new = 1..0
          BY <3>1
        <4> QED
          BY <2>1, <4>1
      <3>2. ASSUME NEW l, new = <<l>> PROVE t = <<x>>
        <4>1. DOMAIN new = 1..1
          BY <3>2
        <4>2. t = [i \in 1..1 |-> x]
          BY <2>1, <4>1
        <4> QED
          BY <4>2
      <3> QED
        BY <1>4, <3>1, <3>2
    <2>4. PICK S, s : S = Screens /\ s = stack
      OBVIOUS
    <2>5. s \in Seq(S) /\ x \in S
      BY <2>2, <2>4
    <2>6. /\ s \o t \in Seq(S)
          /\ t = <<>> => s \o t = s
          /\ t # <<>> => /\ Len(s \o t) = Len(s) + 1 /\ (s \o t)[Len(s) + 1] = x
                         /\ \A i \in 1..Len(s) : (s \o t)[i] = s[i]
      BY <2>3, <2>5, ConcatFacts
    <2>7. stack' = s \o t
      BY <1>2, <2>1, <2>4
    <2>8. Len(s) \in Nat
      BY <2>5
    <2> QED
      BY <2>2, <2>4, <2>6, <2>7, <2>8
  <1>8. queue' \in Seq(Messages) /\ Pops
    BY <1>2, TailFacts DEF IInv, Pops
  <1>9. /\ OnePlace' /\ OthersCancelled' /\ Running' = Running
        /\ \A l : Flying(l)' => Flying(l)
    BY <1>2, <1>8, PopKeeps
  <1>10. TypeOK'
    <2>1. UserTypes' /\ DataTypes' /\ LoadTypes' /\ TaskTypes'
      BY <1>2, <1>7, TypeParts DEF IInv, UserTypes, DataTypes, LoadTypes, Load, TaskTypes
    <2>2. MainTypes'
      <3>1. Messages' = Messages /\ Casts' = Casts /\ casts' \in Seq(Casts)
        BY <1>2 DEF Messages, Casts
      <3>2. registered' \in 0..1
        BY <1>2, TypeParts DEF IInv, MainTypes
      <3> QED
        BY <1>8, <3>1, <3>2 DEF MainTypes
    <2>3. BookTypes'
      BY <1>2, <1>6, TypeParts DEF IInv, BookTypes
    <2>4. TypeOK' <=> UserTypes' /\ DataTypes' /\ LoadTypes' /\ MainTypes' /\ TaskTypes' /\ BookTypes'
      BY DEF TypeOK, UserTypes, DataTypes, Load, LoadTypes, MainTypes, TaskTypes, BookTypes
    <2> QED
      BY <2>1, <2>2, <2>3, <2>4
  <1>11. AskedFor'
    BY <1>2, <1>7 DEF IInv, AskedFor
  <1>12. Announced'
    BY <1>2 DEF Announced
  <1>13. \A i \in 1..Len(casts') : FALSE
    BY <1>2
  <1>14. ~LoadedOnItsWay'
    BY <1>2 DEF LoadedOnItsWay
  <1>15. Ascending'
    <2>1. \A i \in 1..Len(opened) : opened[i] \in 1..Len(loads)
      BY MessageFacts DEF IInv
    <2>2. ASSUME NEW i \in 1..Len(opened'), NEW j \in 1..Len(opened'), i < j
          PROVE  opened'[i] < opened'[j]
      <3>1. \A h, k \in 1..Len(opened) : h < k => opened[h] < opened[k]
        BY DEF IInv, Ascending
      <3>2. CASE opened' = opened
        BY <2>2, <3>1, <3>2
      <3>3. CASE opened' # opened
        <4>1. PICK l \in 1..Len(loads) :
                 /\ Len(opened') = Len(opened) + 1 /\ opened'[Len(opened) + 1] = l
                 /\ \A h \in 1..Len(opened) : opened'[h] = opened[h]
                 /\ \A h \in 1..Len(opened) : opened[h] < l
          BY <1>6, <3>3
        <4>2. i \in 1..Len(opened) /\ (j \in 1..Len(opened) \/ j = Len(opened) + 1)
          <5>1. Len(opened') = Len(opened) + 1
            BY <4>1
          <5>2. i \in 1..(Len(opened) + 1) /\ j \in 1..(Len(opened) + 1)
            BY <5>1
          <5> QED
            BY <1>5, <2>2, <5>2
        <4> QED
          BY <2>2, <3>1, <4>1, <4>2
      <3> QED
        BY <3>2, <3>3
    <2>5. Flying(loader)' => Flying(loader)
      <3>1. PICK l : l = loader
        OBVIOUS
      <3>2. Flying(l)' => Flying(l)
        BY <1>9
      <3> QED
        BY <1>2, <3>1, <3>2
    <2>3. ASSUME loader # 0, Flying(loader)' PROVE \A j \in 1..Len(opened') : opened'[j] < loader
      <3>1. Flying(loader) /\ \A j \in 1..Len(opened) : opened[j] < loader
        BY <2>3, <2>5 DEF IInv, Ascending
      <3>2. CASE opened' = opened
        BY <3>1, <3>2
      <3>3. CASE opened' # opened
        <4>1. PICK l \in 1..Len(loads) :
                 /\ Len(opened') = Len(opened) + 1 /\ opened'[Len(opened) + 1] = l
                 /\ \A i \in 1..Len(opened) : opened'[i] = opened[i]
                 /\ loader # 0 /\ Flying(loader) => l < loader
          BY <1>6, <3>3
        <4>2. l < loader
          BY <2>3, <3>1, <4>1
        <4> QED
          BY <1>5, <3>1, <4>1, <4>2
      <3> QED
        BY <3>2, <3>3
    <2> QED
      BY <1>2, <1>13, <2>2, <2>3 DEF Ascending
  <1>16. Heard'
    BY <1>2, <1>9, <1>14 DEF IInv, Heard, LostHasReason
  <1>17. CheckedFirst'
    <2>1. ASSUME ~DataReady PROVE opened' = <<>>
      BY <1>6, <2>1 DEF IInv, CheckedFirst
    <2>2. ASSUME ~DataReady PROVE \A i \in 1..Len(queue') : ~Posted(i)'
      BY <1>8, <2>2 DEF IInv, CheckedFirst, Posted, Pops
    <2>3. ASSUME ~DataReady, tpc = "idle" PROVE executor # <<>> /\ executor[1] = 0
      BY <1>2, <2>3 DEF IInv, CheckedFirst
    <2> QED
      BY <1>2, <1>9, <1>13, <2>1, <2>2, <2>3 DEF IInv, CheckedFirst, DataReady
  <1> QED
    BY <1>9, <1>10, <1>11, <1>12, <1>15, <1>16, <1>17 DEF IInv

-----------------------------------------------------------------------------
(* The background thread's actions, and the death of the process.          *)

\* A task is taken: a load that was waiting runs, or is skipped.
LEMMA TakeTaskIInv == ASSUME IInv, TakeTask PROVE IInv'
  <1> USE DEF taskVars, viewVars, bookVars
  <1>1. PICK h : h = executor[1]
    OBVIOUS
  <1>2. /\ executor # <<>> /\ task' = h /\ executor' = Tail(executor) /\ tpc = "idle"
        /\ tpc' = CASE h = 0 -> "check" [] h # 0 /\ loads[h].cancelled -> "idle" [] OTHER -> "load"
        /\ UNCHANGED <<taskVars, viewVars, queue, casts, loads, eng, trouble, bookVars>>
    <2>1. executor \in Seq(0..Len(loads)) /\ executor # <<>>
      BY TypeParts DEF IInv, TaskTypes, TakeTask
    <2>2. Head(executor) = h
      BY <1>1, <2>1
    <2> QED
      BY <2>1, <2>2 DEF TakeTask, TaskAt
  <1>3. /\ executor' \in Seq(0..Len(loads)) /\ Len(executor) \in Nat /\ Len(executor) >= 1
        /\ h \in 0..Len(loads) /\ Len(executor') = Len(executor) - 1
        /\ \A i \in 1..Len(executor') : executor'[i] = executor[i + 1] /\ i + 1 \in 1..Len(executor)
    BY <1>1, <1>2, TypeParts DEF IInv, TaskTypes
  <1>4. /\ ~Running /\ tpc' \in {"idle", "check", "load"}
        /\ h = 0 => tpc' = "check"
        /\ Running' => h # 0 /\ task' # 0
    <2>1. CASE h = 0
      BY <1>2, <2>1 DEF Running
    <2>2. CASE h # 0 /\ loads[h].cancelled
      BY <1>2, <2>2 DEF Running
    <2>3. CASE h # 0 /\ ~loads[h].cancelled
      BY <1>2, <2>3 DEF Running
    <2> QED
      BY <2>1, <2>2, <2>3
  <1>5. \A i \in 1..Len(executor') :
           \E k \in 1..Len(executor) : k = i + 1 /\ k # 1 /\ executor'[i] = executor[k]
    BY <1>3
  <1>6. \A l : Flying(l)' => Flying(l)
    <2>1. ASSUME NEW l, NEW i \in 1..Len(executor'), executor'[i] = l PROVE Flying(l)
      BY <1>5, <2>1 DEF Flying
    <2>2. ASSUME NEW l, Running', task' = l PROVE Flying(l)
      <3>1. 1 \in 1..Len(executor) /\ executor[1] = l
        BY <1>1, <1>2, <1>3, <2>2
      <3> QED
        BY <3>1 DEF Flying
    <2>3. ASSUME NEW l, NEW i \in 1..Len(queue'), Posted(i)', queue'[i].load = l PROVE Flying(l)
      BY <1>2, <2>3 DEF Flying, Posted
    <2> QED
      BY <2>1, <2>2, <2>3 DEF Flying
  <1>7. TypeOK'
    BY <1>2, <1>3, <1>4 DEF IInv, TypeOK, Messages, Casts
  <1>8. AskedFor'
    BY <1>2 DEF IInv, AskedFor
  <1>9. OnePlace'
    <2>1. ASSUME NEW i \in 1..Len(executor'), NEW j \in 1..Len(executor'),
                 executor'[i] = executor'[j], executor'[i] # 0
          PROVE  i = j
      BY <1>5, <2>1 DEF IInv, OnePlace
    <2>2. ASSUME NEW i \in 1..Len(queue'), NEW j \in 1..Len(executor'), Posted(i)'
          PROVE  queue'[i].load # executor'[j]
      BY <1>2, <1>5, <2>2 DEF IInv, OnePlace, Posted
    <2>3. ASSUME Running'
          PROVE  /\ task' # 0
                 /\ \A j \in 1..Len(executor') : executor'[j] # task'
                 /\ \A i \in 1..Len(queue') : Posted(i)' => queue'[i].load # task'
      <3>1. 1 \in 1..Len(executor) /\ task' = executor[1] /\ executor[1] # 0
        BY <1>1, <1>2, <1>3, <1>4, <2>3
      <3>2. \A j \in 1..Len(executor') : executor'[j] # task'
        BY <1>5, <3>1 DEF IInv, OnePlace
      <3>3. \A i \in 1..Len(queue') : Posted(i)' => queue'[i].load # task'
        BY <1>2, <3>1 DEF IInv, OnePlace, Posted
      <3> QED
        BY <3>1, <3>2, <3>3
    <2> QED
      BY <1>2, <2>1, <2>2, <2>3 DEF IInv, OnePlace, Posted
  <1>10. OthersCancelled'
    BY <1>2, <1>6 DEF IInv, OthersCancelled
  <1>11. Announced'
    BY <1>2 DEF IInv, Announced, Posted
  <1>12. Ascending'
    BY <1>2, <1>6 DEF IInv, Ascending
  <1>13. Heard'
    BY <1>2, <1>6 DEF IInv, Heard, LoadedOnItsWay, LostHasReason
  <1>14. CheckedFirst'
    <2>1. ~trouble => eng # "partial" /\ tpc' # "copy"
      BY <1>2, <1>4 DEF IInv, CheckedFirst
    <2>2. ASSUME ~DataReady PROVE tpc' = "check"
      BY <1>1, <1>2, <1>4, <2>2 DEF IInv, CheckedFirst
    <2> QED
      BY <1>2, <2>1, <2>2 DEF IInv, CheckedFirst, DataReady, Running, Posted
  <1> QED
    BY <1>7, <1>8, <1>9, <1>10, <1>11, <1>12, <1>13, <1>14 DEF IInv

\* The data check and the copy do not touch the loads.
LEMMA DataIInv == ASSUME IInv, CheckFile \/ CopyFiles PROVE IInv'
  <1> USE DEF taskVars, viewVars, bookVars
  <1>1. /\ tpc \in {"check", "copy"} /\ tpc' \in {"idle", "copy"} /\ ~Running /\ ~Running'
        /\ eng' \in {eng, "partial", "whole"} /\ trouble' \in {trouble, TRUE}
        /\ UNCHANGED <<taskVars, viewVars, queue, casts, loads, executor, task, bookVars>>
    BY DEF CheckFile, CopyFiles, TaskAt, Running
  <1>2. TypeOK'
    BY <1>1 DEF IInv, TypeOK, Messages, Casts
  <1>3. \A l : Flying(l)' => Flying(l)
    BY <1>1 DEF Flying, Posted
  <1>4. AskedFor' /\ OnePlace' /\ OthersCancelled' /\ Announced'
    BY <1>1, <1>3 DEF IInv, AskedFor, OnePlace, OthersCancelled, Announced, Posted
  <1>5. Ascending' /\ Heard'
    BY <1>1, <1>3 DEF IInv, Ascending, Heard, LoadedOnItsWay, LostHasReason
  <1>6. CheckedFirst'
    <2>1. CASE CheckFile /\ eng # "absent"
      <3>1. tpc = "check" /\ tpc' = "idle" /\ eng' = eng /\ trouble' = trouble
        BY <2>1 DEF CheckFile, TaskAt
      <3>2. DataReady /\ (~trouble => eng = "whole")
        BY <2>1, <3>1, TypeParts DEF IInv, CheckedFirst, DataReady, DataTypes
      <3> QED
        BY <3>1, <3>2 DEF CheckedFirst, DataReady
    <2>2. CASE CheckFile /\ eng = "absent" /\ tpc' = "copy"
      <3>1. tpc = "check" /\ eng' = "partial" /\ trouble' = trouble
        BY <2>2 DEF CheckFile, TaskAt
      <3>2. DataReady' => DataReady
        BY <3>1 DEF DataReady
      <3> QED
        BY <1>1, <2>2, <3>1, <3>2 DEF IInv, CheckedFirst, DataReady, Posted
    <2>3. CASE CheckFile /\ eng = "absent" /\ tpc' # "copy"
      BY <2>3 DEF CheckFile, TaskAt, CheckedFirst, DataReady
    <2>4. CASE CopyFiles
      BY <2>4 DEF CopyFiles, TaskAt, CheckedFirst, DataReady
    <2> QED
      BY <2>1, <2>2, <2>3, <2>4
  <1> QED
    BY <1>2, <1>4, <1>5, <1>6 DEF IInv

\* A load ends: its result is posted behind the messages that are there.
LEMMA LoadImageIInv == ASSUME IInv, LoadImage PROVE IInv'
  <1> USE DEF taskVars, viewVars, bookVars
  <1>1. PICK got \in BOOLEAN : queue' = Append(queue, [what |-> "POST", load |-> task, got |-> got])
    BY DEF LoadImage
  <1> DEFINE m == [what |-> "POST", load |-> task, got |-> got]
  <1>2. /\ tpc = "load" /\ tpc' = "idle" /\ Running /\ ~Running' /\ DataReady
        /\ UNCHANGED <<taskVars, viewVars, casts, loads, executor, task, eng, trouble, bookVars>>
    BY DEF LoadImage, TaskAt, Running, IInv, CheckedFirst
  <1>3. /\ task \in 1..Len(loads)
        /\ \A j \in 1..Len(executor) : executor[j] # task
        /\ \A i \in 1..Len(queue) : Posted(i) => queue[i].load # task
    BY <1>2, TypeParts, MessageFacts DEF IInv, OnePlace, TaskTypes
  <1>4. m \in Messages /\ m.what = "POST" /\ m.load = task /\ queue' = Append(queue, m)
    BY <1>1, <1>3 DEF Messages
  <1> HIDE DEF m
  <1>5. /\ queue' \in Seq(Messages) /\ Len(queue) \in Nat /\ Len(queue') = Len(queue) + 1
        /\ queue'[Len(queue) + 1] = m
        /\ \A i \in 1..Len(queue) : queue'[i] = queue[i]
    <2>1. queue \in Seq(Messages)
      BY TypeParts DEF IInv, MainTypes
    <2> QED
      BY <1>4, <2>1, AppendProperties
  <1>6. PICK n : n = Len(queue) + 1
    OBVIOUS
  <1>7. /\ n \in 1..Len(queue') /\ queue'[n].load = task
        /\ \A i \in 1..Len(queue') : i = n \/ (i \in 1..Len(queue) /\ queue'[i] = queue[i])
    BY <1>4, <1>5, <1>6
  <1>8. \A l : Flying(l)' => Flying(l)
    BY <1>2, <1>7 DEF Flying, Posted
  <1>9. TypeOK'
    BY <1>2, <1>5 DEF IInv, TypeOK, Messages, Casts
  <1>10. AskedFor' /\ OthersCancelled'
    BY <1>2, <1>8 DEF IInv, AskedFor, OthersCancelled
  <1>11. OnePlace'
    <2>1. ASSUME NEW i \in 1..Len(queue'), NEW j \in 1..Len(queue'), Posted(i)', Posted(j)',
                 queue'[i].load = queue'[j].load
          PROVE  i = j
      BY <1>3, <1>7, <2>1 DEF IInv, OnePlace, Posted
    <2>2. ASSUME NEW i \in 1..Len(queue'), NEW j \in 1..Len(executor'), Posted(i)'
          PROVE  queue'[i].load # executor'[j]
      BY <1>2, <1>3, <1>7, <2>2 DEF IInv, OnePlace, Posted
    <2> QED
      BY <1>2, <2>1, <2>2 DEF IInv, OnePlace
  <1>12. Announced'
    <2>1. ASSUME casts # <<>>
          PROVE  \E i \in 1..Len(queue') :
                    /\ queue'[i].what = "BROADCASTS"
                    /\ \A j \in 1..(i - 1) : Posted(j)' => loads'[queue'[j].load].cancelled
      <3>1. PICK i \in 1..Len(queue) :
                /\ queue[i].what = "BROADCASTS"
                /\ \A j \in 1..(i - 1) : Posted(j) => loads[queue[j].load].cancelled
        BY <2>1 DEF IInv, Announced
      <3>2. \A j \in 1..(i - 1) : j \in 1..Len(queue) /\ queue'[j] = queue[j]
        BY <1>5
      <3>3. i \in 1..Len(queue') /\ queue'[i] = queue[i]
        BY <1>5
      <3> QED
        BY <1>2, <3>1, <3>2, <3>3 DEF Posted
    <2> QED
      BY <1>2, <2>1 DEF Announced
  <1>13. Ascending'
    BY <1>2, <1>8 DEF IInv, Ascending
  <1>14. Heard'
    BY <1>2, <1>8 DEF IInv, Heard, LoadedOnItsWay, LostHasReason
  <1>15. CheckedFirst'
    BY <1>2 DEF IInv, CheckedFirst, DataReady
  <1> QED
    BY <1>9, <1>10, <1>11, <1>12, <1>13, <1>14, <1>15 DEF IInv

\* The process dies, and with it what was on its way.
LEMMA DieIInv == ASSUME IInv, Die PROVE IInv'
  <1> USE DEF taskVars
  <1>1. /\ deaths < MaxDeaths /\ deaths' = deaths + 1
        /\ fileUri' = 0 /\ loader' = 0 /\ registered' = 0 /\ dialog' = FALSE
        /\ queue' \in {<<[what |-> "RESUME"]>>, <<>>}
        /\ casts' = <<>> /\ executor' = <<>> /\ tpc' = "idle" /\ task' = 0
        /\ trouble' = (trouble \/ eng # "whole")
        /\ UNCHANGED <<home, stack, picks, given, loads, eng, opened, lost, overtaken, fault>>
    BY DEF Die
  <1>2. queue' \in Seq(Messages) /\ \A i \in 1..Len(queue') : ~Posted(i)'
    <2>1. PICK m : m = [what |-> "RESUME"]
      OBVIOUS
    <2>2. m \in Messages /\ m.what = "RESUME"
      BY <2>1 DEF Messages
    <2>3. queue' = <<m>> \/ queue' = <<>>
      BY <1>1, <2>1
    <2>4. CASE queue' = <<m>>
      <3>1. Len(queue') = 1 /\ queue'[1] = m /\ m.what # "POST"
        BY <2>2, <2>4
      <3> QED
        BY <2>2, <2>4, <3>1 DEF Posted
    <2>5. CASE queue' = <<>>
      BY <2>5 DEF Posted
    <2> QED
      BY <2>3, <2>4, <2>5
  <1>3. /\ \A i \in 1..Len(executor') : FALSE
        /\ \A i \in 1..Len(casts') : FALSE
        /\ ~Running' /\ ~LoadedOnItsWay'
    BY <1>1 DEF Running, LoadedOnItsWay
  <1>4. \A l : ~Flying(l)'
    BY <1>2, <1>3 DEF Flying
  <1>5. TypeOK'
    <2>1. deaths' \in 0..MaxDeaths
      BY <1>1, TypeParts, BoundsAssumption DEF IInv, BookTypes
    <2>2. Messages' = Messages /\ Casts' = Casts /\ Load' = Load
      BY <1>1 DEF Messages, Casts, Load
    <2>3. UserTypes' /\ DataTypes' /\ LoadTypes'
      <3>1. UserTypes'
        BY <1>1, TypeParts, BoundsAssumption DEF IInv, UserTypes
      <3>2. DataTypes'
        BY <1>1, TypeParts DEF IInv, DataTypes
      <3>3. loads \in Seq(Load) /\ Len(loads) \in Nat
        BY TypeParts, MessageFacts DEF IInv, LoadTypes
      <3>4. LoadTypes'
        BY <1>1, <2>2, <3>3 DEF LoadTypes
      <3> QED
        BY <3>1, <3>2, <3>4
    <2>4. MainTypes' /\ TaskTypes' /\ BookTypes'
      <3>1. casts' \in Seq(Casts) /\ executor' \in Seq(0..Len(loads)) /\ Len(loads) \in Nat
        BY <1>1, MessageFacts DEF IInv
      <3> QED
        BY <1>1, <1>2, <2>1, <2>2, <3>1, TypeParts DEF IInv, MainTypes, TaskTypes, BookTypes
    <2>5. TypeOK' <=> UserTypes' /\ DataTypes' /\ LoadTypes' /\ MainTypes' /\ TaskTypes' /\ BookTypes'
      BY DEF TypeOK, UserTypes, DataTypes, Load, LoadTypes, MainTypes, TaskTypes, BookTypes
    <2> QED
      BY <2>3, <2>4, <2>5
  <1>6. AskedFor' /\ OnePlace'
    BY <1>1, <1>2, <1>3 DEF IInv, AskedFor, OnePlace
  <1>7. OthersCancelled' /\ Announced'
    BY <1>1, <1>4 DEF OthersCancelled, Announced
  <1>8. Ascending' /\ Heard'
    BY <1>1, <1>3, <1>4 DEF IInv, Ascending, Heard, LostHasReason
  <1>9. CheckedFirst'
    BY <1>1 DEF CheckedFirst, DataReady
  <1> QED
    BY <1>5, <1>6, <1>7, <1>8, <1>9 DEF IInv

-----------------------------------------------------------------------------
(* The theorems.                                                           *)

LEMMA InitIInv == ASSUME Init PROVE IInv
  <1>1. /\ stack = <<>> /\ queue = <<[what |-> "RESUME"]>> /\ casts = <<>> /\ loads = <<>>
        /\ executor = <<>> /\ opened = <<>> /\ lost = {} /\ overtaken = {}
        /\ picks = 0 /\ given = {} /\ fileUri = 0 /\ loader = 0 /\ registered = 0
        /\ tpc = "idle" /\ task = 0 /\ eng = "absent" /\ trouble = FALSE /\ dialog = FALSE
        /\ deaths = 0 /\ fault = "none" /\ home = "shown"
    BY DEF Init
  <1>2. /\ queue \in Seq(Messages) /\ queue[1].what = "RESUME" /\ queue # <<>>
        /\ \A i \in 1..Len(queue) : ~Posted(i)
    <2>1. [what |-> "RESUME"] \in Messages
      BY DEF Messages
    <2> QED
      BY <1>1, <2>1 DEF Posted
  <1>3. TypeOK
    <2>1. UserTypes /\ DataTypes /\ LoadTypes /\ BookTypes
      <3>1. UserTypes
        BY <1>1, BoundsAssumption DEF UserTypes
      <3>2. DataTypes
        BY <1>1 DEF DataTypes
      <3>3. LoadTypes
        BY <1>1 DEF LoadTypes
      <3>4. BookTypes
        BY <1>1, BoundsAssumption DEF BookTypes
      <3> QED
        BY <3>1, <3>2, <3>3, <3>4
    <2>2. MainTypes /\ TaskTypes
      BY <1>1, <1>2 DEF MainTypes, TaskTypes
    <2> QED
      BY <2>1, <2>2, TypeParts
  <1>4. \A l : ~Flying(l)
    BY <1>1, <1>2 DEF Flying, Running
  <1>5. AskedFor /\ OnePlace /\ OthersCancelled /\ Announced /\ Ascending
    BY <1>1, <1>2, <1>4 DEF AskedFor, OnePlace, OthersCancelled, Announced, Ascending, Running
  <1>6. Heard /\ CheckedFirst
    BY <1>1, <1>2, <1>4 DEF Heard, LostHasReason, CheckedFirst, DataReady, Running
  <1> QED
    BY <1>3, <1>5, <1>6 DEF IInv

LEMMA NextIInv == ASSUME IInv, [Next]_vars PROVE IInv'
  <1>1. CASE User
    BY <1>1, OpenIInv, AnswerIInv, LeaveCropIInv, StillIInv DEF User
  <1>2. CASE Main
    BY <1>2, HandleResumeIInv, HandleReturnIInv, HandleCancelledIInv, HandleLoadedIInv,
       ReceiveAllIInv DEF Main
  <1>3. CASE Task
    BY <1>3, TakeTaskIInv, DataIInv, LoadImageIInv DEF Task
  <1>4. CASE Die
    BY <1>4, DieIInv
  <1>5. CASE Rest \/ UNCHANGED vars
    BY <1>5, StillIInv DEF Rest
  <1> QED
    BY <1>1, <1>2, <1>3, <1>4, <1>5 DEF Next

\* The parts of the inductive invariant hold in every state that HomeActivity can be in,
\* however many photos are chosen and however often the process dies.
THEOREM Invariance == Spec => []IInv
  <1>1. Init => IInv
    BY InitIInv
  <1>2. IInv /\ [Next]_vars => IInv'
    BY NextIInv
  <1> QED
    BY <1>1, <1>2, PTL DEF Spec

\* No photo is cropped twice, and photos are cropped in the order in which they were
\* chosen (HomeActivity.java:383-414).
THEOREM PhotosInOrder == Spec => []OneCropPerLoad
  <1>1. IInv => OneCropPerLoad
    <2> SUFFICES ASSUME IInv PROVE OneCropPerLoad
      OBVIOUS
    <2>1. TypeOK /\ DOMAIN opened = 1..Len(opened)
      BY TypeParts DEF IInv, BookTypes
    <2> QED
      BY <2>1 DEF IInv, Ascending, OneCropPerLoad
  <1> QED
    BY <1>1, Invariance, PTL

\* A loaded photo is lost only if the user chose another one, or if it began while the
\* broadcast of an earlier one was on its way (HomeActivity.java:413).
THEOREM NoPhotoLost == Spec => []LostHasReason
  <1>1. IInv => LostHasReason
    BY DEF IInv, Heard
  <1> QED
    BY <1>1, Invariance, PTL

\* The English data is there when the first crop screen comes up, or copying it failed
\* (HomeActivity.java:113, CheckDataTrainingProcess.java:46-59).
THEOREM DataComesFirst == Spec => []DataBeforeCrop
  <1>1. IInv => DataBeforeCrop
    BY DEF IInv, CheckedFirst, DataReady, DataBeforeCrop
  <1> QED
    BY <1>1, Invariance, PTL
=============================================================================
