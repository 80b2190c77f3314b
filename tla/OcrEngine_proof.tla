--------------------------- MODULE OcrEngine_proof ---------------------------
(***************************************************************************)
(* The inductive invariant of OcrEngine, for every number of text blocks   *)
(* and words, and the proof that every step keeps it; the properties that  *)
(* follow from it, and that every behaviour is a behaviour of OcrJob.      *)
(***************************************************************************)
EXTENDS OcrEngine, SequenceTheorems, TLAPS

-----------------------------------------------------------------------------
(* The inductive invariant, one named part per idea.                       *)

\* Who holds the monitor, and what the main thread has announced under it.
Monitor ==
    /\ lock = "worker" <=> wpc \in {"init", "setimage", "utf8"}
    /\ lock = "ui" <=> upc \in {"reset", "unref", "flag", "mark"}
    /\ attached <=> upc \in {"alive", "destroying"}
    /\ stopped <=> upc \in {"recycle", "reap", "gone"}
    /\ wpc \in {"init", "setimage", "utf8"} => attached

\* FINAL_IMAGE is the first message if there is one, so it is handled once.
Queue ==
    /\ wpc \in {"idle", "book", "final"} => sent = <<>>
    /\ \A i \in 1..Len(sent) : sent[i] = "FINAL_IMAGE" => i = 1
    /\ finalPix # "none" => handled >= 1
    /\ Posted("HOCR_TEXT") =>
          wpc \in {"utf8", "finally", "reap", "end", "throw", "done"} /\ ~aborted /\ rect = Rects
    /\ wpc = "utf8" => Len(sent) >= 1 /\ sent[Len(sent)] = "HOCR_TEXT"

\* Which block the loop is at.
Blocks ==
    /\ wpc \in {"idle", "book", "final", "enter", "init", "setimage", "mean"} => rect = 0
    /\ wpc \in {"rect", "begin", "bind", "newref", "recog", "call", "post", "poll",
                "reset", "unref", "check"} => rect < Rects
    /\ wpc \in {"recog", "call", "post", "poll"} => word < Words
    /\ wpc \in {"publish", "utf8"} => rect = Rects

\* The count covers every handle still held; it is exact until the activity
\* drops its own.
Count ==
    /\ wpc \in {"idle", "book"} =>
          textRefs = 0 /\ textFrees = 0 /\ ~natPix /\ finalPix = "none"
    /\ wpc \notin {"idle", "book"} /\ finalPix # "nulled" =>
          textRefs = IF natPix THEN 2 ELSE 1
    /\ natPix => textRefs >= 1
    /\ textFrees > 0 => textRefs <= 0
    /\ natPix => wpc \in (Reading \ {"setimage"}) \cup {"finally"}
    /\ wpc \in Reading \ {"setimage"} => natPix
    /\ wpc \in Reading => tess = "live"
    /\ finalPix = "nulled" => upc \in {"reap", "gone"}
    /\ upc = "recycle" => finalPix = "live"
    /\ upc = "reap" => finalPix = "nulled"
    /\ natPix => tess = "live"

\* Only a stop() raises the flag, so a recognition is cut short only after one.
Cancelling ==
    /\ cancelFlag => upc \in {"mark", "recycle", "reap", "gone"}
    /\ aborted => upc \in {"mark", "recycle", "reap", "gone"}

\* The JNI state is set up and torn down by the worker alone until stop() runs.
Binding ==
    /\ envSet => wpc \in {"newref", "recog", "call", "post", "poll", "reset", "unref"}
    /\ upc \in {"alive", "destroying"} =>
          /\ envSet <=> wpc \in {"newref", "recog", "call", "post", "poll", "reset", "unref"}
          /\ ref = "live" <=> wpc \in {"recog", "call", "post", "poll", "reset", "unref"}
          /\ liveRefs = IF wpc \in {"recog", "call", "post", "poll", "reset", "unref"} THEN 1 ELSE 0

\* What holds once END has been posted.
Ended ==
    Posted("END") =>
        /\ wpc \in {"throw", "done"} /\ upc # "unref" /\ liveRefs = 0
        /\ fault \in {"none", "uncaught"}
        /\ upc = "reap" => textFrees = 0
        /\ finalPix = "nulled" => textRefs = 0
        /\ finalPix = "nulled" /\ upc = "gone" => textFrees = 1

NoUseAfterFree == fault # "use_after_free"

IInv ==
    /\ TypeOK /\ Monitor /\ Queue /\ Blocks /\ Count /\ Cancelling /\ Binding /\ Ended
    /\ NoUseAfterFree

-----------------------------------------------------------------------------
\* The freshly created screen satisfies it.
LEMMA InitIInv == Init => IInv
  <1> SUFFICES ASSUME Init PROVE IInv
    OBVIOUS
  <1> USE SizesAssumption DEF Init, Posted
  <1>1. TypeOK
    <2>1. PointsOK
      BY DEF PointsOK, WorkerPoints, UiPoints, Faults
    <2>2. FlagsOK
      BY DEF FlagsOK
    <2>3. CountsOK
      BY DEF CountsOK
    <2>4. QueueOK
      BY DEF QueueOK
    <2> QED
      BY <2>1, <2>2, <2>3, <2>4 DEF TypeOK
  <1>2. Monitor /\ Blocks
    BY DEF Monitor, Blocks
  <1>3. Count
    BY DEF Count, Reading
  <1>4. Queue /\ Ended
    BY DEF Queue, Ended
  <1>5. Cancelling /\ Binding /\ NoUseAfterFree
    BY DEF Cancelling, Binding, NoUseAfterFree
  <1> QED
    BY <1>1, <1>2, <1>3, <1>4, <1>5 DEF IInv

\* Start keeps the inductive invariant.
LEMMA StartIInv == IInv /\ Start => IInv'
  <1> SUFFICES ASSUME IInv, Start PROVE IInv'
    OBVIOUS
  <1> USE SizesAssumption DEF Start, At, UiAt, Live, IInv, Reading,
          javaVars, natVars, pixVars, workVars, uiVars
  <1>1. TypeOK'
    <2>1. PointsOK'
      BY DEF TypeOK, PointsOK, WorkerPoints, UiPoints, Faults, DeleteRef, ReapText
    <2>2. FlagsOK'
      BY DEF TypeOK, FlagsOK
    <2>3. CountsOK'
      BY DEF TypeOK, CountsOK, Blocks, DeleteRef, ReapText
    <2>4. QueueOK'
      BY DEF TypeOK, QueueOK
    <2> QED
      BY <2>1, <2>2, <2>3, <2>4 DEF TypeOK
  <1>2. Monitor'
    BY DEF TypeOK, PointsOK, FlagsOK, CountsOK, QueueOK, Monitor
  <1>3. Queue'
    BY DEF TypeOK, PointsOK, FlagsOK, CountsOK, QueueOK, Queue, Posted, Monitor, Blocks, Cancelling, Count
  <1>4. Blocks'
    BY DEF TypeOK, PointsOK, FlagsOK, CountsOK, QueueOK, Blocks
  <1>5. Count'
    BY DEF TypeOK, PointsOK, FlagsOK, CountsOK, QueueOK, Count, ReapText, Monitor, Queue
  <1>6. Cancelling' /\ Binding'
    BY DEF TypeOK, PointsOK, FlagsOK, CountsOK, QueueOK, Cancelling, Binding, DeleteRef, Monitor
  <1>7. Ended'
    BY DEF TypeOK, PointsOK, FlagsOK, CountsOK, QueueOK, Ended, Posted, DeleteRef, ReapText, Binding, Count, Monitor, Queue
  <1>8. NoUseAfterFree'
    BY DEF TypeOK, PointsOK, FlagsOK, CountsOK, QueueOK, NoUseAfterFree, DeleteRef, ReapText, Count, Monitor
  <1> QED
    BY <1>1, <1>2, <1>3, <1>4, <1>5, <1>6, <1>7, <1>8

\* Book keeps the inductive invariant.
LEMMA BookIInv == IInv /\ Book => IInv'
  <1> SUFFICES ASSUME IInv, Book PROVE IInv'
    OBVIOUS
  <1> USE SizesAssumption DEF Book, At, UiAt, Live, IInv, Reading,
          javaVars, natVars, pixVars, workVars, uiVars
  <1>1. TypeOK'
    <2>1. PointsOK'
      BY DEF TypeOK, PointsOK, WorkerPoints, UiPoints, Faults, DeleteRef, ReapText
    <2>2. FlagsOK'
      BY DEF TypeOK, FlagsOK
    <2>3. CountsOK'
      BY DEF TypeOK, CountsOK, Blocks, DeleteRef, ReapText
    <2>4. QueueOK'
      BY DEF TypeOK, QueueOK
    <2> QED
      BY <2>1, <2>2, <2>3, <2>4 DEF TypeOK
  <1>2. Monitor'
    BY DEF TypeOK, PointsOK, FlagsOK, CountsOK, QueueOK, Monitor
  <1>3. Queue'
    BY DEF TypeOK, PointsOK, FlagsOK, CountsOK, QueueOK, Queue, Posted, Monitor, Blocks, Cancelling, Count
  <1>4. Blocks'
    BY DEF TypeOK, PointsOK, FlagsOK, CountsOK, QueueOK, Blocks
  <1>5. Count'
    BY DEF TypeOK, PointsOK, FlagsOK, CountsOK, QueueOK, Count, ReapText, Monitor, Queue
  <1>6. Cancelling' /\ Binding'
    BY DEF TypeOK, PointsOK, FlagsOK, CountsOK, QueueOK, Cancelling, Binding, DeleteRef, Monitor
  <1>7. Ended'
    BY DEF TypeOK, PointsOK, FlagsOK, CountsOK, QueueOK, Ended, Posted, DeleteRef, ReapText, Binding, Count, Monitor, Queue
  <1>8. NoUseAfterFree'
    BY DEF TypeOK, PointsOK, FlagsOK, CountsOK, QueueOK, NoUseAfterFree, DeleteRef, ReapText, Count, Monitor
  <1> QED
    BY <1>1, <1>2, <1>3, <1>4, <1>5, <1>6, <1>7, <1>8

\* Enter keeps the inductive invariant.
LEMMA EnterIInv == IInv /\ Enter => IInv'
  <1> SUFFICES ASSUME IInv, Enter PROVE IInv'
    OBVIOUS
  <1> USE SizesAssumption DEF Enter, At, UiAt, Live, IInv, Reading,
          javaVars, natVars, pixVars, workVars, uiVars
  <1>1. TypeOK'
    <2>1. PointsOK'
      BY DEF TypeOK, PointsOK, WorkerPoints, UiPoints, Faults, DeleteRef, ReapText
    <2>2. FlagsOK'
      BY DEF TypeOK, FlagsOK
    <2>3. CountsOK'
      BY DEF TypeOK, CountsOK, Blocks, DeleteRef, ReapText
    <2>4. QueueOK'
      BY DEF TypeOK, QueueOK
    <2> QED
      BY <2>1, <2>2, <2>3, <2>4 DEF TypeOK
  <1>2. Monitor'
    <2>1. CASE stopped
      BY <2>1 DEF TypeOK, PointsOK, FlagsOK, CountsOK, QueueOK, UiPoints, Monitor
    <2>2. CASE ~stopped
      BY <2>2 DEF TypeOK, PointsOK, FlagsOK, CountsOK, QueueOK, UiPoints, Monitor
    <2> QED
      BY <2>1, <2>2
  <1>3. Queue'
    BY DEF TypeOK, PointsOK, FlagsOK, CountsOK, QueueOK, Queue, Posted, Monitor, Blocks, Cancelling, Count
  <1>4. Blocks'
    BY DEF TypeOK, PointsOK, FlagsOK, CountsOK, QueueOK, Blocks
  <1>5. Count'
    BY DEF TypeOK, PointsOK, FlagsOK, CountsOK, QueueOK, Count, ReapText, Monitor, Queue
  <1>6. Cancelling' /\ Binding'
    BY DEF TypeOK, PointsOK, FlagsOK, CountsOK, QueueOK, Cancelling, Binding, DeleteRef, Monitor
  <1>7. Ended'
    BY DEF TypeOK, PointsOK, FlagsOK, CountsOK, QueueOK, Ended, Posted, DeleteRef, ReapText, Binding, Count, Monitor, Queue
  <1>8. NoUseAfterFree'
    BY DEF TypeOK, PointsOK, FlagsOK, CountsOK, QueueOK, NoUseAfterFree, DeleteRef, ReapText, Count, Monitor
  <1> QED
    BY <1>1, <1>2, <1>3, <1>4, <1>5, <1>6, <1>7, <1>8

\* SetImage keeps the inductive invariant.
LEMMA SetImageIInv == IInv /\ SetImage => IInv'
  <1> SUFFICES ASSUME IInv, SetImage PROVE IInv'
    OBVIOUS
  <1> USE SizesAssumption DEF SetImage, At, UiAt, Live, IInv, Reading,
          javaVars, natVars, pixVars, workVars, uiVars
  <1>1. TypeOK'
    <2>1. PointsOK'
      BY DEF TypeOK, PointsOK, WorkerPoints, UiPoints, Faults, DeleteRef, ReapText
    <2>2. FlagsOK'
      BY DEF TypeOK, FlagsOK
    <2>3. CountsOK'
      BY DEF TypeOK, CountsOK, Blocks, DeleteRef, ReapText
    <2>4. QueueOK'
      BY DEF TypeOK, QueueOK
    <2> QED
      BY <2>1, <2>2, <2>3, <2>4 DEF TypeOK
  <1>2. Monitor'
    BY DEF TypeOK, PointsOK, FlagsOK, CountsOK, QueueOK, Monitor
  <1>3. Queue'
    BY DEF TypeOK, PointsOK, FlagsOK, CountsOK, QueueOK, Queue, Posted, Monitor, Blocks, Cancelling, Count
  <1>4. Blocks'
    BY DEF TypeOK, PointsOK, FlagsOK, CountsOK, QueueOK, Blocks
  <1>5. Count'
    BY DEF TypeOK, PointsOK, FlagsOK, CountsOK, QueueOK, Count, ReapText, Monitor, Queue
  <1>6. Cancelling' /\ Binding'
    BY DEF TypeOK, PointsOK, FlagsOK, CountsOK, QueueOK, Cancelling, Binding, DeleteRef, Monitor
  <1>7. Ended'
    BY DEF TypeOK, PointsOK, FlagsOK, CountsOK, QueueOK, Ended, Posted, DeleteRef, ReapText, Binding, Count, Monitor, Queue
  <1>8. NoUseAfterFree'
    BY DEF TypeOK, PointsOK, FlagsOK, CountsOK, QueueOK, NoUseAfterFree, DeleteRef, ReapText, Count, Monitor
  <1> QED
    BY <1>1, <1>2, <1>3, <1>4, <1>5, <1>6, <1>7, <1>8

\* MeanConfidence keeps the inductive invariant.
LEMMA MeanConfidenceIInv == IInv /\ MeanConfidence => IInv'
  <1> SUFFICES ASSUME IInv, MeanConfidence PROVE IInv'
    OBVIOUS
  <1> USE SizesAssumption DEF MeanConfidence, At, UiAt, Live, IInv, Reading,
          javaVars, natVars, pixVars, workVars, uiVars
  <1>1. TypeOK'
    <2>1. PointsOK'
      BY DEF TypeOK, PointsOK, WorkerPoints, UiPoints, Faults, DeleteRef, ReapText
    <2>2. FlagsOK'
      BY DEF TypeOK, FlagsOK
    <2>3. CountsOK'
      BY DEF TypeOK, CountsOK, Blocks, DeleteRef, ReapText
    <2>4. QueueOK'
      BY DEF TypeOK, QueueOK
    <2> QED
      BY <2>1, <2>2, <2>3, <2>4 DEF TypeOK
  <1>2. Monitor'
    BY DEF TypeOK, PointsOK, FlagsOK, CountsOK, QueueOK, Monitor
  <1>3. Queue'
    BY DEF TypeOK, PointsOK, FlagsOK, CountsOK, QueueOK, Queue, Posted, Monitor, Blocks, Cancelling, Count
  <1>4. Blocks'
    BY DEF TypeOK, PointsOK, FlagsOK, CountsOK, QueueOK, Blocks
  <1>5. Count'
    BY DEF TypeOK, PointsOK, FlagsOK, CountsOK, QueueOK, Count, ReapText, Monitor, Queue
  <1>6. Cancelling' /\ Binding'
    BY DEF TypeOK, PointsOK, FlagsOK, CountsOK, QueueOK, Cancelling, Binding, DeleteRef, Monitor
  <1>7. Ended'
    BY DEF TypeOK, PointsOK, FlagsOK, CountsOK, QueueOK, Ended, Posted, DeleteRef, ReapText, Binding, Count, Monitor, Queue
  <1>8. NoUseAfterFree'
    BY DEF TypeOK, PointsOK, FlagsOK, CountsOK, QueueOK, NoUseAfterFree, DeleteRef, ReapText, Count, Monitor
  <1> QED
    BY <1>1, <1>2, <1>3, <1>4, <1>5, <1>6, <1>7, <1>8

\* SetRectangle keeps the inductive invariant.
LEMMA SetRectangleIInv == IInv /\ SetRectangle => IInv'
  <1> SUFFICES ASSUME IInv, SetRectangle PROVE IInv'
    OBVIOUS
  <1> USE SizesAssumption DEF SetRectangle, At, UiAt, Live, IInv, Reading,
          javaVars, natVars, pixVars, workVars, uiVars
  <1>1. TypeOK'
    <2>1. PointsOK'
      BY DEF TypeOK, PointsOK, WorkerPoints, UiPoints, Faults, DeleteRef, ReapText
    <2>2. FlagsOK'
      BY DEF TypeOK, FlagsOK
    <2>3. CountsOK'
      BY DEF TypeOK, CountsOK, Blocks, DeleteRef, ReapText
    <2>4. QueueOK'
      BY DEF TypeOK, QueueOK
    <2> QED
      BY <2>1, <2>2, <2>3, <2>4 DEF TypeOK
  <1>2. Monitor'
    BY DEF TypeOK, PointsOK, FlagsOK, CountsOK, QueueOK, Monitor
  <1>3. Queue'
    BY DEF TypeOK, PointsOK, FlagsOK, CountsOK, QueueOK, Queue, Posted, Monitor, Blocks, Cancelling, Count
  <1>4. Blocks'
    BY DEF TypeOK, PointsOK, FlagsOK, CountsOK, QueueOK, Blocks
  <1>5. Count'
    BY DEF TypeOK, PointsOK, FlagsOK, CountsOK, QueueOK, Count, ReapText, Monitor, Queue
  <1>6. Cancelling' /\ Binding'
    BY DEF TypeOK, PointsOK, FlagsOK, CountsOK, QueueOK, Cancelling, Binding, DeleteRef, Monitor
  <1>7. Ended'
    BY DEF TypeOK, PointsOK, FlagsOK, CountsOK, QueueOK, Ended, Posted, DeleteRef, ReapText, Binding, Count, Monitor, Queue
  <1>8. NoUseAfterFree'
    BY DEF TypeOK, PointsOK, FlagsOK, CountsOK, QueueOK, NoUseAfterFree, DeleteRef, ReapText, Count, Monitor
  <1> QED
    BY <1>1, <1>2, <1>3, <1>4, <1>5, <1>6, <1>7, <1>8

\* BeginRecognition keeps the inductive invariant.
LEMMA BeginRecognitionIInv == IInv /\ BeginRecognition => IInv'
  <1> SUFFICES ASSUME IInv, BeginRecognition PROVE IInv'
    OBVIOUS
  <1> USE SizesAssumption DEF BeginRecognition, At, UiAt, Live, IInv, Reading,
          javaVars, natVars, pixVars, workVars, uiVars
  <1>1. TypeOK'
    <2>1. PointsOK'
      BY DEF TypeOK, PointsOK, WorkerPoints, UiPoints, Faults, DeleteRef, ReapText
    <2>2. FlagsOK'
      BY DEF TypeOK, FlagsOK
    <2>3. CountsOK'
      BY DEF TypeOK, CountsOK, Blocks, DeleteRef, ReapText
    <2>4. QueueOK'
      BY DEF TypeOK, QueueOK
    <2> QED
      BY <2>1, <2>2, <2>3, <2>4 DEF TypeOK
  <1>2. Monitor'
    BY DEF TypeOK, PointsOK, FlagsOK, CountsOK, QueueOK, Monitor
  <1>3. Queue'
    BY DEF TypeOK, PointsOK, FlagsOK, CountsOK, QueueOK, Queue, Posted, Monitor, Blocks, Cancelling, Count
  <1>4. Blocks'
    BY DEF TypeOK, PointsOK, FlagsOK, CountsOK, QueueOK, Blocks
  <1>5. Count'
    BY DEF TypeOK, PointsOK, FlagsOK, CountsOK, QueueOK, Count, ReapText, Monitor, Queue
  <1>6. Cancelling' /\ Binding'
    BY DEF TypeOK, PointsOK, FlagsOK, CountsOK, QueueOK, Cancelling, Binding, DeleteRef, Monitor
  <1>7. Ended'
    BY DEF TypeOK, PointsOK, FlagsOK, CountsOK, QueueOK, Ended, Posted, DeleteRef, ReapText, Binding, Count, Monitor, Queue
  <1>8. NoUseAfterFree'
    BY DEF TypeOK, PointsOK, FlagsOK, CountsOK, QueueOK, NoUseAfterFree, DeleteRef, ReapText, Count, Monitor
  <1> QED
    BY <1>1, <1>2, <1>3, <1>4, <1>5, <1>6, <1>7, <1>8

\* ReportWord keeps the inductive invariant.
LEMMA ReportWordIInv == IInv /\ ReportWord => IInv'
  <1> SUFFICES ASSUME IInv, ReportWord PROVE IInv'
    OBVIOUS
  <1> USE SizesAssumption DEF ReportWord, At, UiAt, Live, IInv, Reading,
          javaVars, natVars, pixVars, workVars, uiVars
  <1>1. TypeOK'
    <2>1. PointsOK'
      BY DEF TypeOK, PointsOK, WorkerPoints, UiPoints, Faults, DeleteRef, ReapText
    <2>2. FlagsOK'
      BY DEF TypeOK, FlagsOK
    <2>3. CountsOK'
      BY DEF TypeOK, CountsOK, Blocks, DeleteRef, ReapText
    <2>4. QueueOK'
      BY DEF TypeOK, QueueOK
    <2> QED
      BY <2>1, <2>2, <2>3, <2>4 DEF TypeOK
  <1>2. Monitor'
    BY DEF TypeOK, PointsOK, FlagsOK, CountsOK, QueueOK, Monitor
  <1>3. Queue'
    BY DEF TypeOK, PointsOK, FlagsOK, CountsOK, QueueOK, Queue, Posted, Monitor, Blocks, Cancelling, Count
  <1>4. Blocks'
    BY DEF TypeOK, PointsOK, FlagsOK, CountsOK, QueueOK, Blocks
  <1>5. Count'
    BY DEF TypeOK, PointsOK, FlagsOK, CountsOK, QueueOK, Count, ReapText, Monitor, Queue
  <1>6. Cancelling' /\ Binding'
    BY DEF TypeOK, PointsOK, FlagsOK, CountsOK, QueueOK, Cancelling, Binding, DeleteRef, Monitor
  <1>7. Ended'
    BY DEF TypeOK, PointsOK, FlagsOK, CountsOK, QueueOK, Ended, Posted, DeleteRef, ReapText, Binding, Count, Monitor, Queue
  <1>8. NoUseAfterFree'
    BY DEF TypeOK, PointsOK, FlagsOK, CountsOK, QueueOK, NoUseAfterFree, DeleteRef, ReapText, Count, Monitor
  <1> QED
    BY <1>1, <1>2, <1>3, <1>4, <1>5, <1>6, <1>7, <1>8

\* CallJava keeps the inductive invariant.
LEMMA CallJavaIInv == IInv /\ CallJava => IInv'
  <1> SUFFICES ASSUME IInv, CallJava PROVE IInv'
    OBVIOUS
  <1> USE SizesAssumption DEF CallJava, At, UiAt, Live, IInv, Reading,
          javaVars, natVars, pixVars, workVars, uiVars
  <1>1. TypeOK'
    <2>1. PointsOK'
      BY DEF TypeOK, PointsOK, WorkerPoints, UiPoints, Faults, DeleteRef, ReapText
    <2>2. FlagsOK'
      BY DEF TypeOK, FlagsOK
    <2>3. CountsOK'
      BY DEF TypeOK, CountsOK, Blocks, DeleteRef, ReapText
    <2>4. QueueOK'
      BY DEF TypeOK, QueueOK
    <2> QED
      BY <2>1, <2>2, <2>3, <2>4 DEF TypeOK
  <1>2. Monitor'
    BY DEF TypeOK, PointsOK, FlagsOK, CountsOK, QueueOK, Monitor
  <1>3. Queue'
    BY DEF TypeOK, PointsOK, FlagsOK, CountsOK, QueueOK, Queue, Posted, Monitor, Blocks, Cancelling, Count
  <1>4. Blocks'
    BY DEF TypeOK, PointsOK, FlagsOK, CountsOK, QueueOK, Blocks
  <1>5. Count'
    BY DEF TypeOK, PointsOK, FlagsOK, CountsOK, QueueOK, Count, ReapText, Monitor, Queue
  <1>6. Cancelling' /\ Binding'
    BY DEF TypeOK, PointsOK, FlagsOK, CountsOK, QueueOK, Cancelling, Binding, DeleteRef, Monitor
  <1>7. Ended'
    BY DEF TypeOK, PointsOK, FlagsOK, CountsOK, QueueOK, Ended, Posted, DeleteRef, ReapText, Binding, Count, Monitor, Queue
  <1>8. NoUseAfterFree'
    BY DEF TypeOK, PointsOK, FlagsOK, CountsOK, QueueOK, NoUseAfterFree, DeleteRef, ReapText, Count, Monitor
  <1> QED
    BY <1>1, <1>2, <1>3, <1>4, <1>5, <1>6, <1>7, <1>8

\* PostProgress keeps the inductive invariant.
LEMMA PostProgressIInv == IInv /\ PostProgress => IInv'
  <1> SUFFICES ASSUME IInv, PostProgress PROVE IInv'
    OBVIOUS
  <1> USE SizesAssumption DEF PostProgress, At, UiAt, Live, IInv, Reading,
          javaVars, natVars, pixVars, workVars, uiVars
  <1>1. TypeOK'
    <2>1. PointsOK'
      BY DEF TypeOK, PointsOK, WorkerPoints, UiPoints, Faults, DeleteRef, ReapText
    <2>2. FlagsOK'
      BY DEF TypeOK, FlagsOK
    <2>3. CountsOK'
      BY DEF TypeOK, CountsOK, Blocks, DeleteRef, ReapText
    <2>4. QueueOK'
      BY DEF TypeOK, QueueOK
    <2> QED
      BY <2>1, <2>2, <2>3, <2>4 DEF TypeOK
  <1>2. Monitor'
    BY DEF TypeOK, PointsOK, FlagsOK, CountsOK, QueueOK, Monitor
  <1>3. Queue'
    BY DEF TypeOK, PointsOK, FlagsOK, CountsOK, QueueOK, Queue, Posted, Monitor, Blocks, Cancelling, Count
  <1>4. Blocks'
    BY DEF TypeOK, PointsOK, FlagsOK, CountsOK, QueueOK, Blocks
  <1>5. Count'
    BY DEF TypeOK, PointsOK, FlagsOK, CountsOK, QueueOK, Count, ReapText, Monitor, Queue
  <1>6. Cancelling' /\ Binding'
    BY DEF TypeOK, PointsOK, FlagsOK, CountsOK, QueueOK, Cancelling, Binding, DeleteRef, Monitor
  <1>7. Ended'
    BY DEF TypeOK, PointsOK, FlagsOK, CountsOK, QueueOK, Ended, Posted, DeleteRef, ReapText, Binding, Count, Monitor, Queue
  <1>8. NoUseAfterFree'
    BY DEF TypeOK, PointsOK, FlagsOK, CountsOK, QueueOK, NoUseAfterFree, DeleteRef, ReapText, Count, Monitor
  <1> QED
    BY <1>1, <1>2, <1>3, <1>4, <1>5, <1>6, <1>7, <1>8

\* PollCancel keeps the inductive invariant.
LEMMA PollCancelIInv == IInv /\ PollCancel => IInv'
  <1> SUFFICES ASSUME IInv, PollCancel PROVE IInv'
    OBVIOUS
  <1> USE SizesAssumption DEF PollCancel, At, UiAt, Live, IInv, Reading,
          javaVars, natVars, pixVars, workVars, uiVars
  <1>1. TypeOK'
    <2>1. PointsOK'
      BY DEF TypeOK, PointsOK, WorkerPoints, UiPoints, Faults, DeleteRef, ReapText
    <2>2. FlagsOK'
      BY DEF TypeOK, FlagsOK
    <2>3. CountsOK'
      BY DEF TypeOK, CountsOK, Blocks, DeleteRef, ReapText
    <2>4. QueueOK'
      BY DEF TypeOK, QueueOK
    <2> QED
      BY <2>1, <2>2, <2>3, <2>4 DEF TypeOK
  <1>2. Monitor'
    BY DEF TypeOK, PointsOK, FlagsOK, CountsOK, QueueOK, Monitor
  <1>3. Queue'
    BY DEF TypeOK, PointsOK, FlagsOK, CountsOK, QueueOK, Queue, Posted, Monitor, Blocks, Cancelling, Count
  <1>4. Blocks'
    BY DEF TypeOK, PointsOK, FlagsOK, CountsOK, QueueOK, Blocks
  <1>5. Count'
    BY DEF TypeOK, PointsOK, FlagsOK, CountsOK, QueueOK, Count, ReapText, Monitor, Queue
  <1>6. Cancelling' /\ Binding'
    BY DEF TypeOK, PointsOK, FlagsOK, CountsOK, QueueOK, Cancelling, Binding, DeleteRef, Monitor
  <1>7. Ended'
    BY DEF TypeOK, PointsOK, FlagsOK, CountsOK, QueueOK, Ended, Posted, DeleteRef, ReapText, Binding, Count, Monitor, Queue
  <1>8. NoUseAfterFree'
    BY DEF TypeOK, PointsOK, FlagsOK, CountsOK, QueueOK, NoUseAfterFree, DeleteRef, ReapText, Count, Monitor
  <1> QED
    BY <1>1, <1>2, <1>3, <1>4, <1>5, <1>6, <1>7, <1>8

\* EndRecognition keeps the inductive invariant.
LEMMA EndRecognitionIInv == IInv /\ EndRecognition => IInv'
  <1> SUFFICES ASSUME IInv, EndRecognition PROVE IInv'
    OBVIOUS
  <1> USE SizesAssumption DEF EndRecognition, At, UiAt, Live, IInv, Reading,
          javaVars, natVars, pixVars, workVars, uiVars
  <1>1. TypeOK'
    <2>1. PointsOK'
      BY DEF TypeOK, PointsOK, WorkerPoints, UiPoints, Faults, DeleteRef, ReapText
    <2>2. FlagsOK'
      BY DEF TypeOK, FlagsOK
    <2>3. CountsOK'
      BY DEF TypeOK, CountsOK, Blocks, DeleteRef, ReapText
    <2>4. QueueOK'
      BY DEF TypeOK, QueueOK
    <2> QED
      BY <2>1, <2>2, <2>3, <2>4 DEF TypeOK
  <1>2. Monitor'
    BY DEF TypeOK, PointsOK, FlagsOK, CountsOK, QueueOK, Monitor
  <1>3. Queue'
    BY DEF TypeOK, PointsOK, FlagsOK, CountsOK, QueueOK, Queue, Posted, Monitor, Blocks, Cancelling, Count
  <1>4. Blocks'
    BY DEF TypeOK, PointsOK, FlagsOK, CountsOK, QueueOK, Blocks
  <1>5. Count'
    BY DEF TypeOK, PointsOK, FlagsOK, CountsOK, QueueOK, Count, ReapText, Monitor, Queue
  <1>6. Cancelling' /\ Binding'
    BY DEF TypeOK, PointsOK, FlagsOK, CountsOK, QueueOK, Cancelling, Binding, DeleteRef, Monitor
  <1>7. Ended'
    BY DEF TypeOK, PointsOK, FlagsOK, CountsOK, QueueOK, Ended, Posted, DeleteRef, ReapText, Binding, Count, Monitor, Queue
  <1>8. NoUseAfterFree'
    BY DEF TypeOK, PointsOK, FlagsOK, CountsOK, QueueOK, NoUseAfterFree, DeleteRef, ReapText, Count, Monitor
  <1> QED
    BY <1>1, <1>2, <1>3, <1>4, <1>5, <1>6, <1>7, <1>8

\* DropRef keeps the inductive invariant.
LEMMA DropRefIInv == IInv /\ DropRef => IInv'
  <1> SUFFICES ASSUME IInv, DropRef PROVE IInv'
    OBVIOUS
  <1> USE SizesAssumption DEF DropRef, At, UiAt, Live, IInv, Reading,
          javaVars, natVars, pixVars, workVars, uiVars
  <1>1. TypeOK'
    <2>1. PointsOK'
      BY DEF TypeOK, PointsOK, WorkerPoints, UiPoints, Faults, DeleteRef, ReapText
    <2>2. FlagsOK'
      BY DEF TypeOK, FlagsOK
    <2>3. CountsOK'
      BY DEF TypeOK, CountsOK, Blocks, DeleteRef, ReapText
    <2>4. QueueOK'
      BY DEF TypeOK, QueueOK
    <2> QED
      BY <2>1, <2>2, <2>3, <2>4 DEF TypeOK
  <1>2. Monitor'
    BY DEF TypeOK, PointsOK, FlagsOK, CountsOK, QueueOK, Monitor
  <1>3. Queue'
    BY DEF TypeOK, PointsOK, FlagsOK, CountsOK, QueueOK, Queue, Posted, Monitor, Blocks, Cancelling, Count
  <1>4. Blocks'
    BY DEF TypeOK, PointsOK, FlagsOK, CountsOK, QueueOK, Blocks
  <1>5. Count'
    BY DEF TypeOK, PointsOK, FlagsOK, CountsOK, QueueOK, Count, ReapText, Monitor, Queue
  <1>6. Cancelling' /\ Binding'
    BY DEF TypeOK, PointsOK, FlagsOK, CountsOK, QueueOK, Cancelling, Binding, DeleteRef, Monitor
  <1>7. Ended'
    BY DEF TypeOK, PointsOK, FlagsOK, CountsOK, QueueOK, Ended, Posted, DeleteRef, ReapText, Binding, Count, Monitor, Queue
  <1>8. NoUseAfterFree'
    BY DEF TypeOK, PointsOK, FlagsOK, CountsOK, QueueOK, NoUseAfterFree, DeleteRef, ReapText, Count, Monitor
  <1> QED
    BY <1>1, <1>2, <1>3, <1>4, <1>5, <1>6, <1>7, <1>8

\* CheckStopped keeps the inductive invariant.
LEMMA CheckStoppedIInv == IInv /\ CheckStopped => IInv'
  <1> SUFFICES ASSUME IInv, CheckStopped PROVE IInv'
    OBVIOUS
  <1> USE SizesAssumption DEF CheckStopped, At, UiAt, Live, IInv, Reading,
          javaVars, natVars, pixVars, workVars, uiVars
  <1>1. TypeOK'
    <2>1. PointsOK'
      BY DEF TypeOK, PointsOK, WorkerPoints, UiPoints, Faults, DeleteRef, ReapText
    <2>2. FlagsOK'
      BY DEF TypeOK, FlagsOK
    <2>3. CountsOK'
      BY DEF TypeOK, CountsOK, Blocks, DeleteRef, ReapText
    <2>4. QueueOK'
      BY DEF TypeOK, QueueOK
    <2> QED
      BY <2>1, <2>2, <2>3, <2>4 DEF TypeOK
  <1>2. Monitor'
    BY DEF TypeOK, PointsOK, FlagsOK, CountsOK, QueueOK, Monitor
  <1>3. Queue'
    BY DEF TypeOK, PointsOK, FlagsOK, CountsOK, QueueOK, Queue, Posted, Monitor, Blocks, Cancelling, Count
  <1>4. Blocks'
    BY DEF TypeOK, PointsOK, FlagsOK, CountsOK, QueueOK, Blocks
  <1>5. Count'
    BY DEF TypeOK, PointsOK, FlagsOK, CountsOK, QueueOK, Count, ReapText, Monitor, Queue
  <1>6. Cancelling' /\ Binding'
    BY DEF TypeOK, PointsOK, FlagsOK, CountsOK, QueueOK, Cancelling, Binding, DeleteRef, Monitor
  <1>7. Ended'
    BY DEF TypeOK, PointsOK, FlagsOK, CountsOK, QueueOK, Ended, Posted, DeleteRef, ReapText, Binding, Count, Monitor, Queue
  <1>8. NoUseAfterFree'
    BY DEF TypeOK, PointsOK, FlagsOK, CountsOK, QueueOK, NoUseAfterFree, DeleteRef, ReapText, Count, Monitor
  <1> QED
    BY <1>1, <1>2, <1>3, <1>4, <1>5, <1>6, <1>7, <1>8

\* EndTess keeps the inductive invariant.
LEMMA EndTessIInv == IInv /\ EndTess => IInv'
  <1> SUFFICES ASSUME IInv, EndTess PROVE IInv'
    OBVIOUS
  <1> USE SizesAssumption DEF EndTess, At, UiAt, Live, IInv, Reading,
          javaVars, natVars, pixVars, workVars, uiVars
  <1>1. TypeOK'
    <2>1. PointsOK'
      BY DEF TypeOK, PointsOK, WorkerPoints, UiPoints, Faults, DeleteRef, ReapText
    <2>2. FlagsOK'
      BY DEF TypeOK, FlagsOK
    <2>3. CountsOK'
      BY DEF TypeOK, CountsOK, Blocks, DeleteRef, ReapText
    <2>4. QueueOK'
      BY DEF TypeOK, QueueOK
    <2> QED
      BY <2>1, <2>2, <2>3, <2>4 DEF TypeOK
  <1>2. Monitor'
    BY DEF TypeOK, PointsOK, FlagsOK, CountsOK, QueueOK, Monitor
  <1>3. Queue'
    BY DEF TypeOK, PointsOK, FlagsOK, CountsOK, QueueOK, Queue, Posted, Monitor, Blocks, Cancelling, Count
  <1>4. Blocks'
    BY DEF TypeOK, PointsOK, FlagsOK, CountsOK, QueueOK, Blocks
  <1>5. Count'
    BY DEF TypeOK, PointsOK, FlagsOK, CountsOK, QueueOK, Count, ReapText, Monitor, Queue
  <1>6. Cancelling' /\ Binding'
    BY DEF TypeOK, PointsOK, FlagsOK, CountsOK, QueueOK, Cancelling, Binding, DeleteRef, Monitor
  <1>7. Ended'
    BY DEF TypeOK, PointsOK, FlagsOK, CountsOK, QueueOK, Ended, Posted, DeleteRef, ReapText, Binding, Count, Monitor, Queue
  <1>8. NoUseAfterFree'
    BY DEF TypeOK, PointsOK, FlagsOK, CountsOK, QueueOK, NoUseAfterFree, DeleteRef, ReapText, Count, Monitor
  <1> QED
    BY <1>1, <1>2, <1>3, <1>4, <1>5, <1>6, <1>7, <1>8

\* ReapClone keeps the inductive invariant.
LEMMA ReapCloneIInv == IInv /\ ReapClone => IInv'
  <1> SUFFICES ASSUME IInv, ReapClone PROVE IInv'
    OBVIOUS
  <1> USE SizesAssumption DEF ReapClone, At, UiAt, Live, IInv, Reading,
          javaVars, natVars, pixVars, workVars, uiVars
  <1>1. TypeOK'
    <2>1. PointsOK'
      BY DEF TypeOK, PointsOK, WorkerPoints, UiPoints, Faults, DeleteRef, ReapText
    <2>2. FlagsOK'
      BY DEF TypeOK, FlagsOK
    <2>3. CountsOK'
      BY DEF TypeOK, CountsOK, Blocks, DeleteRef, ReapText
    <2>4. QueueOK'
      BY DEF TypeOK, QueueOK
    <2> QED
      BY <2>1, <2>2, <2>3, <2>4 DEF TypeOK
  <1>2. Monitor'
    BY DEF TypeOK, PointsOK, FlagsOK, CountsOK, QueueOK, Monitor
  <1>3. Queue'
    BY DEF TypeOK, PointsOK, FlagsOK, CountsOK, QueueOK, Queue, Posted, Monitor, Blocks, Cancelling, Count
  <1>4. Blocks'
    BY DEF TypeOK, PointsOK, FlagsOK, CountsOK, QueueOK, Blocks
  <1>5. Count'
    BY DEF TypeOK, PointsOK, FlagsOK, CountsOK, QueueOK, Count, ReapText, Monitor, Queue
  <1>6. Cancelling' /\ Binding'
    BY DEF TypeOK, PointsOK, FlagsOK, CountsOK, QueueOK, Cancelling, Binding, DeleteRef, Monitor
  <1>7. Ended'
    BY DEF TypeOK, PointsOK, FlagsOK, CountsOK, QueueOK, Ended, Posted, DeleteRef, ReapText, Binding, Count, Monitor, Queue
  <1>8. NoUseAfterFree'
    BY DEF TypeOK, PointsOK, FlagsOK, CountsOK, QueueOK, NoUseAfterFree, DeleteRef, ReapText, Count, Monitor
  <1> QED
    BY <1>1, <1>2, <1>3, <1>4, <1>5, <1>6, <1>7, <1>8

\* HandleMessage keeps the inductive invariant.
LEMMA HandleMessageIInv == IInv /\ HandleMessage => IInv'
  <1> SUFFICES ASSUME IInv, HandleMessage PROVE IInv'
    OBVIOUS
  <1> USE SizesAssumption DEF HandleMessage, At, UiAt, Live, IInv, Reading,
          javaVars, natVars, pixVars, workVars, uiVars
  <1>1. TypeOK'
    <2>1. PointsOK'
      BY DEF TypeOK, PointsOK, WorkerPoints, UiPoints, Faults, DeleteRef, ReapText
    <2>2. FlagsOK'
      BY DEF TypeOK, FlagsOK
    <2>3. CountsOK'
      BY DEF TypeOK, CountsOK, Blocks, DeleteRef, ReapText
    <2>4. QueueOK'
      BY DEF TypeOK, QueueOK
    <2> QED
      BY <2>1, <2>2, <2>3, <2>4 DEF TypeOK
  <1>2. Monitor'
    BY DEF TypeOK, PointsOK, FlagsOK, CountsOK, QueueOK, Monitor
  <1>3. Queue'
    BY DEF TypeOK, PointsOK, FlagsOK, CountsOK, QueueOK, Queue, Posted, Monitor, Blocks, Cancelling, Count
  <1>4. Blocks'
    BY DEF TypeOK, PointsOK, FlagsOK, CountsOK, QueueOK, Blocks
  <1>5. Count'
    BY DEF TypeOK, PointsOK, FlagsOK, CountsOK, QueueOK, Count, ReapText, Monitor, Queue
  <1>6. Cancelling' /\ Binding'
    BY DEF TypeOK, PointsOK, FlagsOK, CountsOK, QueueOK, Cancelling, Binding, DeleteRef, Monitor
  <1>7. Ended'
    BY DEF TypeOK, PointsOK, FlagsOK, CountsOK, QueueOK, Ended, Posted, DeleteRef, ReapText, Binding, Count, Monitor, Queue
  <1>8. NoUseAfterFree'
    BY DEF TypeOK, PointsOK, FlagsOK, CountsOK, QueueOK, NoUseAfterFree, DeleteRef, ReapText, Count, Monitor
  <1> QED
    BY <1>1, <1>2, <1>3, <1>4, <1>5, <1>6, <1>7, <1>8

\* Destroy keeps the inductive invariant.
LEMMA DestroyIInv == IInv /\ Destroy => IInv'
  <1> SUFFICES ASSUME IInv, Destroy PROVE IInv'
    OBVIOUS
  <1> USE SizesAssumption DEF Destroy, At, UiAt, Live, IInv, Reading,
          javaVars, natVars, pixVars, workVars, uiVars
  <1>1. TypeOK'
    <2>1. PointsOK'
      BY DEF TypeOK, PointsOK, WorkerPoints, UiPoints, Faults, DeleteRef, ReapText
    <2>2. FlagsOK'
      BY DEF TypeOK, FlagsOK
    <2>3. CountsOK'
      BY DEF TypeOK, CountsOK, Blocks, DeleteRef, ReapText
    <2>4. QueueOK'
      BY DEF TypeOK, QueueOK
    <2> QED
      BY <2>1, <2>2, <2>3, <2>4 DEF TypeOK
  <1>2. Monitor'
    BY DEF TypeOK, PointsOK, FlagsOK, CountsOK, QueueOK, Monitor
  <1>3. Queue'
    BY DEF TypeOK, PointsOK, FlagsOK, CountsOK, QueueOK, Queue, Posted, Monitor, Blocks, Cancelling, Count
  <1>4. Blocks'
    BY DEF TypeOK, PointsOK, FlagsOK, CountsOK, QueueOK, Blocks
  <1>5. Count'
    BY DEF TypeOK, PointsOK, FlagsOK, CountsOK, QueueOK, Count, ReapText, Monitor, Queue
  <1>6. Cancelling' /\ Binding'
    BY DEF TypeOK, PointsOK, FlagsOK, CountsOK, QueueOK, Cancelling, Binding, DeleteRef, Monitor
  <1>7. Ended'
    BY DEF TypeOK, PointsOK, FlagsOK, CountsOK, QueueOK, Ended, Posted, DeleteRef, ReapText, Binding, Count, Monitor, Queue
  <1>8. NoUseAfterFree'
    BY DEF TypeOK, PointsOK, FlagsOK, CountsOK, QueueOK, NoUseAfterFree, DeleteRef, ReapText, Count, Monitor
  <1> QED
    BY <1>1, <1>2, <1>3, <1>4, <1>5, <1>6, <1>7, <1>8

\* Detach keeps the inductive invariant.
LEMMA DetachIInv == IInv /\ Detach => IInv'
  <1> SUFFICES ASSUME IInv, Detach PROVE IInv'
    OBVIOUS
  <1> USE SizesAssumption DEF Detach, At, UiAt, Live, IInv, Reading,
          javaVars, natVars, pixVars, workVars, uiVars
  <1>1. TypeOK'
    <2>1. PointsOK'
      BY DEF TypeOK, PointsOK, WorkerPoints, UiPoints, Faults, DeleteRef, ReapText
    <2>2. FlagsOK'
      BY DEF TypeOK, FlagsOK
    <2>3. CountsOK'
      BY DEF TypeOK, CountsOK, Blocks, DeleteRef, ReapText
    <2>4. QueueOK'
      BY DEF TypeOK, QueueOK
    <2> QED
      BY <2>1, <2>2, <2>3, <2>4 DEF TypeOK
  <1>2. Monitor'
    BY DEF TypeOK, PointsOK, FlagsOK, CountsOK, QueueOK, Monitor
  <1>3. Queue'
    BY DEF TypeOK, PointsOK, FlagsOK, CountsOK, QueueOK, Queue, Posted, Monitor, Blocks, Cancelling, Count
  <1>4. Blocks'
    BY DEF TypeOK, PointsOK, FlagsOK, CountsOK, QueueOK, Blocks
  <1>5. Count'
    BY DEF TypeOK, PointsOK, FlagsOK, CountsOK, QueueOK, Count, ReapText, Monitor, Queue
  <1>6. Cancelling' /\ Binding'
    BY DEF TypeOK, PointsOK, FlagsOK, CountsOK, QueueOK, Cancelling, Binding, DeleteRef, Monitor
  <1>7. Ended'
    BY DEF TypeOK, PointsOK, FlagsOK, CountsOK, QueueOK, Ended, Posted, DeleteRef, ReapText, Binding, Count, Monitor, Queue
  <1>8. NoUseAfterFree'
    BY DEF TypeOK, PointsOK, FlagsOK, CountsOK, QueueOK, NoUseAfterFree, DeleteRef, ReapText, Count, Monitor
  <1> QED
    BY <1>1, <1>2, <1>3, <1>4, <1>5, <1>6, <1>7, <1>8

\* StopReset keeps the inductive invariant.
LEMMA StopResetIInv == IInv /\ StopReset => IInv'
  <1> SUFFICES ASSUME IInv, StopReset PROVE IInv'
    OBVIOUS
  <1> USE SizesAssumption DEF StopReset, At, UiAt, Live, IInv, Reading,
          javaVars, natVars, pixVars, workVars, uiVars
  <1>1. TypeOK'
    <2>1. PointsOK'
      BY DEF TypeOK, PointsOK, WorkerPoints, UiPoints, Faults, DeleteRef, ReapText
    <2>2. FlagsOK'
      BY DEF TypeOK, FlagsOK
    <2>3. CountsOK'
      BY DEF TypeOK, CountsOK, Blocks, DeleteRef, ReapText
    <2>4. QueueOK'
      BY DEF TypeOK, QueueOK
    <2> QED
      BY <2>1, <2>2, <2>3, <2>4 DEF TypeOK
  <1>2. Monitor'
    BY DEF TypeOK, PointsOK, FlagsOK, CountsOK, QueueOK, Monitor
  <1>3. Queue'
    BY DEF TypeOK, PointsOK, FlagsOK, CountsOK, QueueOK, Queue, Posted, Monitor, Blocks, Cancelling, Count
  <1>4. Blocks'
    BY DEF TypeOK, PointsOK, FlagsOK, CountsOK, QueueOK, Blocks
  <1>5. Count'
    BY DEF TypeOK, PointsOK, FlagsOK, CountsOK, QueueOK, Count, ReapText, Monitor, Queue
  <1>6. Cancelling' /\ Binding'
    BY DEF TypeOK, PointsOK, FlagsOK, CountsOK, QueueOK, Cancelling, Binding, DeleteRef, Monitor
  <1>7. Ended'
    BY DEF TypeOK, PointsOK, FlagsOK, CountsOK, QueueOK, Ended, Posted, DeleteRef, ReapText, Binding, Count, Monitor, Queue
  <1>8. NoUseAfterFree'
    BY DEF TypeOK, PointsOK, FlagsOK, CountsOK, QueueOK, NoUseAfterFree, DeleteRef, ReapText, Count, Monitor
  <1> QED
    BY <1>1, <1>2, <1>3, <1>4, <1>5, <1>6, <1>7, <1>8

\* StopDropsRef keeps the inductive invariant.
LEMMA StopDropsRefIInv == IInv /\ StopDropsRef => IInv'
  <1> SUFFICES ASSUME IInv, StopDropsRef PROVE IInv'
    OBVIOUS
  <1> USE SizesAssumption DEF StopDropsRef, At, UiAt, Live, IInv, Reading,
          javaVars, natVars, pixVars, workVars, uiVars
  <1>1. TypeOK'
    <2>1. PointsOK'
      BY DEF TypeOK, PointsOK, WorkerPoints, UiPoints, Faults, DeleteRef, ReapText
    <2>2. FlagsOK'
      BY DEF TypeOK, FlagsOK
    <2>3. CountsOK'
      BY DEF TypeOK, CountsOK, Blocks, DeleteRef, ReapText
    <2>4. QueueOK'
      BY DEF TypeOK, QueueOK
    <2> QED
      BY <2>1, <2>2, <2>3, <2>4 DEF TypeOK
  <1>2. Monitor'
    BY DEF TypeOK, PointsOK, FlagsOK, CountsOK, QueueOK, Monitor
  <1>3. Queue'
    BY DEF TypeOK, PointsOK, FlagsOK, CountsOK, QueueOK, Queue, Posted, Monitor, Blocks, Cancelling, Count
  <1>4. Blocks'
    BY DEF TypeOK, PointsOK, FlagsOK, CountsOK, QueueOK, Blocks
  <1>5. Count'
    BY DEF TypeOK, PointsOK, FlagsOK, CountsOK, QueueOK, Count, ReapText, Monitor, Queue
  <1>6. Cancelling' /\ Binding'
    BY DEF TypeOK, PointsOK, FlagsOK, CountsOK, QueueOK, Cancelling, Binding, DeleteRef, Monitor
  <1>7. Ended'
    BY DEF TypeOK, PointsOK, FlagsOK, CountsOK, QueueOK, Ended, Posted, DeleteRef, ReapText, Binding, Count, Monitor, Queue
  <1>8. NoUseAfterFree'
    BY DEF TypeOK, PointsOK, FlagsOK, CountsOK, QueueOK, NoUseAfterFree, DeleteRef, ReapText, Count, Monitor
  <1> QED
    BY <1>1, <1>2, <1>3, <1>4, <1>5, <1>6, <1>7, <1>8

\* StopSetsFlag keeps the inductive invariant.
LEMMA StopSetsFlagIInv == IInv /\ StopSetsFlag => IInv'
  <1> SUFFICES ASSUME IInv, StopSetsFlag PROVE IInv'
    OBVIOUS
  <1> USE SizesAssumption DEF StopSetsFlag, At, UiAt, Live, IInv, Reading,
          javaVars, natVars, pixVars, workVars, uiVars
  <1>1. TypeOK'
    <2>1. PointsOK'
      BY DEF TypeOK, PointsOK, WorkerPoints, UiPoints, Faults, DeleteRef, ReapText
    <2>2. FlagsOK'
      BY DEF TypeOK, FlagsOK
    <2>3. CountsOK'
      BY DEF TypeOK, CountsOK, Blocks, DeleteRef, ReapText
    <2>4. QueueOK'
      BY DEF TypeOK, QueueOK
    <2> QED
      BY <2>1, <2>2, <2>3, <2>4 DEF TypeOK
  <1>2. Monitor'
    BY DEF TypeOK, PointsOK, FlagsOK, CountsOK, QueueOK, Monitor
  <1>3. Queue'
    BY DEF TypeOK, PointsOK, FlagsOK, CountsOK, QueueOK, Queue, Posted, Monitor, Blocks, Cancelling, Count
  <1>4. Blocks'
    BY DEF TypeOK, PointsOK, FlagsOK, CountsOK, QueueOK, Blocks
  <1>5. Count'
    BY DEF TypeOK, PointsOK, FlagsOK, CountsOK, QueueOK, Count, ReapText, Monitor, Queue
  <1>6. Cancelling' /\ Binding'
    BY DEF TypeOK, PointsOK, FlagsOK, CountsOK, QueueOK, Cancelling, Binding, DeleteRef, Monitor
  <1>7. Ended'
    BY DEF TypeOK, PointsOK, FlagsOK, CountsOK, QueueOK, Ended, Posted, DeleteRef, ReapText, Binding, Count, Monitor, Queue
  <1>8. NoUseAfterFree'
    BY DEF TypeOK, PointsOK, FlagsOK, CountsOK, QueueOK, NoUseAfterFree, DeleteRef, ReapText, Count, Monitor
  <1> QED
    BY <1>1, <1>2, <1>3, <1>4, <1>5, <1>6, <1>7, <1>8

\* MarkStopped keeps the inductive invariant.
LEMMA MarkStoppedIInv == IInv /\ MarkStopped => IInv'
  <1> SUFFICES ASSUME IInv, MarkStopped PROVE IInv'
    OBVIOUS
  <1> USE SizesAssumption DEF MarkStopped, At, UiAt, Live, IInv, Reading,
          javaVars, natVars, pixVars, workVars, uiVars
  <1>1. TypeOK'
    <2>1. PointsOK'
      BY DEF TypeOK, PointsOK, WorkerPoints, UiPoints, Faults, DeleteRef, ReapText
    <2>2. FlagsOK'
      BY DEF TypeOK, FlagsOK
    <2>3. CountsOK'
      BY DEF TypeOK, CountsOK, Blocks, DeleteRef, ReapText
    <2>4. QueueOK'
      BY DEF TypeOK, QueueOK
    <2> QED
      BY <2>1, <2>2, <2>3, <2>4 DEF TypeOK
  <1>2. Monitor'
    BY DEF TypeOK, PointsOK, FlagsOK, CountsOK, QueueOK, Monitor
  <1>3. Queue'
    BY DEF TypeOK, PointsOK, FlagsOK, CountsOK, QueueOK, Queue, Posted, Monitor, Blocks, Cancelling, Count
  <1>4. Blocks'
    BY DEF TypeOK, PointsOK, FlagsOK, CountsOK, QueueOK, Blocks
  <1>5. Count'
    BY DEF TypeOK, PointsOK, FlagsOK, CountsOK, QueueOK, Count, ReapText, Monitor, Queue
  <1>6. Cancelling' /\ Binding'
    BY DEF TypeOK, PointsOK, FlagsOK, CountsOK, QueueOK, Cancelling, Binding, DeleteRef, Monitor
  <1>7. Ended'
    BY DEF TypeOK, PointsOK, FlagsOK, CountsOK, QueueOK, Ended, Posted, DeleteRef, ReapText, Binding, Count, Monitor, Queue
  <1>8. NoUseAfterFree'
    BY DEF TypeOK, PointsOK, FlagsOK, CountsOK, QueueOK, NoUseAfterFree, DeleteRef, ReapText, Count, Monitor
  <1> QED
    BY <1>1, <1>2, <1>3, <1>4, <1>5, <1>6, <1>7, <1>8

\* RecycleFinal keeps the inductive invariant.
LEMMA RecycleFinalIInv == IInv /\ RecycleFinal => IInv'
  <1> SUFFICES ASSUME IInv, RecycleFinal PROVE IInv'
    OBVIOUS
  <1> USE SizesAssumption DEF RecycleFinal, At, UiAt, Live, IInv, Reading,
          javaVars, natVars, pixVars, workVars, uiVars
  <1>1. TypeOK'
    <2>1. PointsOK'
      BY DEF TypeOK, PointsOK, WorkerPoints, UiPoints, Faults, DeleteRef, ReapText
    <2>2. FlagsOK'
      BY DEF TypeOK, FlagsOK
    <2>3. CountsOK'
      BY DEF TypeOK, CountsOK, Blocks, DeleteRef, ReapText
    <2>4. QueueOK'
      BY DEF TypeOK, QueueOK
    <2> QED
      BY <2>1, <2>2, <2>3, <2>4 DEF TypeOK
  <1>2. Monitor'
    BY DEF TypeOK, PointsOK, FlagsOK, CountsOK, QueueOK, Monitor
  <1>3. Queue'
    BY DEF TypeOK, PointsOK, FlagsOK, CountsOK, QueueOK, Queue, Posted, Monitor, Blocks, Cancelling, Count
  <1>4. Blocks'
    BY DEF TypeOK, PointsOK, FlagsOK, CountsOK, QueueOK, Blocks
  <1>5. Count'
    BY DEF TypeOK, PointsOK, FlagsOK, CountsOK, QueueOK, Count, ReapText, Monitor, Queue
  <1>6. Cancelling' /\ Binding'
    BY DEF TypeOK, PointsOK, FlagsOK, CountsOK, QueueOK, Cancelling, Binding, DeleteRef, Monitor
  <1>7. Ended'
    BY DEF TypeOK, PointsOK, FlagsOK, CountsOK, QueueOK, Ended, Posted, DeleteRef, ReapText, Binding, Count, Monitor, Queue
  <1>8. NoUseAfterFree'
    BY DEF TypeOK, PointsOK, FlagsOK, CountsOK, QueueOK, NoUseAfterFree, DeleteRef, ReapText, Count, Monitor
  <1> QED
    BY <1>1, <1>2, <1>3, <1>4, <1>5, <1>6, <1>7, <1>8

\* ReapFinal keeps the inductive invariant.
LEMMA ReapFinalIInv == IInv /\ ReapFinal => IInv'
  <1> SUFFICES ASSUME IInv, ReapFinal PROVE IInv'
    OBVIOUS
  <1> USE SizesAssumption DEF ReapFinal, At, UiAt, Live, IInv, Reading,
          javaVars, natVars, pixVars, workVars, uiVars
  <1>1. TypeOK'
    <2>1. PointsOK'
      BY DEF TypeOK, PointsOK, WorkerPoints, UiPoints, Faults, DeleteRef, ReapText
    <2>2. FlagsOK'
      BY DEF TypeOK, FlagsOK
    <2>3. CountsOK'
      BY DEF TypeOK, CountsOK, Blocks, DeleteRef, ReapText
    <2>4. QueueOK'
      BY DEF TypeOK, QueueOK
    <2> QED
      BY <2>1, <2>2, <2>3, <2>4 DEF TypeOK
  <1>2. Monitor'
    BY DEF TypeOK, PointsOK, FlagsOK, CountsOK, QueueOK, Monitor
  <1>3. Queue'
    BY DEF TypeOK, PointsOK, FlagsOK, CountsOK, QueueOK, Queue, Posted, Monitor, Blocks, Cancelling, Count
  <1>4. Blocks'
    BY DEF TypeOK, PointsOK, FlagsOK, CountsOK, QueueOK, Blocks
  <1>5. Count'
    BY DEF TypeOK, PointsOK, FlagsOK, CountsOK, QueueOK, Count, ReapText, Monitor, Queue
  <1>6. Cancelling' /\ Binding'
    BY DEF TypeOK, PointsOK, FlagsOK, CountsOK, QueueOK, Cancelling, Binding, DeleteRef, Monitor
  <1>7. Ended'
    BY DEF TypeOK, PointsOK, FlagsOK, CountsOK, QueueOK, Ended, Posted, DeleteRef, ReapText, Binding, Count, Monitor, Queue
  <1>8. NoUseAfterFree'
    BY DEF TypeOK, PointsOK, FlagsOK, CountsOK, QueueOK, NoUseAfterFree, DeleteRef, ReapText, Count, Monitor
  <1> QED
    BY <1>1, <1>2, <1>3, <1>4, <1>5, <1>6, <1>7, <1>8

\* LoseDecrement keeps the inductive invariant.
LEMMA LoseDecrementIInv == IInv /\ LoseDecrement => IInv'
  <1> SUFFICES ASSUME IInv, LoseDecrement PROVE IInv'
    OBVIOUS
  <1> USE SizesAssumption DEF LoseDecrement, At, UiAt, Live, IInv, Reading,
          javaVars, natVars, pixVars, workVars, uiVars
  <1>1. TypeOK'
    <2>1. PointsOK'
      BY DEF TypeOK, PointsOK, WorkerPoints, UiPoints, Faults, DeleteRef, ReapText
    <2>2. FlagsOK'
      BY DEF TypeOK, FlagsOK
    <2>3. CountsOK'
      BY DEF TypeOK, CountsOK, Blocks, DeleteRef, ReapText
    <2>4. QueueOK'
      BY DEF TypeOK, QueueOK
    <2> QED
      BY <2>1, <2>2, <2>3, <2>4 DEF TypeOK
  <1>2. Monitor'
    BY DEF TypeOK, PointsOK, FlagsOK, CountsOK, QueueOK, Monitor
  <1>3. Queue'
    BY DEF TypeOK, PointsOK, FlagsOK, CountsOK, QueueOK, Queue, Posted, Monitor, Blocks, Cancelling, Count
  <1>4. Blocks'
    BY DEF TypeOK, PointsOK, FlagsOK, CountsOK, QueueOK, Blocks
  <1>5. Count'
    BY DEF TypeOK, PointsOK, FlagsOK, CountsOK, QueueOK, Count, ReapText, Monitor, Queue
  <1>6. Cancelling' /\ Binding'
    BY DEF TypeOK, PointsOK, FlagsOK, CountsOK, QueueOK, Cancelling, Binding, DeleteRef, Monitor
  <1>7. Ended'
    BY DEF TypeOK, PointsOK, FlagsOK, CountsOK, QueueOK, Ended, Posted, DeleteRef, ReapText, Binding, Count, Monitor, Queue
  <1>8. NoUseAfterFree'
    BY DEF TypeOK, PointsOK, FlagsOK, CountsOK, QueueOK, NoUseAfterFree, DeleteRef, ReapText, Count, Monitor
  <1> QED
    BY <1>1, <1>2, <1>3, <1>4, <1>5, <1>6, <1>7, <1>8


-----------------------------------------------------------------------------
(* The five actions that put a message into the queue.                     *)

\* What OCR.sendMessage does to the queue for one message.
LEMMA PostOne ==
  ASSUME NEW m \in Job!Messages, QueueOK, Post(<<m>>), UNCHANGED handled
  PROVE  /\ QueueOK'
         /\ Len(sent') >= Len(sent)
         /\ \A i \in 1..Len(sent) : sent'[i] = sent[i]
         /\ \A x : Posted(x)' => Posted(x) \/ (x = m /\ attached /\ ~stopped)
         /\ ~(attached /\ ~stopped) => sent' = sent
         /\ attached /\ ~stopped => Len(sent') = Len(sent) + 1 /\ sent'[Len(sent) + 1] = m
  <1>1. CASE attached /\ ~stopped
    BY <1>1 DEF Post, QueueOK, Posted
  <1>2. CASE ~(attached /\ ~stopped)
    BY <1>2 DEF Post, QueueOK, Posted
  <1> QED
    BY <1>1, <1>2

\* SendFinal keeps the inductive invariant.
LEMMA SendFinalIInv == IInv /\ SendFinal => IInv'
  <1> SUFFICES ASSUME IInv, SendFinal PROVE IInv'
    OBVIOUS
  <1> USE SizesAssumption DEF SendFinal, At, Live, IInv, Reading, javaVars, natVars, pixVars
  <1>0. "FINAL_IMAGE" \in Job!Messages
    BY DEF Job!Messages
  <1>1. /\ Post(<<"FINAL_IMAGE">>)
        /\ UNCHANGED handled
    BY DEF TypeOK
  <1>2. PICK m \in Job!Messages : m = "FINAL_IMAGE" /\ Post(<<m>>)
    BY <1>0, <1>1
  <1>3. /\ QueueOK'
        /\ Len(sent') >= Len(sent)
        /\ \A i \in 1..Len(sent) : sent'[i] = sent[i]
        /\ \A x : Posted(x)' => Posted(x) \/ (x = m /\ attached /\ ~stopped)
        /\ ~(attached /\ ~stopped) => sent' = sent
        /\ attached /\ ~stopped => Len(sent') = Len(sent) + 1 /\ sent'[Len(sent) + 1] = m
    BY <1>1, <1>2, PostOne DEF TypeOK
  <1>4. TypeOK'
    <2>1. PointsOK'
      BY DEF TypeOK, PointsOK, WorkerPoints, UiPoints, Faults
    <2>2. FlagsOK'
      BY DEF TypeOK, FlagsOK
    <2>3. CountsOK'
      BY DEF TypeOK, CountsOK
    <2> QED
      BY <1>3, <2>1, <2>2, <2>3 DEF TypeOK
  <1>5. Monitor' /\ Blocks' /\ Count'
    BY DEF TypeOK, PointsOK, FlagsOK, CountsOK, QueueOK, Monitor, Blocks, Count
  <1>6. Cancelling' /\ Binding' /\ NoUseAfterFree'
    BY DEF TypeOK, PointsOK, FlagsOK, CountsOK, QueueOK, Cancelling, Binding, NoUseAfterFree, Monitor
  <1>7. Queue'
    BY <1>2, <1>3 DEF TypeOK, PointsOK, FlagsOK, CountsOK, QueueOK, Queue, Monitor, Blocks, Cancelling
  <1>8. Ended'
    BY <1>2, <1>3 DEF TypeOK, PointsOK, FlagsOK, CountsOK, QueueOK, Ended, Monitor, Binding, Count, Queue
  <1> QED
    BY <1>4, <1>5, <1>6, <1>7, <1>8

\* Publish keeps the inductive invariant.
LEMMA PublishIInv == IInv /\ Publish => IInv'
  <1> SUFFICES ASSUME IInv, Publish PROVE IInv'
    OBVIOUS
  <1> USE SizesAssumption DEF Publish, At, Live, IInv, Reading, javaVars, natVars, pixVars
  <1>0. "HOCR_TEXT" \in Job!Messages
    BY DEF Job!Messages
  <1>1. /\ Post(<<"HOCR_TEXT">>)
        /\ UNCHANGED handled
    <2>1. CASE stopped
      BY <2>1 DEF Post
    <2>2. CASE ~stopped
      BY <2>2
    <2> QED
      BY <2>1, <2>2
  <1>2. PICK m \in Job!Messages : m = "HOCR_TEXT" /\ Post(<<m>>)
    BY <1>0, <1>1
  <1>3. /\ QueueOK'
        /\ Len(sent') >= Len(sent)
        /\ \A i \in 1..Len(sent) : sent'[i] = sent[i]
        /\ \A x : Posted(x)' => Posted(x) \/ (x = m /\ attached /\ ~stopped)
        /\ ~(attached /\ ~stopped) => sent' = sent
        /\ attached /\ ~stopped => Len(sent') = Len(sent) + 1 /\ sent'[Len(sent) + 1] = m
    BY <1>1, <1>2, PostOne DEF TypeOK
  <1>a. ASSUME ~stopped
        PROVE  /\ wpc = "publish" /\ wpc' = "utf8" /\ lock = "free" /\ lock' = "worker"
               /\ upc \in {"alive", "destroying"}
    BY <1>a DEF TypeOK, PointsOK, UiPoints, Monitor
  <1>4. TypeOK'
    <2>1. PointsOK'
      BY DEF TypeOK, PointsOK, WorkerPoints, UiPoints, Faults
    <2>2. FlagsOK'
      BY DEF TypeOK, FlagsOK
    <2>3. CountsOK'
      BY DEF TypeOK, CountsOK
    <2> QED
      BY <1>3, <2>1, <2>2, <2>3 DEF TypeOK
  <1>5. Monitor' /\ Blocks' /\ Count'
    <2>1. CASE stopped
      BY <2>1 DEF TypeOK, PointsOK, FlagsOK, CountsOK, QueueOK, Monitor, Blocks, Count
    <2>2. CASE ~stopped
      <3>1. Monitor'
        BY <2>2, <1>a DEF TypeOK, PointsOK, FlagsOK, Monitor
      <3>2. Blocks' /\ Count'
        BY <2>2, <1>a DEF TypeOK, PointsOK, FlagsOK, CountsOK, Blocks, Count
      <3> QED
        BY <3>1, <3>2
    <2> QED
      BY <2>1, <2>2
  <1>6. Cancelling' /\ Binding' /\ NoUseAfterFree'
    BY DEF TypeOK, PointsOK, FlagsOK, CountsOK, QueueOK, Cancelling, Binding, NoUseAfterFree, Monitor
  <1>7. Queue'
    <2>1. CASE stopped
      BY <2>1, <1>2, <1>3 DEF TypeOK, PointsOK, QueueOK, Queue, Posted
    <2>2. CASE ~stopped
      <3>1. ~aborted /\ rect = Rects /\ attached
        BY <2>2, <1>a DEF TypeOK, PointsOK, FlagsOK, Monitor, Blocks, Cancelling
      <3>2. Len(sent') = Len(sent) + 1 /\ sent'[Len(sent) + 1] = "HOCR_TEXT"
        BY <2>2, <3>1, <1>2, <1>3
      <3>3. \A i \in 1..Len(sent') : sent'[i] = "FINAL_IMAGE" => i = 1
        BY <3>2, <1>3 DEF TypeOK, QueueOK, Queue
      <3> QED
        BY <2>2, <1>a, <1>1, <1>3, <3>1, <3>2, <3>3 DEF TypeOK, QueueOK, Queue
    <2> QED
      BY <2>1, <2>2
  <1>8. Ended'
    BY <1>2, <1>3 DEF TypeOK, PointsOK, FlagsOK, CountsOK, QueueOK, Ended, Monitor, Binding, Count, Queue
  <1> QED
    BY <1>4, <1>5, <1>6, <1>7, <1>8

\* PublishText keeps the inductive invariant.
LEMMA PublishTextIInv == IInv /\ PublishText => IInv'
  <1> SUFFICES ASSUME IInv, PublishText PROVE IInv'
    OBVIOUS
  <1> USE SizesAssumption DEF PublishText, At, Live, IInv, Reading, javaVars, natVars, pixVars
  <1>0. "UTF8_TEXT" \in Job!Messages
    BY DEF Job!Messages
  <1>1. /\ Post(<<"UTF8_TEXT">>)
        /\ UNCHANGED handled
    BY DEF TypeOK
  <1>2. PICK m \in Job!Messages : m = "UTF8_TEXT" /\ Post(<<m>>)
    BY <1>0, <1>1
  <1>3. /\ QueueOK'
        /\ Len(sent') >= Len(sent)
        /\ \A i \in 1..Len(sent) : sent'[i] = sent[i]
        /\ \A x : Posted(x)' => Posted(x) \/ (x = m /\ attached /\ ~stopped)
        /\ ~(attached /\ ~stopped) => sent' = sent
        /\ attached /\ ~stopped => Len(sent') = Len(sent) + 1 /\ sent'[Len(sent) + 1] = m
    BY <1>1, <1>2, PostOne DEF TypeOK
  <1>4. TypeOK'
    <2>1. PointsOK'
      BY DEF TypeOK, PointsOK, WorkerPoints, UiPoints, Faults
    <2>2. FlagsOK'
      BY DEF TypeOK, FlagsOK
    <2>3. CountsOK'
      BY DEF TypeOK, CountsOK
    <2> QED
      BY <1>3, <2>1, <2>2, <2>3 DEF TypeOK
  <1>5. Monitor' /\ Blocks' /\ Count'
    BY DEF TypeOK, PointsOK, FlagsOK, CountsOK, QueueOK, Monitor, Blocks, Count
  <1>6. Cancelling' /\ Binding' /\ NoUseAfterFree'
    BY DEF TypeOK, PointsOK, FlagsOK, CountsOK, QueueOK, Cancelling, Binding, NoUseAfterFree, Monitor
  <1>7. Queue'
    BY <1>2, <1>3 DEF TypeOK, PointsOK, FlagsOK, CountsOK, QueueOK, Queue, Monitor, Blocks, Cancelling
  <1>8. Ended'
    BY <1>2, <1>3 DEF TypeOK, PointsOK, FlagsOK, CountsOK, QueueOK, Ended, Monitor, Binding, Count, Queue
  <1> QED
    BY <1>4, <1>5, <1>6, <1>7, <1>8

\* SendEnd keeps the inductive invariant.
LEMMA SendEndIInv == IInv /\ SendEnd => IInv'
  <1> SUFFICES ASSUME IInv, SendEnd PROVE IInv'
    OBVIOUS
  <1> USE SizesAssumption DEF SendEnd, At, Live, IInv, Reading, javaVars, natVars, pixVars
  <1>0. "END" \in Job!Messages
    BY DEF Job!Messages
  <1>1. /\ Post(<<"END">>)
        /\ UNCHANGED handled
    BY DEF TypeOK
  <1>2. PICK m \in Job!Messages : m = "END" /\ Post(<<m>>)
    BY <1>0, <1>1
  <1>3. /\ QueueOK'
        /\ Len(sent') >= Len(sent)
        /\ \A i \in 1..Len(sent) : sent'[i] = sent[i]
        /\ \A x : Posted(x)' => Posted(x) \/ (x = m /\ attached /\ ~stopped)
        /\ ~(attached /\ ~stopped) => sent' = sent
        /\ attached /\ ~stopped => Len(sent') = Len(sent) + 1 /\ sent'[Len(sent) + 1] = m
    BY <1>1, <1>2, PostOne DEF TypeOK
  <1>4. TypeOK'
    <2>1. PointsOK'
      BY DEF TypeOK, PointsOK, WorkerPoints, UiPoints, Faults
    <2>2. FlagsOK'
      BY DEF TypeOK, FlagsOK
    <2>3. CountsOK'
      BY DEF TypeOK, CountsOK
    <2> QED
      BY <1>3, <2>1, <2>2, <2>3 DEF TypeOK
  <1>5. Monitor' /\ Blocks' /\ Count'
    BY DEF TypeOK, PointsOK, FlagsOK, CountsOK, QueueOK, Monitor, Blocks, Count
  <1>6. Cancelling' /\ Binding' /\ NoUseAfterFree'
    BY DEF TypeOK, PointsOK, FlagsOK, CountsOK, QueueOK, Cancelling, Binding, NoUseAfterFree, Monitor
  <1>7. Queue'
    BY <1>2, <1>3, SMTT(30) DEF TypeOK, PointsOK, FlagsOK, CountsOK, QueueOK, Queue, Monitor, Blocks, Cancelling
  <1>8. Ended'
    BY <1>2, <1>3 DEF TypeOK, PointsOK, FlagsOK, CountsOK, QueueOK, Ended, Monitor, Binding, Count, Queue
  <1> QED
    BY <1>4, <1>5, <1>6, <1>7, <1>8

\* Die keeps the inductive invariant.
LEMMA DieIInv == IInv /\ Die => IInv'
  <1> SUFFICES ASSUME IInv, Die PROVE IInv'
    OBVIOUS
  <1> USE SizesAssumption DEF Die, At, Live, IInv, Reading, javaVars, natVars, pixVars, uiVars
  <1>1. TypeOK'
    <2>1. PointsOK'
      BY DEF TypeOK, PointsOK, WorkerPoints, UiPoints, Faults
    <2>2. FlagsOK' /\ QueueOK'
      BY DEF TypeOK, FlagsOK, QueueOK
    <2>3. CountsOK'
      BY DEF TypeOK, CountsOK
    <2> QED
      BY <2>1, <2>2, <2>3 DEF TypeOK
  <1>2. Monitor' /\ Blocks' /\ Count'
    BY DEF TypeOK, PointsOK, FlagsOK, CountsOK, QueueOK, Monitor, Blocks, Count
  <1>3. Cancelling' /\ Binding' /\ NoUseAfterFree'
    BY DEF TypeOK, PointsOK, FlagsOK, CountsOK, QueueOK, Cancelling, Binding, NoUseAfterFree
  <1>4. Queue'
    BY DEF TypeOK, PointsOK, FlagsOK, CountsOK, QueueOK, Queue, Posted
  <1>5. Ended'
    BY DEF TypeOK, PointsOK, FlagsOK, CountsOK, QueueOK, Ended, Posted
  <1> QED
    BY <1>1, <1>2, <1>3, <1>4, <1>5

\* InitTess keeps the inductive invariant.
LEMMA InitTessIInv == IInv /\ InitTess => IInv'
  <1> SUFFICES ASSUME IInv, InitTess PROVE IInv'
    OBVIOUS
  <1> USE SizesAssumption DEF InitTess, At, Live, IInv, Reading, natVars, pixVars
  <1>0. "ERROR" \in Job!Messages
    BY DEF Job!Messages
  <1>1. upc \in {"alive", "destroying"} /\ attached /\ ~stopped
    BY DEF TypeOK, PointsOK, UiPoints, Monitor
  <1>2. sent' = sent \/ Post(<<"ERROR">>)
    OBVIOUS
  <1>3. /\ QueueOK'
        /\ Len(sent') >= Len(sent)
        /\ \A i \in 1..Len(sent) : sent'[i] = sent[i]
        /\ \A x : Posted(x)' => Posted(x) \/ x = "ERROR"
        /\ sent' # sent => Len(sent') = Len(sent) + 1 /\ sent'[Len(sent) + 1] = "ERROR"
    <2>1. CASE sent' = sent
      BY <2>1 DEF TypeOK, QueueOK, Posted
    <2>2. CASE Post(<<"ERROR">>)
      <3>1. PICK m \in Job!Messages : m = "ERROR" /\ Post(<<m>>)
        BY <1>0, <2>2
      <3> QED
        BY <1>1, <3>1, PostOne DEF TypeOK
    <2> QED
      BY <1>2, <2>1, <2>2
  <1>4. TypeOK'
    <2>1. PointsOK'
      BY DEF TypeOK, PointsOK, WorkerPoints
    <2>2. FlagsOK'
      BY DEF TypeOK, FlagsOK
    <2>3. CountsOK'
      BY DEF TypeOK, CountsOK
    <2> QED
      BY <1>3, <2>1, <2>2, <2>3 DEF TypeOK
  <1>5. Monitor' /\ Blocks' /\ Count'
    BY <1>1 DEF TypeOK, PointsOK, FlagsOK, CountsOK, QueueOK, Monitor, Blocks, Count
  <1>6. Cancelling' /\ Binding' /\ NoUseAfterFree'
    BY <1>1 DEF TypeOK, PointsOK, FlagsOK, CountsOK, QueueOK, Cancelling, Binding, NoUseAfterFree
  <1>7. Queue'
    <2>1. \A i \in 1..Len(sent') : sent'[i] = "FINAL_IMAGE" => i = 1
      BY <1>3 DEF TypeOK, QueueOK, Queue
    <2>2. ~Posted("HOCR_TEXT")'
      BY <1>3 DEF Queue
    <2> QED
      BY <1>3, <2>1, <2>2 DEF TypeOK, QueueOK, Queue
  <1>8. Ended'
    BY <1>3 DEF Ended
  <1> QED
    BY <1>4, <1>5, <1>6, <1>7, <1>8

-----------------------------------------------------------------------------
\* Every step of either thread keeps the inductive invariant.
LEMMA NextIInv == IInv /\ [Next]_vars => IInv'
  <1> SUFFICES ASSUME IInv, [Next]_vars PROVE IInv'
    OBVIOUS
  <1>1. CASE Start \/ Book \/ SendFinal \/ Enter \/ InitTess \/ SetImage \/ MeanConfidence
             \/ SetRectangle
    BY <1>1, StartIInv, BookIInv, SendFinalIInv, EnterIInv, InitTessIInv, SetImageIInv,
       MeanConfidenceIInv, SetRectangleIInv
  <1>2. CASE InRecognition
    BY <1>2, BeginRecognitionIInv, ReportWordIInv, CallJavaIInv, PostProgressIInv,
       PollCancelIInv, EndRecognitionIInv, DropRefIInv DEF InRecognition
  <1>3. CASE CheckStopped \/ Publish \/ PublishText \/ EndTess \/ ReapClone \/ SendEnd \/ Die
    BY <1>3, CheckStoppedIInv, PublishIInv, PublishTextIInv, EndTessIInv, ReapCloneIInv,
       SendEndIInv, DieIInv
  <1>4. CASE HandleMessage \/ Destroy \/ LoseDecrement
    BY <1>4, HandleMessageIInv, DestroyIInv, LoseDecrementIInv
  <1>5. CASE Destroying
    BY <1>5, DetachIInv, StopResetIInv, StopDropsRefIInv, StopSetsFlagIInv, MarkStoppedIInv,
       RecycleFinalIInv, ReapFinalIInv DEF Destroying
  <1>6. CASE UNCHANGED vars
    BY <1>6 DEF vars, javaVars, natVars, pixVars, workVars, uiVars, IInv,
       TypeOK, PointsOK, FlagsOK, CountsOK, QueueOK, Monitor, Queue, Blocks, Count,
       Cancelling, Binding, Ended, NoUseAfterFree, Posted
  <1> QED
    BY <1>1, <1>2, <1>3, <1>4, <1>5, <1>6 DEF Next, Worker, Rest

\* The inductive invariant holds in every reachable state, for every number of
\* blocks and words; the checked properties follow from it.
THEOREM Invariance == Spec => []IInv
  <1> QED
    BY InitIInv, NextIInv, PTL DEF Spec

-----------------------------------------------------------------------------
(* The invariants that the run OcrEngine checks.                           *)

\* Every variable of the job keeps its type: thread positions, flags, counts,
\* and a queue that holds only the messages of OCRActivity's handler.
THEOREM TypeCorrect == Spec => []TypeOK
  BY Invariance, PTL DEF IInv

\* The text pix that the worker reads is never freed under it by the recycle in
\* OCRActivity.onDestroy, for any number of blocks and words.
THEOREM WorkerReadsLiveText == Spec => []ReadsLiveText
  <1>1. ASSUME IInv, wpc \in Reading
        PROVE  textRefs >= 1 /\ textFrees = 0
    <2>1. natPix => textRefs >= 1 /\ textFrees = 0
      BY <1>1 DEF IInv, TypeOK, CountsOK, Count
    <2>2. CASE wpc = "setimage"
      <3>1. upc \in {"alive", "destroying"}
        BY <1>1, <2>2 DEF IInv, TypeOK, PointsOK, UiPoints, Monitor
      <3>2. textRefs >= 1
        BY <1>1, <2>2, <3>1 DEF IInv, TypeOK, PointsOK, FlagsOK, CountsOK, Count
      <3> QED
        BY <1>1, <3>2 DEF IInv, TypeOK, CountsOK, Count
    <2>3. CASE wpc # "setimage"
      BY <1>1, <2>1, <2>3 DEF IInv, Count
    <2> QED
      BY <2>2, <2>3
  <1>2. IInv => ReadsLiveText
    BY <1>1 DEF IInv, NoUseAfterFree, ReadsLiveText
  <1> QED
    BY <1>2, Invariance, PTL

\* No result with a block missing is ever posted: a cancelled recognition returns
\* NULL text, and the checks of mStopped keep it out of the published result.
THEOREM ResultsAreWhole == Spec => []PublishedIsWhole
  <1>1. IInv => PublishedIsWhole
    BY DEF IInv, Queue, PublishedIsWhole
  <1> QED
    BY <1>1, Invariance, PTL

\* Destroying the screen after END was posted is always safe.
THEOREM LateCancelIsHarmless == Spec => []LateCancelHarmless
  <1>1. IInv => LateCancelHarmless
    BY DEF IInv, Ended, LateCancelHarmless
  <1> QED
    BY <1>1, Invariance, PTL

\* A job that posted END and whose image was adopted and recycled leaks neither
\* the text pix nor a global reference, and frees the pix once.
THEOREM FinishIsClean == Spec => []CleanFinish
  <1>1. IInv => CleanFinish
    BY DEF IInv, Ended, CleanFinish
  <1> QED
    BY <1>1, Invariance, PTL

-----------------------------------------------------------------------------
(* The refinement mapping, step by step.                                   *)

\* What the abstract job's steps look like through the mapping, with Emit
\* unfolded to the two cases of the queue.
LEMMA AbstractSteps ==
  /\ JobPhase = "idle" /\ JobPhase' = "imaging" /\ UNCHANGED <<attached, JobOutbox>>
        => Job!StartJob
  /\ JobPhase = "reading" /\ JobPhase' = "closing" /\ UNCHANGED <<attached, JobOutbox>>
        => Job!Abandon
  /\ attached /\ attached' = FALSE /\ UNCHANGED <<JobPhase, JobOutbox>>
        => Job!CancelJob
  /\ UNCHANGED <<JobPhase, attached, JobOutbox>> => UNCHANGED Job!jobVars
  BY DEF Job!StartJob, Job!Abandon, Job!CancelJob, Job!Advance, Job!jobVars

\* Steps that the screen cannot see: the phase, the flag and the queue stay.
LEMMA QuietSteps ==
  ASSUME IInv,
         \/ Book \/ SetImage \/ InRecognition \/ EndTess \/ ReapClone \/ Die
         \/ HandleMessage \/ Destroy \/ StopReset \/ StopDropsRef \/ StopSetsFlag
         \/ MarkStopped \/ RecycleFinal \/ ReapFinal \/ LoseDecrement \/ UNCHANGED vars
  PROVE  UNCHANGED Job!jobVars
  <1> USE DEF At, UiAt, Live, JobPhase, JobOutbox, javaVars, workVars, uiVars
  <1>1. UNCHANGED <<JobPhase, attached, JobOutbox>>
    <2>1. CASE Book
      BY <2>1 DEF Book
    <2>2. CASE SetImage
      BY <2>2 DEF SetImage
    <2>3. CASE BeginRecognition \/ ReportWord \/ CallJava \/ PostProgress
      BY <2>3 DEF BeginRecognition, ReportWord, CallJava, PostProgress
    <2>4. CASE PollCancel \/ EndRecognition \/ DropRef
      BY <2>4 DEF PollCancel, EndRecognition, DropRef
    <2>5. CASE EndTess \/ ReapClone \/ Die
      BY <2>5 DEF EndTess, ReapClone, Die
    <2>6. CASE HandleMessage \/ Destroy \/ StopReset \/ StopDropsRef \/ StopSetsFlag
      BY <2>6 DEF HandleMessage, Destroy, StopReset, StopDropsRef, StopSetsFlag
    <2>7. CASE MarkStopped \/ RecycleFinal \/ ReapFinal
      BY <2>7 DEF MarkStopped, RecycleFinal, ReapFinal
    <2>8. CASE LoseDecrement
      BY <2>8 DEF LoseDecrement
    <2>9. CASE UNCHANGED vars
      BY <2>9 DEF vars
    <2> QED
      BY <2>1, <2>2, <2>3, <2>4, <2>5, <2>6, <2>7, <2>8, <2>9 DEF InRecognition
  <1> QED
    BY <1>1, AbstractSteps

\* Steps that move the phase without a message: the job starts, a stopped or a
\* failing worker gives up, or goes on to its next block.
LEMMA SilentSteps ==
  ASSUME IInv, Start \/ Enter \/ MeanConfidence \/ SetRectangle \/ CheckStopped
  PROVE  [Job!JobNext]_(Job!jobVars)
  <1> USE DEF At, Live, JobPhase, JobOutbox, javaVars, uiVars
  <1>1. CASE Start
    <2>1. Job!StartJob
      BY <1>1, AbstractSteps DEF Start
    <2> QED
      BY <2>1 DEF Job!JobNext, Job!JobStep
  <1>2. CASE Enter \/ MeanConfidence \/ SetRectangle \/ CheckStopped
    <2>1. /\ JobPhase = "reading" /\ JobPhase' \in {"reading", "closing"}
          /\ UNCHANGED <<attached, JobOutbox>>
      BY <1>2 DEF Enter, MeanConfidence, SetRectangle, CheckStopped
    <2>2. CASE JobPhase' = "reading"
      BY <2>1, <2>2, AbstractSteps
    <2>3. CASE JobPhase' = "closing"
      <3>1. Job!Abandon
        BY <2>1, <2>3, AbstractSteps
      <3> QED
        BY <3>1 DEF Job!JobNext, Job!JobStep
    <2> QED
      BY <2>1, <2>2, <2>3
  <1> QED
    BY <1>1, <1>2

\* Initialising the engine goes on, reports ERROR once, or leaves by an exception.
LEMMA InitTessStep ==
  ASSUME IInv, InitTess
  PROVE  [Job!JobNext]_(Job!jobVars)
  <1> USE DEF At, Live, JobPhase, JobOutbox, natVars, pixVars
  <1>0. attached /\ ~stopped
    BY DEF InitTess, IInv, Monitor, TypeOK, PointsOK, UiPoints
  <1>1. CASE wpc' = "setimage"
    <2>1. UNCHANGED <<JobPhase, attached, JobOutbox>>
      BY <1>1 DEF InitTess
    <2> QED
      BY <2>1, AbstractSteps
  <1>2. CASE wpc' = "finally" /\ Post(<<"ERROR">>)
    <2>1. Job!ReportError
      BY <1>0, <1>2 DEF InitTess, Post, Job!ReportError, Job!Advance, Job!Emit
    <2> QED
      BY <2>1 DEF Job!JobNext, Job!JobStep
  <1>3. CASE wpc' = "finally" /\ UNCHANGED sent
    <2>1. Job!Abandon
      BY <1>3, AbstractSteps DEF InitTess
    <2> QED
      BY <2>1 DEF Job!JobNext, Job!JobStep
  <1> QED
    BY <1>1, <1>2, <1>3 DEF InitTess

\* Posting the binarized image is the job's ShowImage, posted or not.
LEMMA SendFinalStep ==
  ASSUME IInv, SendFinal
  PROVE  Job!ShowImage
  <1>1. attached => ~stopped
    BY DEF IInv, TypeOK, PointsOK, FlagsOK, Monitor
  <1> QED
    BY <1>1 DEF SendFinal, At, Live, Post, JobPhase, JobOutbox, javaVars,
       Job!ShowImage, Job!Advance, Job!Emit

\* Posting END is the job's last step, posted or not.
LEMMA SendEndStep ==
  ASSUME IInv, SendEnd
  PROVE  Job!FinishJob
  <1>1. attached => ~stopped
    BY DEF IInv, TypeOK, PointsOK, FlagsOK, Monitor
  <1> QED
    BY <1>1 DEF SendEnd, At, Live, Post, JobPhase, JobOutbox, javaVars,
       Job!FinishJob, Job!Advance, Job!Emit

\* onActivityDestroyed is the job's cancel, whatever the worker is doing.
LEMMA DetachStep ==
  ASSUME IInv, Detach
  PROVE  Job!CancelJob
  <1>1. attached
    BY DEF Detach, UiAt, IInv, TypeOK, PointsOK, FlagsOK, Monitor
  <1>2. attached' = FALSE /\ UNCHANGED <<JobPhase, JobOutbox>>
    BY DEF Detach, JobPhase, JobOutbox, workVars
  <1> QED
    BY <1>1, <1>2, AbstractSteps

\* The first of the two result messages is not counted until the second is there.
LEMMA PublishStep ==
  ASSUME IInv, Publish
  PROVE  [Job!JobNext]_(Job!jobVars)
  <1> USE DEF At, Live, Publish
  <1>1. CASE stopped
    <2>1. Job!Abandon
      BY <1>1, AbstractSteps DEF JobPhase, JobOutbox
    <2> QED
      BY <2>1 DEF Job!JobNext, Job!JobStep
  <1>2. CASE ~stopped
    <2>1. sent \in Seq(Job!Messages) /\ <<"HOCR_TEXT">> \in Seq(Job!Messages)
      BY DEF IInv, TypeOK, QueueOK, Job!Messages
    <2>2. sent' = sent \/ sent' = sent \o <<"HOCR_TEXT">>
      BY <1>2 DEF Post
    <2>3. attached
      BY <1>2 DEF IInv, TypeOK, PointsOK, UiPoints, Monitor
    <2>4. sent' = sent \o <<"HOCR_TEXT">>
      BY <1>2, <2>3 DEF Post
    <2>5. SubSeq(sent', 1, Len(sent') - 1) = sent
      <3>1. Len(sent') = Len(sent) + 1 /\ sent' \in Seq(Job!Messages)
        BY <2>1, <2>4
      <3>2. \A i \in 1..Len(sent) : sent'[i] = sent[i]
        BY <2>1, <2>4
      <3> QED
        BY <2>1, <3>1, <3>2
    <2>6. UNCHANGED <<JobPhase, attached, JobOutbox>>
      BY <1>2, <2>5 DEF JobPhase, JobOutbox
    <2> QED
      BY <2>6, AbstractSteps
  <1> QED
    BY <1>1, <1>2

\* The second one makes both visible at once.
LEMMA PublishTextStep ==
  ASSUME IInv, PublishText
  PROVE  Job!Publish
  <1> USE DEF At, Live, PublishText
  <1>1. attached /\ ~stopped
    BY DEF IInv, TypeOK, PointsOK, UiPoints, Monitor
  <1>2. /\ sent \in Seq(Job!Messages) /\ Len(sent) >= 1 /\ sent[Len(sent)] = "HOCR_TEXT"
        /\ sent' = sent \o <<"UTF8_TEXT">>
    BY <1>1 DEF IInv, TypeOK, QueueOK, Queue, Post
  <1>3. sent \o <<"UTF8_TEXT">>
          = SubSeq(sent, 1, Len(sent) - 1) \o <<"HOCR_TEXT", "UTF8_TEXT">>
    <2> DEFINE front == SubSeq(sent, 1, Len(sent) - 1)
               whole == sent \o <<"UTF8_TEXT">>
               split == front \o <<"HOCR_TEXT", "UTF8_TEXT">>
    <2>1. /\ front \in Seq(Job!Messages) /\ Len(front) = Len(sent) - 1
          /\ \A i \in 1..Len(sent) - 1 : front[i] = sent[i]
      BY <1>2
    <2>2. /\ whole \in Seq(Job!Messages) /\ Len(whole) = Len(sent) + 1
          /\ \A i \in 1..Len(sent) + 1 :
                whole[i] = IF i <= Len(sent) THEN sent[i] ELSE "UTF8_TEXT"
      BY <1>2 DEF Job!Messages
    <2>3. /\ split \in Seq(Job!Messages) /\ Len(split) = Len(sent) + 1
          /\ \A i \in 1..Len(sent) + 1 :
                split[i] = IF i <= Len(sent) - 1 THEN sent[i]
                           ELSE <<"HOCR_TEXT", "UTF8_TEXT">>[i - (Len(sent) - 1)]
      <3> HIDE DEF front
      <3> QED
        BY <1>2, <2>1 DEF Job!Messages
    <2>4. \A i \in 1..Len(whole) : whole[i] = split[i]
      <3> SUFFICES ASSUME NEW i \in 1..Len(sent) + 1
                   PROVE  whole[i] = split[i]
        BY <2>2
      <3> HIDE DEF whole, split, front
      <3>1. CASE i <= Len(sent) - 1
        BY <3>1, <1>2, <2>2, <2>3
      <3>2. CASE i = Len(sent)
        <4>1. split[i] = <<"HOCR_TEXT", "UTF8_TEXT">>[1]
          BY <3>2, <1>2, <2>3
        <4> QED
          BY <3>2, <4>1, <1>2, <2>2
      <3>3. CASE i = Len(sent) + 1
        <4>1. ~(i <= Len(sent) - 1) /\ i - (Len(sent) - 1) = 2 /\ ~(i <= Len(sent))
          BY <3>3, <1>2
        <4>2. split[i] = <<"HOCR_TEXT", "UTF8_TEXT">>[2]
          BY <4>1, <2>3
        <4> QED
          BY <4>1, <4>2, <2>2
      <3> QED
        BY <1>2, <3>1, <3>2, <3>3
    <2> HIDE DEF whole, split
    <2> QED
      BY <2>2, <2>3, <2>4, SeqEqual DEF whole, split
  <1> QED
    BY <1>1, <1>2, <1>3 DEF JobPhase, JobOutbox, javaVars, natVars, pixVars,
       Job!Publish, Job!Advance, Job!Emit

\* Every step of the job, with all its threads and native state, is a step of
\* OcrJob or is invisible to the screen.
LEMMA StepRefines == IInv /\ [Next]_vars => [Job!JobNext]_(Job!jobVars)
  <1> SUFFICES ASSUME IInv, [Next]_vars PROVE [Job!JobNext]_(Job!jobVars)
    OBVIOUS
  <1>1. CASE \/ Book \/ SetImage \/ InRecognition \/ EndTess \/ ReapClone \/ Die
             \/ HandleMessage \/ Destroy \/ StopReset \/ StopDropsRef \/ StopSetsFlag
             \/ MarkStopped \/ RecycleFinal \/ ReapFinal \/ LoseDecrement \/ UNCHANGED vars
    BY <1>1, QuietSteps
  <1>2. CASE Start \/ Enter \/ MeanConfidence \/ SetRectangle \/ CheckStopped
    BY <1>2, SilentSteps
  <1>3. CASE InitTess
    BY <1>3, InitTessStep
  <1>4. CASE SendFinal
    BY <1>4, SendFinalStep DEF Job!JobNext, Job!JobStep
  <1>5. CASE Publish
    BY <1>5, PublishStep
  <1>6. CASE PublishText
    BY <1>6, PublishTextStep DEF Job!JobNext, Job!JobStep
  <1>7. CASE SendEnd
    BY <1>7, SendEndStep DEF Job!JobNext, Job!JobStep
  <1>8. CASE Detach
    BY <1>8, DetachStep DEF Job!JobNext
  <1> QED
    BY <1>1, <1>2, <1>3, <1>4, <1>5, <1>6, <1>7, <1>8 DEF Next, Worker, Destroying, Rest

\* Whatever the threads do, the screen sees one OcrJob: messages in order, both
\* result messages or none, nothing after the cancel.
THEOREM JobIsImplemented == Spec => ImplementsJob
  <1>1. Init => Job!JobInit
    BY DEF Init, Job!JobInit, JobPhase, JobOutbox
  <1> QED
    BY <1>1, StepRefines, Invariance, PTL DEF Spec, ImplementsJob, Job!JobSpec
=============================================================================
