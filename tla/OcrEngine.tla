------------------------------ MODULE OcrEngine ------------------------------
(***************************************************************************)
(* One OCR job: the worker thread of OCR.startOCRForSimpleLayout, the main *)
(* thread that may destroy the activity at any moment, the monitor of the  *)
(* OCR object between them, and the state of the native glue that they     *)
(* share WITHOUT that monitor: the cancel flag, the cached JNIEnv and the  *)
(* global reference of native_data_t, and the reference count of the       *)
(* binarized page ("text pix") that the worker reads and the activity      *)
(* recycles.                                                               *)
(*                                                                         *)
(* A step is what runs between two points where the other thread can get   *)
(* in. Code under the monitor whose steps only monitor holders can see is  *)
(* one step; everything in native code is split at each shared access.     *)
(* Messages that are only drawn or logged (PREVIEW_IMAGE, EXPLANATION_TEXT,*)
(* TESSERACT_PROGRESS) are not put in the queue.                           *)
(***************************************************************************)
EXTENDS Integers, Sequences

CONSTANTS
    Rects,  \* number of text blocks to read (listPoints.length / 4)
    Words   \* words the recogniser reports on in one block

ASSUME SizesAssumption == Rects \in Nat /\ Words \in Nat \ {0}

VARIABLES
    \* the Java object OCR
    lock,       \* holder of the monitor of OCR.this: "free", "ui" or "worker"
    attached,   \* mIsActivityAttached
    stopped,    \* mStopped
    tess,       \* mTess: "none" (null), "live", or "ended" (after end())
    \* native_data_t
    cancelFlag, \* cancel_ocr
    envSet,     \* cachedEnv # NULL
    ref,        \* what cachedObject is: "none", a "live" or a "stale" global reference
    liveRefs,   \* global references to the TessBaseAPI object that exist
    \* the text pix
    textRefs,   \* its refcount field
    textFrees,  \* how often its memory has been freed
    natPix,     \* native_data_t.pix holds a clone of it
    finalPix,   \* OCRActivity.finalPix: "none", "live" (not recycled) or "nulled"
    \* threads
    wpc, rect, word,  \* the worker: where it is, blocks done, words done in this block
    aborted,    \* some recognition ended early, its text is NULL
    dying,      \* an exception is propagating through the finally block
    upc,        \* the main thread inside OCRActivity.onDestroy
    sent,       \* every message put into the main thread's queue, in order
    handled,    \* how many of them the handler has processed
    fault       \* first memory or JNI error, or the uncaught exception: the process dies

javaVars  == <<lock, attached, stopped, tess>>
natVars   == <<cancelFlag, envSet, ref, liveRefs>>
pixVars   == <<textRefs, textFrees, natPix, finalPix>>
workVars  == <<wpc, rect, word, aborted, dying>>
uiVars    == <<upc, sent, handled>>
vars == <<javaVars, natVars, pixVars, workVars, uiVars, fault>>

\* How far the job is for the screen, and what it has been told: the two result
\* messages count as sent when the second one is.
JobPhase ==
    CASE wpc = "idle" -> "idle"
      [] wpc \in {"book", "final"} -> "imaging"
      [] wpc \in {"finally", "reap", "end"} -> "closing"
      [] wpc \in {"throw", "done"} -> "over"
      [] OTHER -> "reading"
JobOutbox == IF wpc = "utf8" THEN SubSeq(sent, 1, Len(sent) - 1) ELSE sent

Job == INSTANCE OcrJob WITH phase <- JobPhase, cancelled <- ~attached, outbox <- JobOutbox

WorkerPoints ==
    {"idle", "book", "final", "enter", "init", "setimage", "mean", "rect",
     "begin", "bind", "newref", "recog", "call", "post", "poll", "reset", "unref",
     "check", "publish", "utf8", "finally", "reap", "end", "throw", "done"}
UiPoints ==
    {"alive", "destroying", "reset", "unref", "flag", "mark", "recycle", "reap", "gone"}
Faults ==
    {"none", "null_env", "stale_ref", "double_delete", "use_after_free",
     "double_free", "uncaught"}

PointsOK ==
    /\ lock \in {"free", "ui", "worker"} /\ tess \in {"none", "live", "ended"}
    /\ ref \in {"none", "live", "stale"} /\ finalPix \in {"none", "live", "nulled"}
    /\ wpc \in WorkerPoints /\ upc \in UiPoints /\ fault \in Faults
FlagsOK ==
    /\ attached \in BOOLEAN /\ stopped \in BOOLEAN /\ cancelFlag \in BOOLEAN
    /\ envSet \in BOOLEAN /\ natPix \in BOOLEAN /\ aborted \in BOOLEAN /\ dying \in BOOLEAN
CountsOK ==
    /\ liveRefs \in Int /\ textRefs \in Int /\ textFrees \in Nat
    /\ rect \in 0..Rects /\ word \in 0..Words
QueueOK == sent \in Seq(Job!Messages) /\ handled \in 0..Len(sent)
TypeOK == PointsOK /\ FlagsOK /\ CountsOK /\ QueueOK

Init ==
    /\ lock = "free" /\ attached = TRUE /\ stopped = FALSE /\ tess = "none"
    /\ cancelFlag = FALSE /\ envSet = FALSE /\ ref = "none" /\ liveRefs = 0
    /\ textRefs = 0 /\ textFrees = 0 /\ natPix = FALSE /\ finalPix = "none"
    /\ wpc = "idle" /\ rect = 0 /\ word = 0 /\ aborted = FALSE /\ dying = FALSE
    /\ upc = "alive" /\ sent = <<>> /\ handled = 0
    /\ fault = "none"

-----------------------------------------------------------------------------
(* Helpers.                                                                *)

Live == fault = "none"  \* the process runs

At(from, to) == Live /\ wpc = from /\ wpc' = to
UiAt(from, to) == Live /\ upc = from /\ upc' = to

\* Mutated form of Post: the message goes out whatever happened to the activity.
PostAlways(msgs) == sent' = sent \o msgs

\* OCR.sendMessage, run by a thread that holds the monitor or finds it free.
Post(msgs) ==
    sent' = IF attached /\ ~stopped THEN sent \o msgs ELSE sent

\* What DeleteGlobalRef(cachedObject) does to the reference that is there.
DeleteRef ==
    /\ fault' = IF ref = "stale" THEN "double_delete" ELSE fault
    /\ liveRefs' = IF ref = "live" THEN liveRefs - 1 ELSE liveRefs
    /\ ref' = IF ref = "none" THEN "none" ELSE "stale"

\* The second half of pixFree: read the count that the first half decremented.
ReapText ==
    /\ textFrees' = IF textRefs <= 0 THEN textFrees + 1 ELSE textFrees
    /\ fault' = IF textRefs <= 0 /\ textFrees > 0 THEN "double_free" ELSE fault

-----------------------------------------------------------------------------
(* The worker: OCR.startOCRForSimpleLayout.                                *)

Start ==  \* the main thread starts the thread, from OCRActivity.onClick
    /\ upc = "alive"
    /\ At("idle", "book")
    /\ UNCHANGED <<javaVars, natVars, pixVars, rect, word, aborted, dying, uiVars, fault>>

Book ==  \* nativeOCRBook returns a new pix with one reference, wrapped by pixText
    /\ At("book", "final")
    /\ textRefs' = 1
    /\ UNCHANGED <<javaVars, natVars, textFrees, natPix, finalPix,
                   rect, word, aborted, dying, uiVars, fault>>

SendFinal ==
    /\ lock = "free"
    /\ At("final", "enter")
    /\ Post(<<"FINAL_IMAGE">>)
    /\ UNCHANGED <<javaVars, natVars, pixVars, rect, word, aborted, dying, upc, handled, fault>>

Enter ==
    /\ lock = "free"
    /\ \/ stopped /\ At("enter", "finally") /\ UNCHANGED lock
       \/ ~stopped /\ At("enter", "init") /\ lock' = "worker"
    /\ UNCHANGED <<attached, stopped, tess, natVars, pixVars, rect, word, aborted, dying,
                   uiVars, fault>>

InitTess ==  \* initTessApi: it works, it reports failure, or TessBaseAPI.init throws
    /\ tess' = "live"
    /\ \/ At("init", "setimage") /\ UNCHANGED <<lock, sent, dying>>
       \/ At("init", "finally") /\ Post(<<"ERROR">>) /\ lock' = "free" /\ UNCHANGED dying
       \/ At("init", "finally") /\ dying' = TRUE /\ lock' = "free" /\ UNCHANGED sent
    /\ UNCHANGED <<attached, stopped, natVars, pixVars, rect, word, aborted, upc, handled, fault>>

SetImage ==  \* nativeSetImagePix clones the text pix; the synchronized block ends
    /\ At("setimage", "mean")
    /\ lock' = "free"
    /\ textRefs' = textRefs + 1
    /\ natPix' = TRUE
    /\ fault' = IF textFrees > 0 THEN "use_after_free" ELSE fault
    /\ UNCHANGED <<attached, stopped, tess, natVars, textFrees, finalPix,
                   rect, word, aborted, dying, uiVars>>

MeanConfidence ==  \* no monitor is passed: nothing can cancel it. listPoints may be null
    /\ \/ At("mean", IF Rects = 0 THEN "publish" ELSE "rect") /\ UNCHANGED dying
       \/ At("mean", "finally") /\ dying' = TRUE
    /\ UNCHANGED <<javaVars, natVars, pixVars, rect, word, aborted, uiVars, fault>>

SetRectangle ==  \* and the first check of the loop
    /\ lock = "free"
    /\ At("rect", IF stopped THEN "finally" ELSE "begin")
    /\ UNCHANGED <<javaVars, natVars, pixVars, rect, word, aborted, dying, uiVars, fault>>

-----------------------------------------------------------------------------
(* The worker inside nativeGetHOCRText: no monitor is held.                *)

BeginRecognition ==  \* initStateVariables, three writes
    /\ \/ At("begin", "bind") /\ cancelFlag' = FALSE /\ UNCHANGED <<envSet, ref, liveRefs, word>>
       \/ At("bind", "newref") /\ envSet' = TRUE /\ UNCHANGED <<cancelFlag, ref, liveRefs, word>>
       \/ /\ At("newref", "recog")
          /\ ref' = "live" /\ liveRefs' = liveRefs + 1
          /\ word' = 0
          /\ UNCHANGED <<cancelFlag, envSet>>
    /\ UNCHANGED <<javaVars, pixVars, rect, aborted, dying, uiVars, fault>>

ReportWord ==  \* progressJavaCallback tests isStateValid ...
    /\ At("recog", IF ~cancelFlag /\ envSet THEN "call" ELSE "poll")
    /\ UNCHANGED <<javaVars, natVars, pixVars, rect, word, aborted, dying, uiVars, fault>>

CallJava ==  \* ... and then uses cachedEnv and cachedObject
    /\ At("call", "post")
    /\ fault' = CASE ~envSet -> "null_env" [] envSet /\ ref # "live" -> "stale_ref" [] OTHER -> fault
    /\ UNCHANGED <<javaVars, natVars, pixVars, rect, word, aborted, dying, uiVars>>

PostProgress ==  \* onProgressValues needs the monitor to post what is only drawn
    /\ lock = "free"
    /\ At("post", "poll")
    /\ UNCHANGED <<javaVars, natVars, pixVars, rect, word, aborted, dying, uiVars, fault>>

PollCancel ==  \* the recogniser asks cancelFunc, then goes on with the word
    /\ \/ cancelFlag /\ At("poll", "reset") /\ aborted' = TRUE /\ UNCHANGED word
       \/ /\ ~cancelFlag
          /\ At("poll", IF word + 1 = Words THEN "reset" ELSE "recog")
          /\ word' = word + 1
          /\ UNCHANGED aborted
    /\ UNCHANGED <<javaVars, natVars, pixVars, rect, dying, uiVars, fault>>

EndRecognition ==  \* resetStateVariables clears the flag and tests cachedEnv ...
    /\ At("reset", IF envSet THEN "unref" ELSE "check")
    /\ cancelFlag' = FALSE
    /\ UNCHANGED <<javaVars, envSet, ref, liveRefs, pixVars, rect, word, aborted, dying, uiVars, fault>>

KeepEnv ==  \* mutated form of DropRef: cachedEnv is not set to NULL
    /\ At("unref", "check")
    /\ DeleteRef
    /\ UNCHANGED <<javaVars, envSet, cancelFlag, pixVars, rect, word, aborted, dying, uiVars>>

DropRef ==  \* ... then deletes the reference
    /\ At("unref", "check")
    /\ DeleteRef
    /\ envSet' = FALSE
    /\ UNCHANGED <<javaVars, cancelFlag, pixVars, rect, word, aborted, dying, uiVars>>

-----------------------------------------------------------------------------
(* The worker again in Java.                                               *)

LoopRunsOver ==  \* mutated form of CheckStopped: i <= length
    /\ lock = "free"
    /\ \/ stopped /\ At("check", "finally") /\ UNCHANGED rect
       \/ ~stopped /\ At("check", IF rect = Rects THEN "publish" ELSE "rect") /\ rect' = rect + 1
    /\ UNCHANGED <<javaVars, natVars, pixVars, word, aborted, dying, uiVars, fault>>

LoopStopsShort ==  \* mutated form of CheckStopped: i < length - 4
    /\ lock = "free"
    /\ \/ stopped /\ At("check", "finally") /\ UNCHANGED rect
       \/ ~stopped /\ At("check", IF rect + 2 >= Rects THEN "publish" ELSE "rect") /\ rect' = rect + 1
    /\ UNCHANGED <<javaVars, natVars, pixVars, word, aborted, dying, uiVars, fault>>

LoopIgnoresStop ==  \* mutated form of CheckStopped: the loop goes on after a stop
    /\ lock = "free"
    /\ At("check", IF rect + 1 = Rects THEN "publish" ELSE "rect")
    /\ rect' = rect + 1
    /\ UNCHANGED <<javaVars, natVars, pixVars, word, aborted, dying, uiVars, fault>>

CheckStopped ==  \* the second check of the loop, then getHtmlText and the next block
    /\ lock = "free"
    /\ \/ stopped /\ At("check", "finally") /\ UNCHANGED rect
       \/ /\ ~stopped
          /\ At("check", IF rect + 1 = Rects THEN "publish" ELSE "rect")
          /\ rect' = rect + 1
    /\ UNCHANGED <<javaVars, natVars, pixVars, word, aborted, dying, uiVars, fault>>

Publish ==  \* the last synchronized block, its first message ...
    /\ lock = "free"
    /\ \/ stopped /\ At("publish", "finally") /\ UNCHANGED <<lock, sent>>
       \/ ~stopped /\ At("publish", "utf8") /\ Post(<<"HOCR_TEXT">>) /\ lock' = "worker"
    /\ UNCHANGED <<attached, stopped, tess, natVars, pixVars, rect, word, aborted, dying,
                   upc, handled, fault>>

PublishText ==  \* ... and its second
    /\ At("utf8", "finally")
    /\ Post(<<"UTF8_TEXT">>)
    /\ lock' = "free"
    /\ UNCHANGED <<attached, stopped, tess, natVars, pixVars, rect, word, aborted, dying,
                   upc, handled, fault>>

EndKeepsClone ==  \* mutated form of EndTess: end() forgets native_data_t.pix
    /\ At("finally", "end")
    /\ tess' = IF tess = "none" THEN "none" ELSE "ended"
    /\ UNCHANGED <<lock, attached, stopped, natVars, pixVars, rect, word, aborted, dying, uiVars, fault>>

EndTess ==  \* finally: mTess.end() drops the clone, first half of pixFree
    /\ At("finally", IF natPix THEN "reap" ELSE "end")
    /\ tess' = IF tess = "none" THEN "none" ELSE "ended"
    /\ textRefs' = IF natPix THEN textRefs - 1 ELSE textRefs
    /\ natPix' = FALSE
    /\ UNCHANGED <<lock, attached, stopped, natVars, textFrees, finalPix,
                   rect, word, aborted, dying, uiVars, fault>>

ReapClone ==
    /\ At("reap", "end")
    /\ ReapText
    /\ UNCHANGED <<javaVars, natVars, textRefs, natPix, finalPix, rect, word, aborted, dying, uiVars>>

SendEnd ==  \* the finally block ends; an exception goes on from there
    /\ lock = "free"
    /\ At("end", IF dying THEN "throw" ELSE "done")
    /\ Post(<<"END">>)
    /\ UNCHANGED <<javaVars, natVars, pixVars, rect, word, aborted, dying, upc, handled, fault>>

Die ==  \* it leaves run(), and the system kills the process: END may have been handled
    /\ At("throw", "done")
    /\ fault' = "uncaught"
    /\ UNCHANGED <<javaVars, natVars, pixVars, rect, word, aborted, dying, uiVars>>

-----------------------------------------------------------------------------
(* The main thread: the message handler and OCRActivity.onDestroy.         *)

HandleMessage ==  \* only FINAL_IMAGE touches shared state: it wraps the text pix again
    /\ Live
    /\ upc \in {"alive", "gone"}
    /\ handled < Len(sent)
    /\ handled' = handled + 1
    /\ finalPix' = IF sent[handled + 1] = "FINAL_IMAGE" THEN "live" ELSE finalPix
    /\ UNCHANGED <<javaVars, natVars, textRefs, textFrees, natPix, workVars, upc, sent, fault>>

DestroyRecyclesFirst ==  \* mutated form of Destroy: recycle before super.onDestroy()
    /\ UiAt("alive", "destroying")
    /\ textRefs' = IF finalPix = "live" THEN textRefs - 1 ELSE textRefs
    /\ textFrees' = IF finalPix = "live" /\ textRefs = 1 THEN textFrees + 1 ELSE textFrees
    /\ finalPix' = IF finalPix = "live" THEN "nulled" ELSE finalPix
    /\ UNCHANGED <<javaVars, natVars, natPix, workVars, sent, handled, fault>>

Destroy ==  \* onDestroy begins, and waits for the monitor of OCR
    /\ UiAt("alive", "destroying")
    /\ UNCHANGED <<javaVars, natVars, pixVars, workVars, sent, handled, fault>>

Detach ==  \* onActivityDestroyed, then cancel(): stop() only if mTess is there
    /\ lock = "free"
    /\ UiAt("destroying", IF tess = "none" THEN "mark" ELSE "reset")
    /\ lock' = "ui"
    /\ attached' = FALSE
    /\ UNCHANGED <<stopped, tess, natVars, pixVars, workVars, sent, handled, fault>>

StopReset ==  \* nativeStop: resetStateVariables on the state the worker is using
    /\ UiAt("reset", IF envSet THEN "unref" ELSE "flag")
    /\ cancelFlag' = FALSE
    /\ UNCHANGED <<javaVars, envSet, ref, liveRefs, pixVars, workVars, sent, handled, fault>>

StopDropsRef ==
    /\ UiAt("unref", "flag")
    /\ DeleteRef
    /\ envSet' = FALSE
    /\ UNCHANGED <<javaVars, cancelFlag, pixVars, workVars, sent, handled>>

StopSetsFlag ==
    /\ UiAt("flag", "mark")
    /\ cancelFlag' = TRUE
    /\ UNCHANGED <<javaVars, envSet, ref, liveRefs, pixVars, workVars, sent, handled, fault>>

JoinWorker ==  \* mutated form of MarkStopped: cancel() waits for the thread, holding the monitor
    /\ wpc \in {"idle", "done"}
    /\ UiAt("mark", IF finalPix = "live" THEN "recycle" ELSE "gone")
    /\ stopped' = TRUE
    /\ lock' = "free"
    /\ UNCHANGED <<attached, tess, natVars, pixVars, workVars, sent, handled, fault>>

MarkStopped ==  \* mStopped = true, the monitor is released
    /\ UiAt("mark", IF finalPix = "live" THEN "recycle" ELSE "gone")
    /\ stopped' = TRUE
    /\ lock' = "free"
    /\ UNCHANGED <<attached, tess, natVars, pixVars, workVars, sent, handled, fault>>

RecycleFinal ==  \* finalPix.recycle(): first half of pixFree, and finalPix = null
    /\ UiAt("recycle", "reap")
    /\ textRefs' = textRefs - 1
    /\ finalPix' = "nulled"
    /\ UNCHANGED <<javaVars, natVars, textFrees, natPix, workVars, sent, handled, fault>>

ReapFinal ==
    /\ UiAt("reap", "gone")
    /\ ReapText
    /\ UNCHANGED <<javaVars, natVars, textRefs, natPix, finalPix, workVars, sent, handled>>

\* Both threads decrement the count at once: it is neither atomic nor locked.
LoseDecrement ==
    /\ natPix
    /\ At("finally", "reap") /\ UiAt("recycle", "reap")
    /\ textRefs' = textRefs - 1
    /\ natPix' = FALSE /\ finalPix' = "nulled" /\ tess' = "ended"
    /\ UNCHANGED <<lock, attached, stopped, natVars, textFrees, rect, word, aborted, dying,
                   sent, handled, fault>>

-----------------------------------------------------------------------------
InRecognition ==
    BeginRecognition \/ ReportWord \/ CallJava \/ PostProgress \/ PollCancel
        \/ EndRecognition \/ DropRef
Worker ==
    \/ Book \/ SendFinal \/ Enter \/ InitTess \/ SetImage \/ MeanConfidence \/ SetRectangle
    \/ InRecognition
    \/ CheckStopped \/ Publish \/ PublishText \/ EndTess \/ ReapClone \/ SendEnd \/ Die
Destroying ==
    Detach \/ StopReset \/ StopDropsRef \/ StopSetsFlag \/ MarkStopped \/ RecycleFinal \/ ReapFinal

\* Nothing more to do: the process has died, or both threads are through.
Rest ==
    /\ ~Live \/ (upc = "gone" /\ wpc \in {"idle", "done"} /\ handled = Len(sent))
    /\ UNCHANGED vars

Next ==
    \/ Start \/ Worker
    \/ HandleMessage \/ Destroy \/ Destroying \/ LoseDecrement
    \/ Rest

\* The scheduler runs both threads, and the queue is drained; the user need not
\* start or leave the screen.
Fairness ==
    /\ WF_vars(Worker)
    /\ WF_vars(Destroying)
    /\ WF_vars(HandleMessage)

Spec == Init /\ [][Next]_vars
FairSpec == Spec /\ Fairness

-----------------------------------------------------------------------------
(* Properties.                                                             *)

Posted(m) == \E i \in 1..Len(sent) : sent[i] = m

\* The worker reads the text pix through its own clone from SetImage to the
\* finally block. The activity recycles the same native pix without asking the
\* worker; only the order "cancel under the monitor, then recycle" in
\* OCRActivity.onDestroy keeps the memory there (OCR.java:447-457).
Reading == {"setimage", "mean", "rect", "begin", "bind", "newref", "recog", "call",
            "post", "poll", "reset", "unref", "check", "publish", "utf8"}
ReadsLiveText ==
    /\ wpc \in Reading => textRefs >= 1 /\ textFrees = 0
    /\ fault # "use_after_free"

\* A recognition that a cancel cut short yields NULL text; the checks after each
\* native call keep it out of what is published: a posted result covers all blocks.
PublishedIsWhole ==
    Posted("HOCR_TEXT") => ~aborted /\ rect = Rects

\* A cancel that comes after END was posted meets an ended engine: stop() on it
\* and recycling the text pix do no harm, whatever the interleaving.
LateCancelHarmless ==
    Posted("END") => fault \in {"none", "uncaught"}

\* A job that posted END and whose image the activity adopted before it was
\* destroyed leaves nothing behind: the text pix is freed exactly once and no
\* global reference to the engine survives.
CleanFinish ==
    Posted("END") /\ upc = "gone" /\ finalPix = "nulled"
        => textFrees = 1 /\ liveRefs = 0

\* What the screen sees of all this is one OcrJob.
ImplementsJob == Job!JobSpec

\* A started worker comes to its end, however the activity is torn down, and so does
\* onDestroy: neither waits for ever on the monitor, a callback or a cancelled recogniser.
BothThreadsEnd ==
    /\ (wpc # "idle") ~> (wpc = "done" \/ ~Live)
    /\ (upc = "destroying") ~> (upc = "gone" \/ ~Live)

\* A cancel may be lost on the recogniser (BeginRecognition clears its flag), but it
\* costs no more than the block being read: the worker begins no other one and ends.
CancelCostsOneBlock ==
    \A r \in 0..Rects :
        (stopped /\ wpc # "idle" /\ rect = r) ~> ((wpc = "done" /\ rect = r) \/ ~Live)

-----------------------------------------------------------------------------
(* What comments in the code say, and the code does not do.                *)

\* "stop by setting a flag thats used by the monitor" (tessbaseapi.cpp:568):
\* stopping must not pull the JNI state away under the worker.
StopOnlyFlags == fault \notin {"null_env", "stale_ref", "double_delete"}

\* "only destroys the pix when pixDestroy() has been called on all handles"
\* (pix1.c): the last two handles, dropped by two threads, destroy it once.
TextFreedOnce == textFrees <= 1
=============================================================================
